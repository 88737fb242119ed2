# A verification of the cmdb-ai backend

The repository is a CMDB with an operations assistant: a language model may propose
commands for network devices, people (or a session's approval mode) authorise
them, and the backend executes them over SSH. This directory holds TLA+ models of
that backend, checked with TLC and, for the core, proved with TLAPS. Paths below
are relative to `src/backend/app/`.

## 1. The system

One Python process (`main.py` refuses more than one worker), one asyncio event
loop, PostgreSQL at READ COMMITTED, a thread pool for the blocking device
sessions. Concurrency is therefore of three kinds: coroutines interleave at every
`await`; device threads run beside the loop and cannot be cancelled; transactions
of different coroutines interleave between their statements. In-memory tables
(tickets, running turns, children, sockets) die with the process, rows survive.

| Component | State it keeps | Operations | What makes it correct |
|---|---|---|---|
| Proposal rows (`crud/hitl_proposal.py`) | status, reason | create, decide, claim, revert, reject, mark unknown / executed, resolve, recover | every transition is a compare-and-set of the row |
| Execution (`agent/hitl_execution.py`, `agent/executors.py`) | one coroutine per run, one device thread | preflight, wait for another run, claim, dispatch, settle, reconcile | one owner at a time; at most one effect per authorisation; recorded outcomes are true |
| Execution queue (`agent/hitl_executor.py`, `crud/hitl_execution_request.py`) | table of tickets, semaphore, request rows | reserve, adopt, start, run, pump, recover, shut down | no ticket stranded; rows agree with memory; every task ends |
| HITL API (`api/v1/hitl.py`) | nothing between requests | decide, retry, resolve-unknown | what is answered 202 is executed |
| HITL gate (`agent/hitl.py`, `agent/hitl_gate.py`) | nothing between calls | propose, auto approve, execute at once | only what policy allows runs without a person |
| Session turns (`crud/agent_session.py`, `agent/turn_registry.py`, `agent/turn_admission.py`, `agent/chat_turn.py`) | a turn lease on the session row, a registry, counters | claim, take over, cancel, persist, release, archive | one writer of a transcript; a turn that lost its lease writes nothing; no admission is leaked |
| Result summaries (`agent/device_result_summary.py`, `crud/hitl_execution_result.py`) | a lease on the result row | claim, generate, finish | one summary message per result |
| Sub-agents (`agent/spawn/`, `agent/orchestration.py`, `crud/agent_registry.py`) | children's rows, tasks, slots | spawn, run, wait, send, close, reconcile, collect, shut down | slots are not leaked; a closed child stays closed |
| WebSocket hub (`agent/ws_hub.py`) | connections and bounded queues | connect, broadcast, write, disconnect | messages in order; a slow client hurts itself only |
| Login sessions (`services/auth.py`, `services/session_cleanup.py`) | refresh families and tokens, a rate limiter | log in, rotate, revoke, purge | one live token in a family, of the account's present password |
| Monitoring (`services/monitor_sweep.py`) | status events | sweep, alert, purge, draw | one alert per change; the bar drawn from changes is the bar of the probes |
| Knowledge (`services/knowledge_*.py`) | files and rows | upload, move, trash, restore, ingest | file and row agree |
| Context (`agent/loop.py`, `agent/session.py`, `agent/compaction.py`, `agent/transcript.py`) | transcript, summary and its boundary | loop, write, summarise | calls keep their results; no row drops out of both summary and window |
| Model calls (`core/llm.py`, `services/system_config.py`, `agent/budget.py`) | settings, cached clients, budgets | save, resolve, call, charge | an answer is charged at the price of the model that gave it |
| Accounts (`crud/user.py`, `services/auth.py`) | users, locks, token families | create, change, disable, delete, restore | an administrator is left; a login ends with the password it was made with |
| Roles (`crud/role.py`, `crud/permission.py`) | rows, associations, locks | assign, delete, restore, purge | a hidden association does not come back; a held role is not deleted |
| CMDB, policies | rows | edits | single-row constraints |

How they interact: the chat turn calls the gate, which creates a proposal row and,
if the session's mode approves it, calls the execution directly. The API's decide
and retry handlers hold a ticket of the queue, commit the approval and a request
row, and start the ticket's task, which calls the same execution. Execution talks
to the other runs only through the proposal row. Startup reconciles proposals,
then requests, then turns, then children; shutdown goes the other way round.
A turn may run a workflow, which spawns children through the SpawnManager and
waits for them. Settled proposals, summaries of results and answers are posted
to the transcript and broadcast by the WebSocket hub. Each of the other services
has tables of its own.

The hard behaviours are listed, each at its line, under `hazards` in
`PROJECT.json`, with the properties that would catch them going wrong.

## 2. The modules

    HitlProposal            the proposal row: one operator per compare-and-set
      HitlExecution         runs of execute_approved_proposal and their threads
        HitlQueue           tickets, tasks, request rows, HTTP handlers, startup
    HitlContract            what all of this promises for device-changing commands

    HitlExecutionProofs     invariant and safety theorems of HitlExecution, which
                            implements HitlContract
    HitlQueueProofs         invariant of HitlQueue; HitlQueue implements HitlExecution

    SessionTurn             a chat round: request, lease, registry, admission, archive
    SessionTurnProofs       invariant and safety theorems of SessionTurn

    SpawnManager            children of a session: rows, coroutines, slots, close_agent
      SpawnWorkflow         the workflows that spawn, wait for and close them
    SpawnProofs             invariant and safety theorems of SpawnManager
    SpawnWorkflowProofs     SpawnWorkflow implements SpawnManager, and cleans up

    Accounts                user accounts, their row locks, and login sessions
    Roles                   roles, permissions and their associations
    Knowledge               documents, their files, and category suggestions
    WsHub                   WebSocket connections, queues and writers
    ResultSummary           the lease under which a result is summarised
    Monitor                 probe rounds, the log of changes, alerts, the uptime bar
    Conversation            transcript, summary and what the model is shown
    ModelCalls              model settings, cached clients and what a call is charged
    AccountsProofs          invariant and safety theorems of Accounts
    ConversationProofs      invariant and safety theorem of Conversation
    ServicesProofs          the same for Roles, ResultSummary, WsHub, ModelCalls, Knowledge and
                            Monitor, and types of all services side by side

    MCHitlExecution, MCHitlQueue, MCSessionTurn, MCSpawn, MCServices    instances for TLC

Modules also hold a few operators introduced by a comment "A wrong ...". They are
used by nothing here: each is a plausible mistake in the definition below it, and
`PROJECT.json` says which property notices it when it takes that definition's place.

### HitlProposal and HitlExecution

`status` and `reason` are columns of the row. `grants` counts authorisations
(approval, automatic approval, clearance to retry) and is a history variable, as
are `authority` (the grant a run claimed under) and `touched` (its command
reached the target). `pc[r]` is where a run stands; a step ends where the code
awaits something that others can get ahead of:

| `pc` | code |
|---|---|
| preflight | first read, and every poll of `_poll_executing_terminal` |
| check | authorisation, asset, policy, dynamic password |
| rejecting | `reject_for_policy` and its commit |
| claiming, conflict, reclaiming, conflict2 | the two attempts to claim and the waiting after each |
| claimed | committed, before the `try` |
| executing | the executor is awaited; `thread[r]` says what it is doing |
| finishing, reverting, unknowing | the transaction that settles the row |

`thread[r]` is `open` while the command may still go out, `sent` while an answer is
awaited, and then the `ExecutionResult`: `ok`, `unsent` (`dispatched=False`) or
`failed`. A thread goes on when its run is cancelled; only a thread still queued
in the pool is dropped. `Interrupt` is the common shape of cancellation and
failing transactions: the row update of the interrupted step may or may not have
been committed, and whether the exception becomes UNKNOWN depends on the `try`
blocks. `Crash` ends coroutines and threads, `Restart` is
`reconcile_executing_proposals`.

In this module any caller may start any run at any time. That is more than the
gate and the queue do, and it is what makes the results independent of them.

### HitlQueue

Extends HitlExecution; a ticket is a run with a task around it. `table` is
`_tickets`; `ticket[t].phase` is where `_run` stands; `row` are the request rows;
`handler` are decide and retry requests, split at the awaits between which they
rely on what they have read; `view[t]` is what a pump has read; `boot` orders
startup and shutdown. The rows are written by id whatever they say, as the code
does, and the partial unique index refuses a second open row of one proposal.

### SessionTurn

A turn is one POST to `/sessions/{id}/messages`; `pc[t]` is where the request and
the task it starts stand, split at the awaits:

| `pc` | code |
|---|---|
| admitted | `try_acquire` has counted it, `claim_turn` is on its way |
| claimed | the claim is committed, `_run_turn` is about to write the question |
| asked | the question is committed, the task not yet created |
| running | `run_loop`, up to `persist_turn` |
| returning | the round is committed, the task is on its way out |
| unwinding | a CancelledError is being cleaned up after |
| done | the task is over, `_run_turn` has not woken yet |
| closing | an `except` branch flushes events or rolls back |
| finalizing | `_finalize_turn` |

`lease` and `stale` are `active_turn_token` and whether `active_turn_started_at`
lies before the takeover threshold: `LeaseAges` is the clock, and it looks at
nothing the turn does. That is how the code behaves: the threshold is compared by
whoever comes next, and a turn is never told. `transcript` holds who said what;
texts, tool messages and usage are abstracted. `registered` and `stopper` are the
registry, `total` and `perUser` the admission counters.

The agent loop is abstracted to what it commits: proposals raised by the gate,
children spawned, the round itself. `Propose` and `SpawnChild` look at neither
lease nor session status, as in the code; this is what `ArchivedIsQuiet` has to
except. HITL and SessionTurn share no variable: archiving only asks whether a
session's proposals are pending, unsettled or settled, and `Review` moves them
between these as the HITL modules do in detail.

Sessions meet only in the admission counters. The instances therefore have one
session, and `elsewhere` counts what the same and other users have in flight to
others. Two turns may race for a lease as soon as both are admitted; that the
turns of a session are posted in the order of their numbers only names them.

### SpawnManager and SpawnWorkflow

`lifecycle`, `path` and `detached` are columns of `agent_registry`; `slots`, `held`
and `closing` are the session's `_SessionRuntime`; `coroutine`, `asked` and `tracked`
are the child's task, a cancellation it has not noticed yet, and `_tasks`. The
asyncio lock of a session makes a critical section one step; `spawn.at` and
`call[o][c].at` say where a spawn or a close stands between two of them:

| place | code |
|---|---|
| spawn: unsure, compensate, discard, recheck, raised | the commit was interrupted and `_reconcile_spawn_persistence` has to look for the row; the row is there without its task and is to be closed, in two transactions; the second failed, and `_reconcile_close_persistence` looks again, if it can read the row; the error goes up |
| call: look, wait, settle, persist, detach, recheck, end | the next child of the subtree, deepest first; wait for its task for the grace period; read its row; close it; forget it or force-close it; a failed commit, after which `_reconcile_close_persistence` looks for the row, if it can read it; give the subtree back |

A commit that fails may have taken effect, and the reconciliation that asks the database
which it was may fail in its turn (`DiscardRecheckFails`, `CloseRecheckFails`,
`CollectorCloseFails`). Then nobody knows of the closed row, and the child keeps its slot until
it is closed once more: the history variables `lost`, `abandoned` and `unnoticed` name the
spawns and closes given up in this way, and `SlotsFollowRows` excepts the last two.
`coroutine` has one place before each
write of `_execute_child`; a child that does not stop is detached and its coroutine
may still write afterwards. `process` is the lifespan: shutdown closes the roots it
has listed, `Dies` takes memory away, `BootCancels` and `BootCloses` are
`reconcile_startup`. `CollectorCloses` is the receipt collector.

SpawnWorkflow is `classify_documents` or `investigate_root_cause` with `_run_wave`,
`_run_reviewer` and `_close_all_shielded`:
`wf.at` is where it stands, and `wf.unclosed`, `wf.open` and `wf.reviewers` are the
lists it closes from. The turn it runs in may be cancelled at any await, and
`trouble` bounds failures, cancellations and crashes together. Every step of it is
a step of SpawnManager or leaves the manager alone (`WorkflowUsesManager`).

### The other services

They share no state with each other or with the modules above. MCServices composes
them as a disjoint sum: the initial state chooses which service runs, the others
stay where they are, and each property is an invariant over the service it is
about. The sum has no more states than the services have one by one.

* `Accounts`: a transaction that locks several rows, or reads before it locks, is
  several steps (login, refresh, disabling, demoting, deleting); from its last lock to
  its commit a transaction is one step. Reads after a lock see what was committed.
  `since` counts the security events of an account, which `version`
  (`users.token_version`) is meant to count too.
* `Roles`: replacing associations locks the owner and then the named rows in id order;
  deleting a role counts its holders under its own lock. `assigned` is what the
  last assignments named.
* `Knowledge`: a handler reads the row without a lock, writes it, moves the file and
  awaits the commit. From there it goes on in one of five ways: the commit; a failing embedding; a
  commit that raises, after which the file is moved back (`CommitFails`); a commit
  that took effect and raises, where it is moved back as well (`CommitLost`); and an end that no
  `except` sees, such as a cancellation, a crash, or the audit record of a recategorisation, which
  is awaited after the move and before the `try` (`CutOff`). `overlapped` marks
  documents that two requests had in hand at the same time, `cut` those of `CommitLost` and `CutOff`.
  For all of them the file must be in one place; for the others it must be where the
  row says.
* `WsHub`: a step runs from one await to the next. `due` is what was addressed to a
  listed peer and `sent` what it was sent.
* `ResultSummary`: the clock is read once, at the start of a call; the model runs
  outside any transaction; who finishes must still hold this very claim.
* `Monitor`: `events` keeps the changes, `probes` (history) every committed probe; the
  bar and the rate are the code's fold over the former, and a direct reading of the
  latter.
* `Conversation`: a turn writes its messages row by row in one transaction at its end,
  while others post; a summary is written from rows read before the model was
  called. `hidden` are rows of open or rolled-back transactions. `Post` does not wait for a
  turn that writes; the insert of the code does, since its foreign key needs the chat's row,
  which `holds_turn` has locked. The model has more interleavings there than PostgreSQL.
* `ModelCalls`: a call resolves its settings, takes a client from the cache and charges
  afterwards, while the settings are saved row by row.

## 3. What is checked

Runs stop when every run, ticket, handler, turn or child has been used, so deadlock
checking is off everywhere: the finite supply is a bound of the model (each
coroutine is used once), and the system really does stop when nobody asks anything
of it.

| Run | Instance | Shows |
|---|---|---|
| execution | 1 device_control and 1 notify proposal, 2 runs (executions), cancellation, failing transactions, crashes | OneOwner, OncePerAuthorisation, ApprovedIsUntouched, AbandonedThreadIsFlagged, ExecutedIsTrue |
| execution_live | 1 device_control, 1 device_query, 2 runs, crashes | ExecutionSettles, ImplementsContract |
| queue | 1 proposal, 3 tickets, 3 requests, 3 handlers, 1 slot, capacity 2, crashes | NoStrandedTicket, RowsTellTheTruth, ImplementsExecution |
| queue_live | a proposal with a dynamic password, 2 tickets for one slot, cancellation, failing transactions, crash and shutdown | TasksEnd, PasswordsAreAwaited |
| session_turn | 2 turns on 1 session, one of which proposes and spawns; 1 disturbed turn, 1 restart | RepliesInTurn, ArchivedIsQuiet, NoOrphanLease, StoppableWhileHolding, StopIsAnswered, FreshLeaseIsKept |
| session_live | 2 turns on 1 session, 2 users with 1 request each elsewhere, limits of 2; 1 disturbed turn | AdmissionExact, NeverLockedOut, StopFreesTheSession |
| spawn | a workflow with 3 requests in waves of 2, a reviewer, depth 2; 2 troubles | SlotsAccounted, SlotsFollowRows, WorkflowCleansUp, CloseIsDeep, LifecycleOnlyAdvances |
| spawn_live | 2 requests in waves of 1, a reviewer; 1 trouble | WorkflowEnds |
| services | the eight services, each by itself | the types, and one property of each service, two of accounts and of roles (below) |
| queue_tasks_doc, spawn_shutdown_doc, compaction_doc | smallest instances | sentences of the code that do not hold (section 6) |

The properties of `services`:

| Property | Service | Instance |
|---|---|---|
| AlwaysAnAdministrator, SessionsAreCurrent | Accounts | 2 superusers and a visitor, 2 requests, 2 passwords, 1 login of 2 tokens, 2 security events |
| NothingReturns, RolesInUseStay | Roles | 1 user, 2 roles, 1 permission, 2 requests |
| FilesFollowRows | Knowledge | 2 documents of the same text, 2 categories, 2 requests at once, 1 that ends otherwise than with its commit, 1 suggestion at once |
| PeersGetEverything | WsHub | 2 connections, 2 sessions, queues of 1, 2 messages |
| SummaryDeliveredOnce | ResultSummary | 3 callers, a lease of 1 minute, 4 minutes |
| MonitorTellsTheTruth | Monitor | 1 target, a bar of 2 buckets of 2 ticks, 6 ticks, retention of 4 |
| ModelSeesWholeChat | Conversation | 2 turns, a window of 2 rows, answers with 1 tool call, 1 row posted by others |
| ChargedAsConfigured | ModelCalls | 2 administrators, 1 budget, 2 tiers, 2 saves |

Bounds. Two runs are enough for the hard overlap in HitlExecution: a run whose
device thread outlives it, and the one cleared for retry after it; a third, which
would compete with the second, is in the queue's instance, and the theorems have
any number. Runs on different proposals interact only through the compare-and-set of
their own rows, and the second kind of proposal in the instance checks that its
different settlement disturbs nothing. In the queue, three handlers let two
retries share a ticket while the task of a third comes to its end. Two turns are enough for a
chat: every property relates a turn to at most one other that succeeds it. One
restart separates what memory loses from what rows keep. Four children are two waves and a
reviewer below one of them, so that a subtree is closed while it grows, and two
troubles are a failing commit whose compensation fails as well; a reconciliation that cannot read
its row is not counted as a trouble, so that it may follow every failing close. Three callers
let a summary be taken over twice. Superusers 1 and 2 with two requests are the
smallest crossing of two removals; queues of length 1 are full at once. Six ticks are
longer than the bar and than the retention. The theorems remove these bounds
for the properties of section 4.

Symmetry is used where the values are interchangeable and no liveness is checked.
In `services`, `a1` and `a2` are always two actors and `o1` and `o2` always two
objects; `a3`, the third caller of a summary, is left out of the permutations.

Fairness. ExecutionFairness: the event loop resumes runnable coroutines, a device
thread ends at its read timeout (`device_read_timeout_seconds`), and the service
is restarted when it dies. QueueFairness adds tasks, handlers and startup steps.
FairSessionTurnSpec: the event loop runs what is ready, and an hour passes. It
assumes nothing of the agent loop: a turn may think for ever, and NeverLockedOut
holds because of the takeover alone. StopFreesTheSession holds because the task
is cancelled, not because the loop would end. WorkflowLiveSpec: the event loop runs
what is ready, a child's runner ends by itself or at its wall-time budget
(`asyncio.timeout`, `manager.py:440`), the collector loops for ever, and a process
that has stopped is started again. All of it is weak fairness.
No fairness is assumed of people, faults or crashes. `ExecutionSettles` is checked
without cancellation and failing transactions, because the code itself leaves a
row EXECUTING until the next restart in those cases (section 6).

## 4. What is proved

The proofs hold for any sets of proposals, runs, tickets, requests, handlers,
sessions, users, turns, children and connections, and any faults, under the
assumptions named in the modules: `KindsAssumption` (query and control are disjoint
kinds of proposals), `ExecutionAssumption` (`None` is not a proposal; faults are fault
kinds), `QueueAssumption` (tickets are runs; slots fit the capacity; ids are apart),
`SessionTurnAssumption` (every turn is posted to a session and every session has an
owner; `Free` is not a turn), `SpawnAssumption` and `WorkflowAssumption` (positive limits;
shutdown and the workflow are different callers), `AccountsAssumption` (ids are
numbers; `init_db.py` has created a superuser), `RolesAssumption` (ids are apart),
`SummaryAssumption`, `WsHubAssumption` and `ModelCallsAssumption` (bounds are numbers, and ids
are apart), `KnowledgeAssumption` (`Uncategorized` is a category; ids are apart),
`MonitorAssumption` and `ConversationAssumption` (windows, limits and bounds are numbers).

* `ExecutionInv` is inductive. `OneOwner` alone is not: that two runs are never
  both between claim and settlement rests on `RunAndRow` (an owner's row says
  EXECUTING, under its own authorisation), and `OncePerAuthorisation` on `TwoRuns`
  (of two runs under one authorisation at most one can still act or has acted)
  and on `RunAndRow`'s last clause: when a row is APPROVED again without a new
  authorisation, the run that gave it back has neither sent nor can send.
  `RunShape` is what each position of the coroutine says about its thread. The types
  (`ExecutionTypeOK`, `QueueTypeOK`) are part of the invariants and proved with them.
* `ContractIsImplemented` maps rows to contract states and touched runs to
  effects; most steps are one contract action or a stutter, a restart is `Doubt`
  of every write in flight.
* `QueueInv` supports `NoStrandedTicket`. `ExecutionIsImplemented` shows that every
  step of the queue is a step of HitlExecution or leaves its variables alone, so
  its theorems carry over; the corollary states the one that matters most.
  `PasswordsStayAwaited` (while the server serves, no engaged task stands for a request whose row
  is awaiting its password) and `RowsAreTrue` add `AwaitInv` (a proposal has one open row, and
  nobody works on a request that awaits its password) and `RunningInv` (a row that says "running" has a task that will
  write its end); the second needs a failing status update to be excluded, as the
  property does, because the code swallows it.

* `SessionTurnInv` is inductive and yields every safety property of SessionTurn but
  `AdmissionExact`. Its core is `LeaseInv`: a turn past its claim holds the lease unless a turn
  of its session overran. From it the registry entry of a live task is its own
  (`TaskInv`: nobody else can have registered), which is what makes a stop reach
  the right task and be recognised afterwards; and in an archived session nobody
  is left to act (`ArchiveInv`: archiving finds no fresh lease, and grants none).
  `RepliesInTurn` needs no such exception: `QuestionInv` says that the holder's
  question is followed by questions only, because only the holder replies and a
  holder that has been succeeded never holds again. `CountersAreExact` is inductive by
  itself beside the types (`AdmissionInv`): each counter is the cardinality of a set of
  requests, and every step adds one request to such a set, takes one out, or does neither.

* `SpawnInv` yields the safety properties of SpawnManager but `SlotsFollowRows`. `SlotsAccounted` is
  inductive with the finiteness of `held` and `SpawnOwns` (a child whose spawn is
  unsure does not hold its slot yet). `CloseIsDeep` rests on three parts: `Counted`
  (`closing_child_counts` is the number of calls that have the child in their
  subtree, so that a spawn under any of them is refused), `Covers` (what a call set
  out to close is still the whole subtree), and `Through` (what it is through with is
  closed). `WorkflowUsesManager` shows that SpawnWorkflow implements SpawnSpec, so
  that the theorems hold of the composition (`WorkflowKeepsManager`).
* `SlotsStayWithRows` needs `RowsInv` beside `SpawnInv`: a closed row that still holds a
  slot has somebody who will give it back, and `Pending` names whom, or its close or the
  compensation of its spawn has been given up (`unnoticed`, `abandoned`); that there is no other way
  is what the order in `close_agent` is for.
* `WorkflowsCleanUp` needs `WorkflowInv` beside both: until a workflow has been left, a child
  with an open row is in one of its lists, or its spawn is being reconciled, or nobody
  could reconcile it (`NothingForgotten`); and an answer it has received says that the row
  is closed (`ClosedAnswers`).
* `AccountsInv`: `AlwaysAnAdministrator` needs `SeenAreHeld` (the superusers a removal
  has counted are locked by it and still what it took them for); a removal
  leaves another of them. `SessionsAreCurrent` needs `FamiliesFollow` (an open family has
  one live token, its newest; and while its version is the account's, so is its
  password).
* `RolesInv`: `EditsHoldLocks` (what an assignment has looked at is live and locked by
  it) gives `RolesInUseStay`; links and assignments agree, which gives
  `NothingReturns`.
* `SummaryInv` adds that who posted left a final status. `HubInv` is
  `PeersGetEverything` with types: sent, in hand and queued are one sequence, which
  each step of the writer cuts elsewhere; two lemmas on sequences carry it.
* `ModelCallsInv` adds `OfferedAndOpened`: the settings a call has resolved are some that a
  tier has had, a cached client is filed under the address and key it was opened with,
  and the client a call was sent through has those of the call's settings.
* `KnowledgeInv`: `OneFile` (the file of a document with a row is in one place, whoever moves it
  and however that ends) rests on the row's lock, which a request holds while it moves the
  file, and on nobody knowing of a document before its upload has committed. For the rest `Begun` says what a request that is
  alone has made of its document (its row is as read, and while nothing has been cut off its
  file is where the request read it or has moved it), and `OverlapsAreKnown` that two
  requests about one text have been noticed. A request about another document
  of the same text counts: it may create or restore a twin. Its types are proved beside it
  (`PlacesAreCategories`: a request moves files between places it has read or been given).
* `MonitorInv` makes the log a compression of the probes: every probe of the time that is
  kept belongs to a run of equal ones that ends in a row (`RunsKept`), the rows are probes
  and the last probe is one (`RowsFit`), so the first row at or after any moment says what
  the first probe there said. `RoundIsSound` is the same for what a round has
  read, up to the changes its commit will find. Bars and rates of any window and limit follow.
* `ConversationInv`: of every visible row of a unit it says where the unit's other rows are,
  and that a summary may end among them only where a post came between
  (`RowsComeInUnits`); the one turn that writes has the end of the chat to itself but for
  posts (`WritesAlone`); and what a summary under way would cover if it were written now is
  everything visible up to its end but what it could not see (`DraftFits`). A unit
  at one stretch is then on one side of every window and cut, which is what
  `ChatsAreSeenWhole` says of histories and of summaries.
* `ServicesKeepTheirTypes`: a step of the sum is a step of one service and stutters in the
  others, so every behaviour of the sum is one of each service, and the invariants
  above give the types. Three of them say more than a type: a client's queue
  never exceeds its bound (`QueuesAreBounded`), the balanced tier is never blank
  (`FallbackIsConfigured`), files lie in directories of categories (`KnowledgeKeepsItsTypes`).

Two of the models were changed so that they could be reasoned about, without changing what
they say of the code. Monitor and Conversation read their logs as sets of
rows (the last n of a set, the rows behind another) where they had recursive scans. And one was wrong:
when a restart ends a workflow, SpawnWorkflow kept the lists of the workflow that was lost;
they are memory and go with it, which the proof of `WorkflowInv` showed.

Where a proof needs induction over numbers (the first probe at or after a moment, the n-th
row from the end) it takes the least member of a set of numbers that is not empty,
`LeastNat`, which follows from the library's well-founded order of the naturals.

## 5. What is only model-checked

* Liveness: `ExecutionSettles`, `TasksEnd`, `NeverLockedOut`, `StopFreesTheSession`,
  `WorkflowEnds`. Fairness and ENABLED are out of the prover's reach.

Every safety invariant and action property that a passing run checks is also stated by a
theorem. The three runs that are refuted check one sentence each.

## 6. Where the code's words and the code disagree

Each of these is a run that TLC refutes and an entry of `findings` in `PROJECT.json`:

* queue_tasks_doc: two retries can share a ticket; one fails and takes it out of the table,
  the other commits its request row and starts a task the table does not know. The pump of
  an earlier task of the proposal, which has ended, finds that row and no ticket, and starts a
  second task for it (`hitl_executor.py:318`).
* spawn_shutdown_doc: a workflow whose wave is closed by shutdown spawns the next one
  after the children have been listed; the assertions at the end of shutdown fail
  (`manager.py:1044`).
* compaction_doc: of more rows than one reading returns, the oldest are in no later
  reading either (`compaction.py:37`).

None of them lets a device-changing command reach its device twice under one
authorisation: that is what the theorems say.

Further observations, made while modelling, that have no run of their own:

* Execution: a cancellation between the claim's commit and the `try` leaves EXECUTING
  until the next restart (`hitl_execution.py:581`); the second claim after a wait does
  not check the permission again (`:221`); a retry can be accepted with nothing
  queued to run it (`api/v1/hitl.py:344`); `_store_last_error` writes a whole payload
  it read earlier. `crud/hitl_proposal.py:8` reserves `revert_unexecuted` for commands
  never sent, while a read-only command that was sent and failed takes it as well.
  `hitl_executor.py:435` pumps when a slot is freed, while a run that ends in an
  unexpected exception frees its slot without.
* Turns: a stop that lands after the round's commit is answered "cancelled" while the
  reply stays (`chat_turn.py:338`).
* Sub-agents: cancelling the workflow while it closes a wave that is not its last
  leaves the rest of that wave's children to the collector (`orchestration.py:14-15` says
  they are closed); `_normalize_budget` keeps no token usage. When the commit that closes a row
  takes effect and is answered with an error, and the reconciliation cannot read the row
  (`manager.py:901`), the CLOSED row keeps its slot: the collector lists terminal rows
  only, and unless one of its rounds had listed the row before, nothing but another
  `close_agent` of it or the shutdown gives the slot back.
* Knowledge: a deletion reads `file_path` before it has the row's lock, so that a
  concurrent change of category leaves the file of a deleted document readable; an
  upload whose commit fails, and a cancelled one, leave an orphan file; no
  constraint makes `content_hash` unique. A recategorisation moves the file and then awaits the
  audit record outside its `try` (`api/v1/knowledge.py:444-460`): a failure or a cancellation
  there rolls the row back and leaves the file in the new directory, and a cancellation of any
  commit does the same, `CancelledError` being no `Exception`. A commit that took effect and raises
  has its file moved back under a row that was written. A purge that ends between its
  commit and the removal of the file (`:409-410`) leaves an orphan in the trash.
* Monitoring: `UPTIME_MAX_TRANSITIONS` can be fewer than the changes of an hour; a target
  deleted during a round fails the round; alerts are lost between commit and publishing.
* Context: a row posted between a call and its results splits the unit, and
  compaction stops before it; below the token threshold a question can fall out of
  the window without having been summarised; a turn that was superseded may compact
  past rows whose transaction is still open (`unseen`).
* Model calls: `ChatResult.model_key` is not set after a fallback (`llm.py:316-342`), and a
  compaction is charged without a key; two saves at once can mix their rows.

## 7. Abstractions

Payloads, evidence, audit rows and events are left out; command templates and
device dialogues are abstracted to "sent" and "answered". The reasons a device
preflight gives up (no asset, no vendor, bad arguments, no password) are one
alternative of `Check`. The wait window may close at any poll. In
HitlExecution a cancellation reaches a run at most once: `TurnRegistry.request_cancel`
and `HitlExecutionQueue.shutdown` cancel once each, and a disconnect on top of a
stop, which SessionTurn has, is left out there. The `await`s inside one database call are one
step; a commit whose outcome is unknown is in `Interrupt`.

In SessionTurn the two attempts of `_finalize_turn` are one step, with one failing
alternative. A turn may overrun because a step of the loop can hold several
tool calls, each with its own timeout, while the budget counts steps. Conversation has
the turns again, seen from the transcript only: a turn there may still be running
after its lease has gone, which is what SessionTurn allows.

In SpawnManager what a child answers and is asked is left out, and one workflow at a
time uses a session, as the turn lease has it. In the smaller services, texts,
embeddings, prices and probes are members of small sets, and whether the model fails
or a threshold is reached is the environment's choice. Callers have been
authorised. The rate limiter of logins, cookies and the signing of tokens are left out.

### Not modelled

* Device commands and output parsing, tool dispatch: pure functions on strings and
  stateless routing. Their outcome is a choice in the models that use them.
* CMDB, device command policies: edits of single rows, and a comparison that reports only.
* Audit, dashboard and messages: append-only records and reports.
* `SpawnManager.send_input`, which only tests call.
* Deleting a session outright, knowledge chunks and embeddings, editing of categories,
  the strong model tier, encryption at rest.
* The frontend, which renders what the backend reports.

## 8. What could follow

1. Composing SessionTurn with the HITL modules through the gate, and with Conversation
   through the transcript.
2. `should_auto_approve` and the policy lookup as operators against a reference
   definition; the lost update of a payload as a module of its own.
