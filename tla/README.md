# Formal model of hipfire's serving core

hipfire serves language models on AMD GPUs. Numerics decide whether an answer is
good; this project is about what surrounds them: that there *is* exactly one
answer, for the request the client asked about and authorised, and that slots,
memory grants, KV pages and parked sessions stay accounted for, whatever the
threads, clients, failures and crashes do.

Paths below are relative to `crates/` of the repository.

## The system

### Parts and their state

| part | code | state | operations |
|---|---|---|---|
| terminal registry | `hipfire-engine/src/terminal.rs` | the *singleton* cell (active sequential request), the keyed *batch* registry (entries, handoff tombstones), generation counters | announce, queue, bind, mark ready, latch controls, claim, hand off, adopt, promote, clear |
| batch scheduler | `hipfire-engine/src/scheduler.rs` | decode lanes, FIFO inbox, pending requests, sampling cohort | enqueue, assign, adopt, await, commit, abort, retire, fail all |
| stdin reader | `hipfire-daemon/src/main.rs` (thread) | the line being applied | announce generates, apply controls with two calls, forward messages |
| main loop | `hipfire-daemon/src/main.rs` | the request in hand, the thread-local admission scope, `batch_poisoned` | dispatch, route, reset, poison |
| batch driver | `hipfire-generate/src/batch.rs` | to-abort / to-commit lists, tokens per lane | settle, sweep, drain, assign, decode, publish, fail all |
| sequential generation | `hipfire-generate/src/ar.rs`, `terminal.rs` | where it is in the handshake | decode, commit handshake, terminal |
| multi-slot serve engine | `hipfire-arch-qwen35/src/serve_engine.rs` | requests in flight, parked requests, where the loop is | submit, cancel, close, reset, admit, evict, restore, sweep, expire, drain, step, shut down |
| session table, admission, waiting room | `hipfire-runtime/src/session_table.rs`, `admission.rs`, `serve_wait.rs` | sessions and their residency, grants, waiters | open, match, touch, mark swapped or cold, close, admit, resize, queue, pop |
| paged KV pool, slot pool | `rdna-compute/src/page_pool.rs`, `slot_pool.rs` | page metadata, free list, reclaim queue, block tables, copy-on-write plans | acquire, grow, trim, share, seal, plan and commit copies, cache and in-flight references, drain |
| swap store | `hipfire-runtime/src/swap/store.rs` | host and disk entries, budgets, the lock file and spill files | open, park, evict, take, drop; killed at any step |
| slot route, front end, client | `hipfire-daemon/src/slots.rs`, `hipfire-cli`, `hipfire-client` | | not modelled |
| models, kernels, bridges, quantisation | remaining crates | numerical or I/O code | not modelled |

`PROJECT.json` lists all components with their status.

### How they interact

**The daemon.** A generate line is *announced* in the keyed registry by the
reader and queued for main. Main gives it a singleton, enters the scope of its
admission, and routes it. A batch-eligible request is enqueued in the scheduler
and main becomes the batch driver until the batch is empty; the driver itself
drains further generates from the queue. Any other request is *handed off* from
the registry to the singleton cell and generated sequentially. A request that
turns out to need the sequential route while a batch runs is handed off and put
back at the front of the queue with its transfer token.

A finished generation is published as `commit_ready`; the client answers
`commit` or `abort`, or 30 s pass. Only a commit leads to `done`. Whoever writes
`done`, `aborted` or `error` must first *claim* the terminal from the plane that
owns the request; a refused claim writes nothing.

**The slot engine.** One thread owns all sessions. A submitted request either
continues a session it matches (resident, or swapped out and restored) or opens
a new one; both need a slot and a memory grant, and may evict the least recently
used idle session to the swap store to get them. A request that does not fit now
waits in a bounded queue until the loop's drain phase pops it, its deadline
passes or its client cancels. The slots' KV rows live in the page pool, whose
pages are shared between slots and copied on write; parked sessions live in the
swap store, whose directory may be given to several processes.

### What makes it hard

* two threads, two cells with separate locks, and a control line applied by two
  calls between which the request may change planes;
* wire keys are reused, so stale tokens, tickets and scopes exist; pages are
  reused, so stale handles and plans exist;
* the driver collects lists under one view of the registry and works them off
  under later ones; `admit` reads the busy list once and uses it to its end;
* GPU failures in the middle of a batch, rollbacks that may not be attested
  (poisoning), resets while requests wait;
* many early exits, each of which must leave registry, slots, grants and
  snapshots clean;
* processes killed between two file operations, and file operations refused.

`PROJECT.json` lists these as hazards, each at its line.

## Modules

| module | models |
|---|---|
| `TerminalControl` | `terminal.rs`. Each function holds the locks of all cells it touches for its whole body, so each is one action. The specification is the *most general client*: any function, any key, any token minted so far. |
| `BatchScheduler` | `ContinuousBatchScheduler` over the registry, with its surroundings: a reader that latches at any time, a main thread that moves only requests the scheduler does not hold. |
| `DaemonServe` | The reader thread, the main loop's generate and reset arms, the fixed-lane driver, sequential generation. It extends the other two and uses their actions: there is no second model of the registry. |
| `AttemptContract` | The abstract specification of one attempt as its client sees it. `DaemonServe` instantiates it with a refinement mapping and is shown to implement it. |
| `SlotEngine` | `run_loop`, `handle_command`, `admit`, `evict`, `restore` and `sweep_sessions` of the serve engine, over the session table, the admission controller and the wait queue. |
| `PagePool` | Page metadata, sharing, copy-on-write and reclaim, driven by the slot pool. |
| `SwapStore` | Stores on one directory: start, lock, clean, park, evict, take, Drop; kills and refused file operations. |
| `Totals` | The sum of a ledger's amounts, used by `SlotEngine` and `SwapStore`. |
| `BatchSchedulerProofs` (registry and scheduler), `SlotEngineProofs`, `PagePoolProofs`, `SwapStoreProofs` | TLAPS proofs. |
| `DaemonServeInv`; `DaemonServeSteps`, `DaemonServeDriver`, `DaemonServeOwners`, `DaemonServeProofs` | The daemon's inductive invariant; TLAPS proofs about it. |
| `MC...` | Instances for TLC. |

Names are the Rust names where the definition is one function. Definitions
preceded by a comment that begins "Variant" are deliberately wrong forms, used to
test that the properties can fail.

### The daemon: state and abstractions

* `Option::None` is the constant `None`; maps are functions to a value or `None`.
* Generation counters are bounded by `MaxGeneration`, by a guard in each action
  that increments one. In `DaemonServe` the bound is larger than the number of
  increments possible, so that it never disables a step.
* An `Instant` deadline is `unset`, `armed` or `passed`. A lane's deadline is
  computed after that of its entry and never passes before it.
* `claims` and `transfers` are history: the number of terminals granted to each
  owner, and each `SingletonTransfer` value ever returned (Rust values are moved;
  keeping them all gives the general client stale tokens).
* Terminals are claimed through `claim_wire_terminal`, as every writer of the daemon
  does. `claim_terminal` and `claim_terminal_at_generation`, which skip the batch
  plane, are called by the repository's tests only and are not actions.
* `BatchLane::Seeding` is never constructed and has no counterpart;
  `pending_sampling` has the keys of `pending` and is folded into it.
* `main.pc` names the place in the generate arm or driver, `main.scope` is the
  thread-local `ACTIVE_BATCH_GENERATION`, `main.item` the list element in work
  between two calls that change the registry.
* `queue` is `DaemonInbox`: backlog and channel are one queue, because the
  backlog is served first and holds only what was just taken from the front.
* `lines` and `wire` record what the reader took and what was written. The
  refinement mapping reads an attempt's phase off its last wire event and the
  commits off `lines`.
* Tokens, prompts, text, usage and timing are left out. Rendering, validation,
  capacity checks and GPU calls are choices. Whether a request is eligible for
  the batch and whether its prompt ends in a think block are constants.
* A test of an abort latch and the call it guards are one step of main. A latch
  set between them leaves the same state as one set just after.
* Results the driver ignores (`let _ = sched.abort_lane(..)`) are modelled as
  steps that must succeed. If one could be refused, the run would report a
  deadlock; none does, so the ignored results are never `false`.
* Failing writes to stdout are not modelled.
* One attempt per request id in the daemon runs; each client line is sent at
  most once, in any order, also before its generate and after its terminal.

### The slot engine: state and abstractions

* `sess`, `adm`, `free`, `swap` are the maps of the session table, the admission
  controller, the slot pool and the swap manager; `inflight` is the loop's array of
  generations, `wait_queue` and `parked` the two halves of the waiting room, which the
  code keeps in two containers. `pc` says where the loop is; between two places no
  command is received, so a command is one action and `admit` several.
* A prompt is a conversation, a turn and a grant; which sessions it may continue
  follows from the first two, as `find_continuation` and `confirm_reentry` decide.
  Context and page checks, grammar compilation, capture, restore and the forward
  step succeed or fail as `Faults` allows.
* The LRU clock is a rank, `enqueued_at` a stamp, a deadline the set `overdue` that a
  parked request may join at any time. The `FairQueue` is the set of sessions it
  schedules; its credits only decide the order of steps, which is free here.
* A panic in a step is folded into the poisoned outcome of that step. The reply
  of a generation that its own client closes is counted as "dropped".
* Left out: the byte cap of the queue, validation of image inputs, the prefix
  cache, speculative decoding, statistics.
* Bounds: `Leavers` names the requests whose client may drop its receiver,
  `MaxSteps` the forward steps of a generation.

### The page pool: state and abstractions

* `meta` is `page_meta`; the free list and the reclaim queue are counted per page
  (their order is not observable), so that a page listed twice would show.
* A copy-on-write plan stays open between `plan_cow` and its commit or abort, and
  everything else may happen in between. A plan whose source is freed *and* mapped
  again at the same place in between cannot be told apart by `commit_cow` either:
  it compares the mapping, as `StillMapped` does.
* `handle` is one `PageHandle` someone kept of a `Watched` page; `live` is history, and
  says whether the page has been freed since.
* In-flight references (`add_inflight_ref`, which only tests call so far) are taken
  on mapped pages only and a list to share names a page once, as the callers do.
  Leases, device buffers and quantised layouts are left out. `MaxRefs` and
  `MaxGeneration` bound the counters by guards.

### The swap store: state and abstractions

* `pc` of a store is the next step of `new`, `put` or `Drop`; each file-system call
  that another process can see is a step of its own, and `kill` may come between any
  two. `handle` is the inode a store opened, `lock_file` the inode the path names:
  they differ after an unlink, which is what `OneOwner` is about.
* A store that may not open the lock file goes on without it (`lock_denied`): it has no
  disk tier, but cleans the directory at the end of `new` and in `Drop` like any
  other, as the code does.
* `files` records who wrote a file and how much. `remove_spill` and the cleaning of
  the directory are one step each. A snapshot's encoded length is its payload plus
  `HEADER`. The LRU clock is a rank (`last_used`).
* `Faults` names the calls the file system may refuse, one by one: what is denied to
  `new` may be allowed to `Drop`, as in the repository's test of a read-only directory
  (`store.rs:905`). `ChargesCover` counts `.snap` files; a temp file that could not be
  removed is charged by nobody, in the code too. Statistics, file modes and
  the encoding are left out.

## Runs

| run | instance | states | shows |
|---|---|---|---|
| `terminal_registry` | 1 id, 2 attempts, 1 lane, 2 generations of each counter | 1.2 M | ownership, claims, commit, adoption and abort rules under the general client |
| `batch_scheduler` | 2 ids, 2 lanes, 2 samplings | 55 k | lanes, inbox, cohort and registry agree |
| `daemon_batch` | 2 batch requests, 2 lanes | 273 k | commit handshake, no silent end |
| `daemon_mixed` | 1 batch and 1 sequential request, attested faults, fairness | 355 k | `ImplementsContract`: the daemon implements the attempt contract, liveness included |
| `daemon_faults` | 2 batch requests, one think-open, all faults, 1 reset | 1.5 M | `KeepsContract`: the safety of the contract, no lost abort and no leaked key under poisoning and reset |
| `page_pool` | 2 pages, 2 slots of 2 logical pages, fairness | 238 k | reference counts, immutability, handles, reclaim |
| `slot_engine` | 2 slots, 4 requests of 2 conversations, queue of 2, all faults | 1.4 M | slots, grants, snapshots, waiters and answers accounted for; ages kept; conversations apart |
| `slot_engine_live` | 1 slot, 4 requests, one fits no budget, queue timeout, fairness | 68 k | every submitted request is answered |
| `swap_store` | 2 stores, 3 keys, 2 sizes, all faults, kills | 260 k | charges cover what is held; only a cleanup without the lock costs a parked snapshot |
| `think_open_answer`, `slot_engine_stall`, `swap_owners` | | | the findings below |

**Bounds.** The registry's rules concern one key at a time, except that a claim
looks at all attempts of an id; two attempts of one id, and two generations so
that a key is retired and reused, contain each case distinction of
`terminal.rs`. Two lanes and two requests give the driver a lane to settle while
another runs, and one lane with two requests a queue behind an occupied lane; two
samplings are needed for a cohort to keep a request out. `MaxTokens = 1` suffices
because every lane may also stop early, and the length test is exercised at its
boundary. In the slot engine two slots and a budget for two small grants make
each of them the scarce resource in some state; a second turn and tool results
are needed for a match, a third waiter for a full queue. Two pages and two slots
let a page be shared, copied, freed under device work and handed out again. Two
stores are enough for every hand-over of a directory, three for the finding. The
theorems remove the bounds for the properties they cover.

**Fairness.** Each fairness condition is one the code's scheduling gives:

* `ServeFairness`: main and the reader's second call (ordinary OS threads that hold
  no lock while they wait), the two deadlines and the handshake timeout (time
  passes). The client gets none: it need not send anything.
* `SlotEngine!Fairness`: the engine thread whenever it is not blocked in a receive, and
  the queue deadlines. No client action is fair. `AllAnswered` thus rests on a thread
  that keeps stepping: a GPU call that never returns is outside it.
* `PagePool!Fairness`: device work completes, and `drain_completed` is called on every
  step of the engine.

Deadlock checking is on where a stop would be an error: in the daemon runs
(`Rest`, everything read and nothing queued, is the one state in which the system
may stop), in the slot engine (`Stopped`, the thread has returned) and in the page
pool. The two general-client runs stop at `MaxGeneration` and the swap store when
all stores are gone, hence no deadlock check there.

## Findings

With a run that shows them:

1. `think_open_answer` (`hipfire-daemon/src/main.rs:4048`). On the fixed-lane route a
   think-open request is transferred to the singleton but the scope is rebound only
   if `vmm_singleton_now`. The sequential producer writes from a scope whose admission
   is gone, each claim is refused, and the request ends with no terminal.
2. `slot_engine_stall` (`hipfire-arch-qwen35/src/serve_engine.rs:4004`). The drain
   loop stops at the first waiter it does not place, also when that waiter was
   rejected for good. With all slots free the engine then sleeps until a deadline
   or a command (for ever without `queue_timeout_ms`) while the next waiter would fit.
   The comment at 3998 says the next iteration pops it.
3. `swap_owners` (`hipfire-runtime/src/swap/store.rs:527`). Drop unlinks the lock file
   after it released it, which the comment at line 31 says must not happen: a
   store that had opened the old inode and one that creates a new file both own the
   directory.

Met while modelling and confirmed with TLC, without a run of their own:

* `NoSilentEnd` also fails with `Resets = 1` (`main.rs:4463`: reset clears *all*
  admissions, also those announced behind it, and the batch route then refuses the
  request with a log line only) and with `GpuFaults <- AnyFault` (`main.rs:537`,
  `3123`: the same for poisoning). `daemon_faults` therefore checks the properties
  these cases leave intact.
* A popped waiter that still does not fit is queued at the *tail*
  (`serve_engine.rs:6569`), while `serve_engine.rs:3977` and `serve_wait.rs:34` speak of
  FIFO. Its age and deadline are kept (`AgeKept`).
* `cold_reuse`, the session whose snapshot was lost, is forgotten when the request is
  parked (`serve_engine.rs:6571`): the retry mints a new id and leaves the Cold entry
  behind, which the comment at 7202 says reopening it avoids.
* `SpillsReadable`, the state form of `SpillsKept`, fails in the instance of `swap_store`.
  `new` and `Drop` remove the spill files also without the lock (`store.rs:323`, `525`), and
  `Drop` the lock file. A store denied the lock in a read-only directory that is made
  writable later deletes, when it ends, the live snapshots of the store that has
  the lock by then. The comment at 522 says that Drop removes "only the files
  this store created", the one at 318 that another process's live files are safe.

## Proofs

For any sets and any values of the constants that satisfy the named assumptions:

| module | theorem | establishes |
|---|---|---|
| `BatchSchedulerProofs` | `TypeCorrect` | `TerminalTypeOK` |
| | `SoleOwnership` | `SoleOwner` |
| | `ExactlyOneClaim` | `OneTerminalPerOwner` |
| | `CommitAfterReady` | `CommitNeedsReady` |
| | `ExactAdoption` | `AdoptionIsExact` |
| | `DecisionsFinal` | `DecisionIsFinal` |
| | `AbortsSurvive` | `AbortSurvivesTransfer` |
| | `SchedulerTypeCorrect` | `SchedulerTypeOK` |
| | `LanesOwnEntries` | `LaneOwnsItsEntry` |
| | `RequestsHeldOnce` | `HeldOnce` |
| | `PendingStaysCurrent` | `PendingIsCurrent` |
| | `CohortShared` | `OneCohort` |
| | `CommitIsAuthorised` | `CommittedLaneIsAuthorised` |
| `DaemonServeProofs` | `ServeTypeCorrect` | `ServeTypeOK` |
| | `ServeKeepsContract` | `KeepsContract`: the daemon implements the safety of `AttemptContract` |
| | `ServeKeepsScheduler` | the scheduler's four invariants, in the daemon |
| | `IdleIsClean` | `IdleOwnsNothing` |
| `SlotEngineProofs` | `EngineTypes` | `EngineTypeOK` |
| | `SlotsAreExact` | `SlotsExact` |
| | `GrantsAreExact` | `GrantsExact` |
| | `SnapshotsAreOwned` | `SnapshotsOwned` |
| | `WaitersAreExact` | `WaitersExact` |
| | `AnsweredOnce` | `OneAnswer` |
| | `AgesAreKept` | `AgeKept` |
| | `ConversationsAreApart` | `ConversationsApart` |
| `PagePoolProofs` | `PoolTypeCorrect` | `TypeOK` |
| | `PoolAccounting` | `PageAccounting` |
| | `RefsExact` | `TableRefsExact` |
| | `WritableIsUnshared` | `PrivateIsUnshared` |
| | `ImmutableForGood` | `SealedStaysSealed` |
| | `HandlesAreExact` | `HandleIsExact`, if no generation wraps |
| `SwapStoreProofs` | `OneOwnerUnlessUnlinked` | `OneOwner`, if `UnlinkedAlone` |
| | `ParkedStaysReadable` | `SpillsKept`, as long as the lock is exclusive |
| | `KeptUnlessUnlinked` | `SpillsKept`, if `UnlinkedAlone`; also `SpillsReadable` if no store is denied the lock |
| | `BudgetsAreKept` | `StoreTypeOK`: both budgets at every step |
| | `ChargesAreCovered` | `ChargesCover`, as long as the lock is exclusive |
| | `CoveredUnlessUnlinked` | `ChargesCover`, if `UnlinkedAlone` |

**Registry.** Assumptions: `MaxGeneration \in Nat` and that `None` differs from the
values it stands beside. That an owner is claimed at most once needs to know that
its `terminal_claimed` flag tells the truth about `claims`, that no two live owners
share a generation, that counters bound all generations in use, and that
generations not yet minted are unclaimed. That an old token is not accepted needs
that every token's admission was minted at most once and that a waiting tombstone
agrees with its token. `Inductive` is the conjunction of `TerminalTypeOK`, `Ownership`
(those facts) and `CommitNeedsReady`. The step proof goes action by action; actions
that neither create nor move an owner are covered by one lemma (`SameOwnersStep`).

The two action properties are about a request while it moves from one cell to
another. Their proofs follow the records: every singleton alive after a
step is of a freshly minted generation, or continues one that was alive
before with its decision kept (`Continues`). Generations tell the live singletons
apart (`Ownership`), so two states of one generation are two states of one
lifecycle. `AbortsSurvive` follows the latch along the three moves, entry to
tombstone, tombstone to singleton, singleton to entry.

**Batch scheduler.** Assumptions: those of the registry, `LanesAssumption` and
`SchedulerAssumption`. The five invariants are inductive only together
(`SchedulerInv`) and over a well-typed registry: a lane still owns its entry because
nothing else may clear the entry of a pending request (`PendingIsCurrent`), which is
so because a pending request is held once (`HeldOnce`), and the cohort is emptied
with the last lane because a lane's request is pending. The proof has a lemma for
each way the state changes: the registry moves below an unchanged scheduler
(`RegistryKeeps`), a lane is filled, goes on (`LaneProgress`) or is emptied. Since
`HeldOnce` rules out a second occurrence, taking a key out of the inbox (`Without`) is
cutting at its one index. `CommitIsAuthorised` follows from `SchedulerInv`: of all
steps that empty an awaiting lane, only a commit leaves its entry in place.

**Daemon.** Assumptions: those of the scheduler, `ServeAssumption` (the constants'
types; finitely many lanes, so that a list of them exists) and `NoItemAssumption`
(`None` again). The contract speaks about the wire of each request, so the
invariant has to know, for every place a request can be in, what is on its wire
while it is there. `ServeInv` says so: `QueueInv` for the queue (nothing yet), `MainInv`
for main's message (`Stage`), `HeldInv` for the scheduler (started, or offered while its
lane awaits the client), `WorkInv` and `ItemInv` for the driver's lists, which were
made from an earlier state of the scheduler and must still name requests it
holds, once each. `StreamInv` bounds the tokens of a lane, `TokenInv` says that main
presents tokens handed out for the request it presents them for, and `CommitInv`
that a commit decision, wherever it is kept, comes from a commit line. The
scheduler's invariants are part of it.

A step of main is shown to keep the threads' part (`FlowInv`) and to be *tame*: it makes
one call of the registry beside the scheduler, or one call of the scheduler, or
clears the registry. Every tame step keeps `RegistryInv` (`TameKeeps`), by the lemmas of
`BatchSchedulerProofs`; so each of main's steps is looked at once for the flow and
each call once for the registry. `DaemonServeSteps` has the steps that serve one request
and those that work off a list, `DaemonServeDriver` those that make one: `InOrder`
lists a set of numbers, which exists because the least set without a list would
lose its least member. What a step writes is lawful (`Legal`), and a lawful write is a
step of the contract (`LawfulStep`).

`IdleIsClean` needs to know whose each entry and each tombstone is at every step, not
only when main waits. `OwnerInv` says it key by key: an entry's admission is in the
queue, handled by main, held by the scheduler or about to be cleared; a tombstone
waits for a token that the queue or main still holds, or is adopted and its
singleton served. It also says where the singleton may be alive (`ActiveInv`) and that
a poisoned batch route leaves no tombstone (`PoisonInv`), since the route is refused
from then on.

**Slot engine.** Assumptions: `EngineAssumption`, `NoReqAssumption`. None of the invariants
is inductive alone: that a slot has one owner depends on the reservation `admit` holds
between two of its phases, that a request is answered once on where `admit` and the
drain phase have it. `EngineInv` is the conjunction of what the session table, the
grants and the snapshots say of each other (`TableInv`), what runs on a slot
(`FlightInv`), where `admit` is and what it holds there (`PhaseInv`), the two halves of the
waiting room (`QueueInv`) and the one place of every request (`AnswersInv`). Commands, the
phases of `admit` and the phases of the loop each have a lemma.

The budget is a sum over sessions. `Total` counts the units of a ledger, so that its
changes are facts about finite sets: replacing one amount changes it by the
difference (`TotalUpdate`). The lemmas about it are proved in each of the two modules that
use them.

**Page pool.** Assumptions: `PageAssumption` (finite sets, positive sizes). A count is
kept exact only if one mapping is one reference: `IInv` adds that a table maps a
page once (`MapsOnce`), that it has no holes (`Dense`; `ensure_capacity` extends and
`free_pages_from_tail` trims a prefix) and that a page reserved by a plan belongs
to that plan alone (`PlansReserve`). Lemmas say what each helper does to one page, to
a page's set of mappings, and to one table; the actions follow from those.
`SealedStaysSealed` and `HandleIsExact` follow from what one step can do to one page:
it keeps its generation and seal, or it is freed and its generation goes up. A
handle is then exact as long as a generation does not come round, hence the
hypothesis `MaxGeneration + 1 < GENERATIONS` of `HandlesAreExact`.

**Swap store.** Assumption: `StoreAssumption`. The lock is exclusive because every open
handle is of the inode the path names (`LockInv`), which is true as long as nobody
unlinks the file under an open handle. `Drop` does not see to that (finding 3), so it
is a hypothesis: `UnlinkedAlone` says that no store has the lock file open when it is
unlinked. Stores may otherwise start, fail, end and be killed in any order; with
stores that never overlap, such as a server and its restart, it holds.

`SpillInv` says that a store without the lock has no disk entries, that a put under
way owns its temporary file, and that the file of a parked snapshot is whole, or
gone if the snapshot is in the set `Lost`. It is kept for every `Lost` by every step
but a cleanup without the lock, and for the set of all snapshots by those too
(`AnySpillStep`). With `Lost` the snapshots that are unreadable now, that is
`SpillsKept`; with none and no store denied the lock, `SpillsReadable`. It needs
exclusiveness at every step, which `ParkedStaysReadable` assumes and `LockKept` supplies.

The budgets need no lock: `host_used` is the total of the host entries (`HostInv`) and
`disk_used` is charged before it is exceeded and given back with saturation
(`DiskInv`). That the disk charge covers the files is inductive only for `Held`, which
counts a snapshot on disk by its entry also when its file is gone: dropping the
entry gives those bytes back, and no other file's (`ChargeInv`).

**Only model-checked.** `DoneIsCommitted`, `NoSilentEnd`, `CommitIsRecorded` and `AbortIsRecorded` of the
daemon, which relate the registry to the order of a client's lines; and liveness
(`ImplementsContract` beyond its safety part, `slot_engine_live`, the fairness of
`page_pool`), which is out of the prover's reach.

## Not modelled

* Kernels, tensor code, model architectures, quantisation, tokenisers, converters
  and bindings: nearly all of the repository's lines. They compute values; what
  matters about them here (they succeed, fail, or leave a lane that cannot be
  rolled back) is a choice in the modules that call them.
* The slot route of the daemon (`slots.rs`): one worker thread per generate between
  the wire and the slot engine. `SlotEngine` accepts any sequence of commands such
  workers can send. Read in the source but not checked, and what a model of it
  should look at first: the overload check answers outside the admission's scope
  (`main.rs:3054`); a slot reset counts workers of which one may be spawned but not
  yet counted (`main.rs:4353`); an abort polled before `Accepted` arrives does not
  know the session just opened for it (`slots.rs:1677`). The first two are listed as
  hazards without a property.
* Promotion of a running singleton into a batch inside the VMM driver and the LFM
  driver of `batch.rs`. The registry's and the scheduler's part of a promotion is in
  `TerminalControl` and `BatchScheduler`.
* The prefix index, checkpoint pool, weight pager and rank pool of the runtime. The
  index's references to pages appear as cache references in `PagePool`.
* Two concurrent attempts of one id on the sequential plane (`check_abort` compares
  the id only).
* The HTTP front end, the client and the command line: text, streaming and I/O.
* Pure helpers (stop sequences, loop guard, retirement of speculative tokens): local
  computations that unit tests of the repository reach.
