# A verification project for warpsim

warpsim is a header-only C++ library for optimistic parallel discrete-event
simulation (Time Warp). This directory holds TLA+ models of it, the TLC
configurations that check them on small instances, and TLAPS proofs of what
holds for every instance. `PROJECT.json` lists components, runs, mutants,
findings, hazards and theorems in machine-readable form, and maps every
definition to the lines it models.

    tlc -workers 4 -config MCTimeWarp_ack.cfg MCTimeWarp      # a run
    tlc -workers 4 -config MCPrograms_replay.cfg MCPrograms
    tlapm TimeWarpProofs.tla                                  # proofs: the kernel,
    tlapm MessageProofs.tla                                   #   its messages and GVT,
    tlapm DeliveryProofs.tla                                  #   commitment, sequential execution
    tlapm DirectoryProofs.tla                                 # proofs: the directory
    tlapm GvtMigrationProofs.tla                              # proofs: GVT-safe migration
    tlapm OptimisticLpProofs.tla                              # proofs: a single LP
    tlapm FlightPlanProofs.tla                                # proofs: the migration example

## 1. The system

| Component | State | Operations | Talks to |
|---|---|---|---|
| **Simulation** (`simulation.hpp`), one per rank | pending queue, tombstones, in-flight table or colour counters, last GVT, and per LP: virtual time, processed records, sent log, three counters | `run`, `run_one`, `poll_transport`, `send`, `dispatch_`, `cancel_`, `rollback_`, `fossil_collect_`, `prune_to_gvt_` | LPs (calls), transport (messages), other ranks (collectives), sinks (callbacks) |
| **GVT**: AckInflight / ColoredCounters | in-flight table and Acks / colour, counters per colour, least red stamp | `compute_gvt_`, `advance_gvt_colored_` | minimum, sum and or reductions |
| **LP interface** (`lp.hpp`, `event.hpp`) | the LP's own state, in entities | `on_start`, `on_event`, `save_*`, `load_*`, `request_write`, `emit_committed` | the kernel |
| **Transports** (`transport.hpp`, `mpi_transport.hpp`) | messages on their way | `send`, `poll`, `has_pending` | the kernel |
| **DirectoryLP** + `optimistic_migration.hpp` | per entity a timeline of owners | update, forward, install, prune | routed to by `send`, told the GVT by `notify_directories_gvt_` |
| **Install-before-use buffering** | deferred events per (LP, entity) | `defer_targeted_event_`, `release_deferred_for_` | `dispatch_` |
| **GVT-safe migration** (`migration.hpp`) | buffered migrations, owner table | `apply_migration_`, `apply_ready_migrations_` | transport, GVT, `on_migration` |
| **World**, `WorldTxn` | entity table | read, write, (de)serialise | `request_write` |
| **AoiLP**, `AoiClient` | positions | update, query | an ordinary LP |
| **Examples**: regional airports, airplanes and missiles, market, Fujimoto's airports | airports, planes, books, accounts | handlers, `save_state` or `save_entity` | LPs on the kernel; the first also uses directory and buffering, the second AoiLP |
| **StateHistory** | bounded map of snapshots | push, lookup, drop | not used by the kernel |
| **Wire codec**, **determinism digest**, **RNG**, **helpers**, **log** | none, or a running sum | pure functions | everyone |

What is hard here: there are no threads inside a rank, but ranks run
independently between collectives, messages and Acks arrive at any time, and
every LP executes speculatively. A late event makes an LP undo records, restore
snapshots taken by several events, put tombstones back and send
anti-messages, each of which may do the same to other LPs; meanwhile GVT
rounds decide what can never be undone and release it. A test exercises one
schedule of this; the questions are about all of them:

* *kernel*: whatever the schedule, what is committed is what a sequential run
  executes; an LP's state is always that of some execution; no event is lost,
  duplicated, or cancelled by an anti-message meant for another;
* *GVT*: never above a stamp that can still be processed or undone, never
  falling;
* *termination*: `run` returns, and only when nothing is left anywhere;
* *sinks*: each output once, in order;
* *directory*: the owner at a stamp is the same before and after pruning, and
  every forward that stands went to it, whatever was undone in between;
* *buffering*: no event is lost, doubled or forgotten while it is deferred;
* *migration*: no event goes to a new owner before its time, or to the old one
  for ever after it;
* *LPs*: what an LP saves is enough to undo what its handlers do, and what it
  promises (answers, trades, runways, landings) holds for the events that stand,
  in the order of virtual time and not of execution.

## 2. Modules

| Module | What it is |
|---|---|
| `Stamps` | `TimeStamp`, its order, `prev_stamp`, `max_stamp_`, `min_stamp_` |
| `Model` | events, the LP interface as a parameter, and the numbering and logging of `send` |
| `TimeWarp` | the kernel: all ranks, both GVT modes, termination; its properties |
| `GvtContract` | abstract specification: what GVT has to be, whatever the algorithm |
| `ReferenceRun` | the sequential execution of a model program |
| `SequentialSim` | abstract specification: what an observer of the sinks is promised |
| `TimeWarpVsSequential` | the kernel against the two above; documented claims the code does not keep |
| `Directory` | `DirectoryLP` and the kernel as this LP meets it; its properties |
| `LpRecords`, `OptimisticLp` | one LP, with any handler, under the kernel, with install-before-use buffering; what every LP may rely on |
| `GvtNotice` | the same LP as the one in whose name `notify_directories_gvt_` sends |
| `Aoi` | handlers of `AoiLP` and the events of `AoiClient`; its property |
| `Missile`, `Market`, `Airport` | handlers of the LPs of `airplanes_missile_aoi_demo.cpp`, `market_demo.cpp` and `airport_fujimoto.cpp`; their properties |
| `Flights` | handlers of the `RegionLP` of `regional_airport_migration_demo.cpp` |
| `FlightPlan` | composition: all its regions and their directory, in commit order; its properties |
| `GvtMigration` | GVT-safe migration on the rank of the new owners; its properties |
| `MCTimeWarp`, `MCTies`, `MCDirectory`, `MCPrograms`, `MCNotice`, `MCFlightPlan`, `MCGvtMigration` | instances for TLC |
| `StampLemmas` | proved facts about stamps, lists, ranks in an order and counting, for all proofs |
| `TimeWarpProofs` | the kernel: types, records in order, and what rollbacks restore |
| `MessageProofs` | the kernel: uids, messages, in-flight tables and colour counters; the GVT bound, the refinement of `GvtContract`, termination |
| `DeliveryProofs` | the kernel: delivery, once and for all, the order of the sink, the history behind each state, and the sequential execution of it |
| `DirectoryProofs` | the proofs about the directory |
| `GvtMigrationProofs` | the proofs about GVT-safe migration |
| `OptimisticLpProofs` | one LP, for every handler that keeps the contract: its state, its messages, its events; then `Aoi`, `Airport`, `Market`, `Missile` and the migration example's region |
| `FlightPlanProofs` | the migration example: all its planes, runways, flights and records |

### How `TimeWarp` corresponds to `simulation.hpp`

| Variable | Code |
|---|---|
| `pc`, `iters` | the position in the loop of `run()`; the loop counter modulo `collectivePeriodIters` |
| `pending[r]` | `m_pending`; a set, because an event in it is identified by its fields |
| `cancelled[r]` | `m_cancelledByUid` |
| `inflight[r]` | `m_inflightByUid` with `m_inflightTs` (the multiset is derived from the map) |
| `ctx[l]` | `LPContext`, and the LP's own state |
| `net`, `acks` | the transport's contents |
| `lastGvt` | `m_lastGvt`: one variable, since only a collective sets it, alike on every rank |
| `colour` | `m_gvtWhiteColor`, `m_gvtRedPhase`, `m_gvtSentByColor`, `m_gvtRecvByColor`, `m_gvtWhiteSentAtFlip`, `m_gvtMinRedSentTs` |
| `trace`, `sink` | what the two sinks have been called with |

| Action | Code |
|---|---|
| `Start` | `start_if_needed_` |
| `PollEvent`, `PollAck` | one turn of the loop of `poll_transport_count` |
| `DispatchNothing`, `DispatchStraggler`, `DispatchAnti`, `DispatchEvent` | `pop_next_`, then `dispatch_` with `cancel_`, `rollback_` and every `send` inside |
| `FossilCollect` | `++iters` and the local part of `fossil_collect_` |
| `AckGvt`; `ColouredFlip`, `ColouredWait`, `ColouredGvt` | the rest of `fossil_collect_`, or `advance_gvt_colored_`, on all ranks |
| `KeepRunning`, `Finalize` | the termination test, and `finalize_at_end` |

Decisions a reader should know of:

* **A handler is one step.** Nothing else runs on the rank between `pop_next_`
  and the end of `dispatch_`, and what it sends becomes visible to other ranks
  one message at a time in any case, because messages are received one by one
  and at any later moment.
* **A collective is one step of all ranks.** A rank inside an `MPI_Allreduce`
  neither polls nor sends until all have entered; what it does after that,
  until it polls again, changes only its own state. So contribution, reduction
  and reaction commute with everything else and are taken together. The GVT
  reduction and the termination reduction are two steps.
* **Messages may overtake each other.** MPI keeps the order between two ranks;
  the model does not, so it has more behaviours than the code, and what it
  proves does not rest on that order. Messages are not lost or duplicated: the
  code has no provision for it.
* **Ties in the queue.** An event and its anti-message have the same key;
  `std::priority_queue` may give either first and the model allows both.
* **`has_pending`** may be false while a message is on its way, and may be
  true then. `MpiTransport` also answers true while one of its own sends is
  incomplete; that only adds turns of the loop.
* **The model program** is given by `OnStart` and `OnEvent`. `ModelAssumption`
  is the contract of `ILogicalProcess`: deterministic handlers of the right
  type. `WritesDeclared` (only entities passed to `request_write` change) and
  `CausalApp` (a positive delay) are stated apart, and assumed only by the
  instances that need them. Scheduled events have uid 0, as the tests and the
  examples leave it.
* **Integers.** Stamps are bounded (`MaxTime`, `MaxSeq` for 2^64 - 1) since
  `prev_stamp` and `max_stamp_` depend on the bound; `StampsFit` disables a
  step whose stamps would not fit, where the code throws or wraps. No event has
  the stamp `max_stamp_` (`EventStamp`): it is the kernel's infinity, and what
  carried it could never be below a GVT and so never be committed. Uids and
  sequence counters are unbounded naturals.
* **Sorting.** The two sorts of `prune_to_gvt_` may leave elements with equal
  keys in any order; `SortedBy` breaks such ties by one fixed choice.
* **Single-rank use** without `lpToRank` is the model with one rank and
  `Period = 1`. `run_one` performs the same steps and returns.

### How `Directory` corresponds to `directory_lp.hpp`

`history` is `m_ownerHistory` (an entity without entries and an absent one are
the same: `owner_at_` treats them alike). `log` holds the directory's
processed records behind the ones that were already released, `base` counts the
latter; keeping them lets a property compare with the complete history.
`sent` is the sent log in the same sense. `todo` is the directory's part of
`m_pending`, `coming` what will get there, and `unread` the stamps of messages
from the directory that their receivers have not processed, which hold the GVT
back. Tombstones (`Cancelled`) are derived from the records: an input is
withdrawn at most once.

| Action | Code |
|---|---|
| `Update`, `Forward`, `FossilCollect` | the three branches of `DirectoryLP::on_event`, inside `dispatch_` |
| `Straggler`, `CancelProcessed`, `CancelPending`, `Discard` | `dispatch_`, `cancel_` and `rollback_` for this LP, and the loops that drop cancelled events |
| `Arrive`, `Withdraw`, `Absorb` | deliveries to the directory, rollbacks of its senders, progress of its receivers |
| `AdvanceGvt` | `fossil_collect_` with `prune_to_gvt_` and `notify_directories_gvt_` |

Of the GVT only what `compute_gvt_` guarantees is used: it rises and is not
above the directory's virtual time, a pending event, one on its way, or a
message the directory has sent and that is unprocessed. A restored snapshot is
the timelines that were saved. Every rank that knows the directory sends it the
GVT; one such event per GVT is modelled, as pruning twice to the same stamp
changes nothing. Sequence numbers are the default ones (no `isControlEvent`).

### How `OptimisticLp` and the handler modules correspond to the code

`OptimisticLp` is for questions about a single LP, where the kernel can be seen
from that LP alone, as in `Directory`: `state` is the LP's own state, `log` its
records with the state each handler found, `sentLog` its sent log with the event
each entry was sent for, `base` and `sentBase` how much of both is released,
`todo` its part of `m_pending`, `coming` what will reach it and `deferred` its part
of `m_deferredTargeted`. The LP is chosen in `Init` (`self`) and never changes.

| Action | Code |
|---|---|
| `Execute` | `dispatch_` of an event, with every `send` of the handler and, after an install, `release_deferred_for_` |
| `Defer` | the exception path of `dispatch_` for a missing entity |
| `Straggler`, `CancelProcessed`, `CancelPending`, `Discard` | `dispatch_`, `cancel_`, `rollback_`, and the loops that drop cancelled events |
| `Arrive`, `Withdraw` | deliveries to the LP; a sender that rolls back |
| `AdvanceGvt`, in `GvtNotice` `AdvanceAndNotify` | `fossil_collect_` with `prune_to_gvt_`, and with `notify_directories_gvt_` |

A handler is an operator from state and event to the new state, the sends, the
entities passed to `request_write`, and whether it throws. Loading is an operator
of its own, written from `load_state` or `load_entity`, so that a snapshot that
leaves something out is modelled as such: the missile example's `m_waitingReqId`
(only `save_state` has it, which the kernel does not call for an LP with entity
snapshots) and the migration example's planes (`save_state` has the airports only)
keep what undone events left. `Part` is what the snapshot of an entity has of a
state, for the entities in `Entities`. What the kernel relies on is stated as
`ContractKept`: `AsksToWrite` (a handler calls `request_write` for every entity it
changes, and has done nothing yet when it throws for a missing one),
`LoadsWhatWasSaved` (loading restores the entities that were saved and no others)
and `AnswersAreNew` (other LPs number their answers as `send` does).
What an LP sends to others is answered by them at once (`Replies`): this is
enough for the GVT to be held back only by the LP and what is on its way to it.

`FlightPlan` executes the events of all regions and the directory in stamp
order, which is what the kernel commits to by `ImplementsSequential`; it asks
whether the example's own plan is sound: a landing is sent at departure for the
time that `compute_land_time_` foresees, while the crossings are scheduled one
by one. Random numbers are functions of a logical key (plane and leg), chosen in
`Init` among `Draws`: in `MCFlightPlan` all that the first two legs can draw, in the
theorems whatever `DrawsAssumption` allows.

In `GvtMigration` `waiting` is `m_pendingMigrations` in the order of its keys,
`owner` is `m_entityOwner`, and `wire` holds the migration messages on their way.
The GVT is any rising stamp: nothing ties it to those messages, as they are
neither acknowledged nor counted.

## 3. What the runs show

The program of `MCTimeWarp` has three LPs on two ranks: LP 2 may execute f@3
and send e@5 to LP 1 before the straggler s@2 of LP 3 reaches it; executed
again it sends d@5 instead, while LP 1 may have executed e, whose output h goes
to LP 3. This is the smallest program in which an anti-message can come before
its event, between its arrival and its execution, and after it; can cause a
second rollback and further anti-messages, local and remote; and can itself be
undone by a straggler (g@4) and be processed again. States mix values so that
order matters, entities are saved by different events, and one LP has
per-entity and two have whole snapshots.

| Run | Instance | Checks |
|---|---|---|
| `ack_optimism` | AckInflight, period 1 | `TypeOK`, `ProcessedInOrder`, `GvtIsLowerBound`, `InflightExact`, `SentMeansDeliveredOnce`, `StateMatchesHistory`, `TerminationIsClean`, `ImplementsSequential`, `ImplementsGvtContract`, `Termination` |
| `coloured_optimism` | ColoredCounters, period 2, control events | `RecordsReplay`, `ColoursAccounted`, `SinkInOrder`, `ImplementsSequential`, `Termination` |
| `directory_owners` | `MCDirectory` | `DirectoryTypeOK`, `PruningKeepsOwners`, `ForwardsToOwner`, `MigrationLogChains` |
| `programs_replay` | `MCPrograms`: six LPs, each on its own | `ContractKept`, `StateIsReplay`, `SendsAreReplay`, `EachInOnePlace`, `DeferredAreMissing`; per LP `AnswersAreCurrent`, `HitsAccountedFor`, `FillsAccountForOrders`, `EarlierOrderFirst`, `OneServiceAtATime`, `FirstComeFirstServed`, `CountersBalance`, `RegionOutcomeIsReplay` |
| `flight_plan` | `MCFlightPlan` | `FlightsTypeOK`, `NeverMissing`, `LandsAsPlanned`, `RecordsAgree`, `PlanesConserved`, `RunwayExclusive` |
| `gvt_migration` | `MCGvtMigration` | `NotBeforeCutover`, `NoneOverlooked` |

* `GvtIsLowerBound`: no event or anti-message, queued or on its way, and no
  record is below the GVT. `InflightExact` and `ColoursAccounted` say why:
  what each mode keeps about messages matches the transport exactly.
* `SentMeansDeliveredOnce`: an event its sender has not taken back exists
  exactly once in the whole system, has no anti-message, and no tombstone waits
  for it.
* `StateMatchesHistory`: after any number of rollbacks an LP's state is what
  the events it has executed and not undone lead to. `RecordsReplay` says why: what
  a rollback to any record would restore is what the handler makes of what a
  rollback to the record before would, though snapshots are partial.
* `ImplementsSequential` (refinement of `SequentialSim`): the events and
  outputs handed to the sinks are, per LP, a growing prefix of those of the
  sequential run, contain all below the GVT, and at the end are all of them.
  Events are compared by time, kind and output: sequence numbers and uids are
  not stable (see below).
* `ImplementsGvtContract` (refinement of `GvtContract`): work begets only work
  that is not earlier, and the estimate moves up to lower bounds only. It is
  checked in one mode and proved for both (section 4). With colour counters,
  `ImplementsSequential` fails as soon as the collective does not wait for the
  white messages.

* `PruningKeepsOwners`, `ForwardsToOwner`, `MigrationLogChains`: `owner_at_` from
  the GVT on, the destinations of the forwards that stand and the old owners in
  the migration log are those a directory would give that executes the standing
  updates once, in order, and never prunes.

* `ContractKept`: each of the six LPs keeps what `docs/state_store.md:22` asks for
  ("Call `ctx.request_write(entityId)` before mutating rollback-relevant state") and
  what the kernel relies on besides. It is the hypothesis of the theorems about
  `OptimisticLp`.
* `StateIsReplay`, `SendsAreReplay`: for each of the six LPs, whatever came late
  or was withdrawn, the state is the one the standing records lead to, and what
  stands of its messages is what their handlers sent, each once. This needs the
  kernel's choice of snapshots and the LP's own `request_write` and `load_*`.
* `EachInOnePlace`, `DeferredAreMissing`: an event is on its way, pending,
  executed or deferred, never two of these or none, unless it was withdrawn; and
  it is deferred only while its entity is missing.
* `RegionOutcomeIsReplay`: the migration example's snapshots lack the planes, and
  yet its airports and messages are those of a run without rollbacks, because the
  handlers overwrite what they read of a plane.
* `AnswersAreCurrent` (AoiLP), `HitsAccountedFor` (missiles), `FillsAccountForOrders`
  and `EarlierOrderFirst` (market), `OneServiceAtATime`, `FirstComeFirstServed` and
  `CountersBalance` (airport): the promise of each LP, stated over the events that
  stand and their stamps. Those of the airport are for the moments in which no
  anti-message is on its way (`Settled`): before it arrives, an LP may well have
  executed both an event and its replacement.
* `NeverMissing`, `LandsAsPlanned`, `RecordsAgree`: in commit order the buffering is
  never needed by the migration example; a plane lands where and when its
  departure said, as the plane the region thinks it is. `PlanesConserved` and
  `RunwayExclusive` say that none is lost or doubled between queues, runways,
  migrations and forwards.
* `NotBeforeCutover`, `NoneOverlooked`: what the wait for the GVT is for, in either
  order of message and GVT: no event goes to an owner before its time, and a
  migration that has come waits until its time and is applied then.

*Bounds.* In `directory_owners` one entity moves three times and another once,
with uses at and after a move, one move may be withdrawn, and the GVT takes
two values, one at a move and one between moves without a sequence number; so
prunes find an entry at the GVT or only before it, are undone and repeated. The
run may stop (no deadlock check): inputs are finite.

For the kernel, two ranks and three LPs allow a rollback caused from another
rank, a cascade over three LPs, and local as well as remote anti-messages; a
third rank would add senders, not kinds of message. `MaxTime = MaxSeq = 9` exceed
every stamp the programs produce, so `StampsFit` never disables a step.
`collectivePeriodIters` is 1 where the interleaving of GVT with everything else
matters most, and 2 where messages have to cross colour flips; in
`coloured_optimism` s@2 is itself sent by an event, so that a red message can be
the least work there is.

In `programs_replay` each LP gets four to six events, in any order of arrival,
of which some may be taken back, and the GVT takes two or three values between
them. They are chosen so that the LP's handlers meet: updates around questions
about two shapes; hits before, between and after ticks, the last on a plane that is
gone; bids and asks of equal price around a match with a limit; arrivals that find
the runway free, taken, or freed at that time; a landing before its install, and
a second install of the same plane. `MaxUid` bounds what an LP sends; it cuts
repeated rollbacks short, after at least one that repeats sends, and only in the
airport and the missile region. 2^64 for a trader's cash is 16, so that it wraps.
These runs may stop: inputs are finite. `flight_plan` ends by itself, and its
stuttering at the end is the action `Done`, so deadlock is checked there.

Every property is falsified by at least one mutant (the `Mutant:` operators).

*Fairness.* `FairSpec` has weak fairness of each rank's steps and of the
collectives, that is, processes keep running, and strong fairness of
`PollEvent` and `PollAck`: a rank that polls again and again eventually
receives a message that is on its way, which is MPI's progress guarantee.
Weak fairness would not do, as a rank that is in a collective does not poll.

### Claims of the documentation that the code does not keep

| Run | Claim | What happens |
|---|---|---|
| `tie_order` | `docs/modeling_contract.md:105`: "The kernel orders events by `(TimeStamp, Event.src, Event.uid)`." | An event with the stamp of one already executed and a smaller (src, uid) is executed after it: only `ev.ts < vt` makes a straggler. |
| `sequence_counter` | `tests/sequence_restored_on_rollback_test.cpp:4`: re-executed sends get the same sequences | The record of an anti-message holds the counters from before `cancel_` rolled back; undoing only that record restores them. |
| `uid_stability` | `simulation.hpp:93`: random values derived from (src, uid) are deterministic across rollback | `nextUid` is, rightly, never restored, so a re-sent event has a new uid; a committed event's uid depends on the schedule. |
| `directory_below_gvt` | `docs/migration.md:99`: a forward's fresh sequence keeps "ordering" correct; `simulation.hpp:1173`: GVT bounds "any future messages" | The sequence is the directory's own counter: a use at {2, 4} may be forwarded as {2, 2} when the GVT is {2, 3} already. |
| `gvt_notice` | `simulation.hpp:1612`: "Send anti-messages for events sent after rollback point." | A GVT notice is logged with send time {0, 0}; `rollback_` reads the sent log from its end and stops there, so messages of undone events that were logged before the notice stay sent. |
| `deferred_withdrawn` | `simulation.hpp:1347`: "Anti-messages cancel a matching event if still pending or unprocessed." | A deferred event is not looked for; the tombstone is released with the GVT, and a later install brings the event back. |

Seen while modelling, without a run of their own:

* `compute_gvt_` includes the virtual time of every LP, so an idle rank never
  contributes +inf as the comment at `simulation.hpp:1025` says; it delays
  commitment only.
* `airplanes_missile_aoi_demo.cpp:483` says that LP-local control state must be
  saved, and `save_state` does so, but the kernel calls only `save_entity` for an
  LP with entity snapshots. A region may wait for an answer that was taken back.
* A deferred event that was withdrawn still makes `finalize_at_end` throw, though
  no install is missing (`docs/migration.md:186`).
* In the migration example a landing that is forwarded in speculation to a region
  without its airport throws an error the buffering does not catch
  (`regional_airport_migration_demo.cpp:632`).
* Of two GVT-safe migrations of an entity, the one whose message is applied last
  wins, also when it is the earlier one (`apply_ready_migrations_`).
* The determinism digest includes the records of anti-messages
  (`determinism.hpp:66`), whose number depends on the schedule.

## 4. What is proved

The theorems about the kernel hold for every model program, every finite set of
ranks, every placement of LPs, both GVT modes and every period. They are four
layers, each an inductive invariant on top of the one before.

**Types and order** (`TimeWarpProofs`, with `StampLemmas`: stamps form a total
order, `prev_stamp` skips nothing, `MinStamp` is a lower bound that is attained,
what rollback and pruning leave of a list is a prefix or a suffix).

* `TypeCorrect`, `Spec => []TypeOK`. `TypeOK` is inductive. The work is in
  what crosses steps: a rollback restores every entity from partial snapshots
  and still yields a whole state; stamps stay in range through `prev_stamp`;
  a reduction over all ranks is a stamp.
* `RecordsInOrder`, `Spec => []ProcessedInOrder`. Inductive together with
  `TypeOK`: the virtual time after a rollback is `prev_stamp(to)`, which is
  not behind a record that was kept because `prev_stamp` skips nothing, and a
  new record is only appended at or after the virtual time. It is what
  `validate_invariants_` tests at run time.
* `RollbackRestores`, `Spec => []RecordsReplay`, for `WritesDeclared` programs: a
  handler changes only the entities it asks to write. What a rollback to record
  `n` restores is put together from the oldest later snapshots; it is invariant
  under what is appended, undone and pruned around it, and the handler leads
  from one such state to the next.

**Messages** (`MessageProofs`). `MessageInv` has four parts: `OneEventPerUid` (a
sent log is in the order of its uids, all below `nextUid`; two copies of an event,
wherever they are, agree; no anti-message exists for an entry that still stands),
`Placed` (what is queued or recorded is where its LP is), `SentOnce` (a message, and
a key of one, is on its way at most once) and `Accounts` (`AcksFit`: tables hold
what is on its way or whose Ack is; `ColoursFit`: the balance of the white counters,
a sum over the ranks, is the number of white messages on their way). It is
inductive because `nextUid` is never restored: that is why a re-execution cannot
bring back a key for which an anti-message travels.

* `MessagesUnambiguous`, `Spec => []MessageInv`.
* `InFlightTableExact`, `Spec => []InflightExact`, and `CountersExact`,
  `Spec => []ColoursAccounted`. Both are needed by the next layer.

Every step is either quiet (nothing is sent) or a `SendingStep` of one rank, whose
effect on logs, queues and the transport is proved once (`StragglerSends`,
`AntiSends`, `EventSends`, `StartSends`) and used in this layer and the next two.

**GVT** (the second half of `MessageProofs`), for `CausalApp` programs: handlers send with a positive
delay, as `docs/modeler_intro.md:70` asks ("send future events"). `GvtInv` adds to
`GvtIsLowerBound` that no entry of a sent log has a stamp below its send time
(`ForwardLogs`, so that anti-messages are not below the rollback that sends them)
and that the GVT is zero while a rank has not seeded (`SeedsAtZero`).

* `GvtBounds`, `Spec => []GvtIsLowerBound`: at adoption the reduction is a lower
  bound because tables or counters are exact; afterwards work begets no earlier
  work.
* `KernelImplementsGvt`, `Spec => Gvt!Spec`: the refinement of `GvtContract`, each
  action as a step of the contract or a stutter.
* `StopsOnlyWhenDone`, `Spec => []TerminationIsClean` (no `CausalApp`): the counts
  of the termination reductions leave nothing on its way when all ranks agree.

**Commitment** (`DeliveryProofs`).

* `NothingLostOrDuplicated`, `Spec => []SentMeansDeliveredOnce`. `DeliveryInv`: the
  event of each standing entry is in one place of one kind (`EntriesOnce`);
  tombstones, also those that a record keeps for its undoing, and committed
  anti-messages are for uids that are used and stand no more (`TombstonesFit`,
  `TraceFits`). What stands no more never stands again (`GoneStays`), so no
  tombstone can hide an event that its sender stands for. No `CausalApp`.
* `OutputsInOrder`, `Spec => []SinkInOrder`, for `CausalApp` programs. `SinkInv` adds that
  what has been put out is below the GVT while the run goes on (`SinkBelow`); each
  call of `prune_to_gvt_` sorts what it puts out, none of which is below the GVT
  before.
* `NothingHandledTwice`, `Spec => []NothingTwice`: an event or anti-message is in at
  most one place - on its way, queued, recorded or committed - and there once, for
  every message and not only for those that stand. No `CausalApp`.
* `SpeculationLeavesNoTrace`, `Spec => []HistoryReplays`, for `WritesDeclared` and
  `CausalApp` programs: there is an order of the events that an LP has committed or
  has on record, each once and by their stamps, whose execution from the initial
  state leads to the state the LP is in. The invariant is `CommittedReplays`: the
  committed events lead to what a rollback of all records would restore. It needs
  `CommittedBelowGvt` (what is pruned next goes behind all that is committed),
  `NothingHandledTwice` (it is new) and `RecordsReplay` (the records carry on).

**Sequential execution** (the last part of `DeliveryProofs`).

* `StateIsReplayed`, `Spec => [](NoTies => StateMatchesHistory)`, for `WritesDeclared`
  and `CausalApp` programs: the state of an LP is the one that `Replayed` computes from
  what the sink has received for it and the records it holds. `CommittedReplays` gives
  an execution of the committed events, and `RecordsReplay` continues it; it remains
  that `History` lists the same events in the same order (`HistoryInOrder`): the trace
  is in stamp order throughout (`TraceInOrder`), and where no two stamps are equal that
  leaves one order. `NoTies` says that of the events of each LP, and is needed: the sink
  orders events of equal stamp by (src, uid), and the kernel need not have executed
  them so (run `tie_order`). `Replayed` is a recursive function; `ReplayedSpec` shows
  that it satisfies its equation, by induction on the number of events.

`DirectoryProofs` has four theorems about the directory, for every set of
entities, owners, inputs and GVT values, so for every interleaving of late,
tied and withdrawn updates with uses, rollbacks and fossil collections:

* `DirectoryTypeCorrect`, `Spec => []DirectoryTypeOK`;
* `PruningIsSafe`, `Spec => []PruningKeepsOwners`. The property is not
  inductive: a rollback replaces the timelines by a snapshot. The invariant
  (`DirectoryInv`) therefore says the same of every saved snapshot with respect
  to the records before it (`Faithful`), that no timeline has an entry that no
  such record made, that records are in stamp order and split at the GVT into
  released and kept ones, that only updates and prunes change timelines and all
  of them save, and that nothing pending is below the GVT and no pending prune
  is to a stamp above it. The heart is `PruneKeepsOwner`: the entry that a
  lookup at or after the GVT finds is not dropped.
* `ForwardsAreRight`, `Spec => []ForwardsToOwner`, and
  `MigrationLogIsRight`, `Spec => []MigrationLogChains`, on top of that
  invariant: an update that is executed later is at or after every forward that
  stands, and a rollback that undoes an update also takes back everything
  forwarded at or after it.

`GvtMigrationProofs`, for every set of migrations and every order of messages, GVT
advances and sends: `CutoverIsSafe`, `Spec => []NotBeforeCutover`, and
`MigrationsAreApplied`, `Spec => []NoneOverlooked`. The invariant: what waits is in
the order of its times (so taking from the front until an entry is not due takes
all that are due), and every owner is that of a migration whose time is there.

**A single LP** (`OptimisticLpProofs`). Three theorems, for every LP, handler,
loading function, set of inputs, order of arrival and withdrawal, and every GVT
value. Their hypothesis is that the LP keeps the contract throughout,
`[]ContractKept`; `programs_replay` checks that the six LPs of the examples do.

* `RollbackIsInvisible`, `Spec /\ []ContractKept => []StateIsReplay`. The invariant
  (`ReplayInv`) is that each record found, as far as snapshots tell, what the
  record before it left, and the LP is in what the last one left. Snapshots are
  partial: a rollback puts the oldest of each entity together, and an entity that
  no undone record saved is one that none of them changed (`UnsavedStays`), so that
  the state put together is the one found then (`RestoredAlike`).
* `MessagesFollowRecords`, `Spec /\ []ContractKept => []SendsAreReplay`. Rollback
  reads the sent log from its end by send times, and fossil collection from its
  front, while the records are cut by their own stamps. `EventInv` says why the
  cuts agree: records and sent log are in stamp order and split at the GVT into
  released and kept entries, the messages of a record are in a row, and keys are
  not used twice because `nextUid` is never restored.
* `NoEventIsLost`, `Spec /\ []ContractKept => []EachInOnePlace`. `EventInv` has each
  event in one place at most; `PlaceInv` adds that an anti-message is always one of
  an input and is never dropped before it has met it, so that an input is either
  somewhere or has been taken back.

Two more are about `AoiLP`, for every geometry, any number of entities, and whatever
its clients ask and take back; they assume of the constants that the LP runs the
handlers of `Aoi` (`AoiProgram`) and is sent updates and queries only (`AoiClients`),
and of the run that the other LPs number their events as `send` does (`AnswersAreNew`).

* `AoiKeepsContract`: such a run keeps `ContractKept`, so the three theorems above hold
  of `AoiLP` without that hypothesis.
* `AoiAnswersAreCurrent`: each answer that stands is about the positions at the stamp of
  its question. `AoiInv` has the records in stamp order around the GVT and nothing
  below it, so that an update that is executed later is not earlier than any answer
  that stays; an induction along the records (`TableFound`) makes the table a handler
  found the last standing update of each entity.

Four are about `AirportLP`, for any number of airports and planes, any end time and
draws, and whatever arrives late or is taken back; they assume that the LP runs the
handlers of `Airport` (`AirportProgram`), that the others send it arrivals, not before
what they answer (`AirportClients`), and `AnswersAreNew`.

* `AirportKeepsContract`: such a run keeps `ContractKept`, with the same consequence.
* `AirportServesOne`, `[]OneServiceAtATime`; `AirportServesInOrder`,
  `[]FirstComeFirstServed`; `AirportCounts`, `[]CountersBalance`. The last two need in
  addition that of the arrivals that stand no two are of the same plane on the same leg
  or have the same stamp (`ArrivalsDiffer`): it is the other airports that see to that,
  since `next_logical_key` counts the leg up with each departure and the sequence
  number of an event names its plane.

The three promises hold of a settled airport only, so they are not invariants of the
speculation. What is invariant (`AirportInv`) is what makes a settled airport's records
tell a story: the end of a service that is queued or on record is in the sent log,
unless its anti-message is on the way, queued or on record (`Backed`), and an event
whose anti-message is on record is not on record itself (`TakenBack`); records and
sent log are split at the GVT, and each message is later than its record. When the
airport has settled (`AirportStory`), every end of a service on record was sent by a
record that stands, earlier. The rest is induction along the records: each one moves the
state as `start_next_` does, and begins exactly the service it announces (`Proceeds`);
then at most one service has not ended, and only if the runway is busy (`RunwayHolds`);
and the queue holds arrivals in their order, behind those that were served, with the
counters in balance (`LineHolds`).

Four are about the market, for any traders, orders and prices.

* `TraderKeepsContract` and `ExchangeKeepsContract`: both LPs keep `ContractKept`; the
  first needs no more than that the LP runs the handlers of `Market`, the second also
  that it is sent orders, matches and market data by others (`ExchangeClients`).
* `ExchangeEarlierFirst`, `[](self = ExchangeLp /\ AnswersAreNew) =>
  []EarlierOrderFirst`: price-time priority by virtual time. `Ledger` says of the book
  after n records what it owes to their orders: which order each entry stems from and
  that a number never stands for two of them, and of two orders of a side with the first
  taking precedence, the second is whole unless the first is gone. An order placed
  keeps it (`SidePlaced`), and a trade takes the best of each side (`BestFound`), in part
  or as a whole (`SideReduced`); `MatchKeeps` is the induction over the matching loop,
  whose result exists and is unique because each trade takes something away
  (`MatchingExists`). What ties the book to the records is `StateIsReplay`, and the
  records to the fills `SendsAreReplay`.

`ServerInv` is shared by `AoiLP` and the exchange: records in stamp order around the GVT,
everything that comes from clients has one of their bodies, nothing is below the GVT,
and what is sent is for others and at the event's own stamp.

Three are about the regions of the two airplane examples.

* `MissileKeepsContract`: a tick asks to write every plane, an answer its shooter, a
  hit its target and the shooter that is credited with a kill. It assumes that the LP
  runs the handlers of `Missile` and is sent ticks by itself, answers and hits
  (`MissileProgram`, `MissileClients`); that ticks are all it gets from itself is part
  of the invariant (`BodiesInv`), since a target is a plane of another region.
* `RegionKeepsContract`: an install changes no airport, everything else asks to write
  them, and a handler that throws for an unknown plane has done nothing yet.
* `DeferredStayMissing`, `[](self = RegionLp) => []DeferredAreMissing`: planes are never
  forgotten, because `load_state` leaves the World alone (`RegionInv`), so an event is
  kept aside only as long as its install is yet to be executed.

With these all six LPs of `programs_replay` keep the contract for all parameters, given
`AnswersAreNew`, and the three theorems about every LP hold of them.

**The migration example** (`FlightPlanProofs`). For any number of regions, airports
and planes, any geometry, speed and end time, and any draws, all six invariants of
`flight_plan`: `FlightsTyped`, `PlanesAreFound` (`Spec => []NeverMissing`),
`PlanesLandAsPlanned` (`Spec => []LandsAsPlanned`), `OutputTellsOneStory`
(`Spec => []RecordsAgree`), `PlanesStayWhole` (`Spec => []PlanesConserved`) and
`OneServiceDue` (`Spec => []RunwayExclusive`).

None of them is inductive; the invariant they follow from is `PlanInvariant`
(`PlanHolds`). Its heart is `Situated`: each plane *waits* in one queue, is *served* at
one airport, *flies*, or has *ended*, and what is pending for it is exactly what this
calls for. A plane that flies is *near*, its owner knowing it in the region where it
will land, or *far*: then besides the landing one crossing is due, as an update for
the directory and later as an install, and what it carries foresees the same landing
(`compute_land_time_` from there gives the same time). That is why a landing never
comes before the last crossing: each part of a trip takes at least one unit of time
(`Travelling`), and a trip without its first part is the same trip (`LandTimeBehind`,
by induction on the borders that are left). `Exclusive` ties each runway to its
service, `Told` ties the last record of a plane to where it is, and a leg's number is at
most its time, so that there is always a draw for it. The initial states
are those `on_start` computes, by induction on the planes (`PlaneArrives`,
`AllPlanesStart`); the steps are `UpdateKeeps`, `ForwardKeeps`, `InstallKeeps`,
`LandKeeps` and `DoneKeeps`, over what an arrival and a departure do (`Arrives`,
`Departs`).

*Assumptions.* `StampBounds`, `ModelAssumption`, `KernelAssumption`,
`DirectoryAssumption` (a default owner exists; inputs have a sequence number),
`MigrationAssumption` (times are stamps), `LpAssumption` (inputs are events of
others with keys of their own), `ParametersAssumption` (the sizes in
`regional_airport_migration_demo.cpp` are not 0, which its `main` checks),
`DrawsAssumption` (each draw is a number the code's modulo can give),
`TripsAssumption` (`LongestTrip` is what its name says; only `PlanesConserved` speaks
of it) and, in `ReferenceRun`, `RunEnds` (the sequential run ends within `RunLength`
events; `StateIsReplayed` does not use it), each evaluated by TLC in every run of the
module;
`CausalApp` and `WritesDeclared` are hypotheses of the theorems named with them,
and TLC evaluates both for the programs of `MCTimeWarp`. Dispatch is split into
*outcomes* (`AntiOutcome`, `EventOutcome`, `StragglerOutcome`): one lemma per
action says what it does to the context, and everything else is proved from the
outcome.

*Only model-checked.* Liveness (`Termination`; outside the prover's reach);
`ImplementsSequential`, which compares with the sequential run of the whole program;
`RegionOutcomeIsReplay`, which also depends on what the example's senders make of a
plane between its landing and its departure; and two promises of the missile and the
market example that add up numbers over sets of records (`HitsAccountedFor`,
`FillsAccountForOrders`). `StateMatchesHistory` is proved where no two events of an LP have
the same stamp; with ties it is checked on the program of `ack_optimism`.

## 5. Not modelled, and the plan

The modules above cover the parts of the library that keep state. Next are
theorems, in order of importance:

1. `ImplementsSequential`, from `StateIsReplayed` and the layers below it, for programs
   in whose sequential run no LP executes two events of the same time.
2. The two promises that are sums over records, `HitsAccountedFor` and
   `FillsAccountForOrders`, from lemmas about sums over finite sets.

Not modelled, and why:

* `StateHistory`: neither the kernel nor an example uses it.
* The wire codec: fixed-width fields in, the same fields out, no state; what the
  kernel does with a message is modelled from its fields.
* The determinism digest: a commutative sum over what is committed, and what is
  committed is a variable of `TimeWarp`.
* `EventDispatcher`, `modeling.hpp`: a table of handlers and checks of arguments;
  the handler modules have what is behind it.
* `demo.cpp`, `phold_mpi.cpp`, `radar_explosion_demo.cpp`,
  `entity_migration_demo.cpp`: smaller handlers of the same kinds as the modelled
  ones.
* `on_migration`: no LP of the library or the examples overrides it and saves
  state.
* Logging, formatting, command lines, CMake, MPI request handling, rounding of
  doubles, and the 64-bit hash functions.
