# A TLA+ development for Winter Square

Winter Square is a header-only C++20 library: UDP multicast datagrams go through
a lock-free ring to a protocol parser, and the normalised messages through
lock-free queues to subscribers. This directory holds TLA+ modules for its parts, TLC
configurations that check them on small instances, and TLAPS proofs, for all sizes, of every
safety property that the passing runs check: of both queues, the engine's threads, order and
counters, the ITCH framing loop, and the wire format. `PROJECT.json` maps every
definition to the lines it models and lists runs, mutants, findings, hazards and theorems.

## The system

| Part | State | Operations | Hard behaviour |
|---|---|---|---|
| `SPSCQueue` (`core/distribution/lockfree_queue.hpp`) | `head_`, `tail_`, `buffer_` | `push`, `pop`, `empty`, `full`, `size` | two threads, relaxed/acquire/release accesses, wrapping indices, one reserved slot |
| `MPSCQueue` (same file) | `head_`, `tail_`, per slot `sequence` and `data` | `push`, `pop`, `empty` | compare-exchange race of producers, claim and publication apart |
| `UDPReceiver` (`core/network/udp_receiver.hpp`) | socket, `running_`, thread, `packet_queue_`, `stats_` | `initialize`, `start`, `stop`, `read_packet`, `receive_loop` | thread blocked in `recvfrom`, ring full |
| `Dispatcher` (`core/distribution/dispatcher.hpp`) | `subscribers_`, `queues_`, `running_`, thread, `stats_` | `add_subscriber`, `start`, `stop`, `dispatch`, `dispatch_loop` | queue full, drain loop, join before `shutdown` |
| `ISubscriber` and adapters (`core/distribution/subscriber.hpp`) | the application's | `initialize`, `on_message`, `shutdown` | called from the dispatcher thread |
| `CoreEngine` (`core/core_engine.hpp`) | `running_`, `parser_`, thread, `stats_` | `set_parser`, `add_subscriber`, `initialize`, `start`, `stop`, `get_stats`, `parse_loop` | order of start and stop, restart with queued data |
| `ItchParser` (`protocols/itch50/`) | counters, `stock_map_`, the caller's output array | `parse`, `reset` | framing by untrusted lengths, partial conversions, array reused |
| `Statistics` (`core/types.hpp`) | counters | `update_latency`, `avg_latency_ns` | which events are counted, and where |
| `EchoParser`, `NullParser` (`core/parser/parser_interface.hpp`) | none that is read | `parse` | an output array of no size, an invalid view |
| `ParserRegistry` (`protocols/common/parser_registry.hpp`) | `factories_` | `register_parser`, `create_parser`, `has_parser` | filled before `main`; null for an unknown name |
| Example programs (`examples/basic_example.cpp`, `itch50_example.cpp`) | `running`, where `main` is | `main`, `signal_handler` | the signal at any time |
| ITCH generator (`examples/itch_generator.cpp`) | none | `build_add_order`, `build_order_executed`, `build_trade`, `build_packet` | offsets and lengths spelled out on both sides of the wire |

Threads: the application, the receiver thread, the parser thread and the
dispatcher thread. The receiver pushes packets into an SPSC queue that the parser
thread pops; the parser thread pushes messages into one SPSC queue per
subscriber, which the dispatcher thread pops. `MPSCQueue` is offered but not
used by the engine.

## Modules

| Module | Models |
|---|---|
| `Atomics` | `std::atomic<size_t>` (external): a location is its modification order; a load returns any store not older than the last one read; acquire loads of release stores record what happens before |
| `BoundedFIFO` | the abstract queue: `Put` when there is room, `Take` when there is an item |
| `SPSCQueue` | `push` = `PushLoad`, `PushWrite`, `PushPublish`; `pop` = `PopLoad`, `PopRead`, `PopRelease`; one step per access to shared memory |
| `SPSCObserver` | `empty`, `full`, `size` called by the producer or the consumer, and `size` by a third thread, on top of `SPSCQueue` |
| `RingArithmetic` | lemmas about `%`: masked counters less than a lap apart differ, and their masked difference is their difference; induction over an interval |
| `SPSCQueueProofs` | the proofs about `SPSCQueue` and its observers |
| `MPSCQueue` | `push` = `PushLoad` (both loads), `PushClaim`/`PushClaimFails`, `PushWrite`, `PushPublish`; `pop` = `PopLoad`, `PopRead`, `PopRecycle`, `PopAdvance` |
| `MPSCQueueInvariant` | the inductive invariant of `MPSCQueue` with more than one slot, and that `push` keeps it until it publishes |
| `MPSCQueueProofs` | that `pop` keeps it, and the theorems |
| `Counters` | the growing counters, capped at `CountTo` |
| `UDPReceiver`, `Dispatcher` | the actions of the two components on their own state |
| `ParserRegistry` | the map of factories, in the order of the static registrations; the first of a name stays |
| `LossyFeed` | the abstract pipeline: packets are sent, and each subscriber is called with messages of sent packets in increasing order |
| `CoreEngine` | their composition with the application's calls, the parser thread and the network; implements `LossyFeed` |
| `CoreEngineProofs` | the proofs about the life cycle of its threads, the registry, and the types; the invariant of what flows through it |
| `CoreEngineFlowProofs` | the proofs about what flows through it: order, refinement of `LossyFeed` |
| `CoreEngineCounterProofs` | the proofs about the counters: packets, messages, parse errors, drops |
| `ExampleApp` | `main` of the two examples and the signal handler around `CoreEngine`, beside an application that calls as it likes |
| `ByteOrder` | the big-endian readers and writers as arithmetic on bytes; offsets as running sums of widths |
| `ItchGenerator` | the generator's messages as maps from argument to offset and width, and its packets |
| `ItchMessages` | packed structs as sequences of field and width, `get_message_size`, which struct field each conversion reads into which output field |
| `ItchParser` | the framing loop, one round per step, called by `parse_loop` with one reused output array |
| `ItchParserProofs` | the proofs about the framing loop, the conversions, the byte order and the generator |
| `MCMPSCQueue`, `MCCoreEngine`, `MCItchParser` | instances for TLC: the threads, the packets; `SPSCQueue` and `SPSCObserver` are checked as they are |

Names follow the source. Operators with an underscore and a description
behind the name of another definition (`SeesFull_OneTooFew`) are deliberate
errors: each property is known to fail when one of them takes the place of the
definition it mutates.

### How the models abstract

* A slot's access is unsynchronised, so the queues record for each slot the
  store that follows its last access. `NoDataRace` demands that the next accessor has
  acquired that store. Moving out of a slot leaves it unchanged or blank.
* In `MPSCQueue` each slot's `sequence` has its own modification order and no order
  between locations is carried over by acquire loads. This admits more stale
  reads than the hardware does, so what holds in the model holds in the code.
  One `access` position per slot suffices: the store at each position was made by a
  thread that had acquired the one before.
* In the engine the queues are atomic. `Refinement` justifies this: every
  behaviour of `SPSCQueue` is one of `BoundedFIFO`, in which a failed call is a
  stutter. A call that reads the other side's index stale fails although it need not,
  and in the engine a failure has consequences: a push that fails is a drop,
  possible whenever the items ever popped and those queued would fill the ring
  (`MayLookFull`, `MayLookFullTo`; this admits a few more failures than the code, where an
  index once read is never older again), and a pop that fails ends a round (`ParseNothing`
  and `LoopNextSubscriber` have no test of emptiness). `CallsAnsweredSoundly` proves that
  these guards cover the code: a push of `SPSCQueue` fails only if that many items
  were ever pushed, and a call succeeds only if there is room, or an item.
* `packets_received` is bumped in a step after the push, which the parser
  thread can overtake.
* The counters are plain variables. Reading them while their threads run is a data
  race, so nothing is stated of such a reading. What is stated of the counters
  (`CountersAgree`, `PacketsAccounted`, `ErrorsAccounted`, `DropsAccounted`) is about the values their
  threads have written, less what is still in a thread's hand; after `stop()`, when the joins
  order every write before it and no thread holds anything, `get_stats()` returns these values.
* `taken` counts the datagrams that `recvfrom` has returned with bytes in them. The code has no
  such counter: it is what `packets_dropped` is measured against.
* Loads of the `running_` flags return the newest value; a stale one is a
  delay of the step.
* A packet in `CoreEngine` is its number and how many messages it gives; in
  `ItchParser` it is its frames, with the two bytes of each length field, cut at
  `MAX_PACKET_SIZE` as `recvfrom` cuts it. Other field values are not modelled, only
  their origin: `<<call, offset>>`.
* `recvfrom` may fail at any time, but this is never relied on.
* `initialize()` tests nothing. That it is called on a stopped engine, as in the examples,
  is a rule of use, which `Application` keeps; no property claims that the engine enforces it.
* A parser is its kind and whether it is new, initialized or reset. The
  application takes it from the registry, which returns null for an unknown name.

## Runs

Bounds are chosen so that queues fill, indices wrap, and the engine restarts.

| Run | Instance | Shows |
|---|---|---|
| `spsc` | 4 slots, 2 items, 6 pushes, fair | no data race, FIFO, exact index tests, refinement; accepted items are popped, retried pushes get in |
| `spsc_owners` | 4 slots, 5 pushes | `size`, `full`, `empty` of the owners are safe bounds; a check guards its call |
| `mpsc` | 2 producers, 2 slots, 4 pushes, fair consumer | no data race, exclusive slots, `empty` agrees with `pop`, refinement in claim order; what was claimed before a stalled producer is popped, and everything if none stalls |
| `engine_safety` | 2 subscribers, queues of 1, 2 datagrams, 2 starts, an Echo, Null, ITCH or null parser | thread lifecycle, subscribers called only when ready, dispatcher outlives parser, parser present, and not replaced or reset under the parser thread, order, every packet, message, parse error and drop accounted for, refinement of `LossyFeed` |
| `engine_stop` | endless datagrams; the two examples, or any application with 2 starts | `stop()` gets as far as joining the receiver thread, traffic or not; in traffic it returns, and after a signal the programs end |
| `itch` | 2 packets in a row: up to 3 frames of a few types, or one frame of any type, whole or a byte short, with every ending; up to 3 messages of the generator; buffer of 120 bytes, array of 2 | reads stay in the message, the output is the packet, the generator is understood field by field, every round of the loop advances (so `parse` returns) |

The six runs that exhibit a disagreement are listed below.

Six pushes take a ring of four slots through one and a half laps, so
every slot is reused; four pushes take two MPSC slots through two laps. Capacity 1 in
the engine makes every second push fail. A buffer of 120 bytes cuts the generator's largest
packets in the middle of a message. Two messages per packet with packets of none and three give
both an error and a cut. `CountTo` is above every count reached
where counters matter, and 0 where traffic is endless and nothing is counted (there
a push fails only on a full queue).
Deadlock checking is off where a bounded number of datagrams or packets ends
the behaviour, and in `engine_safety` because `stop()` can hang (below).

Fairness. `spsc` assumes that a thread inside a call goes on, that the consumer
calls `pop` again and again and the producer retries, and that a repeated load
eventually returns the newest store: C++ requires stores to become visible in
finite time. `mpsc` assumes this of the consumer only: `PrefixPopped` holds even if a producer
stalls for ever, and `EveryPushPopped` has `ProducersGoOn` as a premise. The
engine assumes that the operating system schedules each thread that can take a step (weak
fairness per thread) and that `on_message` does not block, which its
contract demands; the examples add that their main thread is scheduled and `sleep_for`
returns. Nothing is assumed of when, or whether, a signal comes, nor of the network: that
datagrams keep arriving (`Traffic`) is a premise of `StopReturns` and `ProgramExitsInTraffic`.
`StopReachesReceiver` does without it, so the join of the receiver thread is the only place where
a silent network can hold `stop()` up, which is what `engine_stop_silent` exhibits.

## Disagreements found

Each has a run that exhibits it and an entry under `findings`.

* `spsc_third_thread`: `size()` from a third thread can exceed anything the
  queue ever held ("approximate size (may be stale)").
* `mpsc_one_slot`: `Size = 1` passes the `static_assert` and overwrites items.
* `engine_stop_silent`: "Press Ctrl+C to stop" does not end an example while no datagram
  arrives: `stop()` waits for a thread blocked in `recvfrom`, which `signal()` restarts.
* `engine_drops`: `get_stats()` leaves out the dispatcher's drops.
* `itch_stale_fields`: conversions leave fields of an earlier message in the slot.
* `itch_average_latency`: the average can lie below the smallest sample.

Other things the models show, which have no run of their own:

* A producer of `MPSCQueue` that is suspended between its claim and its
  publication hides the completed pushes behind it: `pop` returns false ("Queue is
  empty"). Only the pushes claimed before it are sure to come out (`PrefixPopped`),
  although `src/README.md` speaks of wait-free communication.
* `dispatch_loop` ignores the result of `on_message` (a TODO in the source).
* `dispatch_loop` drains one queue before it looks at the next, so a
  subscriber whose queue is refilled as fast as it is drained delays the ones after it.
* A packet of skipped messages counts as a parse error in `parse_loop`.
* The fields of `StockDirectoryMessage` make 40 bytes, not the 41 of its comment and
  `SIZE`. The assumption `StructSizes` of `MCItchParser` has TLC add up every struct.

* `StatisticsSubscriber` prints "Stats (last 5s)" of counts it never clears, and the
  generator's "Reference older order" names orders that were never added while
  fewer than 1000 exist.
* `UDPReceiver::stop()` and its destructor leave the socket open if the receiver was
  initialized and never started.
* After `stop()` the socket is closed; `start()` without `initialize()` runs an engine
  that receives nothing.

## Proofs

`SPSCQueueProofs` proves, for every `Size > 0`, item set and `MaxPush`:
`TypeCorrect`, `FifoOrder`, `RaceFreedom`, `IndexTests`, `CallsAnsweredSoundly` and
`Refinement` (`Spec => ImplementsFIFO`). Assumptions: `SizeAssumption` (a positive natural; that
it is a power of two is only needed to read `& (Size - 1)` as `%`),
`BlankAssumption` and `MaxPushAssumption`.

None of the properties is inductive. The invariant `IInv` adds:

* `IndexShape`: the k-th store to an index holds k - 1 masked, and is a release
  store; so positions of the modification order are counts of pushes and pops;
* `Window`: with n pushes and m pops, at most `Size - 1` items are between; what each side has read
  of the other is within reach, and a call past its test has room or an item;
* `Contents`: slot `Masked(j)` holds item j + 1 for each j in the window;
* `Accesses`: the last write and read of a slot belong to the position the slot
  stands for, and what a side has acquired is exactly what it has read.

The argument for races: two counters in the same slot are at least `Size` apart
(`SameSlotLapApart`), so a push that found room has read a `tail_` store
behind the last pop from its slot, and by the acquire order that pop happens
before. `NextInv` has one lemma per action. The proof of `Refinement` maps
`PushPublish` to `Put`, `PopRelease` to `Take`, and every other step to a stutter.

It also proves `OwnerBounds`, `CheckedCallSucceeds` and `ObsTypeOK` for
every `Size`, for `ObsSpec`, in which a third thread looks on too; `OwnersAreObserved`
carries them over to `OwnersSpec`, the specification of the run. `ObsIInv` adds to `IInv`:

* `Knowledge`: what an owner was told is covered by the position of the other index
  its load returned, and so stays true while the other side moves on;
* `Carried`, `ObsShape`: every store carries a position that the other index has reached, so
  the views of the third thread stay inside the modification orders.

`LookingIsHarmless` carries the queue's own properties over to `ObsSpec`.

`MPSCQueueInvariant` and `MPSCQueueProofs` prove `TypeOK`, `NeverOverfull`, `ExclusiveSlots`, `NoDataRace`,
`EmptyMatchesPop` and the refinement of `BoundedFIFO`, for every finite set of producers
and every number of pushes. Each theorem has the hypothesis `Size > 1`: for
`Size = 1`, which the assertion in the code admits, they are false, as the run
`mpsc_one_slot` shows, because a published slot then looks free. The invariant `IInv` says:

* `Counts`: `head_` and `tail_` count claims and pops, at most `Size` apart;
* `Growing`: the numbers in a slot only grow, by release stores. So a producer whose
  compare-exchange succeeds on an old reading has read the newest number of the slot after all;
* `SlotStates`: in the window of `Size` positions the newest number of a slot tells
  published (`j + 1`) from free or claimed (`j`). This is where `Size > 1` enters: `j + 1` must
  not be the free position of the next lap;
* `Claims`: a position between claim and publication has one producer, who has seen the
  newest number of its slot;
* `Contents`, `Accesses`, `Tally`: what the slots hold, who is inside one, and
  that claims are published or held.

The refinement maps `PushClaim` to `Put` and `PopRecycle` to `Take`.

`CoreEngineProofs` proves, for every number of starts and subscribers, every capacity,
traffic and registry, `ThreadLifecycle`, `SubscribersReady`,
`DispatcherOutlivesParser`, `ParserPresent` and the action property
`ParserUnshared`, which is about `set_parser` and the `reset()` of `stop()`. These need no assumption on the constants. Each property speaks of a
few steps of `main`; the inductive invariant `Control` says for every step of
`start()` and `stop()` which thread exists and which flag is set:

* `MainAt`: the engine's flag inside `start()` and `stop()`;
* `ReceiverAt`, `DispatcherAt`: a set flag means a thread inside its loop, a cleared one no
  thread, except between the flag and the join of `stop()`;
* `ParserAt`: the parser thread exists exactly while the engine is started and up to its
  join, and `parser_` is not null from `start()` to that join;
* `SubscribersAt`: while the dispatcher thread exists all subscribers are
  initialized, and it delivers to one of them.

Each group of actions (calls, steps of `main`, the three threads, the network) has a
lemma that it preserves `Control`. On top of it `EngineTypeOK` proves `TypeOK`, with
`Rest`: outside their working steps the parser and dispatcher threads hold no message.

`FirstRegistrationWins`, which the types of the engine rest on, says what the registry gives
for every sequence of registrations: a registered name the parser of its first registration,
any other name none. Its only assumption is `RegistrationsAssumption`, the shape of a
registration. `factories_` is a recursive function; that it has the values its equation gives
is shown by induction on the number of registrations, as a set (`IntervalInduction`).

`CoreEngineFlowProofs` proves, for every number of starts and subscribers, all capacities and
registries, `MessagesInOrder` (`InOrder`) and `EngineImplementsFeed` (`Spec => ImplementsFeed`), from

* `Lines`: for each subscriber, delivered, in hand, queued, pending are in order, where the
  first pending message is already behind a subscriber that `dispatch` has served;
* `AllGenuine`: only messages that a packet can give;
* `Flow`: parsed, in the ring, in the receiver's hand and in the socket are packets of
  separate, rising ranges of numbers.

`CoreEngineCounterProofs` proves

* `CountersAlwaysAgree` (`CountersAgree`) and `PacketsAlwaysAccounted` (`PacketsAccounted`), from
  `PacketsCounted` and `MessagesCounted`, which bound each counter by the datagrams sent, so that
  none stops at its cap;
* `ErrorsAlwaysAccounted` (`ErrorsAccounted`): the packets read and not counted as errors gave one
  to `max_messages_per_packet` messages each. `ErrorsCounted` says this without the packet in the
  parser thread's hand, whose messages are counted once all are dispatched;
* `DropsAlwaysAccounted` (`DropsAccounted`): what the subscribers missed is what the
  dispatcher counted. The sum over the subscribers is written as the number of pairs
  of a subscriber and a message it missed, a finite set that `dispatch` enlarges by
  one pair with every drop and leaves alone with every push.

The hypothesis `Numbered` of the order theorems says that the bound `CountTo`, at which the model
stops counting, is not below the number of datagrams, for otherwise two of them
have the same number; `Countable` says the same of the messages, `CountableDrops` of
the messages times the subscribers. They speak of bounds of the model, not of the code, whose
counters have 64 bits, and hold in `engine_safety`.

`ItchParserProofs` proves `TypeOK`, `ReadsStayInMessage`, `OutputIsThePacket` and the
action property `EveryRoundAdvances` for packets of every content and length, receive
buffers and output arrays of every size. The invariant says of a round
(`InLoop`) that all frames in front of `offset` fit, that `offset` stands at a frame if three
bytes are left, that nothing behind it was read, and that slot j holds
the convertible frame that has j others before it; of the return (`AtReturn`) that this
is so of the whole packet. `GoodGrows` is the heart of a round, `GoodComplete` of the three
ways out of the loop, and `RankUnique` makes `Expected` unambiguous. Assumptions:
`ItchAssumption` and `FrameAssumption`, the shape of a packet; its frames are listed for exactly
the offsets a chain of length fields leads to, with any two bytes as length.

`ConversionsFit` proves what `ReadsStayInMessage` rests on: for each type of the switch, the fields
that the conversion reads end inside `get_message_size`. Offsets are a recursive function, running
sums of widths; `OffsetsAddUp` and `OffsetsGrow` prove by induction that they satisfy
their equation and never decrease.

`ParserMatchesGenerator` proves `GeneratorUnderstood` for packets of any number of messages, under
`GeneratorAssumption` (such a packet is what `build_packet` makes of its messages):

* `BuiltPacket`, by `OffsetsAddUp`: the frames of the packet start where the ones before end;
* `WholeIsGood`: the i-th message that arrived whole is the i-th the parser converts, also
  when `recvfrom` cut the packet, because i - 1 start in front of it (`ImageSize`);
* `ReadWhereBuilt`, from the offsets of the three structs: each field is read from the bytes its
  argument was written to.

`RoundTrip16`, `RoundTrip32` and `RoundTrip64` prove that `read_uN_be` inverts `write_uN_be`
for every value, the last two beyond the integers of TLC.

Only model-checked: liveness, that is `EveryPushPopped`, `RetriesSucceed`, `PrefixPopped`,
`StopReachesReceiver`, `StopReturns`, `ProgramExitsInTraffic` (fairness is out of the prover's reach), and the six
disagreements. The proofs cite assumptions on constants only; TLC evaluates each of them.

## Not modelled

* The values of message fields, with the `side` conversion: a pure copy of bytes
  whose places `GeneratorUnderstood` and `ReadsStayInMessage` check.
* The subscribers of the examples and the adapters of `subscriber.hpp`: they forward
  or count a message and print. The random arguments and the sending loop of the
  generator, and `udp_sender.cpp`: input and output.
* `list_parsers`, `has_packets`, `get_stats` of a parser, `write_u48_be`: they change
  nothing or are not called.
* CPU affinity, socket options, Windows stubs; tests, which were read for
  what they assert.
* A reading of the statistics that races with their writers: undefined, so any value.
* `initialize()` on a running engine: it swaps the descriptor under a thread in `recvfrom`.
* `Size = 0`, which the assertions admit and nothing instantiates.

## Plan

1. Extend: field values and the `side` conversion; `initialize()` on a running engine, with descriptors.
2. Prove: that a field of an output slot always comes from a packet parsed since the
   array was made.
