# Verification of the NASDAQ ITCH order book engine

TLA+ models of the C++ program in this repository, the TLC configurations that
check them and the TLAPS proofs about them. Paths are relative to the root of
the repository: `src/book/order_book.cpp`, `include/lob/spsc_ring.hpp`, ...

## 1. The system

`itch_replay` reads a file of NASDAQ TotalView-ITCH 5.0 messages, rebuilds the
limit order book of every instrument and reports statistics. One thread reads
and decodes, the other applies; a lock-free ring is between them.

```
 file -> ItchFrameReader -> ItchDecoder -> SpscRing -> MatchingEngine -> OrderBook -> PriceIndex
         \________ producer thread ____/             \__________ main() _______________/
```

| Component | State it keeps | Operations | What makes it correct |
| --- | --- | --- | --- |
| `OrderBook` (`src/book/order_book.cpp`) | orders by id; levels by side and price, each an intrusive FIFO list with its quantity and count; an index of active prices per side | `add`, `cancel`/`execute`, `erase`, `modify`, `replace`, `clear`, observers | the lists, aggregates and indices agree after any calls, failed ones included; time priority; the strong guarantee of calls that throw |
| `PriceIndex` (same file) | four tiers of 256-bit masks and child nodes | `add`, `remove`, `reset`, `minimum`, `maximum` | it is a set: no price appears or disappears with another, the extremes are right, no node leaks |
| `MatchingEngine` (`src/engine/`) | a book per Stock Locate, `resting_order_count_`, `stats_`, the limits | `apply` per message, `submit_limit`, `submit_market`, `clear` | exact counters, limits respected, books independent, price-time priority, no share made or lost, every call returns |
| `SpscRing` (`include/lob/spsc_ring.hpp`) | two atomic indices, slots of raw storage | `emplace`/`try_push`, `try_pop`, `full`, `empty`, `size`, destructor | FIFO, bounded, no data race, no leaked object, with indices that wrap |
| replay pipeline (`main`, `src/app/itch_replay.cpp`) | the ring, `producer_done`, `producer_failed`, counters | the producer's loop, the consumer's loop, join, exit status | applies what one thread would have applied, and ends |
| `ItchFrameReader` (same file) | file handle; the caller's buffer, used for every frame | `next_frame`, `read_at_most` | whole frames however the stream is cut into reads; end of file only between frames; no byte of an older frame |
| `ItchDecoder` (`src/itch/itch.cpp`) | none | `decode_next`, `decode_message` | the answer to a part of a message is never that of another; every byte in its member |
| `HdrHistogram` (`src/metrics/latency.cpp`) | bins, count, min, max | `record`, `reset`, `value_at_percentile`, `summary` | a bin for every value, exact extremes, the rank and precision of a percentile |

How they interact: the producer calls reader and decoder and pushes events; the
consumer pops and calls `MatchingEngine::apply`, which calls the operations of
exactly one `OrderBook`; a book activates and deactivates prices in its two
`PriceIndex`es. The threads share the ring, two atomic flags and, after `join`,
an error string. Simulation code calls `submit_*` on an engine of its own.

What is hard to test is listed, at its line, under `hazards` in `PROJECT.json`:
allocation failures between two steps of an operation; pointer relinking; the
priority rules; a counter that many handlers maintain from values read before
the change; limits tested before or after a sweep; the orderings of the ring;
stale reads of flags and indices; what is still queued when the producer stops; the
bytes that a reused buffer keeps; the ways a stream can end; rounding at the edge of
a bin or of a rank.

## 2. The modules

| Module | Role |
| --- | --- |
| `Book` | what a book is, as a value, and what each operation makes of it |
| `ReferenceBook` | the contract of `OrderBook` as a state machine over `Book` |
| `OrderBook`, `MCOrderBook` | the intrusive lists; implements `ReferenceBook` |
| `BookProofs`, `OrderBookProofs` | lemmas about book values and sums; theorems about the lists |
| `PriceSet` | the contract of `PriceIndex`: a set |
| `PriceIndex`, `MCPriceIndex`, `PriceIndexProofs` | the trie; implements `PriceSet` |
| `MatchingEngine`, `MCMatchingEngine` | the engine, over the values of `Book` |
| `MatchingEngineFaults`, `MCEngineFaults` | the engine when memory runs out |
| `MatchingEngineProofs` | theorems about the engine: its counters and limits, a sweep; failed allocations |
| `BoundedQueue` | the contract of the ring |
| `SpscRing`, `SpscRingProofs` | the ring under the C++ memory model; implements `BoundedQueue` |
| `SequentialReplay` | the contract of `itch_replay`: one thread, one message after another |
| `Replay`, `ReplayProofs` | the two threads; implements `SequentialReplay` |
| `ItchDecoder` | the decoder, as operators on sequences of bytes |
| `ItchStream` | the contract of the producer's input: the decoder, given the rest of the file again and again |
| `ItchFrameReader`, `MCItchInput`, `ItchFrameReaderProofs` | the reader in front of the decoder; implements `ItchStream` |
| `HdrHistogram`, `MCHdrHistogram`, `HdrHistogramProofs` | the latency histogram |

The layers rest on each other by contract. `OrderBook` uses a set of prices,
which `PriceIndex` is shown to implement. `MatchingEngine` uses book values,
which `OrderBook` is shown to implement. `Replay` uses a ring whose calls are
atomic and whose observers may be late, which is what `SpscRing` allows; the frames
it counts as "message", "undecodable" and "torn" are the ways in which a round of
`ItchFrameReader` ends: an event, a refusal of the decoder, a failed `next_frame`.

### Book and ReferenceBook

`Book` follows the repository's own reference model (`ReferenceBook`,
`tests/order_book_model_test.cpp:29-155`). A book maps the id of each resting
order to its side, price, quantity and `ahead`, the ids in front of it in the
deque of its level. A deque is thus a relation: its head has nobody ahead, and
removing an id from every `ahead` is erasing it from the deque. `Can...` is the
condition under which the operation of the same name returns true. A
`std::optional` is a set of at most one element.

### OrderBook

`impl` is `struct Impl`: `orders` (nodes with `level`, `previous`, `next`),
`levels` and `indices`. A pointer is the key of its target and `Null` is
`nullptr`. `append`, `detach`, `erase_node`, `get_or_create_level` and each
public operation are operators from `impl` to `impl`, since `replace` calls
`add` and `erase`; each public call is one action with three outcomes: `true`,
`false`, or `throw` with what the failing allocation leaves behind
(`add_throws`, `modify_throws`, `replace_throws`). `RepresentedBook` is the
refinement mapping: it follows `previous` to the head.

### PriceIndex

`node` maps an allocated trie node, named by the bytes that lead to it, to its
mask, a set of bytes. `add` allocates the whole path before it sets any bit and
may throw at each tier; `remove` climbs while masks become empty, destroying
nodes with everything below; `find` descends by lowest or highest byte.
Callers add inactive prices and remove active ones, and the actions say so.

### MatchingEngine

`books`, `resting_order_count` and `stats` are the members of the class. A feed
message is one action (`apply`). A submission is several: `Submit` (argument
tests), one `MatchStep` per iteration of the loop of `match()`, and `Return`.
`call` holds the locals of `match()`; `before` is a history variable, the book
that the submission found. The loop's two defensive exits (`:230-241`) have no
action: where the code would take one, the model deadlocks, and TLC checks
deadlock in both passing runs of the module.

`apply()` counts its message before its handler runs and the handler counts the
outcome; here both are in the same step (`report`).

### MatchingEngineFaults

Extends `MatchingEngine` by `null_books`, the locates whose entry of `books_` is a
null pointer, and by `fault`, how the last step ended. `ensure_book` inserts the
entry before it has a book, so a failure between the two leaves a null pointer.
It counts in `books_.size()` and not in `find_book`, which is why `can_create`
replaces `can_create_order`; an add that is let through to it dereferences it, and
that is the end of the program (`DereferenceNull`). Allocations fail in an add
(`AddFails`: entry, book, order), in a replacement that needs a new order or level
(`ReplaceFails`) and in the remainder of a limit order (`ReturnFails`). That the
book under a failed call is unchanged is what `OrderBook` shows.

### SpscRing

An index is the sequence of the stores made to it. A load picks any store not
older than what its thread has already seen of that index; acquire loads take
over what the storing thread had done and seen. A slot carries the ordinals of
its last construction and destruction, so that a thread about to touch it can
be asked whether it *knows* of the other's last access (`RaceFree`). `size()`
is called by a third thread. `full()` and `empty()` are not actions: they change
nothing, and their loads and tests are those of `emplace` and `try_pop`.
`ClearedSlots` is the walk of the destructor, as a sequence, so that a slot it
would visit twice or in vain shows. `Modulus` stands for 2^64.

### Replay

Frames are "message", "undecodable" or "torn" (`next_frame` fails). The ring is
the sequence pushed and the number popped; each thread has its own, possibly
old, view of the other's index, and of `producer_done`. Reading the flag as set
is an acquire load and brings all pushes along. `Terminate` is an exception that
leaves the producer's function or `main()`: nothing happens after it.

### ItchDecoder, ItchStream, ItchFrameReader

A file is a sequence of bytes and an ending: end of file, a read error, or a gzip
stream that was cut short, for which `gzread` answers 0 as at the end. Streams
deliver any of the numbers of bytes in `Reads`, never more than asked for or left.
`ReadPrefix` and `ReadPayload` are one call of `read_at_most` each, with the code
up to the next one; `Decode` is `decode_next` and the round of the producer's loop
around it. `frame` is the reused vector: `resize` keeps its bytes. A number that
`read_be` reads stays the sequence of its bytes, since nothing here calculates with
it; the length in front of a message is calculated. `ItchStream` has neither reads
nor buffer. `taken`, the bytes it has delivered, is the position of the reader
without the unfinished frame (`Pending`).

### HdrHistogram

The members of the class, and the history of what was recorded since the last
reset. `kSignificantBits` and `kBucketCount` are constants. Percentiles are in
tenths, and `Exceeding` is the set of those whose nearest `double` is above them: 99.9
and 0.1 of those that the runs ask for, not 0.3. Where a `long double` is wider than a
`double` (x86-64) the product with `count_` keeps the excess, and the code rounds up
what should be a whole rank (`Exceeds`). Other builds may round it away: there
`Exceeding` is empty. A `double` holds the multiples of a half exactly
(`HistogramAssumption`).

## 3. The runs

| Run | Module, config | Bounds | Distinct states |
| --- | --- | --- | --- |
| `order_book` | `MCOrderBook` | 3 orders, 2 prices, quantities 0..2, symmetric orders | 2 896 |
| `price_index` | `MCPriceIndex` | bytes of 4 bits, 7 prices | 1 639 |
| `engine_replay` | `MCMatchingEngine`, `MCEngineReplay` | 3 locates and 3 orders where 2 of each fit, 6 messages | 13 845 |
| `engine_matching` | `MCMatchingEngine`, `MCEngineMatching` | 2 locates where 1 fits, up to 3 adds, 2 prices, submissions of 0, 1 or 3 shares, spans of 0 or 2 fills | 370 266 |
| `replace_priority` | `MCMatchingEngine`, `MCReplacePriority` | as the feed of `engine_replay`, 3 messages | violation |
| `spsc_ring` | `SpscRing` | 2 slots, indices modulo 4, 6 items | 497 976 |
| `replay` | `Replay` | files of at most 5 frames, 2 slots | 17 093 |
| `engine_faults` | `MCEngineFaults` | 3 locates and 3 orders where 2 of each fit, 4 messages, limit orders of 2 shares | 99 793 |
| `input` | `MCItchInput` | 38 first messages and 4 second ones, cut anywhere, reads of 1, 9 or all bytes | 372 777 |
| `gzip_cut` | `MCItchInput`, `MCGzipCut` | the same files, read in whole | violation |
| `histogram` | `MCHdrHistogram` | 2 significant bits of 6, 6 durations, one of them up to 998 times | 31 968 |
| `percentile_rank` | `MCHdrHistogram`, `MCPercentileRank` | 999 short durations, 1 long one | violation |

Why these are enough. Three orders give a queue with a head, a middle and a
tail, and every branch of `detach` and `append`; two prices give every
combination of emptied and activated level. Seven prices part at each tier of
the trie and share all longer prefixes. Limits are below the number of locates
and orders so that both are hit. A sweep of three shares meets a partial fill,
several orders, several levels and a span too short; a remainder meets the
limit on orders before and after the sweep has freed a place, and the limit on books
when the other locate has taken the only one. A thousand records are where 0.1, 0.3
and 99.9 fall on whole ranks. Six items through two
slots with indices modulo four make the indices wrap and each slot be reused.
Two frames are what a reused buffer needs; the first is of
every type and size that the decoder tells apart, with each side, with none, and one
of 257 bytes, whose length has two digits. Bytes are numbered, so that one in the
wrong place differs. Two significant bits make four sizes of bins, and the durations
are zero, both ends of a bin, both sides of the exact range, the first of a wider
bin and the largest value.
`MaxMessages`, `MaxItems`, `MaxFrames` and `MaxRecorded` are the only bounds on
behaviours; they are guards of the action that counts.

### What they show

`order_book`. `WellLinked`: links are mutual, aggregates exact, the index holds
exactly the prices with orders, whatever failed. `ObserversMatchReference`: the
repository's `assert_equivalent` for every price. `NoOvertaking`: an order never
passes another without asking for more shares. `LeakOnlyOnThrow`: only a failed
allocation leaves an empty level. `ImplementsReferenceBook`: refinement, return
values and the strong guarantee included.

`price_index`. `BitsLeadToPrices`: every bit leads to an active price, so
`find()` never meets a null child. `FindsExtremes`, `EmptiedNodesAreFreed`,
`ImplementsPriceSet`.

`engine_replay`. `LimitsRespected`, `StatsAccount`,
`RejectedLeavesOrders` (a result that says nothing changed is right) and
`BooksIndependent`.

`engine_matching`. `FillsMatchBook` (conservation of shares), `FillsReported`
(the span holds one fill for each of the first orders that gave up shares, in the
order of their priority and complete, and the result counts those that did not fit),
`PriceTimePriority` (no order gives up a share
while one with priority has any left, none beyond the limit), `ReturnsComplete`
(every share is accounted for; nothing tradable is left when the call stops;
shares of a limit order are unfilled only if, after the sweep, the orders are at
their limit, or its locate has no book and the books are at theirs) and `CallsReturn`.

`spsc_ring`. `RaceFree`, `SizeNeverUnderflows` (what `size()` returns lies between the
two stores it read), `NoObjectLeaked` (the destructor's walk meets every slot with an
object once and no other), `ImplementsBoundedQueue`.

`replay`. `RingBounded`, `ImplementsSequentialReplay` (nothing lost, repeated or
reordered, right exit status, no success of a process that was aborted) and `Exits`.

`engine_faults`. `CountExact`, in the middle of a sweep and after failures;
`EntriesLimited` (the limits hold although null entries count and are not found).
That a failed call leaves the orders of its book alone is assumed here and shown by
`order_book`.

`input`. `ImplementsItchStream` (chunking, the reused buffer and the two ways of
finding the length do not show; a file that stops inside a frame has failed),
`AnswersAreFinal` (the decoder may be fed byte by byte, as its header promises, and
never asks the reader for more), `EventsCarryTheirMessage` (the offsets of the code
and the widths of the declarations cover a message exactly).

`histogram`. `ReportsExact`, `NearestRank` (to the relative precision that the
header promises) and, in `TypeOK`, that the largest value has a bin. Of a
thousand durations only a percentile whose `double` exceeds it is of the next rank,
and only where its own is a whole number.

`replace_priority` shows a disagreement: `docs/architecture.md:44` says that
"`U` replacement always loses priority", while a replacement that names the same
reference and price and no more shares keeps its place
(`order_book.cpp:374-376`, `:341-345`).

`gzip_cut`: a gzip file that was cut short is read as one that ended, since `gzread`
answers 0 for both and `read_at_most` asks `gzerror` only about negative answers
(`itch_replay.cpp:146-158`). The replay of part of a day succeeds, unless the cut
is inside a frame.

`percentile_rank`: the 99.9th percentile of a thousand durations is the largest,
rank 1000, while `latency.hpp:52` promises `ceil(p * count / 100)` and
`tests/concurrency_metrics_test.cpp:104` expects rank 999 (`latency.cpp:41-47`). It
needs a `long double` wider than a `double`.

### Fairness

`MatchingEngine`: weak fairness of `MatchStep \/ Return`. One thread runs the
call to its end; nothing can disable it. `Replay`: weak fairness of each thread
(the operating system schedules both; neither blocks), and strong fairness of
`main()` seeing `producer_done` and a pushed item: C++ asks that a store become
visible in finite time, and without this a spinning loop could read an old
value for ever. No other module has liveness.

`CHECK_DEADLOCK FALSE` is in the runs of `SpscRing` (the destroyed ring), `Replay`
(the exited program), `MatchingEngineFaults` (the crashed one) and
`ItchFrameReader` (the producer's loop has ended).

## 4. The proofs

Every theorem is about `Spec` of its module (those about failed allocations are about
`FaultSpec`) and holds for all values of the
constants that satisfy the module's assumption: any number of orders, prices,
locates, any capacity, any file. TLC evaluates the assumptions in the runs. A
property below that is an invariant is proved as `[]`. Few of them are inductive: each
is read off an inductive invariant, whose parts have names.

| Module | Theorems and what they prove of `Spec` | Assumption |
| --- | --- | --- |
| `OrderBookProofs` | `Typing`, `Linking` (`WellLinked`), `Observing` (`ObserversMatchReference`), `NoLeaking` (`LeakOnlyOnThrow`), `Queueing` (`NoOvertaking`), `Implementing` (`ImplementsReferenceBook`) | `BookAssumption`, `NullAssumption` |
| `MatchingEngineProofs` | `Typing`, `Counting` (`CountExact`), `Limits` (`LimitsRespected`), `Accounting` (`StatsAccount`), `Independence` (`BooksIndependent`), `Rejection` (`RejectedLeavesOrders`), `Conserving` (`FillsMatchBook`), `Reporting` (`FillsReported`), `Priority` (`PriceTimePriority`), `Completion` (`ReturnsComplete`) | `BookAssumption`, `EngineAssumption` |
| the same, of `FaultSpec` | `CountingFaults` (`CountExact`), `LimitsFaults` (`EntriesLimited`) | the same |
| `PriceIndexProofs` | `Typing`, `Leading` (`BitsLeadToPrices`), `Extremes` (`FindsExtremes`), `Freeing` (`EmptiedNodesAreFreed`), `Implementing` (`ImplementsPriceSet`) | `PriceAssumption` |
| `SpscRingProofs` | `Typing`, `NoRaces` (`RaceFree`), `NoUnderflow` (`SizeNeverUnderflows`), `NoLeak` (`NoObjectLeaked`), `Refinement` (`ImplementsBoundedQueue`) | `RingAssumption` |
| `ReplayProofs` | `Typing`, `Bounded` (`RingBounded`), `Refinement` (`ImplementsSequentialReplay`) | `ReplayAssumption` |
| `ItchFrameReaderProofs` | `Typing`, `Finality` (`AnswersAreFinal`), `Fidelity` (`EventsCarryTheirMessage`), `Refinement` (`ImplementsItchStream`) | `ReaderAssumption` |
| `HdrHistogramProofs` | `Typing`, `Reporting` (`ReportsExact`), `Ranking` (`NearestRank`) | `HistogramAssumption` |

`BookProofs` has the lemmas about book values that the first two share: the types
and the ids that each operation of `Book` leaves, that a side with orders has a best
price, and how the shares of a set of orders change with one of them.

### OrderBookProofs

`WellLinked` is not inductive: two orders that point at each other, with no head
before them, satisfy mutual links. The invariant, `OrderBookInv`, says that the lists
*represent* a book `b`: each node has the members of its order in `b`, `previous` is
the last of the orders `ahead` (`Before`), `next` has this order as its `previous`,
and where there is none everyone else in the queue is ahead (`After`); `head` and
`tail` are the ends (`Ends`), the cached numbers are those of the queue (`Counted`) and the
index is that of the non-empty queues (`Indexed`). That no list has a cycle is in
it, because `ahead` grows along a list and no order is ahead of itself.

An operation takes a node out of a list and has then a node in no list, so `Holds(m,
b)` allows `m` nodes that `b` does not have, and empty levels. Under it, `detach` is
`Leave` (`UnlinkHolds`), `append` is `PushBack` (`AppendHolds`), and making or
destroying an empty level changes nothing (`CreateHolds`, `DeactivateHolds`). Each public
operation is then put together from these (`AddMakes`, `EraseMakes`, `CancelMakes`,
`ModifyMakes`, `ReplaceMakes`; `AddThrows`, `ModifyThrows`, `ReplaceThrows` for what a
failed allocation leaves). `RepresentedIs` shows that the book is the one `RepresentedBook`
finds by following `previous`; so a step of the lists is a step of `ReferenceBook`
(`Steps`), and time priority is proved of books (`Fair`, one lemma per operation).

### The engine

`MatchingEngineProofs`. The inductive invariant is `Inv == TypeInv /\ CountInv`.
`CountExact` is not inductive alone: that a freed order was among the orders counted
needs the types of the books, that `Cardinality` moves by one needs the sets to be
finite, and that the limits hold after an add needs the count to be exact,
since the code tests the counter and not the books. The argument goes through
`Effect`: every step keeps the resting orders, adds one below the limit, frees
one, exchanges one for another or empties them, with the matching change of the
counter (`NextEffect`, one lemma per kind of book operation); `EffectCount` then
needs no case of `Next`. Accounting, independence and rejection rest on
`ApplyReports` and `ApplyLocalised`, which say what one message may write.

Its second half adds `SweepInv`, about the time between `Submit` and
`Return`: the shares taken from the book that the submission found are those filled
(`Taken`), what was taken is taken from the front (`SweepOrder`), and the span and the
counters tell of it (`SweepReport`). Priority is a statement about the book before the
call and now, so the invariant has to say of each order whether it is untouched,
touched or gone. A fill is reported once and behind those with priority over it
(`FillAt`), because the order that is hit has priority over none of those taken before
(`TakenKept`); that all of those are in the span while it has room is the last part of
`SweepReport`, which an invariant about the entries of the span alone could not give.

For `FaultSpec`, `EntriesInv` is added to `Inv` (together `FaultInv`): the null
entries are not books, and with the books they are within the limit. The count stays exact because a
call that throws leaves it and the orders alone.

### PriceIndexProofs

The invariant is `Trie(node)`: the names of the nodes and their parents (`Nodes`), and
that every bit of every mask is on the way to a price (`Leads`), which is
`BitsLeadToPrices` with the way written byte by byte (`On`). It is inductive with what
each operation does to the set of prices. `add` allocates nodes without bits, which
lead nowhere (`AllocateKeeps`), so a failed add changes no price. `remove` stops at
the lowest node that another price shares (`Stops`, `RemoveIs`): every other price
has left the way to this one before that (`LeavesWay`), so none is destroyed with
it, and what remains above still leads somewhere (`RemoveKeeps`). `find` takes one step
for each tier (`Descend`), never from an empty mask. That the price it puts together is
the least one needs that the bytes determine a price (`BytesAre`, from repeated
division) and that the first byte that differs decides (`ValueOrder`); `Unit` is
written with products, since the provers know nothing of powers.

### SpscRingProofs

The indices wrap, so `Inv` counts the items pushed and popped beside them: the k-th
store of an index publishes k - 1 items, modulo `Modulus` (`StoresCount`). It says what
each thread knows and, from its program counter, where it stands (`Produces`,
`Consumes`, `Observes`), that an object in a slot was built and is not gone and belongs
there (`SlotsHold`), and that every item built and not gone is in its slot
(`ItemsHeld`). `RaceFree` follows since a producer that has seen room in a possibly old
read index knows of everything destroyed up to it, and less than a round of items lies
beyond. `WalkOfClear` unwraps the walk of the destructor: it goes over the slots of the
items pushed and not popped, and two of them in one slot would be one. That the capacity divides the modulus (`RingAssumption`) is what makes a
wrapped index name the same slot.

### ReplayProofs

`Inv` says why each property holds: what is pushed is the file so far (`Pushes`); the producer stops
only at the end or at a broken frame, and its flag tells which (`Produces`); a
view is never newer than the truth, and the ring is within its capacity even
from the oldest read index (`Views`); who has seen `producer_done` has seen every
push (`Knows`), so that `main()` leaves only when nothing is left, and an exit status
is that of `main()` (`Leaves`);
what is applied is what was popped, but for the event in hand (`Consumes`).
`Apply` and `JoinAndExit` then map to the two actions of `SequentialReplay`, and
every other step to a stutter. These theorems are about `Spec`; `FairSpec` is
needed by `Exits` alone.

### ItchFrameReaderProofs

`Inv` adds to the types what the buffer holds: the bytes of the file that the reader has
passed since the last frame, and beyond them whatever older frames have left
(`Held`), and that the last event is the decoder's answer to the last frame
(`LastDecoded`). The decoder's layouts cover each message without gap or overlap
(`LayoutTiles`), hence `Fidelity`, and its answer depends on the bytes of one message
only, hence `Finality` and the refinement: the end of a frame is one delivery of
`ItchStream`, every other step a stutter.

### HdrHistogramProofs

`HistogramInv` says that each bin, and the first bins together, count what the history
has of their values (`Tallies`), and that minimum and maximum are those of the values
recorded, zero when there are none (`Ends`). That is inductive, for sums over any finite
set (`SumIs` unfolds the community module's fold, `SumTake` takes any element out of it).
The arithmetic is in three lemmas about `index_for`, each for every significant width:
it stays inside the array (`IndexRange`), the lower bound of a bin is within the promised
precision of each value in it (`IndexRepresents`), and larger values never have
a smaller bin (`IndexMonotone`). Because of the last, the first bin that reaches a rank
is that of the value of this rank, whatever else it counts (`BinOfRank`); that the code's
truncation and increment are the ceiling, or one more where the percentile exceeds
itself, and that neither is beyond the last rank, is `RankIs`. `Typing` covers all durations of the modelled width, so also 64 bits
with 10 significant ones, as in the code. Powers of two are a recursive function
here (`PowerOf2`), whose equations `PowerIs` proves.

### How the proofs are made

Induction over data is made through sets: the numbers, or the subsets of a finite set,
for which a statement holds form a set, and `NatSet` and `SubsetSet` (`BookProofs`)
say when it has them all (`HdrHistogramProofs` has its own copies: it knows no book). Sums over a level are therefore proved for every level, and
`ahead` is followed to the head of any list. An instance has its own copy of the
operators of the module it is an instance of; `SameOperations` and the like say
that copy and original agree.

Only model-checked: liveness (`CallsReturn`, `Exits`), since fairness and `ENABLED` are
out of the provers' reach.

## 5. Not modelled

- Callers that change a book through the non-const `find_book`: the repository has
  none, and the engine's contract excludes them.
- The README's claim that simulation does not contaminate "historical data". Submissions
  do take shares from the recovered book, as `FillsMatchBook` says; messages that later
  name those orders are then rejected. The claim can be read as one about the file.
- Widths of prices and quantities in the book: level quantities are 64-bit sums
  of 32-bit shares and cannot overflow before memory does. Counters of 64 bits, and
  the rounding of percentiles beyond 2^43 records, where the excess of a `double`
  reaches a thousandth of a rank.
- The words of a trie mask; cache lines; the reason texts of errors.
- `OperationLatency`, which picks one of four histograms by the kind of an action, and
  the printing of summaries, checkpoints and snapshots: they read and change nothing
  that other parts use.
- The command line and the benchmark: straight-line code without state. The parsed
  options are constants here.
- Opening and closing files. What `ifstream` and zlib do inside is external.

## 6. Plan

Every safety property, action property and refinement that a run checks is a theorem.
Left is the composition of the layers, which section 2 gives in words: that a book whose
index is a trie, and an engine whose books are lists, behave as the models over their
contracts do. Callers of the non-const `find_book` come first, should there ever be any.
