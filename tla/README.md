# zFTL in TLA+

A verification development for zFTL, a flash translation layer with in-line LZ4
compression. The modules here model the C++ firmware under `src/` with the LZ4 block codec
it uses, the hardware decompressor under `hdl/` and the compressed-memory controller under
`legacy/`. TLC checks them on small instances. TLAPS proves the safety properties of the flash
model, the FTL, the benchmark, the hardware decompressor and the compressed memory for every
geometry, number of logical blocks, threads and lines, and set of host data, and the bounds
of the LZ4 block compressor and decoder for every input and every size of the output.

Paths below are relative to the repository root (`src/ftl_controller.cpp` is the file
`src/src/ftl_controller.cpp` of `PROJECT.json`, which prefixes the root directory).

## 1. The system

### 1.1 Components

| Component | State | Operations | Talks to |
|---|---|---|---|
| **LZ4Compressor** (`src/lz4_compressor.cpp`) | none | `Compress` (zero test, LZ4, raw fallback at 3072 bytes, slot quantization), `Decompress` | LZ4 library |
| **FlashModel** (`src/flash_model.cpp`) | blocks of pages: `is_programmed`, `page_valid`, data, `invalid_page_count`, `erase_count`; telemetry counters; `flash_mutex_` | `ProgramPage` (refuses a programmed page), `ReadPage`, `EraseBlock`, `InvalidatePage`, `GetTelemetry`, `ResetTelemetry` | called by the FTL |
| **FTLController** (`src/ftl_controller.cpp`) | `lba_table_`, active block and page, reserve block, `staged_half_`, `block_page_owners_`, telemetry counters, `ftl_mutex_` | `WriteBlock`, `ReadBlock`, `FlushStagedWrites`, garbage collection (private), telemetry | compressor, flash model |
| **Benchmark runner** (`src/main.cpp`) | one controller for all workloads | `RunWorkload`: reset of the counters, write loop, flush, report | FTL |
| **LZ4 library** (`src/lz4.c`, vendored) | per state: hash table, `currentOffset`, `tableType` | block compression (`default`, `fast`, `fastReset`, `destSize`), `LZ4_decompress_safe` and its partial variant | called by the compressor |
| **LZ4 decompressor core** (`hdl/lz4_decompressor_4k.v`) | FSM state, length and offset registers, 4 KB window, output register | one clock edge; AXI-Stream slave and master handshakes | AXI-Stream peers |
| **Legacy line table** (`legacy/src/line_table.cpp`) | `entries_`, `physical_dram_`, four free lists, bump pointer, two counters; `alloc_mutex_` | `StoreLine`, `LoadLine`, `Reset` | BDI engine |
| **Legacy HyperRAM controller** (`legacy/src/hyper_ram_controller.cpp`) | telemetry | `Read`, `Write`, `GetTelemetry`, `ResetTelemetry`, no lock | line table, BDI engine |
| **Legacy BDI engine** (`legacy/src/bdi_engine.cpp`) | none | `Compress`, `DecompressRaw`, `GetQuantizedSlotSize` | called by the two above |
| **Legacy AXI hardware** (`legacy/hdl/`) | FIFO pointers, AXI channels | not modelled | |

The write path: `WriteBlock` invalidates the page that the LBA's mapping entry names and
drops an older staged version; it then compresses. A zero block becomes a mapping-table
state and no flash page. A block of at most 2048 compressed bytes waits in `staged_half_`
for a partner and shares a page with it. Everything else takes a page of its own, after
the staged half has been flushed alone. Placing a page may first collect garbage: the
block with most stale pages is the victim, its valid pages move to the reserve block, the
LBAs recorded in `block_page_owners_` are re-pointed, the victim is erased and becomes the
active block, and the reserve pointer moves to the next block number.

### 1.2 What is hard here

* A page has up to two owners but one valid bit (`InvalidatePage` is per page).
* Four structures must agree (mapping entry, owner list, valid bit, page contents), and
  garbage collection updates them with separate index arithmetic, page by page.
* The current copy of an LBA may be in the staging buffer while its mapping entry names
  an older page, which collection may erase or hand out again.
* One `WriteBlock` call may place two pages and collect twice.
* `ProgramPage` returns false on a programmed page; no caller looks.
* The reserve pointer advances by block number, not by what the block holds.
* `FlushStagedWrites` is public and takes no lock, and the collection it may start does not
  either; a read may run between any two of their steps.
* The figures the benchmark divides come from counters of two classes, reset while a block
  may still be staged.
* The compressor's raw threshold (3072) and the FTL's half-page limit (2048) differ.
* In hardware: back-pressure between a stalling producer and a stalling consumer, a window
  that outlives reset, and an end of block that is recognised in two different states.
* In `lz4.c`: copies of 8, 16 and 32 bytes whatever the length, each guarded by a distance
  to an end of a buffer; a hash table that outlives a call; output sizes that end a block
  early; pattern tables for overlapping matches.
* In the legacy memory: an entry is copied under the lock and its DRAM read without it; a
  partial write is a load and a store with no lock around them; a store gives its run away
  before it knows that it gets another; signed overflow decides between patterns.

`PROJECT.json` lists each hazard with its line and the properties aimed at it.

### 1.3 What correct means

* *Compressor*: decompressing what was compressed gives the block back, for every length
  LZ4 may return; the slot is the smallest that fits.
* *Flash*: no overwrite without an erase; the cached stale-page count is exact; telemetry
  agrees with the array and with wear, across resets.
* *FTL*: a read returns the last write; the owner lists are the inverse of the mapping; no
  page stays valid for nobody;
  the reserve can take a migration; every index stays in range.
* *Decompressor core*: the consumer gets what the LZ4 block stands for, no byte lost or
  repeated, whatever was decompressed before; every block ends; bad streams are reported.
* *Benchmark*: the reported counters balance, everything written is on flash when a
  workload reports, a read beside the flush is right.
* *LZ4 library*: every access is in bounds; compressing and the block format agree;
  decoding gives what a block stands for, or an error, or a prefix when asked for one.
* *Legacy memory*: no chunk is both free and in use or in use twice; a line loads as it was
  stored; a write changes its own bytes only; the codec is exact at the limits of its deltas.

## 2. Modules

| Module | Models | Kind |
|---|---|---|
| `Payload` | byte buffers: a host block, its LZ4 stream, an all-zero buffer, erased NAND; page images as two halves | data |
| `LZ4Compressor` | `lz4_compressor.cpp` | operators |
| `BlockCodec` | a caller that compresses and decompresses one block | state machine |
| `FlashModel` | the NAND array as a value and the operations on it | operators |
| `FlashDevice` | the class `FlashModel` with wear and telemetry, any order of calls | state machine |
| `FTLController` | the FTL over `FlashModel` and `LZ4Compressor` | state machine |
| `FTLInvariant` | the inductive invariant of the first lap | properties |
| `FTLClaims` | what docs, comments and tests say of the FTL where the code differs | properties |
| `Benchmark` | `main.cpp` over `FTLController`, with both classes' counters, the unlocked flush, its collection page by page, and a reading thread | composition |
| `LZ4Stream` | the LZ4 block format: encoding, decoding, parsing, restrictions | reference |
| `LZ4Encoder`, `LZ4Decoder` | compressor and decoder of `lz4.c` | state machines |
| `LZ4Library` | a caller of both | composition |
| `LZ4Decompressor` | `lz4_decompressor_4k.v` between its stream peers | state machine |
| `BDIEngine`, `LineTable` | `bdi_engine.cpp`, `line_table.cpp` | operators |
| `HyperRAMController` | `hyper_ram_controller.cpp` over both, on several threads | composition |
| `BenchmarkInvariant`, `HyperRAMInvariant`, `LZ4DecompressorInvariant`, `LZ4LibraryInvariant` | the inductive invariants of the benchmark, the compressed memory, the hardware decompressor and the LZ4 library | properties |
| `SetLemmas`, `FlashLemmas`, `FlashDeviceProofs`, `FTLProofs`, `BenchmarkProofs`, `HyperRAMProofs`, `LZ4DecompressorProofs`, `LZ4LibraryProofs` | | proofs |
| `MCCodec`, `MCFlash`, `MCFTL`, `MCBenchmark`, `MCLibrary`, `MCMemory`, `MCDecompressor` | constants for TLC | instances |

### 2.1 Data

A host block is a member of `Data`; the code tells blocks apart only by whether they are
all zero (`Zero`) and by the length LZ4 gives them (`LZ4Size`, a constant function,
external). A byte buffer is a record saying how it was produced. `LZ4_decompress_safe`
gives back the block only for its own LZ4 stream at its own length, so a mapping entry with
a wrong half, a wrong size or a wrong page is seen by the properties. A raw read of a page
that holds an LZ4 stream is `Corrupt`: conversions are never the identity.

### 2.2 FlashModel and FlashDevice

`FlashModel` defines one operator per method, from an array to the array it leaves behind;
`FlashDevice` makes each method an action and adds `erase_count` and the telemetry
counters. Calls with an index outside the array return before changing anything and are
left out. Simulated latency and energy are sums of constants and are left out, as is
`FlashBlock::free_page_idx`, which is written and never read.

### 2.3 FTLController

The private members are the fields of the record `ftl`. Each private helper is an operator
from such a record to the next, so that one public call, which holds `ftl_mutex_`
throughout, is one step. `WriteBlock`'s four return paths are the actions `WriteZero`,
`WriteStaged`, `WritePaired` and `WriteFull`; each contains the whole handler, the flush
and the collections included. `Superseded` is their common prefix.

* `PlacePage` is the sequence *make room, program, map, record owners, advance*, which the
  code spells out three times (lines 28-43, 83-109 and 123-138).
* `RunGarbageCollectionIfNeeded` is `AdvanceToReserve` when no candidate has a stale page
  and otherwise `Collect`. The migration loop is expressed by the destination of each
  valid page (`Dest`: the number of valid pages before it). A destination that is already
  programmed keeps its contents, but mapping and owners are changed all the same, as in
  the code. `Repoint` takes the highest page of an LBA listed twice: the last iteration
  of the loop wins.
* The owner list of a page is a set of LBAs: `sub_slot` of a `PageOwner` is never read,
  and re-pointing twice is re-pointing once.
* `ReadBlock` changes only a counter; it is an operator used by the properties, and the
  steps of the reader in `Benchmark`. The counters are in `Benchmark` too: nothing the FTL
  decides depends on them.

Three history values are read by no code: `host` (the last block written to each LBA),
`collateral` (the LBAs whose live page was made stale by a write to another LBA) and the
field `rotations` (how often the reserve pointer has moved; it saturates at
`total_blocks`). `FirstLap` means `rotations < total_blocks`: the reserve has not yet come
back round to a block in use.

`FirstLapIntegrity` is about the blocks that are read, `NoGarbageKept` about the pages that
are not: a page is valid only while some LBA is mapped to it and not staged over. Together
they say that a page is invalidated neither too early nor never.

### 2.4 Benchmark

`StartWorkload`, `WriteNext`, `FlushTest` and `Report` are `RunWorkload`; `Report` goes on to
the next one of main's sequence. The calls that hold `ftl_mutex_` are one step and wait for
the reader (`Unlocked`). `FlushStagedWrites` holds nothing, nor does the garbage collection
in it, and both are split:

* the flush itself into the test, the program, the mapping entry, the owner list with the
  page pointer, and the reset of the staging buffer (`FlushTest`, `FlushProgram`, `FlushMap`,
  `FlushOwn`, `FlushReset`);
* `RunGarbageCollectionIfNeeded` into the choice of the victim (`ChooseVictim`; `FlushMakeRoom`
  when there is room, or nothing to reclaim), for each page of the victim in turn `SkipPage`, or
  `CopyPage` and then the two stores to the mapping entries of its owners, `RepointBlock` and
  `RepointPage`, and at last `EraseVictim`.

`ReadBlock` on the other thread is split as well. `Lookup` looks for the LBA in the staging
buffer and otherwise at the state of its entry. For an LBA on flash, `ReadBlockIdx` and
`ReadPageIdx` take the two indices, in either order, since they are arguments of one call.
`FetchPage` reads the page. The steps of the two threads interleave freely.

What the split leaves together does not show to a reader. A page's owners are re-pointed in
one step per index: a read looks at one entry only, and never at an owner list. The rest of
an entry that is on flash changes only under the mutex or while its LBA is staged. A value
read while another thread assigns it is one of the two values; a read of the `std::optional`
in the middle of its assignment is not refined further.

`ReadsDuringFlush` says that such a read delivers the block last written. Two races are real
and excepted (`overtaken`): a read that takes one index before and the other after its page
moved is led to a page that was never its own, and a read whose page is erased before it is
fetched gets an erased page, or what is written there next. TLC reaches both within the
bounds when the exception is dropped. The code and its docs promise no thread safety of
`FlushStagedWrites`, so neither is a finding. What the property adds is that nothing else can
go wrong: a read that starts inside the collection, between copy and re-pointing, or between
the re-pointing and the erase, is served from the old or the new page.

Further exceptions come from the findings. An LBA of the workload in progress can be
collateral: an entry left behind by a collection names a page that belongs to another LBA by
now, and the write through it makes that LBA's block stale, also one written earlier in the
same workload. Mid-size blocks (2049 to 3071 compressed bytes), which the FTL never reads
back (run `mid_size`), are excepted as well.

`Committed` is the controller as a caller under the mutex sees it: the one before the flush
while the flush is under way. `FlushIsAtomic` says that it behaves as `FTLController`, where
flush and collection are one step: it is about the sum of the steps, and about no reader.
The turn of the reserve (`rotations`, history) is counted by `ChooseVictim`, since from then
on the reserve is being used up. `BenchmarkInvariant` has the inductive invariant (section 4).

### 2.5 LZ4Encoder, LZ4Decoder, LZ4Library

Pointers are offsets from the start of their buffer. In the encoder a step is the code
between two labels or one turn of the search loop; in the decoder it is one sequence. The
lengths and bytes are real: buffers are sequences of bytes, and each copy routine moves as
many bytes as it does in C, with `wrote`, `fetched` and `lowest` remembering the ends of
what was accessed. The decoder's output memory is longer than the caller's buffer, so that
an access outside is visible and does not just fail. A `memcpy` whose ends overlap has no
defined result (`Unset`). The hash function is a parameter: the properties may not depend
on it. `IndexLimit` (0xFFFF) and `ReuseLimit` (4 KB) are constants so that short inputs
reach them. `Requests` are the calls: any source that the U16 table can index, any output
size, and an acceleration that only `LZ4_compress_destSize_extState` does not clamp.
`Damaged` and `Rooms` say what the decoder is tried with; `BytesLike` and `SizesFor` are the
byte strings and the sizes among it. Builds that test endianness, word size or `LZ4_FAST_DEC_LOOP` are modelled as
x86-64 little endian.

### 2.6 BDIEngine, LineTable, HyperRAMController

A line is 64 bytes, a word a sequence of its bytes; subtraction and addition work with
borrow and carry at the word's width. The six base-delta patterns, which the code writes out
one after the other, are one table (`Shapes`). A signed 32- or 64-bit difference that
overflows is undefined; `wraps` chooses, at every store, between a wrapped and an exact
comparison. `LineTable`'s operators go from a table to a table; `StoreLine` holds the lock
and is one step, `LoadLine` is `CopyEntry` under the lock and `FetchLine` after it. What
another thread does between them is the interleaving that `LoadsUntorn` and
`OnlyRangeChanges` are about; `overtaken` says that it stored the same line. The one case
in which the table itself is damaged is a store that fails for lack of room after it freed
the line's run (`lost`), once that line is stored again (`misused`); until then every
property holds with the lost lines excepted. Reading of one line's DRAM is one step: a
`memcpy` torn in the middle by a racing store is not refined.

### 2.7 LZ4Decompressor

One rising clock edge is one step, and each state of the machine is an action (`Token`,
`ExtLit`, `Literal`, `OffsetL`, `OffsetH`, `ExtMatch`, `MatchCopy`, `Done`; `Idle` and
`Start` are the two branches of `ST_IDLE`). The registers are the fields of `core`, at
their Verilog widths; a nonblocking assignment is a primed value. Both peers sample the
registers before the edge, as in hardware: `Accepted` is the handshake of the input
stream, `Consume` that of the output stream. `Reset` may come between any two edges and
clears everything but `history_ram`, which starts unknown (`X`). `Present`, `Advance`,
`Remember` and `Finish` are the assignments that `ST_LITERAL` and `ST_MATCH_COPY` share.

The reference is `LZ4Stream`: `Encode` makes the bytes, `Decode` says what they stand for.
`Decode` defines an overlapping match as a periodic extension, not byte by byte as the
core produces it.

## 3. Runs

With saturating history the FTL's state space is finite: no bound is put on the number of
calls. `ftl_laps` explores all of it; `ftl`, which is about the first lap, does not look
beyond it (`CONSTRAINT FirstLap`).

| Run | Result | What it shows |
|---|---|---|
| `codec` | holds | `RoundTrip` and `SlotTight` for all lengths LZ4 may return, failures included, and the zero block |
| `flash` | holds | `InvalidCountExact`, `NoOverwrite`, `ProgramsCoveredByErases`, `WearCoversTelemetry` |
| `ftl` | holds | `FirstLapIntegrity`, `OwnersMatchMapping`, and `FirstLapInv`, the inductive invariant behind them, until the reserve has gone round once; `NoGarbageKept`: no page stays valid that no LBA is read from |
| `ftl_laps` | holds | `TypeOK` and `BookkeepingExact` through any number of laps |
| `lz4_core` | holds | `BlockDelivered`, `WindowHoldsOutput`, `CoreInv` (the inductive invariant behind them) and the liveness property `EveryBlockCompletes`, for two blocks in a row and a reset at any edge, with the testbench's producer and consumer |
| `workload` | holds | `ReportBalances`, `ReportedIsOnFlash`, `ReadsDuringFlush` (a read at any step of the flush and of the collection in it), and the refinement `FlushIsAtomic` (all the steps of the split flush together are one step of `FTLController`) |
| `lz4_lib` | holds | `EncoderInBounds`, `TableBehind`, `RoundTrip`, `EndObeyed`, `OutputFilled`, `DecoderInBounds`, `DecodedIsContent`, `BlockDecodes`, `PartialIsPrefix`, and `LibraryInv`, the inductive invariant behind the bounds |
| `memory` | holds | `TypeOK`, `ChunksHaveOneOwner`, `CountsExact`, `LinesReadBack`, `LoadsUntorn`, `OnlyRangeChanges`, `CompressionExact` and the liveness property `CallsReturn` |
| `mid_size` | violated | `EverySizeReadsBack`: a block whose LZ4 stream has 2049 to 3071 bytes is stored compressed, mapped `RAW_FULL_PAGE` and read as raw |
| `neighbour` | violated | `NeighboursSurvive`: overwriting one half of a packed page loses the other half at the next collection |
| `reserve` | violated | `ReserveHeldFree`: the reserve pointer reaches a block that holds data |
| `lz4_core_stall` | violated | `BlockDelivered` with a consumer that may pause: literals are lost |

The violated claims are stated as the repository states them; `findings` in
`PROJECT.json` quotes the lines. `FTLController`'s own properties carry the exceptions
they force: `FirstLapIntegrity` excludes mid-size blocks, collateral LBAs and everything
after the first lap, and says that there is no further way to lose data.

Divergences without a run of their own:

* The slot table of `docs/ARCHITECTURE.md` gives 3 KB to an LZ4 output of exactly 3072
  bytes, which `Compress` stores raw (`StoredRaw`).
* A mapping entry outlives the page it names (`ftl_controller.cpp:222` drops the owners,
  not the entry), so the next write to its LBA may invalidate a page that is another
  LBA's by now. Those LBAs are the ones `collateral` takes in beyond packed neighbours.
* `include/lz4.h:252` says that `LZ4_compress_destSize` compresses all of the source "or fill
  'dst' buffer completely with as much data as possible". The last run is cut at
  `src/lz4.c:1319-1320` to `lastRun = olimit - op - 1` bytes less
  `(lastRun + 256 - RUN_MASK) / 256` for its length bytes. With 15 bytes left that is a token
  and 14 literals, and one byte of `dst` stays unused: TLC finds such a call (a result of 15
  for a `dstCapacity` of 16) when `OutputFilled` is stated without its one byte of slack.
  `OutputFilled` is what the code does keep: at most one byte is unused.
* With `ProducerGaps = TRUE` the core's consumer takes a literal twice: `ST_LITERAL` leaves
  `m_axis_tvalid` high while the producer pauses.
* `docs/ARCHITECTURE.md:169` says that `error_flag` is "Asserted on malformed LZ4 stream";
  the core only ever clears it.
* `legacy/include/line_table.hpp:21` says that a 24-bit chunk number "supports 256GB DRAM";
  2^24 chunks of 16 bytes are 256 MB, less than the default of 8 GB. `OFFSET_RANGE`
  states the truncation.

### Bounds

* `ftl`: 3 blocks of 2 pages, 2 LBAs, and one host block for each path of `WriteBlock`
  (zero, two half-page blocks with different lengths, a mid-size one and an incompressible
  one). Two LBAs are enough for a packed page with two owners, two half-page blocks for a mix-up of
  halves or lengths to be visible. Three blocks give an active block, a reserve and a
  third; the reserve pointer goes round, wraps, and skips the victim. Two pages per block
  give a victim with a stale and a valid page, and two collections in one `WriteFull`.
* `ftl_laps`: the same geometry with three host blocks (zero, half-page, incompressible);
  its properties do not read page contents.
* `flash`: 2 blocks of 2 pages, at most `MaxWear` = 2 erases per block and `MaxReads` = 1
  read between resets (reads only count). Two erases let a block be filled, erased,
  filled again and erased again with a reset at any point.
* `codec`: one host block per LZ4 length, boundaries of all slots included.
* `lz4_core`: `MAX_BLOCK_SIZE` = 300 (it is a parameter of the Verilog module), six blocks
  that between them visit every state, both ways to end a block, every kind of length
  extension (none, 0, 255 and more) and a window filled exactly. `MaxBlocks` = 2, so that
  the second block finds the first one's bytes in the window; `MaxResets` = 1, at any edge
  until `ResetWithin` = 24 bytes are out, which covers the short blocks from end to end.
* `lz4_core_stall` sends one short block; `MAX_BLOCK_SIZE` = 24.
* `workload`: 4 blocks of 2 pages, 4 LBAs, 3 workloads in a row (`num_workloads`), each one
  of main's four kinds in small, any three blocks that are half-page or incompressible, or
  any two that may also be zero, and at most `MaxReads` = 1 read per workload, of any LBA, at
  any point. Three workloads are enough for the flush to collect a victim with a valid and a
  stale page and for a report after two resets.
* `lz4_lib`: sources on both sides of every length at which the code branches (0, 12, 13,
  nibble 15, 255), all output sizes from 0 to beyond the bound for the short ones, runs,
  periods, repeats and bytes without one. One pair of calls reaches `IndexLimit` = 2800 from
  both sides, one exceeds `ReuseLimit` = 90; `WideSteps` is the shape that makes a shortened
  match end before positions already in the table. Eight hash slots make positions collide.
  The decoder also gets blocks with every match distance from 1 to 19 and lengths on both
  sides of each stride, whole, cut, extended and with changed bytes; `Margin` = 64 bytes of
  memory are shown behind its buffer.
* `memory`: 2 threads, 3 lines (the last one of 2 bytes' use), 7 chunks, so that two full
  lines do not fit; `MaxCalls` = 4 calls among whole-line writes of 0, 3 and 4 chunks, a
  write and a read across two lines, a read of a line never written (and one byte too far,
  which is refused). `CompressionExact` also checks, in the initial state, lines whose last
  word is at each limit of each delta and one beyond, from five bases per word width.

Operators commented as *faulty variants* are alternative bodies of the definition next to
them, each with a plausible bug; `mutants` in `PROJECT.json` pairs each property of a
passing run with the variant that breaks it, so that no property holds vacuously.

Deadlock checking is off where the system really stops: the codec's caller and the LZ4
library's caller after their calls, the benchmark at the end of main, and the threads of
`memory` after `MaxCalls`.

### Fairness

`lz4_core` assumes `WF_vars(ClockEdge)`: the clock keeps running. The producer offers the
next byte at once and the consumer is always ready, as in the testbench; nothing is assumed
of `start` or of reset (resets are finite in number by `MaxResets`, and
`EveryBlockCompletes` excepts a block that a reset cut off).

`memory` assumes weak fairness of the threads that are in the middle of a call, and nothing
of the start of a call: the operating system runs a runnable thread. The formula spells weak
fairness out (infinitely often disabled, or infinitely often a step), with the enabling
condition written as a state predicate (`thread[t].pc # "idle"`): for actions as large as
these TLC evaluates `ENABLED` too slowly. The other models assume no fairness and state no
liveness: their calls are single steps, and main is straight-line code with bounded loops.

## 4. Proofs

Every theorem is proved for all values of the constants under these named assumptions, all
of which TLC evaluates in the runs:

* `DataAssumption`: `Zero` is a block, `Corrupt` is not; `SizeAssumption`: LZ4 never returns
  more than its 4096-byte output buffer;
* `GeometryAssumption`: at least two blocks and one page; `LbaAssumption`: at least one LBA;
  `DeviceAssumption`: callers program page images; the two bounds are naturals;
* `WorkloadAssumption`: a workload writes between one block and one per LBA;
* `TableAssumption`: capacities are naturals, of any size, and an entry can name at least
  one chunk number; `ControllerAssumption`: finitely many threads, and a caller of `Write`
  passes as many bytes as it says;
* `CoreAssumption`: the window has at most 4096 bytes (the pointers have 13 bits), blocks are
  sequences of records, `X` is no byte; `EncoderAssumption`: an index has at most 16 bits;
  `DecoderAssumption`: `Unset` is no byte; `LibraryAssumption`: scripts are calls with byte
  strings, blocks are byte strings.

Two things are hypotheses of theorems and not assumptions of a module:

* `Hashing`: the hash of any four bytes is a slot of the table. It is all that is asked of
  `LZ4_hash4`, which shifts its product down to the table's 13 bits. TLC cannot evaluate it
  over 2^32 words of four bytes, so it is named in the theorems.
* `~ProducerGaps` and `~ConsumerStalls`, for what the core delivers: with a peer that pauses
  it does not hold (run `lz4_core_stall` and the divergence above).

What each proof module shows:

* `FlashLemmas`: `ProgramPage`, `EraseBlock` and `InvalidatePage` keep the array typed and
  its stale-page counts exact; facts on least and greatest elements.
* `FlashDeviceProofs`: `DeviceTypeCorrect`, `InvalidCountCorrect`,
  `NoOverwriteWithoutErase`, `ProgramsCovered`, `WearCovered`.
* `FTLProofs`: `TypeCorrect` and `BookkeepingCorrect`. The inductive invariant is
  `Sound(s)`: `s` is a controller, its active block is not its reserve, and its counts are
  exact. The three parts need each other: victim selection is in range because the active
  block differs from the reserve, and `EraseBlock` keeps the counts exact only if the
  migration does. The middle part of the argument is arithmetic on `Dest`: it is injective
  and below `pages_per_block`, so the migration loop stays inside the reserve block.
  Each helper (`Collect`, `AdvanceToReserve`, `PlacePage`, `FlushStagedWrites`,
  `Superseded`) has a lemma that it preserves `Sound`, and each action cites them.

  The second half has `FirstLapInvariant`, `FirstLapIntegrityCorrect` and `OwnersCorrect`.
  `FirstLapIntegrity` is far from inductive: that a read is right says nothing about the
  owner list by which the next collection re-points, nor about whether the next page can
  be programmed. `FirstLapInv` adds what is missing:
  - `Untouched`: the blocks from the reserve on have never been programmed, so a migration
    is never refused (this is what fails after the first lap);
  - `RoomAhead`: the pages ahead of the write position can be programmed, and a page that
    can be programmed has no owners left over;
  - `Owned`: the owners of a valid page are the LBAs mapped to it;
  - `Stored`: an LBA on flash is mapped to a valid page that holds its block at its slot
    and length; any other LBA was last written with zeros or never;
  - `StagedRight`: the staging buffer holds the last block of its LBA.

  The first four are stated of a set of exempt LBAs. `Superseded` enlarges it (by the LBA
  being written and those that share its page), placing a page shrinks it by the LBAs
  placed, a collection leaves it alone; the states between the steps of one `WriteFull`
  are covered this way. At the end of a call the exempt LBAs are the collateral and the
  staged ones.

  `GarbageCounted` is `NoGarbageKept`. Its inductive part is `Inhabited` (`FTLInvariant`): a
  valid page has an owner. It holds after any number of laps and of every stage of a call,
  because each place that programs a page records an owner and each that drops owners
  invalidates or erases the page (`CollectInhabited`, `PlaceInhabited`, `FlushInhabited`).
  In the first lap `Owned` turns that owner into an LBA that is mapped to the page, neither
  collateral nor staged.

* `BenchmarkProofs`, about all three of the benchmark's invariants and its refinement. The
  inductive invariant `BenchInv` (`BenchmarkInvariant`) rests on `FlushStage`: while the
  flush runs, the controller is a function of the step and of the controller before the
  flush, because nobody else writes to it. So the FTL's own invariant is stated of `Committed`
  only, and a step of the flush moves from one stage to the next.
  - `Stage` is that function for the steps around the collection. The last stage is
    `FTLController`'s flush (`StagesAreFlush`), which is all that `FlushAtomic` needs: the
    other steps of the flush leave `Committed` alone.
  - `MigrationStage` is it for the collection, with the page p of the victim reached:
    `MigratedFlash`, `MigratedTable` and `MigratedOwners` give what the pages before p have
    left behind, `BlockSetTable` a page's entries with one index of two set. The loop's counter
    of pages copied is `Dest` of p. `SkipPreserves`, `CopyPreserves`, `RepointBlockPreserves`
    and `RepointPagePreserves` are the steps from page to page (`MigratedStep`, `EntrySteps`,
    `OwnerStep`), and with all pages treated the erase gives what `Collect` defines at once
    (`MigratedEnds`, `OwnerEnds`, `EraseVictimPreserves`): the induction over the loop that makes
    the atomic collection of `FTLController` a faithful one.
  - What the reader needs of each stage follows from the FTL's invariant of the committed
    controller: `StageServes` and, within the collection, `MigrationServes`. There an entry
    leads to its old page, which is not yet erased, or to its copy in the reserve; the copy was
    not refused, which is the first lap again.
  - `ReportBalanced`: `CountsRight` counts a staged block as a page to come (`Pending`) until
    the step that programs it, and a victim as erased from the choice on. A reset is harmless because the runner has always flushed
    before (`RunnerRight`), and the count of migrated pages is that of the pages the
    collection programs only while no migration is refused: the first lap again.
  - `ReportedBlocksOnFlash`: from `RunnerRight`, which follows the blocks written so far.
  - `ReadsBesideFlush`: `ReaderRight` says that an entry half read is that of the LBA up to its
    indices (`HalfRead`), and that one read whole, without a move of the page in between,
    still leads to the block (`Found`). A page that was valid is not reprogrammed before it
    is erased, and the reader's lock keeps writes out.
  - `AtomicBasics` to `AtomicFlush` say that the operators of the instance `Atomic` are those
    of `FTLController`: they depend on no variable that is substituted.

* `HyperRAMProofs` starts with `CompressIs`, for every 64-byte line and either outcome of a
  signed overflow. A word's difference to the base fits a delta only if sign-extending the delta's
  bytes gives the difference back, at the width of the word, and `Plus` undoes `Minus`
  modulo that width (`PlusMinus` by induction over the bytes); so a wrapped difference that
  fits is as good as an exact one.

  Then come the memory's seven invariants. The inductive invariant is `Inductive`
  (`HyperRAMInvariant`):
  - `Ownership(t, X, R)`: every chunk ever handed out belongs to one line outside `X`, to
    one free run, or to the run `R` that the store in progress has in its hands, and the
    counter of allocated chunks is the number of the first and the last. `StoreLine` frees
    and allocates in between; the lemmas `TakeOut`, `PutFree`, `PopFree`, `TakeFresh` and
    `PutIn` move one run each and are composed to the store that fits the run it has, the
    one that reallocates and the one that fails;
  - what each line outside `lost` holds when it is fetched; a store changes only chunks that
    no other line holds, so `Ownership` is what makes this inductive;
  - `Ready`: what a thread carries across the lock (a copied entry, a merged line) is current
    until another thread stores the line;
  - `Typed`, `LinesCounted`, `BytesCounted`: ranges, and the telemetry with the bytes of the
    calls in progress. `CountsExact` sums over patterns; the invariant adds a sum over
    threads.

  The parts about contents hold while `Trusted`: no line that lost its run has been stored
  again, and the chunks handed out still have numbers that an entry can name (up to
  `OFFSET_RANGE`; beyond it the code truncates the number). Neither is assumed: `TypeOK` and
  the counting of lines and bytes are proved without it. Neither `MaxCalls` nor the
  set of requests is used for anything but types: the theorems hold for any number of calls.

* `LZ4DecompressorProofs`, about all of the core's invariants. First the block format:
  `EncodedIs`, `DecodedIs` and `LengthsAre` turn the recursive functions of `LZ4Stream` into
  what the first k records add, and `Layout` says for each record where its token, length
  bytes, literals, offset and match are in the stream and in the output. The inductive
  invariant `CoreInv` (`LZ4DecompressorInvariant`) is needed because nothing in the registers
  says how much of the block is left: `InToken` to `InMatchCopy` tie each state to a place in
  a record k and to the number of bytes accepted; `Control` has the handshake (the core reads
  exactly in the states that read, and `last_byte_seen` is set exactly when the stream is
  used up); `Delivery` has the window, the output register and what was taken. Between blocks
  the block before is `Finished`, whatever is left in the window. A match copy reads the
  window at `write_ptr - match_offset`, which `OffsetsInside` puts below `write_ptr`, and
  `Repeated` is the equation between the byte read there and the periodic extension of the
  reference. Each state of the machine has its lemma (`TokenStep` to `IdleStep`).

* `LZ4LibraryProofs`, about the bounds of compressor and decoder. `LibraryInv`
  (`LZ4LibraryInvariant`) says what holds at each label:
  - *Output*. With `notLimited` no check is made, and `LZ4_compressBound` has to pay for
    everything. `Ahead(e, i, k)` is the potential: 255 bytes of source pay for 256 of output,
    up to k / 255 of a byte; between literals and match a sequence may be up to 495 / 255 of a
    byte ahead, which its match of at least four bytes pays back. With a limit, `Spare` is
    what each check leaves: the 5 bytes after the literals are the offset, a length byte and
    a token, and the four-byte stores of the length stay below.
  - *Table*. `EntriesBefore(c, i)`: every entry lies before i, and one of this call is in the
    slot of its own hash. The second part is what `ForgetPositions` rests on: it clears the
    slots of the positions it passes, so a position that is not in its own slot would survive
    it. `Reaches` says when it is needed: the search may have put positions in the table
    beyond the start of a match that was then extended backwards; they are covered unless the
    match is cut short.
  - *Input*. `Searching` and `Matching` keep every position that is read 12 or 5 bytes
    away from the end; the wild copy of literals reads at most 8 bytes further.
  - *Decoder*. `Ready`: at the start of each turn there is a token to read, and in the fast
    loop 64 bytes of room. Each copy routine has a lemma that says which distance to the end
    it needs (`WildCopy8Within`, `WildCopy32Within`, `FirstEightWithin`), and each branch of
    `LZ4_decompress_generic` one that its test provides it. Nothing is assumed of the input:
    any bytes, any length.

  `OutputIsFilled` (at most one byte unused) follows from `ReducedRunIs`, the arithmetic of the
  last literal run.

* `SetLemmas`: least and greatest elements of sets of naturals, induction over the naturals
  and over the subsets of a finite set, functions defined by recursion, and sums over finite
  sets (`MapThenSumSet` of the community modules: of which type a sum is, and how it changes
  with one of its terms). The library's induction theorems take an operator as their
  parameter, which the provers cannot instantiate; here the claim is a set, and the induction
  is that a set of counterexamples would have a least element.

`FirstLapInv`, `CoreInv` and `LibraryInv` are properties of the runs `ftl`, `lz4_core` and
`lz4_lib`, and the parts of `Sound` are those of `ftl_laps`. `BenchInv` and `Inductive` are
within reach of `MCBenchmark` and `MCMemory`: added to their INVARIANTS, TLC finds them kept
in every state of those instances.

Only model-checked: what the bytes of the LZ4 library mean (`RoundTrip`, `EndObeyed`,
`DecodedIsContent`, `BlockDecodes`, `PartialIsPrefix`), which needs the parser `Records`
inverted on what the encoder has written; the codec's state machine, whose run has every
length LZ4 can return already; the claims, which the code violates; and all liveness, which
with fairness and `ENABLED` is out of the prover's reach.

## 5. Plan, and what is not modelled

1. **LZ4 library**: `RoundTrip` and `EndObeyed`, from an invariant that names the records
   written so far, and a lemma that `Records` undoes `Encode`.
2. **LZ4 library**: `DecodedIsContent`, from one that ties the decoder's memory to the
   records read so far.
3. **FTLController**: what a host may rely on after the first lap, with the LBAs that a refused
   program loses as a third kind of history.

Not modelled, and why:

* a `WriteBlock` that races the unlocked `FlushStagedWrites`: a data race on the optional,
  the vectors and the indices, of which every outcome is possible; no property would survive
  and none is claimed by the code. No caller in the repository does it;
* in `lz4.c`: dictionaries and streaming, `LZ4_decompress_fast`, the 32-bit and pointer
  hash tables (inputs of 64 KB and more), obsolete entry points. The FTL compresses 4 KB
  blocks with `LZ4_compress_default` and uses none of them;
* `HyperRAMController::ResetTelemetry` between calls, latency sums, torn copies of a line;
* the legacy AXI hardware (asynchronous FIFO, AXI top level, BDI pipelines), which is not
  built and which the C++ model of the same design supersedes;
* latency and energy arithmetic, console output, the tests, and the build scripts.
