# Verification project for orbuculum

TLA+ models of the orbuculum trace daemon (`src/Src/orbuculum.c`) and its
ORBFLOW codec (`src/Src/oflow.c`). TLC checks the models on small
instances. TLAPS proves the main safety facts for every value of the
constants.

## 1. Inventory

### Components and their state

| Component | Source | State | Operations |
|---|---|---|---|
| Ingest ring | `orbuculum.c` `_r.rawBlock`, `_r.wp`, `_r.rp` (157-198) | `NUM_RAW_BLOCKS` = 10 slots of `{fillLevel, buffer[TRANSFER_SIZE]}`; write index `wp`; read index `rp` | the feeder fills `rawBlock[wp]` and advances `wp`; the consumer reads `rawBlock[rp]` and advances `rp` |
| Wake-up signal | `_r.dataForClients` (182, 694-697, 873, 940, 1006) | a default pthread mutex used as a one-shot signal | the consumer locks it while `wp == rp`; the feeder unlocks it after each advance |
| Feeders | `usbFeeder` (743-881), `seggerFeeder` (883-952), `serialFeeder` (954-1018), `fileFeeder` (1096-1133) | the open source (`r->f` or the libusb handle) | acquire the source with retries; read blocks; on an error, close and reacquire; on a fatal error, return, and `main` exits |
| Distribution thread | `_processBlocks` (686-741) | `rp` | wait; count the bytes in `intervalBytes`; pass the block through to `_r.n`, or run `_stripTPIU` and then `_purgeBlock`; advance `rp` |
| TPIU demux | `_stripTPIU` (617-684), `_purgeBlock` (595-615), handlers set up in `main` (1172-1212) | a `strippedBlock` per handler; a lookup cache (`cachedChannel`, `chIndex`, `h`) that is local to each call | append each decoded `(stream, byte)` to the first handler of that stream; flush the buffers to their sinks |
| Interval reporter | `_checkInterval` (534-593) | `_r.intervalBytes`, shared with the consumer without a lock | sleep; read `intervalBytes` and clear it; print |
| ORBFLOW codec | `oflow.c` | the COBS decoder state inside `struct OFLOW`; the `perror` counter | `OFLOWEncode` (tag, payload, checksum); `OFLOWPump` and `_pumpcb` (length check and checksum check); `OFLOWgetFrameExtent` |
| COBS codec | `cobs.c`. This file is not in `src/`, so it is specified only in spec 4.1. | the reassembly buffer | encode; pump |
| TPIU decoder | `tpiuDecoder.c`. Not in `src/`; spec 4.3. | the sync state and the frame buffer | pump one byte; get a packet |
| Network fan-out | `nwclient.c`. Not in `src/`; spec 4.4. | the clients of each port | `nwclientStart`, `nwclientSend`, `nwclientShutdown` |
| Options and start-up | `_processOptions` (318-532), `main` (1145-1254), `_setSerialConfig` (214-299) | `_options` | parse the options; parse the channel list; start the sinks and the threads; pick a feeder |

### How the components interact

The program has three threads: `main` (which becomes the feeder), the
distribution thread and an optional reporter. They share the ring, the
mutex and `intervalBytes`. Nothing else synchronises them: `wp` and `rp`
are plain `uint8_t`, and each thread reads the other's index without a
lock. When a feeder returns, `main` calls `exit()`. The `atexit` handler
`_doExit` then sets `ending` and shuts the sink down. So `ending` is only
set while the process is exiting. The distribution thread calls
`nwclientSend`, and the sink delivers the bytes to TCP clients from its
own threads.

### What is hard here

- **Producer/consumer without back-pressure.** The feeder never checks
  whether the ring is full. When it laps the consumer, three things can
  happen. The consumer can send a block that is being overwritten, which
  is a torn read: the slot is read at 701 and again at 733. After a lap,
  `rp` can run past `wp`, so blocks are sent again and out of order. And
  `wp == rp` after a full lap makes a full ring look empty. On USB, every
  10 ms bulk timeout publishes an empty block (866-873), so a slow
  consumer is lapped even when no trace data flows.
- **The mutex used as a signal.** The feeder thread unlocks a mutex that
  the distribution thread owns, and the distribution thread locks it again
  while holding it. This only works with glibc's default mutex. With
  that mutex, the consumer wakes up only because every advance of `wp` is
  followed by an unlock. `fileFeeder` never unlocks.
- **Failure paths.** Each feeder reads straight into `rawBlock[wp]`, so a
  failed `read()` writes `-1` or `0` into the slot before the error is
  handled. `fileFeeder` publishes a `-1` block. `-e` makes the process
  exit at end of file, whatever the consumer has not yet sent.
- **`_purgeBlock`.** `h++` sits inside `if (fillLevel)`, so an empty
  handler hides every handler after it. Their buffers then grow with no
  bound, and `buffer[fillLevel++]` has no bound check.
- **The lookup cache of `_stripTPIU`.** It must give the same result as
  a full search, across packet boundaries and when a channel is repeated
  in `-t`.
- **`intervalBytes`.** It is a read-modify-write in one thread, and a
  read then a clear in another, with no lock.

### The properties each component needs

- **Ring and signal.** No lost wake-up: the consumer never stays blocked
  while `wp != rp`. The consumer never reads a slot the feeder has not
  published. Pass-through is exact (in order, no duplicates, no
  gaps) as long as no lap happens. No block is sent twice. No negative
  length is sent. Everything read has been sent when the process exits
  at end of file.
- **TPIU demux.** Each first handler of a channel gets exactly that
  channel's bytes, in decoder order. After a purge every buffer is empty.
  No buffer ever exceeds `TRANSFER_SIZE`.
- **ORBFLOW.** `decode(encode(ch, p))` gives `tag = ch`, the same
  payload and `good`. Any single-byte change is detected. Frames shorter
  than 2 bytes are counted as errors. The scan for the frame extent stays
  inside the buffer.
- **Reporter.** The bytes reported plus the bytes still counted equal
  the bytes received. The code does not promise this (spec 5: "tolerated
  racy"), so the model only measures it.

## 2. Plan

Modules, in order of importance. Items marked ✔ are done.

1. ✔ `BlockRing`: the ring, the four feeders (segger and serial share
   one control structure), the mutex signal, the pass-through consumer,
   and process exit. `MCBlockRing` instantiates it.
2. ✔ `TpiuDemux`: `_stripTPIU` and `_purgeBlock` as one step per raw
   block, with the decoder's output as the input of that step.
   `MCTpiuDemux` instantiates it.
3. ✔ `IntervalStats`: the reporter thread against the consumer's
   `intervalBytes += fillLevel`, as a two-step read-modify-write with
   `uint64_t` wrap-around.
4. ✔ `OFlow` and `FrameScan`: the ORBFLOW checksum in 8-bit arithmetic,
   `OFLOWPump`/`_pumpcb` over a COBS layer modelled from spec 4.1, with
   two fault models; `OFLOWgetFrameExtent` checked against a reference
   definition.
5. ✔ `DemuxSpec`: per-channel FIFOs; `TpiuDemux` refines it.
6. Next: `Orbuculum`, composing `BlockRing` with `TpiuDemux` (the
   consumer's send step becomes `ProcessBlock` when `useTPIU` is set).
7. `TpiuFrame`: the frame decoder of spec 4.3, spec-only, refining the
   input of `TpiuDemux`.
8. A refinement of `BlockRing` to an abstract queue was tried and
   dropped: before a lap it says what `PassThroughExact` says, and
   after a lap the code keeps no promise the model could state beyond
   "a block that was read", which the atomic slot write makes true
   whatever the code does.

Theorems: ✔ `TypeCorrect`, ✔ `DeviceWakeupPending` (`BlockRing`),
✔ `AccountingExact` (`IntervalStats`), ✔ `PassThroughCorrect`,
✔ `ConsumerStaysBehind`, ✔ `NoDuplicateUntilLap` (`BlockRing`, in
`PassThroughProofs`), ✔ `DeviceNonNegative` (`BlockRing`, in
`DeviceSendProofs`).

## 3. Modules and how they map to the code

### `BlockRing`

Variables:

| Variable | Code |
|---|---|
| `wp`, `rp`, `dataForClients` | the fields of `_r` with the same names |
| `rawBlock` | `_r.rawBlock` |
| `feeder` | which feeder `main` started |
| `fileTerminate` | `-e` |
| `ppc` | the feeder thread's program counter |
| `cpc` | the distribution thread's program counter |

A block's bytes are abstracted to the number of the read that filled it
(`id`) and the sign of its `fillLevel`: 1 stands for n > 0 bytes, 0 for
an empty read, -1 for a failed read. A failed read rewrites only
`fillLevel` and leaves the old buffer in place, as the code does. There
are five history variables: `produced` counts the data reads, `sent`
lists what was handed to `nwclientSend`, `dataSent` lists those of
them with `fillLevel > 0` (the blocks with data, in order), `fresh`
marks the published slots that `rp` has not passed, and `lapped`
records that the feeder wrote such a slot. `dataSent` is `sent`
filtered by `fill > 0`, kept as a variable that `ConsumerSend` appends
to. Defined as `SelectSeq(sent, ...)`, it could not be reasoned about
in a proof: what `SelectSeq` yields on an `Append` is not a theorem of
the library and would need induction over the sequence. `status` records why the process exited.

Feeder actions:

- `FeederConnect` acquires the source. Failed attempts are retries that
  change nothing.
- `FeederFatal`: `libusb_init`, `socket`, `_setSerialConfig` or `open`
  fails, the feeder returns, and `main` exits.
- `ReadData`: a read returns n > 0 bytes.
- `UsbTimeout`: an empty 10 ms bulk timeout, which is still published.
- `ReadFail`: a USB error, or `read() <= 0` on a socket or serial port.
  The feeder goes back to reacquiring the source.
- `FileEof`: `read()` returns 0. With `-e` the process exits at once
  (`status` becomes `"eofExit"`), whatever blocks the consumer has not
  sent yet; `EofDeliversAll` states the spec's claim that they have all
  been sent, and `ring_eof_exit` shows it fails. Without `-e` the
  feeder reads again.
- `FileError`: `read()` returns -1, and the block is published.
- `FeederAdvance` advances `wp`.
- `FeederUnlock` unlocks the mutex. `fileFeeder` has no unlock.

Consumer actions: `ConsumerWait` (the `while (wp == rp)` test),
`ConsumerLock`, `ConsumerTake` (the `if (fillLevel)` test),
`ConsumerSend` (`nwclientSend`, which reads the slot again) and
`ConsumerAdvance`. The `ending` flag is not a variable: it is set only by
the `atexit` handler, so `status # "running"` stands for it, and every
action is disabled once the process has exited.

The mutex follows glibc's default (normal) mutex. Unlocking it from a
thread that does not own it releases it. Locking it again from its owner
blocks. Section 9 of the spec calls this undefined behaviour. The model
takes the outcome that the Linux build produces, and the mutant
`FeederUnlockNoop` checks the other outcome, an error-checking mutex
whose unlock fails.

### `TpiuDemux`

- `strippedBlock[h]` and `clientData[h]` are handler `h`'s buffer and
  the bytes it has handed to `nwclientSend`.
- `decoded` is the decoder's output so far. Each byte is identified by
  its position.
- `ProcessBlock` is one call of `_stripTPIU` followed by one call of
  `_purgeBlock`. The step's input is the sequence of stream ids that the
  decoder yields for one raw block.
- `StripStep` is one iteration of the loop at 641-667, including the
  cache test.
- `FindHandler` is the search loop at 651-659.
- `PurgeStep` is one iteration of the loop at 605-613, including
  `h++` inside the `if`, as the code has it.

### `IntervalStats`

The two threads that share `_r.intervalBytes` with no lock.

- The consumer's `r->intervalBytes += r->rawBlock[r->rp].fillLevel`
  (704) is a load and a store. `ConsumerLoad` computes
  `(intervalBytes + fillLevel) % Modulus` into a register `creg`.
  `Modulus` stands for 2^64, and a fill level of -1 wraps.
  `ConsumerStore` writes `creg` back.
- The reporter (`_checkInterval`, 534-592) is `ReporterWake` (the
  `usleep`), `ReporterRead` (the read at 547) and `ReporterClear` (the
  reset at 548 and the printout, which is abstracted to the byte count
  it shows).
- History variables: `received` is the bytes of all blocks taken,
  `reported` the sum of all snapshots, and `raced` records that a
  load/store overlapped a read/clear.

The scaling by 1000/`intervalReportTime` and by 8 is formatting and is
left out: the properties are about the byte count it scales.

### `OFlow`

- `wire` is every byte the encoder wrote. `pumped` is how many of them
  `OFLOWPump` has consumed; the rest are in transit.
- `cobs` is the COBS decoder state inside `struct OFLOW`: the frame
  being rebuilt (`buf`), the bytes left in the current group (`rem`), a
  zero owed at the end of the group (`owed`), and whether the frame is
  being dropped because it is too long (`drop`). `perror` is `t->perror`;
  `rx` lists the frames handed to the callback.
- `Encode` is `OFLOWEncode`: `Sum8` and `CheckByte` are the `uint8_t`
  loop and `256 - sum` (lines 58-67), and `CobsEncode` is the call at 69.
- `Pump` is one `OFLOWPump` on the next 1 to `MaxBlock` bytes.
  `PumpByte` folds `CobsStep` over the block, and `PumpCb` is
  `_pumpcb`: a frame of fewer than 2 bytes counts as an error; any other
  is split into tag, payload and sum, checked, counted and delivered.
- `CobsPieces`, `CobsFrame`, `CobsIdle`, `CobsStep` and
  `CobsCompletes` are the COBS layer. `cobs.c` is not in `src/`, so they
  follow spec 4.1.

One fault model, bounded by `MaxFlips`: `EncodeFlipped` changes one
byte of the decoded region (tag, payload or checksum) before COBS
encoding (spec 8, scenario 5), the change the checksum is meant to
detect. Line noise on the wire is not modelled: spec 8 claims detection
only for changes inside the decoded region, with probability at least
255/256, so a noise byte that shifts frame boundaries and slips past
the 8-bit sum breaks no claim.

### `FrameScan`

`OFLOWgetFrameExtent(inputEnc, len)` as a recursive function over the
buffer, written the way the code runs: the pre-decrement `--len` is
tested after `OFLOWisEOFRAME`. `Init` picks any buffer of `MemSize`
bytes and any `len` from `MinLen`. `ReferenceExtent` is the intended
result: the first SYNC within `len` bytes, else the last byte.

### `DemuxSpec` and the refinement

`DemuxSpec` is what the demultiplexer promises (spec 4.5), with no
buffers and no cache. `decoded` grows by any sequence of items, and each
first handler of a channel gets that channel's new items in order.
`TpiuDemux` defines
`Abstract == INSTANCE DemuxSpec WITH delivered <- [h |-> clientData[h] \o strippedBlock[h]]`:
what a handler has sent plus what it still buffers. `DemuxRefinement`
(`Abstract!Spec`) is checked as a property. It replaces the earlier
state invariant `DemuxExact`, and it also says that a step never takes
back a byte. `DemuxSpec` models the spec, not code, so it has no map
entries.

## 4. Runs

| Run | Config | Expect | What it shows |
|---|---|---|---|
| `ring_devices` | `MCBlockRing_devices.cfg` | pass | USB and serial/segger feeders: `TypeOK`; no lost wake-up (`WakeupPending`, `ConsumerWakes`); `rp` never passes an unpublished slot, laps included (`ConsumerBehindFeeder`, an action property); pass-through is exact until a lap (`PassThroughExact`); a failed `read()` (-1) never reaches `nwclientSend` before a lap (`DeviceSendsNonNegative`) |
| `ring_file` | `MCBlockRing_file.cfg` | pass | file feeder, with and without `-e`: `PassThroughExact` (its `TypeOK` is the one `ring_devices` checks and `TypeCorrect` proves for every feeder) |
| `ring_lap_duplicate` | `MCBlockRing_lap_duplicate.cfg` | violation | a lap lets `rp` pass `wp`, so a block is sent twice (`NoDuplicateDelivery`) |
| `ring_file_wakeup` | `MCBlockRing_file_wakeup.cfg` | violation | `fileFeeder` never unlocks, so the consumer blocks forever with data in the ring |
| `ring_file_error` | `MCBlockRing_file_error.cfg` | violation | a failed `read()` of the file publishes `fillLevel = -1`, which is then sent as a length |
| `tpiu_demux` | `MCTpiuDemux_demux.cfg` | pass | `TpiuDemux` refines `DemuxSpec` (`DemuxRefinement`): every byte goes to the first handler of its channel, in order |
| `tpiu_purge` | `MCTpiuDemux_purge.cfg` | violation | `_purgeBlock` leaves non-empty buffers after an empty handler |
| `ring_full_stranded` | `MCBlockRing_full_ring.cfg` | violation | serial feeder only: the feeder fills the whole ring before the consumer tests `wp == rp`, the full ring looks empty, and with a silent source the blocks are never sent (`BlocksEventuallySent`) |
| `oflow_codec` | `MCOFlow_codec.cfg` | pass | payloads of up to 2 bytes and at most one frame changed before encoding: `TypeOK` (the wire stays bytes, so the checksum is truncated to `uint8_t`); `RoundTripExact` (every frame delivered once, in order, good exactly when unchanged, `perror` counts the bad ones) |
| `ring_eof_exit` | `MCBlockRing_eof_exit.cfg` | violation | with `-e`, `main` exits as soon as `fileFeeder` returns at end of file, and a block read and published before EOF is never sent (`EofDeliversAll`, spec 8 scenario 1) |
| `frame_extent` | `MCFrameScan_reference.cfg` | pass | for `len >= 1`, `OFLOWgetFrameExtent` equals the reference (`ExtentMatchesReference`) |
| `interval_accounting` | `MCIntervalStats_accounting.cfg` | pass | the reports add up to the bytes received unless a report overlapped an update (`AccountingExactUnlessRaced`) |

Three questions TLC has answered are kept out of this list, which has
one run per question the project asks:

- the buffers `_purgeBlock` does not flush grow past `TRANSFER_SIZE`
  (`strippedBlock->buffer[fillLevel++]` has no bound check), which is
  what `PurgeFlushesAll` failing leads to;
- `OFLOWgetFrameExtent` with `len == 0` scans past the buffer
  (`FrameScan` with `MinLen = 0`); no caller in `src/` passes a length;
- a `-1` fill level wraps `intervalBytes` (`IntervalStats` with `-1` in
  `Fills`), a consequence of the failed read that `ring_file_error`
  shows.

Bounds, and why they are enough:

- **The ring has 2 slots and the source delivers 3 data blocks.** One
  block more than the ring holds is the least that lets the feeder lap
  the consumer. TLC finds the duplicate with these bounds. The proofs
  cover every ring size. A ring of 3 slots with 4 blocks was too large
  to explore in the time allowed.
- **One failed file read.** It bounds the `-1` blocks. A second failure
  adds no new control path.
- **Demux.** `-t 1,2,1` covers two channels and a repeated channel. The
  decoder emits streams {1, 2, 3}; stream 3 has no handler. A block yields
  at most 3 bytes, buffers hold 3 bytes, and TLC explores 3 blocks. That
  is enough for a buffer to miss two purges and overflow. The ratio of 3
  bytes per block to a capacity of 3 matches the code: one raw block of
  `TRANSFER_SIZE` bytes decodes to fewer than `TRANSFER_SIZE` bytes
  (assumption `SizesAssumption`).

- **OFlow.** Channels {1, 255}, bytes {0, 1, 2, 255}, payloads of up
  to 2 bytes, 2 frames, a decoder capacity of 4 and pump blocks of 1 to
  3 bytes. The byte 0 makes COBS split a frame into groups; 255 and 1
  make the 8-bit sum wrap; frames of 3 to 6 wire bytes are split over
  blocks in every way; one frame may be changed before encoding.
- **FrameScan.** Every buffer of 4 bytes over {0, 1} and every `len` up
  to 4: every position of the first SYNC, and none.
- **IntervalStats.** Fill levels {1, 2} (or {-1, 1} for a failed read),
  3 blocks and 2 reports: enough for every interleaving of one update
  with one report, on either side of the other. `Modulus` is 256; the
  proof covers every width.

Fairness (in `BlockRing`): `FeederAdvance`, `FeederUnlock` and every
consumer step are weakly fair. These are CPU steps of running threads.
Reads and source acquisition get no fairness, because the device, server
or file may stay silent forever.

`BlocksEventuallySent` uses the same fairness. It fails even so, since
no fair step of the consumer leaves the `wp == rp` wait.

Deadlock checking is off in every BlockRing config for one reason: the
model stops when the process exits (fatal start-up error, or end of file
with `-e`), and that is a real stop. A consumer blocked with no
successor is caught by `ConsumerWakes` and `WakeupPending` instead. The
TpiuDemux, OFlow, FrameScan and IntervalStats models stop when they
reach their bounds (frames, blocks, reports), or, for FrameScan, after
its single scan.

## 5. Proofs

`BlockRingProofs` (checked by `tlapm`):

- **`TypeCorrect`**: `Spec => []TypeOK`. It is proved by induction,
  from the lemmas `TypeInit` and `TypeStep` (one step per action), which
  the other proofs about the ring reuse. It rests on the lemma
  `NextSlotType`: the modular index stays in `0..NumRawBlocks-1` when
  `NumRawBlocks > 0`.
- **`DeviceWakeupPending`**: if `fileFeeder` is not among the feeders,
  then `Spec => []WakeupPending`. The inductive invariant is
  `TypeOK /\ WakeupPending`. This needs no strengthening, for two
  reasons. First, the only step that makes `wp # rp` while the consumer
  is blocked on a locked mutex is `FeederAdvance`, and for a device
  feeder that step always leads to `ppc = "unlock"`. Second, `ppc` leaves
  `"unlock"` only through `FeederUnlock`, which releases the mutex. The
  assumption about the feeders is needed: `ring_file_wakeup` shows the
  property fails for `fileFeeder`.

`PassThroughProofs` (extends `BlockRingProofs`):

- **`PassThroughCorrect`**: `Spec => []PassThroughExact`, for every ring
  size, bound and set of feeders. The property says nothing of the
  blocks still in the ring, so it is not inductive. The inductive
  invariant `PassThroughInv` is `TypeOK` and, while `~lapped`,
  `PassThroughExact` with `RingInv`, whose conjuncts are these:
  - `FreshContiguous`: the published slots are those from `rp` up to
    `wp` in ring order, and all of them when `wp` has come round to
    `rp`. Without it, nothing ties the slot `rp` reads to the blocks
    the feeder wrote.
  - `InFlight`: while the consumer is past its `wp == rp` test, `rp` is
    published. This is the reason `ConsumerSend` sends an owed block.
  - `WriteNotFresh`: between its read and its advance, the feeder holds
    an unpublished slot. Without a lap, a write then changes no owed
    block.
  - `IdsInterval`, `IdsOrdered`, `PendingId` and `SentBound`: the data
    blocks still owed (`Owed`) carry exactly the ids
    `Len(dataSent)+1 .. produced`, in ring order from `rp`. The one
    exception is a block read and not yet published, which carries
    `produced`. This is what makes the block `ConsumerSend` appends the
    next id: it is the owed block nearest `rp`, so it has the least id.

  Distances along the ring (`DistFrom`) carry the ordering. The lemmas
  `ModOnce`, `NextSlotValue`, `DistValue`, `DistInjective`,
  `DistNextSlot` (advancing `wp` moves it one further from `rp`) and
  `DistFromNext` (advancing `rp` brings every other slot one closer)
  do the modular arithmetic once. There is one lemma per group of
  actions:
  - `QuietActions`, through the frame lemma `QuietStep`;
  - `WriteNoData`, through the frame lemma `WriteFrame`;
  - `ReadDataStep`, `FeederAdvanceStep`, `ConsumerSendStep` and
    `ConsumerAdvanceStep`.

  `LappedStays` lets the inductive step assume `~lapped` before the
  step. The lemmas `PassThroughInit` and `PassThroughStep` state the
  induction on `PassThroughInv` so that `DeviceSendProofs` can reuse it. TLC checked `PassThroughInv` before it was proved: with 2 slots
  on the `ring_devices` and `ring_file` instances, and with 1 and 3
  slots for the file feeder.
- **`ConsumerStaysBehind`**: `Spec => ConsumerBehindFeeder`, the action
  property `[][rp' # rp => fresh[rp]]_vars`, laps included. The
  invariant `BehindInv` holds whether or not the feeder laps. It says:
  - the slots from `rp` up to `wp` are published (`PublishedUpToWp`);
  - `rp` is published while the consumer is past its test (`InFlight`);
  - if `wp` has come round to `rp` since that test, every slot is
    published (`FullWhenCaughtUp`). Advancing `rp` in that case leaves
    `wp` at the far end of the ring.

  The last step is the action property: only `ConsumerAdvance` moves
  `rp`, and it runs with `cpc = "advance"`. TLC checked `BehindInv` on
  the `ring_devices` instance and with 3 slots (10.6 million states).
- **`NoDuplicateUntilLap`**: `Spec => [](~lapped => NoDuplicateDelivery)`,
  a corollary of `PassThroughCorrect`. The duplicate that
  `ring_lap_duplicate` finds therefore needs a lap.

`DeviceSendProofs` (extends `PassThroughProofs`):

- **`DeviceNonNegative`**: `Spec => []DeviceSendsNonNegative`. The
  invariant `DevInv` adds `DevFill` to `PassThroughInv`. For a device
  feeder, the slot being published has `fillLevel >= 0` (`DevPending`;
  only `ReadData` and `UsbTimeout` lead to the advance), and, before a
  lap, so does every published slot (`DevFresh`). `InFlight` then makes
  the block `ConsumerSend` passes non-negative. The failed read's -1 goes
  into slot `wp`, which is unpublished unless the write is a lap
  (`DevFreshWrite`). TLC shows that the property fails without
  `~lapped` (the torn read at 733) and that it fails for `fileFeeder`
  (`ring_file_error`).

`IntervalStatsProofs`:

- **`AccountingExact`**: for every `F` with every fill level in `1..F`
  (no failed reads) and `MaxBlocks * F < Modulus`,
  `Spec => []AccountingExactUnlessRaced`. The property alone is not
  inductive: a consumer that has loaded `intervalBytes + f` must store
  exactly that, and a reporter between its read and its clear must hold
  the counter's value. The inductive invariant `IInv(F)` adds these
  (`NoRaceInv`) and the bounds `intervalBytes <= received <= blocks * F`
  (`CountBound`), from which the lemma `NoWrap` shows that `% Modulus`
  never wraps. TLC checked `IInv(2)` on the `interval_accounting`
  instance before it was proved. Both assumptions are needed:
  With `Fills <- {-1, 1}` TLC shows the counter wrapping to
  `Modulus - 1` after a failed read.

Only TLC checks the following:

- the liveness properties `ConsumerWakes` and `BlocksEventuallySent`
  (TLAPS does not handle liveness under fairness here);
- `DemuxRefinement`, `RoundTripExact`, and `OFlow`'s `TypeOK`:
  the demux and the codec are written with `FoldLeft`, and what a fold
  computes for every input would need induction over data, which the
  installed provers cannot instantiate;
- `ExtentMatchesReference`: `FrameExtent` is a recursive function, for
  the same reason.

## 6. Not modelled, and why

- `serialFpgaFeeder` (1020-1094) does not compile: `struct *dataBlock`
  is a syntax error, and `main` calls `serialfpgaFeeder`, a different
  name. It is dead code (spec 9).
- `_setSerialConfig`, USB device discovery, and the printing in
  `_checkInterval` are I/O and formatting with no state the properties
  observe.
- `nwclient` and the TPIU decoder are not in `src/`; the TPIU decoder
  is planned as a spec-only module (plan item 7). COBS is modelled
  from the spec inside `OFlow`.
- `OFLOWDelete` only frees memory. The timestamp in `OFLOWPump` is the
  wall clock and no property observes it.
- The rate printout of `_checkInterval` (the scaling, the percentage of
  `dataSpeed`, the TPIU counters) is formatting.
- Option parsing, including the channel-list parser: its hazards are
  listed below (integer overflow, `numHandlers` wrapping at 256) and not
  yet modelled.
