# A formal model of fpga-scope

fpga-scope is an embedded logic analyser: an RTL capture core that an FPGA design instantiates, and a
Python host driver that configures it, waits for a capture and reads the buffer back.  This directory
models its control in TLA+, checks the models with TLC on small instances, and proves most of the safety
properties, and the refinements, for all parameter values with TLAPS.  Every definition is a translation of source code;
the file and lines of each are listed under `map` in `PROJECT.json`.

## 1. The system

```
 probe --> scope_trigger --> decimation / --> (scope_rle) --> scope_core --> buffer + window RAM
           comparators,      qualification,                   capture FSM           |
           sequencer         held trigger                        ^                  v
                                              scope_csr ---------+--------- read port / BUF_DATA
                                                 ^                                  |
          host <-> transport <-> async FIFOs <-> servicer <-> scope_drain (frames, DRAIN)
```

| component | state | operations | where it is hard |
|---|---|---|---|
| capture core `rtl/scope_core.sv` | FSM state, write offset, slice base and mask, fill and post counters, window index and counts, trigger index and time stamp, buffer and window RAM | arm, disarm, store a sample, accept a trigger, complete a window, start the next | ring arithmetic with slices; strobes coinciding with the last sample or the acceptance; abort and re-arm |
| CSR block `rtl/scope_csr.sv` | configuration registers, pending force, cfg_err, drain pointer, WIN_SEL, TS shadow | register reads and writes, CTRL strobes, BUF_DATA pop | lock outside IDLE; read-after-pop latency; a force held across sample gaps |
| trigger engine `rtl/scope_trigger.sv` | registered comparator hits, sequencer stage and counters, one-shot flag, fire pulse | evaluate comparators, advance, fire once per arm | two-cycle latency against the FSM state |
| sample glue `rtl/scope_top.sv` | decimation counter, held trigger | tick, qualify, hold | a held trigger outlives the run it was raised in |
| RLE encoder `rtl/scope_rle.sv`, decoder `host/fpgapa_scope/rle.py` | previous value, run count, one-word skid, trigger tag | encode, bypass, flush; decode | two words in one cycle; a capture that begins in mid-run; a trigger a cycle late behind the skid |
| drain engine and servicer `rtl/scope_drain.sv`, `rtl/scope_top.sv` | frame parser, command FSM, DRAIN header and data counters, one outstanding CSR access | PING, READ_CSR, WRITE_CSR, DRAIN, NAK | resynchronisation on bad bytes; header assembled while the core runs; lane and byte counters |
| FIFOs `rtl/prim/prim_fifo_*.sv` | pointers, gray copies, synchronisers, output register | push, pop | stale and torn pointers across clock domains |
| UART, AXI4-Lite, Avalon, JTAG front-ends | bit and byte counters, handshake registers | serialise, accept, respond | clocks that drift; write data before address; a read that pops |
| frame codec and transports `host/fpgapa_scope/frame.py`, `jtag.py` | receive buffers | parse, write, read | chunks of any size; the same hunt as the device's |
| host driver `host/fpgapa_scope/scope.py`, `cli.py` | input byte buffer, decoded frames | read, write, arm, wait_done, drain, decode | timeouts against late answers; configuration that outlives an aborted run |
| exporters `probes.py`, `vcd.py`, `sigrok.py`, `fpga/axc3000/reconstruct.py` | previous value of each field | group bits, write changes, pack, focus | last and first sample; reversed and overlapping groups |
| golden models `sim/model/scope_ref.py` and the benches | a second implementation of capture, windows, sequencer and RLE | expected results of the co-simulation | they must agree with the RTL on every stimulus, not only the chosen ones |

Interactions: the CSR block gives the core single-cycle `arm` and `disarm` pulses and live `PRETRIG` and
`WINDOWS`; the core gives back its state, by which the CSR block locks configuration and holds or drops a
force; the trigger engine is enabled by the core being ARMED; everything the host sees passes through the
drain engine, which crosses to the probe clock through two asynchronous FIFOs with one access outstanding.
The core and the host run concurrently, tied together only by frames with deadlines.

What makes each part correct: the core keeps a gapless pre-trigger history, never loses the trigger sample,
and completed windows stay as they are; the glue loses no trigger and lets none cross from run to run; the
encoder loses no sample and keeps the trigger aligned; the transport executes whole frames only and recovers
from line noise; FIFOs neither lose nor invent data; bus masters receive the buffer's lanes in order; the
host returns the samples of the capture it asked for.  `hazards` in `PROJECT.json` lists, line by line, what
can go wrong, with the property that would notice it.

## 2. Modules

| module | models | role |
|---|---|---|
| `CaptureSpec` | a capture as the host understands it | abstract specification: no ring, no addresses, no registers |
| `ReorderWindow` | `reorder_window` of `reorder.py` | operator used by every refinement and by the host |
| `ScopeCore` | `scope_core.sv`, PRETRIG and WINDOWS of the CSR block | one step is one clock edge |
| `ScopeCoreProperties`, `ScopeCoreProofs` | | inductive invariant, mapping to `CaptureSpec`, liveness; proofs |
| `CaptureDomain` | CTRL strobes, pending force, one-shot sequencer, decimation, qualification, held trigger | composes with `ScopeCore` and implements it |
| `CaptureDomainProperties`, `CaptureDomainProofs` | | properties; proofs |
| `ScopeTrigger` | `scope_trigger.sv` | comparators on sets of bits, stages, sequencer pipeline |
| `ScopeRef` | `capture_model`, `windows_model` of `scope_ref.py` | a pass of the loop is a function of its local variables |
| `ScopeCosim`, `TriggerCosim` | the benches `tb_windows`, `tb_pretrig`, `tb_trigger_seq` | golden model and RTL model in lock step |
| `ScopeRle` | `scope_rle.sv` and RLE_CTRL | encoder, bypass, flush, skid, trigger tag |
| `ScopeRleProperties` | `rle_decode_words` | what decoding guarantees |
| `ScopeRleBench` | `rle_encode`, `rle_decode` of `scope_ref.py`, `tb_rle.sv` | encoder and both decoders against the golden encoder |
| `RleCapture` | encoder in front of the core, `decode_drain`, `reconstruct.py` | composes `ScopeRle` and `ScopeCore`; implements the core |
| `RleProofs` | | proofs about `ScopeRle`, `RleCapture` and `ScopeRleBench` |
| `BufferPort` | BUF_CTRL, BUF_DATA, drain pointer, registered RAM read | the bus as a master with `Spacing` idle cycles sees it |
| `CsrCrossing` | command engine, two FIFOs, servicer | composes with `BufferPort`; implements it with the pauses it needs |
| `ScopeAxil` | `scope_axil.sv` | the same for the AXI4-Lite front-end |
| `FifoSpec` | what both FIFOs promise | abstract bounded queue |
| `FifoAsync` | `prim_fifo_async.sv`, `prim_ff_sync.sv` | implements `FifoSpec` with torn gray pointers |
| `FifoSync` | `prim_fifo_sync.sv` | implements `FifoSpec` |
| `UartLink` | `scope_uart.sv`, synchroniser | transmitter and receiver with clocks of their own |
| `FrameCodec` | `frame.py` | `build_frame`, `parse_frame`, `parse_all` |
| `FrameParser` | receiver of `scope_drain.sv` | one byte per step |
| `FrameLine` | both receivers on one line | any bytes, repeated requests, traffic with noise |
| `WireProofs` | | proofs about `UartLink`, `FrameLine` and `FifoSync` |
| `JtagLink` | `jtag.py`, `scope_jtag_repl.tcl`, `scope_jtag.sv` | transport, pump and byte registers |
| `ReadoutProofs` | | proofs about `BufferPort`, `CsrCrossing`, `ScopeAxil`, `JtagLink` and `FifoAsync` |
| `DrainHeader` | DRAIN header and window records | composes with `ScopeCore`, which runs on |
| `ObserverProofs` | | proofs about `DrainHeader`, `DrainLanes`, `ScopeCosim` and `TriggerCosim` |
| `DrainLanes` | DRAIN_DATA frames, `_unpack_samples`, `cmd_drain_data` | lane, byte, word and frame counters in their widths |
| `Exporters` | `probes.py`, `vcd.py`, `sigrok.py`, `reconstruct.py` | a reader of each export gets the samples back |
| `ScopeHost`, `ScopeHostProperties` | `scope.py`, `cli.py`, command engine, CSR registers | composes host, line, engine and `ScopeCore`; implements the core |
| `HostProofs` | | proofs about `ScopeHost` and `Exporters` |
| `NaturalRecursion` | | induction and recursion over the naturals, powers of two, sequences put together from parts: lemmas of the proofs |
| `MC*` | | instances for TLC |

An `MC` module may hold several parts that do not interact (`part`, `setting` or `scenario`, a variable
that is chosen in the initial state and never changes); each is a specification of its own with its own
bounds, and the state count of the run is their sum.

### ScopeCore

Variables carry the names of the registers (`st` is `state`, `offset` is `wr_addr`'s offset, `post` is
`post_remaining`, `slice` and `weff` are `slice_mask + 1` and `2^weff_log2_q`).  `Edge(v, t, a, d)` is one
rising edge with `sample_valid`, `trig`, `arm` and `disarm`; its disjuncts are the branches of the clocked
process in the code's order of priority: `Reset`, `Disarm`, `Arm`, then one action per state.  The capture
datapath (`Capture`: write pointer, buffer write, trigger latch, counters) runs also in the cycle of a
disarm, as in the code, where only the FSM assignments are overridden.  A sample is represented by its
number and `ts_at_trig` by the number of the sample it stamps; numbers wrap at `StampLimit`, the only bound
of the model.  `PRETRIG` and `WINDOWS` can be written in IDLE only, including illegal WINDOWS values (no effect).  `Reset` clears the
registers only: the write ports of buffer and metadata RAM are not gated by `rst`, so a sample that comes in that
cycle is stored and a window that ends in it leaves its record.

`runPre` and `now` are history: the PRETRIG_EFF of the run (the host passes it to the drain) and the number
of the incoming sample.

`CaptureSpec` has a phase, the number of samples held, how many are still to come and the sequence of
recorded windows, each a sequence of samples in time order with the trigger at a known place.  The mapping
restores each window from its slice and its metadata record with `Ordered`, the host's reordering.  So
`Refines` says that buffer, metadata RAM and host arithmetic together do what is promised, that completed
windows are final, and that disarm, re-arm and reconfiguration in IDLE do no damage.

### CaptureDomain and ScopeTrigger

One step of `CaptureDomain` is one edge of the probe clock.  Comparator hits, the sequencer's completion and
qualification are functions of the probe, hence free inputs; a CTRL write carries any subset of its four bits,
and any configuration write may come in any state (outside IDLE it is refused).  `Pace`, `Sequence` and
`HoldForce` are the three clocked processes around the core.  `raised` and `cause` are history: in which phase
the waiting and the accepted trigger were raised.

`ScopeTrigger` has the engine behind that free input: comparator units with level and edge masks, stages that
select units, need any or all of them and count occurrences, and the one-shot fire, each a register stage
after the other.  `run` is "the core is ARMED"; it may fall and rise in any cycle.

### Golden models

The simulation compares the RTL with Python models on chosen stimuli.  `ScopeCosim` and `TriggerCosim` put
the two side by side, a pass of the model's loop for every sample the RTL takes, over every trigger schedule:
`CaptureModelExact`, `WindowsModelExact` and `SequencerIsModel` are the comparisons of the benches, and
`TriggerSampleSatisfies` says that the sample the engine fires for satisfies the last stage.  `ScopeRleBench`
does it for the encoder.  The stimulus generators and file formats of `scope_ref.py` are not modelled.

### ScopeRle and RleCapture

One step of `ScopeRle` is one clock edge (`Sample`, `Flush`, `Gap`) or a write of RLE_CTRL between two edges
(`Switch`), which does not reset the encoder.  `Produced` is the combinational block, `Emit` the output
arbitration: if three words ever met, the third would be lost, as in the code.  `raw` and `out` are the
histories of samples and words.  A run can be armed some cycles after a switch, so a capture stores words after
`mark` and may begin with any of them.  `Flush` is an input of the encoder that `scope_top` ties to zero.

`RleCapture` puts the encoder in front of the core, which then counts words.  `CaptureDecodes` reorders the
words and decodes them as host and board script do: the result is a stretch of the samples, and where the
host says the trigger is, it is.  `TriggerNeverLost` is about the skid: a trigger sample that comes while the
core is ARMED is accepted, at once or with the next word.

A count word is a value of the probe's width, which the code gets by padding the count with PROBE_W - CNT_W
zeros; with a narrower probe it does not elaborate.  `WidthAssumption` (every count fits `ProbeW` bits) states
that, and with it the conversion loses nothing.

### Ways out of the buffer

`BufferPort` is the drain pointer of `scope_csr.sv` with the registered read of the RAM.  A read shows what
the pointer of the cycle before addressed, so reads without an idle cycle between them see a lane twice.
`LanesInOrder` holds for every master with `Spacing >= 1`; `CsrCrossing` and `ScopeAxil` are masters that
keep that pause, and the download arrives in order through each of them.  `BufCtrl` stands for both
writes that clear the pointer, BUF_CTRL bit 0 and soft_rst in CTRL.  `JtagLink` has the Python transport,
the Tcl pump and the two byte registers; a step of the pump or the device may come between any two of the
transport's.

`FifoAsync` lets the read clock, the write clock or both tick in a step; when both do, every bit of a gray
pointer in a synchroniser may be old or new.  `FifoSync` has the RAM, the output register and the counters.
Both implement `FifoSpec` with capacity `2^DEPTH_LOG2 + 1` and `Depth` respectively.

### The line

`UartLink` has two clocks with periods of their own, in any phase: a transmitter and a receiver that both
divide by DIV; in one setting noise shorter than half a bit pulls the idle line low.  `FrameCodec` and `FrameParser` are the
two programs that hunt for SYNC0 SYNC1; `FrameLine` runs them over the same bytes.  A byte is one of `Base`
values, two of which are the sync bytes, so sync bytes occur everywhere; length and check sum are one byte each.
A frame with a right CRC is *taken*: `Refusal` tells whether the device executes it or answers NAK, for an
opcode it does not know or a length the command does not have (`Lengths`).  Either way the parser hunts again, and
either way the frame counts for the host, which does not know opcodes.

`DrainHeader` reads STATUS, TRIG_INDEX, the two halves of the time stamp and the window records, with a
cycle or more between the accesses (the crossing leaves two), while the core goes on.  `DrainLanes` has the loops that emit the words,
with indices of the width in the code, and the host's unpacking.

### ScopeHost

A step is a clock edge of the core, one CSR access of the command engine, a frame lost or damaged on the
line, or a step of a host call.  A host call is what `scope.py` does: write a request, wait for a reply until
a deadline, take whatever reply comes.  Command lines are sequences of calls as in `cli.py`, started one after
the other; `Calls` are the calls a program may make, and `Commands`, any set of sequences of them, the
programs.  A CTRL strobe is a write to a register of its own.  `completed`, `asked` and `abandoned` are
history: a window completed since `arm` was called, the values last asked for, and that a drain was given up
with frames still to come; `outcome.matched` is what the host had been told when it drained: `wait_done` had
returned, the run was of one window, and the pre-trigger length given to the decoder is that of the run.  The
scenarios of `MCScopeHost` are *session* (good line; `config` and `arm --wait` with values that
fit, are truncated or clamped), *waiting* (an answer may miss its deadline), *losing* (two frames lost or
damaged and one answer late; the program goes on after an exception) and *readme* (the documented commands).

## 3. What is checked

| run | question | bounds | states |
|---|---|---|---|
| `core` | every configuration, strobe, abort, restart and reset: the inductive invariant, the trigger sample, the refinement of `CaptureSpec`, and that a run left alone ends | Depth 4; WINDOWS writes 0 to 3 (0 is clamped, 3 refused); sample numbers modulo 7; abort and reset at any point, arm while the sample number is 0 or 1 | 408,661 |
| `domain` | every trigger source, decimation and qualification pattern around the core: no fire lost, no force or held trigger in another window, the clock alone carries a window on, a force takes effect | Depth 4, runs of two windows, PRETRIG 0 and 2, DECIM 0 and 1 (qualification with PRETRIG 2 and DECIM 0), sample numbers modulo 5, arm and disarm at sample number 0 | 163,189 |
| `rle` | the encoder by itself, against the golden encoder, and in front of the core | 2 symmetric values, MaxRun 3, 6 samples (7 in front of a core of four words, strobes in the first three) | 2,036,890 |
| `golden` | the golden capture, windows and sequencer models against the RTL's | Depth 8, up to 4 windows, every PRETRIG, every trigger schedule in 20 samples; two bits, two units, three stages, every stage setting with counts 0 and 2 | 347,230 |
| `wire` | UART, FIFO and frame protocol | UART DIV 6 with any phase and noise up to half a bit, all 256 bytes, and DIV 16 with the sender 3 % fast or slow without gaps; every line of up to 9 bytes over 4 values, of which three are opcodes the device knows, one with any payload; a request repeated after up to 5 bytes of anything; frames and noise up to 12 bytes; FIFO of four words | 1,855,421 |
| `readout` | lanes, words and bytes in order through the crossing, the asynchronous FIFO, AXI4-Lite and JTAG, and every access answered | four words of three lanes; FIFO DEPTH_LOG2 2; three requests of 3 bytes with answers of 5 | 68,926 |
| `drain` | the header read while the core runs, data frames of every width, exports | two windows of two samples and a second run; 1 to 64 bytes per word; up to four samples of five probes with overlapping and reversed groups | 605,872 |
| `host` | command lines against a running core | Depth 4, up to three commands, values beyond the registers' range, one answer late, two frames lost or damaged | 467,125 |

Four more runs expect a violation (below).  `rle`, `golden`, `wire` and `drain` bound their inputs and end
with them, so these and `lanes_widest` do not look for deadlock; the others do, except for the host's
violation runs, which stop at their counterexample.

Why the bounds are enough.  Depth 4 has one slice of four (PRETRIG 0, inner and slice - 1) and two of two;
a slice wraps while ARMED and again after the trigger, two windows follow each other and an aborted run leaves
its contents under a new one.  The slices of eight samples, and third and fourth windows, are in
`golden`.  Sample numbers that wrap at more than the buffer's depth keep old contents apart from new.  DECIM 1
has ticks with a cycle between them and DECIM 0 has none; a trigger is held from when it is raised to the next stored
sample, and nothing depends on how many cycles that takes.  MaxRun 3 with six samples saturates a run, goes on with it and
changes value.  Nine bytes hold every frame of up to three payload bytes and every wrong beginning before a frame
of one.  A gray pointer of three bits wraps, is full, empty and torn in every bit.  For the data frames all
widths are there, and two frames of two words have each counter roll over with and without the others.

Every property of a passing run has a mutant in `PROJECT.json`: a plausible defect of one definition, kept
next to it in the module, that the run then reports.

### What the properties say

* Core: `IInv` (§4), `TriggerSampleKept`, `Refines`, `RunCompletes`.
* Domain: `SequencerFireInFlight` (a one-shot fire is never dropped while the core waits),
  `ForceStaysInWindow`, `EarlyTriggerNeedsNoHistory` (a trigger from before ARMED can be accepted only with
  PRETRIG_EFF = 0), `WindowProgresses`, `ForceTakesEffect`.
* RLE: `SkidNeverOverflows`, `Lossless`, `BenchAgrees`, `CaptureDecodes`, `TriggerNeverLost`.
* Golden models: `CaptureModelExact`, `WindowsModelExact`, `SequencerIsModel`, `TriggerSampleSatisfies`.
* Wire: `BytesArrive`, `SyncIsFifo`, `SameHunt` (host and device find the same frames on any line),
  `WholeFramesOnly` (nothing is taken from half a frame), `AnswerIsStable` (chunking does not matter),
  `ResyncByThirdRequest` (after any noise the third copy of a request is taken, that is executed or refused for its opcode or length),
  `TrafficArrives` (whole frames with noise between them are all found by both receivers).
* Readout: `DownloadInOrder`, `ReadDataInOrder`, `AsyncIsFifo`, `BytesCarried`, `AccessesAnswered`, `CallsReturn`.
* Drain: `RecordsOfWindowsDone` (the header's records are those of windows that are complete),
  `ParkedHeaderIsWhole` (a header read while the core is parked belongs to one window), `WordsArrive`,
  `ExportsReplay` (reading an export back gives the samples and the trigger).
* Host: `CaptureFaithful` (on a good line, after a wait, samples in time order and the trigger marked),
  `DoneOfThisRun` (`wait_done` never returns for an earlier run), `ConfigReportTruthful` (`cfg_err` false means the registers hold what was asked),
  `BacklogBounded` (what the host sends during a command fits the receive FIFO), `CommandsEnd`.

### Disagreements between code and documents

Each of these runs checks one documented statement that the code does not keep.

* `core_drain_windows`: `decode_drain` reorders the whole buffer as a single window, so a capture of several
  windows comes back out of time order.  The refinement in `core` uses the documented per-window formula with
  the per-window metadata, and that formula is right.
* `host_readme`: `config --pretrig N` followed by `arm --wait`, the README's session, decodes with
  pretrig_eff 0 and returns the samples out of time order.
* `host_nak`: a damaged `arm` is answered NAK, which nobody looks at; `wait_done` returns on the DONE of
  the run before.
* `lanes_widest`: with 512 probes and RLE a stored word has 17 lanes, one more than the index has values.

Further differences met while modelling; the models contain them, no run is devoted to them:

* PRETRIG_EFF = 0: FILLING stores one sample, not none.  Harmless for the result (it is overwritten before it
  can be read as history).  For the same reason a trigger raised in the last cycle of FILLING, or a force copied
  into the held trigger before a disarm or soft_rst, can trigger a run with PRETRIG_EFF = 0;
  `EarlyTriggerNeedsNoHistory` gives the exact extent and is proved.
* `capture_model` needs one stimulus sample more than the RTL at PRETRIG = DEPTH - 1.
* `parse_all` stops at a frame it finds too short and drops what follows it (frame.py:103).  A request whose
  payload contains A5 5C can keep the parser a step behind for one more request; three copies always suffice.
* `--pretrig` beyond the register is truncated on the device but not in the host's decoding; of a WINDOWS
  write only the low byte is range-checked, so 256 and 257 are stored as 1.
* `wait_done` can see the one-cycle DONE between two windows.  A pause in a drain longer than its quiet time
  shortens the capture without an error.  A drain that outlasts its own deadline leaves frames behind that
  answer the next calls, and requests sent meanwhile can overflow the receive FIFO.
* A master of the Avalon front-end that reads in consecutive cycles sees each lane twice (`BufferPort` with
  Spacing 0).
* `ts_at_trig` is read in two halves without a shadow: only a parked core has a whole one.
* With more than one answer late, `DoneMeansThisRun` fails on a good line too.
* `--around n` shows n - 1 samples after the trigger.
* UART with DIV 2 cannot receive, and at DIV 4 has next to no tolerance left after the synchroniser: with a
  receiver that is not faster than the sender, and edges that may coincide, a bit can be taken for the next.

### Fairness

`core`: weak fairness of storing a sample in FILLING, ARMED (with a trigger) and TRIGGERED and of starting the
next window: the clock runs, samples keep coming, and an armed core is offered a trigger, since a force is held
until a sample accepts it.  No host action is fair: `RunCompletes` speaks of behaviours in which the host stops
strobing.  `domain`: weak fairness of the clock step without a host strobe, whatever the other inputs are in it;
nothing is assumed of triggers.  Its liveness properties speak of runs without qualification, because a
comparator that never matches stores nothing, by design.

`readout`: both clocks run, so the command engine and the servicer step; an AXI cycle in which the master
accepts its response recurs; the device, the pump and the Python interpreter run on.  AXI reads are answered only
when writes leave room, since a write has priority, and the property speaks of a master that keeps its request up.
JTAG calls are in the half-duplex discipline of `Scope` (a whole request, then its answer); without it a full
byte register makes both sides wait.  `host`: the engine executes the request it has, and the host's loops,
which have deadlines, go on.  Nothing is assumed of the core's samples or triggers.

## 4. What is proved

For every value of the constants that the named ASSUMEs of the modules allow, nothing else being taken for
granted:

* `ScopeCoreProofs`: `Invariant` (`Spec => []IInv`) and from it `TypeCorrect`, `TriggerSampleIsKept`,
  `HistoryIsIntact`, `HistoryPrecedesTrigger`, `BudgetIsExact`, `WindowsAreCounted`; and `CoreRefines`, that
  the core implements `CaptureSpec`.  Depth is even; the slices are its divisors with at least two samples each.
* `CaptureDomainProofs`: `DomainImplementsCore` (`DomainSpec => Spec`), so all of the above hold in the
  composition (`DomainHistoryIsIntact` is stated), and `SequencerNeverLost`, `ForceNeverLeaks`,
  `EarlyTriggersAreDropped`, `SamplesOnGrid` from an inductive invariant of the glue.
* `RleProofs`: of the encoder `SkidSuffices`, `EncodingNeverExpands`, `RleTypeCorrect` and `EncodingIsLossless`;
  of the encoder in front of the core `CaptureImplementsCore`, `TriggerSampleReachesCore`,
  `CaptureHistoryIsIntact`, `CapturedWordsAreLossless` and `CapturesDecode` (for histories the word numbers of
  the model suffice for: `MaxSamples < StampLimit`, two bounds the code does not have); and of the encoder and
  the golden model `EncoderIsGolden`.
* `ObserverProofs`: `HeaderRecordsComplete` and `HeaderOfOneWindow` of the DRAIN header read while the core
  runs; `WordsReachHost` of the data frames behind it, for words of up to 64 bytes (what the index registers can
  count: the run `lanes_widest` shows that 65 fail); and the golden models: `CaptureModelIsExact`, `WindowsModelIsExact`, `SequencerMatchesModel` and
  `TriggerSampleIsAligned`.
* `ReadoutProofs`: `PortLanesInOrder` for Spacing at least 1; `CrossingDownloadInOrder` and
  `CrossingImplementsPort` for Spacing 1 and 2, so the assumption `DrainHeader` makes about the pauses is one the
  servicer meets; `AxilReadsInOrder` and `AxilImplementsPort` for Spacing 1, the pause the front-end leaves;
  `LinkCarriesBytes` for every length of requests, answers and reads; and `AsyncImplementsFifo`, the refinement
  of the bounded queue by the clock-crossing FIFO, for every `DEPTH_LOG2` and every way of tearing a pointer.
* `WireProofs`: `OnlyWholeFrames`, `HuntsAgree` and `AnswersAreStable` of the frame parser and the host's
  `parse_frame`, on any bytes, under a retried request and in traffic, for every number of byte values above one,
  every longest payload and every set of frames that can be built; `ThirdRequestIsExecuted`, under `NoiseFits`
  (the body of the longest frame and its CRC fit two requests: in the code 1 + 2 + 8 + 2 = 13 bytes against
  twice 7; in the run 5 against 10); `TrafficIsComplete`, for frames that are requests (`RequestsOnly`: an
  opcode, known or not, and a payload no longer than `MaxPayload`); `BytesGetThrough` of the serial line, for every DIV, all periods and phases of
  the two clocks and any noise that `Tolerant` allows, an assumption on the constants that `MCWire` checks of the
  settings of the run; and of the FIFO behind the UART receiver
  `CountersAreExact` and `FifoSyncImplementsFifo`, the refinement of the bounded queue.
* `HostProofs`: `HostUsesCore` (`HostSpec => Spec`), `HostInvariant`, and from it `CapturesAreFaithful`,
  `DoneIsOfThisRun`, `ConfigReportsAreTrue` and `BacklogIsBounded`, for every set of programs, every frame size
  that divides the buffer and every bound on what is lost, late or polled; and `ExportedWhole` of the exporters,
  for every probe width, byte width, base of the identifier codes, length of capture and set of mappings
  under `ExportsAssumption` (a file's ranges lie within the probe, its names are different and none is one the
  writers use themselves, `probe[k]` or the key of the trigger marker).

### The core and what is around it

That the trigger sample survives is not inductive: a store in TRIGGERED could hit it if the budget were larger
than the slice.  `IInv` adds what the stores depend on: the write pointer is as far past the trigger as samples
were spent (`BudgetEndsAtOldest`, `TriggerShape`), FILLING starts from an empty slice and cannot wrap
(`FillShape`), base, window number and slice agree (`WindowBookkeeping`), and walking back from the pointer
finds consecutive sample numbers (`HistoryIntact`).  The proof treats the store once (the history moves back by
one place, the oldest is overwritten) and then each edge by the state it starts in.  For `CoreRefines`, a
window that is being written is a stretch of that history, the windows before it lie in other slices, and each
step maps to a step of `CaptureSpec` or to none.

In the composition, a held trigger from before ARMED needs PRETRIG_EFF = 0 (`EarlyTriggerWaits`), because
FILLING with PRETRIG_EFF > 0 leaves only on a stored sample and a stored sample clears what is held.  For the
DRAIN header, a run that was left alone only adds windows (`RecordsSoFar`), a record that is complete does not
change, and a parked core does not move, so parts read at different times are parts of one window (`PartsOfOne`).

The golden models are in step with the RTL by registers (`CosimInv`): `windows_model` has base, offset,
counters and buffer of the core and its records are those in the window RAM (`SameWindows`);
`capture_model` has them in a run of one window (`SameCapture`), where the slice is the buffer.  The sequencer's
model decides at once what the engine takes two cycles for, so `SequencerInv` says what is in the pipeline:
the comparator hits registered are those of the sample the model judges next (`SamePipeline`).

In the data frames, the lane buffer holds the first lanes of the word being read and the payload its words row
by row (`DrainInv`).  The frames sent so far are those of the golden model for the lanes read so far
(`FramesSent`), and all of them together, flattened, are the rows of a table, which the host's slicing reads
back.  The index registers count modulo their width; the hypothesis on the word width is what keeps them from it.

### The encoder

A word waits in the skid only if no repeat is outstanding (`SkidExcludesRun`): every repeat is a cycle without
output, which drains the skid.  In front of the core, an owed trigger is the one word in the skid (`OwedInv`),
and that word leaves with the next cycle.  `Lossless` is about all words a capture may begin with, so its
invariant has what is still to come: what was emitted, with the word in the skid, decodes to the newest raw
samples save for the repeats counted and not yet emitted (`LosslessInv`), from every word after `mark` on.
`Decode` is a recursive function over the words; that it decodes one more word as it should is proved from the
induction and recursion theorems of `NaturalRecursion`, which take the induction hypothesis as a set and the step
as a function.

`CapturesDecode` is about words that were stored a while ago, when the newest sample was another one.  It needs
where they are in the history (`PlaceInv`: word number n of the run is `out[first + n]`, and the trigger's number
has the history in front of it), and that the words of one setting of RLE_CTRL decode to all samples but the run
outstanding (`WholeInv`), so that the words up to any one decode to the beginning of the samples.  A part of the
words that has begun with a data word then grows in step with the whole (`StretchInStep`): the trigger word is one,
so the samples behind it, and hence those before it, are counted alike in the stored part and in all samples.

For the bench, `BenchInv` says how far the encoder is in the newest run: its samples after the first, modulo a
full count word, are what it still owes.  The golden encoder recurses to the end of a stream, so what one more
sample does to it is not one step of the recursion.  `EncodeSplits` cuts the golden words where a run begins; a
sample of another value then adds its data word (`EncodeNew`), a repeat adds a count word or increases the
last (`EncodeRepeat`), which is what the encoder does with its count.  That both decoders invert the golden
encoder follows along the stream in the same two cases.

### Ways out of the buffer

The address register is the pointer of the cycle before, so after an idle cycle the RAM output is the lane the
pointer names (`PortInv`).  In the crossing, one command is in exactly one place (`OneCommand`: a FIFO, the
servicer or on its way back), so the servicer has been away from the bus for the pause when it executes
(`Paused`), and the answer on its way is the last lane read (`LastAnswer`).  Over JTAG, bytes written are those in
the pump, the registers and the device in that order, and the same on the way back (`LinkInv`).

In the synchronous FIFO, counters and pointers describe the ring and its output register (`CountersExact`).
In the clock-crossing one, each side's copy of the other's pointer is what that pointer was some edges ago
(`StaleViews`): the writer sees at least as many words as there are, the reader at most.  A gray code changes
in one bit per step, so a copy torn in transit is the old or the new pointer (the lemmas about `Gray`), and
full and empty err on the safe side; the memory between the pointers and the output register are the queue.

### The line

The parser is an automaton with a buffer, and all that is said of it is about the bytes it has forgotten.
`LineInv` keeps them: the line ends with what the parser holds of a frame (`Trails`); the frames the
device has taken stand on the line in their order without overlap, before what the parser holds (`Placed`); and the
first sync word of the line decides the first entry (`FirstFrame`), which is what `parse_frame` looks at.  A byte
either goes on with a frame, begins one, is waste, or ends a frame, taken or refused for its CRC or length (`StepCases`); only a
frame whose CRC is right adds a place, and what the parser holds is then exactly that frame.  A frame that arrives
whole in one step is its bytes one by one (`BytesStep`).  `WholeFramesOnly` has for every frame taken the least end
the line allows, and by induction over the log that is at most the end of its place.

For a request that is repeated, `ResyncInv` says where the parser is until the request is taken: in a frame
that began before it and has swallowed every byte since (`Stale`), hunting for the next copy and no further than
the second (`Hunts`), or in step with a copy (`InStep`).  A byte keeps the parser in one of them or ends the
request (`RetryByte`).  A frame from the noise is as long as its body, so `NoiseFits` ends it in the first two
copies; hunting, the parser cannot find a sync word that is not the beginning of a copy, because the request has
no other, and a frame in step is not refused (`FrameStep`).

In undamaged traffic the device hunts between frames, so a frame takes it from its first byte to its last
(`DeviceTakes`) and the log grows by it.  For the host `TrafficInv` keeps where the frames stand
(`FramesOn`: each after the one before, no SYNC0 outside of them).  `parse_all` is a recursion from an offset to a
later one; its results at the ends of the frames are found from the last frame back (`HostFindsAll`): behind the
last there is nothing (`HostSilent`), and before frame *i* the host finds frame *i* and goes on behind it
(`HostFinds`).

Below the frames, `BytesGetThrough` needs to know where in a byte the receiver is although the two clocks have
nothing in common.  `UartInv` tells it by one moment, the last time the line fell (`Fall`, computed back from the
transmitter's counters), and by the edge at which the level is sampled that the receiver acts on next (`Aim`,
computed forward from `rx_cnt`).  The receiver waits for nothing and has not seen the line fall (`Over`,
`Unseen`), has it in the first or in both stages of the synchroniser (`SeenOnce`, `SeenTwice`), reads bit *k*
(`Reading`), or is about to find that it was noise (`Rejecting`).  Reading bit *k* it aims between one and two of
its periods behind `Fall + Look(k)`: the synchroniser's doubt of a period, which no later bit adds to.
`Tolerant` says that this stretch lies inside bit *k* for the ten bits.  For DIV 16 a bit of the sender may be up
to 6.25 % longer or 3.75 % shorter than the receiver's; at 6.25 %, and at 3.75 % without gaps, TLC finds bytes
misread, as it does for DIV 4 with equal clocks, where the sender has to be slower.  When the transmitter ends a byte the
receiver has sampled the stop bit (`EndsOver`), so the next start bit finds it in `Over`; noise is over before a
byte begins because `Load` waits for the pulse (`Clear`, an assumption about the line).

### The host

`HostIInv` joins four arguments, each under the condition its property has.

* How much is on its way (`LoadInv`).  With at most one wait ended early and no drain given up, requests and
  answers in flight are at most one more than the host waits for, and outside a drain they are register
  accesses.  The frames in front of the engine then fit the receive FIFO.
* Whose DONE it is (`OldDoneInv`, `ToldInv`).  Until a window completes, the core says DONE only while the
  request to arm is on its way, and an answer that says so can only be taken for the answer to `arm`: it
  would need two answers too many to be the answer to a wait.
* What an answer says (`CallInv`, `AnswerInv`, `ConfigInv`, `DoneInv`).  With no answer late, request, engine and
  answer are those of the call that waits; the answer still holds when the host reads it, because a register
  changes only by a write and a run of one window stays DONE.  A register holds the value last asked for, or its
  write is on its way, or cfg_err is set.
* What a drain has brought (`DrainInv`).  A drain after `wait_done` passes through four stages
  (`DrainAsked`, `DrainBegun`, `DataFlow`, `DataSent`); in the third, header and the samples received so far are
  the header of the parked run and the buffer's first addresses, in whole frames.  With the core's history
  (`HistoryIntact`) the decoder's reordering then gives the samples in time order.

TLC finds `HostIInv` true of the runs of `host` as well.

### The exports

`ExportInv` has what the VCD writer remembers and what a reader sees: after the first sample, `prev` holds the
values of the last one, and for each variable and each time so far the last change written up to then has its
value then.  A sample that changes nothing adds nothing and leaves the reader with the value before; one that does
adds a change of its own time, behind all others of its code.  This needs the codes of different variables to
differ (`CodesDiffer`): they are bijective numerals, so the digits determine the number, whatever the base.

`load_probes` is proved to cover the probe with names that are all different (`LoadGood`), which the writer's
dict of codes rests on: a group of the file has its own name, a bit left out has one no group has, and the stable sort
only reorders them.  The groups of a sample then give all its bits (`CoverGood`).  In the sigrok session the bytes
of the samples are the rows of a table, so byte *j* of sample *t* is where the reader's arithmetic puts it
(`SrGood`).

Some of what is proved is in no run by a name of its own: `TypeOK`, `HistoryIntact`, `HistoryBeforeTrigger`,
`BudgetEndsAtOldest` and `WindowBookkeeping` are conjuncts of `IInv`; `OnGridAfterFirstSample`, `RleTypeOK`,
`NeverExpands`, `LanesInOrder`, `CountersExact`, `HostIInv`, `ExportInv` and the implementation theorems are for the proofs only.

Only model-checked: liveness, which the prover cannot state (the deadlines, the FIFO crossing, RUN to DONE).
Every safety property of a passing run is proved.

## 5. What is not modelled, and why

* Register plumbing without control: plain read-back, the CMP_SEL window, the TS shadow pair, identification
  registers, `ping`, the RLE_CTRL read of a drain.
* Data that control does not depend on: probe values beyond the few bits the trigger and the exporters need,
  CRC arithmetic (a check sum in which every byte counts), time-stamp width.
* Pure I/O: `save` and `load_capture`, file headers and units, `BytesTransport`, starting and closing the JTAG
  subprocess, `capture`/`windows` replay on the command line, the JTAG decode scripts.
* Test support: stimulus generators, the example design, board files.  The repository's own bounded checks
  (`src/formal`) correspond to `TriggerSampleKept` and `BudgetEndsAtOldest` (properties (a), (b)) and
  `NeverExpands` (property (c)).
* RLE together with decimation: each is composed with the core, not with the other.

## 6. What is left

Of the code, the TS shadow and the CMP_SEL window of the CSR block, and a host session that runs over `FrameLine`
instead of the line `ScopeHost` assumes.
