# Specifications of the firmware simulator

FirmwareSimulator runs the firmware images of a bay of boards on Renode.  A Rust
program (`src/src`) builds the topology, starts Renode, host processes and
bridges, watches them and gives a verdict; C# peripherals (`src/renode/peripherals`)
model the hardware that Renode lacks.  The firmware is not part of the repository:
where a model needs its behaviour it lets firmware do any sequence of register
accesses a driver could do.

## 1. Inventory

For every part: its state, its operations, who else touches the state, and what
makes it correct.

| Part | State | Operations | Interacts with | What is hard | Correct means |
|---|---|---|---|---|---|
| Virtual radio medium (`SedsRadioMedium.cs`) | up to 16 station nodes with TX FIFO, packet descriptors, RX FIFO, counters; the burst on the air; round-robin cursor; link matrix | Attach, DetachFrom, SetLink, Enqueue (a UART byte), Tick (100 us) | UARTs of several machines, host ports, deferred deliveries in the target machine's time domain | everything is under one lock, but the clock is read before it and deliveries run after it, so an attachment can be replaced in between | no byte or count leaks between attachments; packets keep their idle gaps; the air is half duplex, fair and never faster than its rate |
| CAN wire (`SedsStm32H5Fdcan.cs`, `SedsStm32U5Fdcan.cs`) | TX slots, tokens, generations, INIT of each controller; queue, active request and timer of the wire; RX FIFOs, filters | TXBAR, TXBCR, CCCR.INIT, reset, Tick; OnFrameReceived, RXFnA | CPUs of several machines run while the time-source thread of one machine runs Tick | only the queue is locked; masks are read-modify-write from two threads; the timer is stopped without a lock | accepted order, one completion per request, no lost wake-up, priority arbitration |
| Pico-Fi bridge (`bay.rs`, `picofi_*.rs`) | UART bytes not framed yet, mailboxes to the UART and to the host, frame in flight, TCP session (handshake, frame being read, frame being written); discovery query and best offer; I2C slot assembly | loop of read, drain, accept or discover, serve | gateway firmware through a pty, GroundStation through TCP, UDP or I2C | reads cut anywhere, partial writes, full mailboxes, replacement of the session, timeouts | frames cross whole and in order, nothing accepted is dropped, nothing crosses from one session into the next |
| UART (`SedsStm32Uart.cs`) | TX FIFO, wire queue, RX FIFO, flags, three timers, interrupt line | register reads and writes, WriteChar, three timer callbacks, Reset | CPU, DMA, host thread, time-source thread | enabled-check then act, disable-then-recheck, interrupt computed by several threads | bytes in order, none stuck, none from before a reset |
| Board validation (`layout.rs`, `simulator.rs`, `core/architecture.rs`, `elf.rs`) | the layout of a board with its defaults, ELF images, memory map | load, normalise v0.1 layouts, resolve the MCU, validate, cut the secure regions out of physical memory | every later phase | many independent rules about the same addresses; the guarantees they give together are stated nowhere | what is accepted cannot damage the board; the machine that is executed is the one described |
| Update interruption matrix (`update.rs`), flash (`SedsStm32Flash.cs`) | NOR array, plan of erase and program operations, counts of interruption points; key stage, pending erase, shadow file | stage, erase, program, classify after each; register writes and power cuts | layout, firmware under test | power cuts between any two operations, slots that do not end on pages | known image after every cut, in a known order; bootloader and persistent state untouched |
| Direct execution (`execution.rs`, `simulator.rs`) | one Renode process at a time, two pipes, two reader threads, one channel, captured output, fault flag, power cut to make, results | baseline process, one process for each power cut, judge, report | Renode | output, failure lines, exit and joins in any order; a launcher whose child keeps the pipes | no verdict without its evidence, every run returns |
| Traffic and pool (`traffic.rs`, `core/pool.rs`) | queue, pool, counts | generate, allocate, release, drop, drain | report | limits and order | counts add up, oldest goes first |
| Peripheral fault models (`peripherals/models.rs`) | attempts and counts of each device | exercise for a number of iterations | report | exact boundaries of two schedules together | the closed forms of the report |
| Bay runner (`bay.rs`, `radio_link.rs`) | Renode and host processes, claims on terminals, two reader threads, sample file, failure channel, bridge, reboots that are due and done, probe file, host logs | validate, wait for the terminals, start hosts, monitor loop (failure, exit, dead host, sample, reboots), shut down, join, qualify | Renode, host processes, bridge, file system | deaths, reboots, failures and the end of the script in any order; what one look saw is stale at the next | verdict says what happened, planned power cycles do not fail a bay, the run returns |
| DMA, GPDMA, ADC (not modelled yet) | channel counters, flags, schedules | requests, register writes | UART, ADC, memory | circular reload, half and full events | every transfer announced once |
| USB, SDMMC (not modelled yet) | endpoints, packet memory; command and data state | host and register events | host, card | unread data overwritten | toggles and phases match |
| Register tables, sensors, tracing, clocks, reports, scripts | | | | one actor, immediate effect, or pure output | not modelled |

## 2. Plan

The order is by how much several actors interfere, then by how much of the program's
logic a part carries.

1. Radio medium, its abstract broadcast, the proof that it implements it and of
   its accounts, order and rate. **Done.**
2. CAN transmit wire and the proofs of its wake-up protocol, queue bound,
   arbitration, accepted order and accounts. **Done.**
3. UART: the same disable-then-recheck idiom, reset and interrupt line; proofs that
   no wake-up is lost, of its types and of the order of its bytes. **Done.**
4. Pico-Fi bridge: the Ethernet session, framing and mailboxes, with the proofs of
   all its properties. **Done.**  Discovery and reconnection, with the proof of which
   station is chosen. **Done.**
5. Qualification of one board: validation, update matrix, traffic, fault models and
   direct execution, composed as the phases of one run; the proofs that updates spare
   the bootloader and the persistent data, of the pool, the verdict and the report.
   **Done.**
6. Bay runner: processes, terminals, power cycles, samples, verdict; the proofs of the
   power cycles, of the published samples and of what a pass says of the run. **Done.**
7. CAN receive FIFOs and filters, composed with the wire.
8. The register model of the flash controller (key sequence, program unit, erase in
   two halves, shadow file) against the NOR array of FlashUpdate.
9. DMA, GPDMA and ADC composed with the UART; USB; SDMMC.
10. The legacy I2C session of the Pico-Fi bridge.

Proofs to come: what the recorded values of a bay show (`PassJustified`,
`HealthyBayPasses`), and the executed machine (`MachineMatchesLayout`); section 6 says
what stands in their way.

## 3. Modules

### RadioMedium

One action for each method body, because each holds `sync` from start to end.
`Attach`, `DetachFrom`, `SetLink` and `Tick` are the methods of those names.
`Offer` is the UART raising `CharReceived` (the clock is read there, before the
lock) and `Enqueue` the body under the lock; several ticks can pass in between.
`Tick` hands due bytes to `HandleTimeDomainEvent`; `Deliver` is the event running
later, with its check that the attachment is still the same.

A `Node` object is an identity: `att[i]` is `nodes[i]`, `uart` and `home` are what
its closures captured.  `tx`, `packets`, `pendingTx`, `inputReady`, `rx`,
`outputReady`, `counter` are the fields of the node at an index; `active`, `cursor`,
`availableUs`, `airBits` those of the medium.  `offered`, `heard` and `due` are
history.  A byte is the identity that wrote it and its number, so order, loss and
duplication are visible.  Left out: the high-water marks and the raw air trace
(nothing reads them back), the attached-UART bookkeeping of Renode.

`RadioBroadcast` is the promise: a lossy, ordered, half-duplex broadcast among
identities, without time, packets or capacities.  RadioMedium defines the
refinement mapping and the property `ImplementsBroadcast`: what a station has not
sent is the burst on the air followed by its TX FIFO; its inbox is what is
deferred to it followed by its RX FIFO.

`RadioFairness` adds a history of who overtook whom for `FairTurns`.

### CanWire

Threads are explicit: `cpu[c]` is the program counter of the CPU of controller c
inside a register write, `tick` that of the time-source thread inside
`WireScheduler.Tick`.  Everything between two accesses of shared state is one step,
except that the store of one mask and the load of the next share a step.

| Code | Action |
|---|---|
| TXBAR write: check INIT, loop over slots | `Request`, then per slot `AddCheck`, `AddReserve`, `AddEnqueue`, `AddEnable` |
| TXBCR write | `Cancel` (generations), `CancelStore` (mask) |
| CCCR.INIT set, cleared | `Stop`, `Start` (sends what was held) |
| machine reset | `Reset` |
| `Tick`: completion closure | `Fire` (its checks), `LoadPending`, `Release`, `Complete` |
| `Tick`: choose, or stop the timer and look again | `Select`; `Disable`, `Recheck` |

`Hosted` controllers are on the machine whose clock drives the wire: their CPU is
parked while that clock's callbacks run.  The other machines run in parallel
(`bay.rs` turns global serial execution off).  The driver is external: it writes
frames only to slots that TXBRP shows free.  Frames are numbers; the duration of a
frame, payloads, and the unacknowledged mode are left out, the identifier is kept
as the fields arbitration looks at.

### Uart

Three threads share the peripheral without a lock: `cpu` (register accesses), `host`
(`WriteChar`) and `clk` (the callbacks of the three timers, of which the clock runs
one at a time).  Each is a program counter with the byte or the interrupt level it
holds in a local.  The queues are concurrent queues, so one call on them is one
step; a handler is cut between a queue and a timer's `Enabled`, and between the
argument and the call of `IRQ.Set`.

| Code | Action |
|---|---|
| writes of CR1, CR3, BRR; ICR; RQR | `Configure`, `ClearFlags`, `Flush` |
| TDR: enqueue, look at the timer, start it | `WriteData`, `CheckTx`, `StartTx` |
| RDR | `ReadData` |
| `UpdateInterrupt` at the end of each | `CpuUpdate`, `CpuSet`; `ClkUpdate`, `ClkSet`; `RxUpdate`, `RxSet` |
| `Reset` | `ResetQueues`, `ResetTimers`, `ResetControl` |
| `WriteChar` | `Offer` (receiver enabled), `Put`, `CheckRx`, `StartRx` |
| transmit callback | `FireTx`, `TxEmpty`, `TxStop`, `TxRecheck` |
| `ReceiveWireByte` | `FireRx`, `RxStore`, `RxEmpty`, `RxStop`, `RxRecheck` |
| idle callback | `FireIdle` |

Virtual time (`Pass`) advances the receive and the idle timer; the duration of a
transmitted character is left open.  The CPU and the clock are at rest when a
machine is reset, the host is not: a `WriteChar` that overlaps a reset is recorded
in `raced`.  Left out: CR2, PRESC, the count of transmitted bytes, byte values
(bytes are numbered by the order of writing).

### PicoBridge and PicoEthernet

One thread runs a loop, so `at` is the place in it: `read` (the session's state is
copied to `ethernet_connected`, a disconnected upload is cleared, everything the
UART has is parsed), `drain` (one write to the UART), `serve` (accept, then
`Session::service`).  What the environment does while the loop is elsewhere is seen
only at the next read or service, so the gateway acts at `read` and the peer at
`serve`.

PicoBridge is `PicoBridgeState`: `Parse` is the loop of `process_gateway_uart_rx` over
bytes, as a recursive function.  Each turn goes to the first sync pair (`Synced`, which
keeps a byte that may be half of one); `Response` says which complete frames cross the
bridge, and `EnqueueEach` offers those to the mailbox one by one.  `EnqueueHost` and
`EnqueueUart` are the two mailboxes, `DrainGateway` the writer.
PicoEthernet is `Session::service` as two outcomes, `Refuse` (it fails before it
changed anything but the session) and `Serve` (it reads, acts on what is complete,
takes the next frame and writes; the writing may still fail).  Both roles of a
session, accepted and discovered, are in the run; how an endpoint is discovered is
PicoDiscovery.

The gateway writes whole units (`UnitBytes`: frames with either sync, frames without
payload, a command, an oversized header, one stray sync byte) in pieces of any of the sizes in `Chunks`, or
whole.  The TCP stream is a sequence of pieces (greeting, header, body); a partial
header is the same to the session as none, so it is not a piece of its own.  The
prefix `B5 4E` of TCP frames is written `A5 5A`, which is what both directions
rewrite it to or from.  Left out: a UART that fails or closes (the bridge stops
with an error), `stop()`, the counters, the I2C session.

### PicoDiscovery

`run_discovered` of `picofi_tcp_bridge.rs` with the wire of `picofi_discovery_wire.rs`.
`at` is the place in the loop.

| Code | Action |
|---|---|
| send a query, rearm the settle and query times | `Query`, `NoQuery` |
| up to eight datagrams: decode, `compatible_offer`, keep the better | `Receive`, `Received` |
| settle time over: connect to the best | `Choose`, `NotSettled` |
| serve the session; drop it when it ends | `Serve`, `Disconnected` |
| sleep | `Wake` |

The network is external: datagrams are lost, repeated and delayed past later queries,
strangers and other Picos send offers, and stations restart on another port or offer
one on which they do not accept (`Answer`, `LoseDatagram`, `Stray`, `Restart`).
`CalmDown` ends all that; liveness is about what follows.  A message is what the loop
tells messages apart by; one that does not decode or comes from another host is one
that is not `valid`.  Nonces run through `1..Nonces`, and a nonce is reused only when
nothing with its earlier use is on the way.  `Rediscovers` has the premise `Findable`: a
station with the lowest identity that offers and refuses the connection is chosen again
and again, so a station behind it is never tried; the code prefers the lowest identity
and nothing promises more.

### The qualification of one board

`BoardMemory` has the rules of `Architecture::validate`, `McuDescriptor` and the security
checks, as predicates over a layout, and the computation of the non-secure regions.
`FirmwareElf` has `validate_elf`, the search for the reset vector and the flash image,
over lists of segments whose words are values.  `ProbeLimits` judges the samples of one
probe; BayQualification uses it too.

| Module | Code | Steps |
|---|---|---|
| `FlashUpdate` | `interruption_matrix` | `UpdateBegin` (preconditions, installs the old image), `UpdateErase`, `UpdateProgram` (one flash operation, then the classification), `UpdateRefused`, `UpdateEnd` |
| `PacketTraffic` | `traffic::run` on `FixedPool` | `TrafficBegin`, `Generate` (one iteration), `DrainOne`, `TrafficEnd` |
| `DeviceFaults` | `models::exercise_all` | `DeviceInvalid`, `DeviceRead` (one attempt), `DeviceEnd`, `DevicesEnd` |
| `Execution` | `execution::run`, `run_renode_script` | `Launch`; `Receive`, `ReceiveTimeout`, `KillChild`, `Poll`, `Join`; `JudgeBaseline`, `NextCut`, `JudgeCut`; the readers (`Forward`, `ReaderEnds`); Renode (`CommandRuns`, `CommandFails`, `ErrorLogged`, `RuntimeCrashes`, `ScriptQuits`, `ChildEnds`) |
| `Simulation` | `BoardLayout::load`, `simulator::validate` and `run` | `Load`, `Validate`, then the phases `Devices`, `TrafficPhase`, `UpdatePhase`, `Prepare`, `ExecutionPhase`, each left by `Leave` when its component is done or failed, and `Report` |

A flash byte is the set of its bits that read as one, so programming is intersection
and erasing is the full set.  In `Execution` the script is the list of monitor commands
that matter for the verdict; the firmware (`guest`) decides what they print: whether it
boots, its counters, its flash operations and what it says after a cut at each of them.
Renode and its console are external; one mishap can happen at any command.  A console
line with a marker and its value is one value; which images and outcomes they name is
kept.  `Launcher` says that the process that is spawned may only start the one that has
the pipes; whether a kill reaches that one is open in `KillChild`.  Without CAN
acknowledgement the probes of the layout are joined by those of every controller of the
architecture (`ProbesOf`), which must not be named for another register
(`ProbesAddable`), and the fault may be seen on any of them (`AckFaultSeen`).

Addresses of flash partitions are relative to `FlashBase`, the alignment of vector
tables and of persistent data is absolute, as in the code.  Every MCU of the tables has
its flash on a page boundary, and `WellTyped` says so of all boards.  A layout that
describes its own MCU with another base is accepted by the code and outside the model.

### BayQualification and BayRun

`BayQualification` is what `bay.rs` decides by itself: which topologies it accepts
(`TopologyValid`, with the radio, CAN, host and event rules), and whether the probe file
and the logs of a run qualify the bay (`Qualifies`, with samples per epoch between
planned resets, gains, levels, endpoint activity and log assertions).

`BayRun` is one run.  Four kinds of actor interleave: Renode with the script, two reader
threads, the bridge, the host processes, and the runner, whose control is `runner`.

| Code | Action |
|---|---|
| validation, script, spawn of Renode and the readers | `Validate` |
| wait for the terminals: look, poll simulator and channel, look a last time | `WaitLooks`, `WaitPolls`, `WaitLast`, `WaitExpires`, `GiveUp`, `GiveUpJoins` |
| bridge, guards and hosts are started | `StartHosts`, `StartFails` |
| the monitor loop, every 20 ms | `ReceiveFailure`, `KillAfterFailure`, `PollSimulator`, `CheckHosts`, `ReadSample`, `RebootHost`, `RebootFails`, `RoundEnds` |
| stop, join, verdict | `Shutdown`, `Judge` |
| reader threads: a line, the sample file, the end, an error | `ReadLine`, `PublishSample`, `ReaderEnds`, `ReaderFails` |
| bridge thread | `BridgeStops`, `BridgeCut` (its terminal closes), `BridgeFails` |
| external: the simulator | `CommandRuns`, `ScriptQuits`, `ChildEnds`, `CommandFails`, `FaultLogged`, `RuntimeCrashes` |
| external: a host | `HostOpens`, `HostExits` |

Events of all kinds are one list with the sample they follow.  `node.sound` stands for
the checks of a single board, which Simulation models.

## 4. Runs

| Run | Shows | Instance |
|---|---|---|
| `radio` | late callbacks and deliveries of a replaced attachment reach nobody and are not counted for the newcomer; FIFO ownership; the medium implements the broadcast; descriptors cut the FIFO, idle gaps seal packets, receive overflow is counted, the air never exceeds its rate, nobody is overtaken twice, every byte is aired | either 2 stations and a third attachment that replaces one of them at any moment before `CalmAt`, 2 bytes each, one fading link direction, callbacks delayed by up to 2 ticks and deliveries without limit; or 3 attached stations, 3 bytes each into FIFOs of 2 (refusals and overflow happen), fixed links |
| `can_wire` | bounded queue, accepted order, accounting of every request; no lost wake-up, arbitration by the identifier bits, every queued request leaves | 2 controllers of 2 slots on two machines; either 3 frames and 1, an abort, a reset and slot reuse; or 1 frame and 2, one INIT, standard remote against extended identifiers of one base |
| `can_reuse` | **violated**: an obsolete request completes a replacement | one abort, no reset |
| `uart` | no byte behind a stopped timer, every byte read in order or accounted to a loss, both wires drain | 2 bytes in each direction and one reset, or 3 received bytes and none, FIFOs of two and of one, a firmware that turns the receiver off and on, and leaves FIFO mode, at any moment |
| `uart_idle` | **violated**: IDLE splits a burst | 3 received bytes, FIFO of two, interrupts |
| `pico_ethernet` | reads cut anywhere, partial writes, full mailboxes, stalling and misbehaving peers and replaced sessions: no frame that was accepted is lost, reordered, torn or given to the next session, and sessions end only for a cause: by their peer's doing, or on a frame without payload | mailbox to the UART of 1 frame or 5 cost bytes, to the host of 2 frames or 4, frames of at most 6 bytes, 2 units of the gateway (frames with and without payload, commands, oversized headers, a stray sync byte) and 3 frames of the peer (at most 3 together), 2 sessions, transfers of 1, 3 or all bytes |
| `pico_empty_frame` | **violated**: a frame without payload on the UART ends the session | the same, with frames of one byte and of none only |
| `pico_discovery` | the Pico connects to the lowest answer to its latest query and nothing older, and finds a session again when the network calms down | 2 stations, 1 restart, 2 offers on their way, 3 nonces, settle time of 1 tick, a query every 2 |
| `simulation` | one qualification run from the layout to the report: what an update may touch and in which order a cut finds the images, the pool's accounting, the machine that is executed, verdicts that match what happened in the processes, and that the execution ends unless a runtime that outlived its killed launcher holds the join | some 3500 boards in families (below), one mishap at any command of any process |
| `execution_launcher` | **violated**: a killed launcher's runtime keeps the pipes, and the run never returns | plain boards, any mishap |
| `bay` | a sample is announced only when its events and probes are there; hosts are cycled once and get their terminals; a bay that passed was executed to its end, with nothing left out, and its values show no overflow and no stall; a healthy bay passes; the run returns | 4 topologies of up to 2 boards, a host with 2 terminals, CAN, radio and a Pico-Fi tunnel, 2 to 4 samples, resets, power cycles, outages and detached links; 22 refused topologies, 14 with limits on probes, endpoints or logs, 11 behaviours of faulty firmware; one mishap at any moment |
| `bay_lost_failure` | **violated**: the run passes although the bridge failed | the same |

The boards of `simulation` come in families, each varying one part and stopping after
it where the code does: flash partitions of every fit (slots that end inside a page,
touching and overlapping neighbours, persistent pages at both ends, deltas and
second slots), secure regions at the ends of ranges and pairs of them, ELF files with
headers, decoys, data, zeroed and overlapping segments, v0.1 layouts, pools smaller than
a packet and larger than the queue, schedules at their boundaries, devices that are
refused, updates cut at every operation with firmware that recovers, waits or says
nothing, probes that wrap, stall and leak.

The bounds are named constants: `Horizon`, `OfferUntil`, `MaxOffers`, `MaxSkew`,
`MaxAttachments`, `CalmAt`, `Fading` of the radio; `MaxFrames`, `MaxCancels`, `MaxStops`,
`MaxResets` of CAN; `MaxBytes`, `MaxWrites`, `MaxResets` of the UART; `MaxUnits`, `MaxDown`,
`MaxTraffic`, `MaxSessions`, `Chunks` of the Pico-Fi bridge; `Nonces`, `Restarts`, `InFlight`
of discovery, where `Settle`, `Period` and `Batch` are scaled (only their order matters);
`PipeRoom` (lines a pipe holds), `WordMax` (where counters wrap) and `FreeHeap` of the
runners; `Iterations` (device exercise), `Granule` and `SauRegions` of a board.

They are enough because each hazard needs one replacement, one reuse or one overflow: a
third attachment on two indexes gives every replacement, three frames in two slots every
reuse, two bytes in a burst of two and a FIFO of two every overflow and packet boundary.
In the bridge one frame in flight, one in the mailbox and one retained by the session
need three frames of the peer, a full host mailbox two units, and everything about
replacement two sessions.  Three stations are needed for the round robin (two cannot
overtake unfairly).  The radio constants are scaled so that one tick is one time unit;
only their order matters for the comparisons in the code.  Discovery needs a second
query while offers of the first are on their way and a restart between choice and
connection.  A pipe of one line lets both sides wait; one mishap is what each error
path of the runners is written for, and the verdict does not get better with a second.
Two epochs need four samples, a power cycle two.  Flash pages of two cells and slots of
three and four have every alignment of an end and a page.
Deadlock is not checked because the bounds end every behaviour.

The radio run begins with two or three indexes attached, the state after as many `Attach`
calls in the program's start-up; what happens then is one of two kinds of behaviour
(`Hotplug` and the saturated medium), and so it is with the two `Loads` of the CAN run:
one run with all of the bounds at once would be too large.  The turn-around time of the
radio is zero in the run, since it only slows the air down; the proofs are for any.

`Launcher` is true in the runs of both runners: the spawned process may be one that has
started the runtime with the pipes.  `bay.rs` puts the simulator in its own process group and kills the group (its comment at line 34
explains why); `execution.rs` line 518 kills only the process.  `ExecutionEnds` therefore
names the orphaned runtime, and `execution_launcher` shows the run that waits for it.

Every property is also shown to be able to fail: for each one a plausible bug
(operators marked "Mutant of" or "A plausible bug") makes TLC report it.

### What the violated runs say

* `can_reuse`.  `docs/hardware-fidelity.md` line 69: "An aborted/reused slot cannot
  complete its replacement from an obsolete request".  The completion closure
  clears `pacedPending` before the inner write of TXBAR reads message RAM.  In
  between, a CPU of another machine sees the slot free, writes a new frame and
  requests it; the old request sends the new frame.  The same unlocked
  read-modify-write can lose an update of the masks, which is why
  `SentInAcceptedOrder` and `AcceptedAccounted` are stated for hosted controllers.
* `uart_idle`.  `SedsStm32Uart.cs` line 147: "The extra tick prevents an IDLE edge
  between contiguous bytes."  `WriteChar` queues a byte and finds the receive timer
  stopped; the callback, which stopped it, looks at the queue again and rearms it;
  `WriteChar` goes on and restarts the timer from zero.  The byte arrives up to a
  character later than the wire would deliver it, after the idle timer (a character
  and a tick), so IDLE is raised between two bytes that were on the wire together.
* `bay_lost_failure`.  `docs/hardware-fidelity.md` lines 146-147: "Unexpected bridge errors
  fail the bay run".  The monitor loop takes the failure from the channel, sleeps
  250 ms, kills the simulator and looks at its status; nothing of the failure is kept.
  A simulator that finishes its script in that time has exited successfully, and the
  run passes.  A failure reported after the loop's last look is not received at all.
* `pico_empty_frame`.  `bay.rs` lines 915-917: "A malformed UART frame is not a reason to kill
  either independent Pico or their link".  A DATA frame of length zero passes the UART's
  parser and is accepted into the mailbox; the session that takes it out fails its check
  of 5 to 4100 bytes (`picofi_tcp_bridge.rs` lines 94-97) and is dropped.  `EndsForCause`,
  which holds with such frames, has this as its one cause besides the peer's doing.
* `execution_launcher`.  The comment at `bay.rs` lines 34-36 says that the launcher can
  spawn a runtime that inherits the pipes and that without a kill of the group "reader
  joins can wait forever".  `execution.rs` makes no group: after a failed command it kills
  the launcher, and a runtime at its prompt keeps both readers, and the join, waiting.

### What the models show besides

These behaviours are in the models too, and are described here instead of being shown by
runs of their own.

* CAN: when INIT is set as the wire time of a request ends, the slot is freed and TXBTO
  set, and the inner controller only remembers the request (the last one: the flags are
  overwritten) until INIT is cleared.  `docs/hardware-fidelity.md` line 65 says that
  TXBRP reflects occupied slots until a frame finishes.  `AcceptedAccounted`
  exempts controllers that stopped with work pending.
* UART: the interrupt line is computed on one thread and set later, so the older of two
  results can be set last and leave the line low with a byte in the receive FIFO until
  the next register access or byte.
* Pico-Fi: the legacy text of `docs/hardware-fidelity.md` (lines 149-152) says that the
  mailboxes overwrite their oldest packet under pressure; the code refuses the newest,
  which is what `UploadsKept` states.
* CAN: the same document says (line 73) that the wire does not arbitrate by identifier;
  the code does, and `ArbitrationWinner` shows that its key orders frames as bitwise
  arbitration does.
* Bay: the wait for the terminals takes a failure line from the channel, leaves early
  and goes on when the terminals are there after all.  Nobody acts on that line again:
  a monitor at its prompt then keeps the run waiting, although `docs/debugging.md` lines
  3-4 say that the runner stops it.  `BayReturns` names the case (`unheeded`).
* Bay: reboots that are due are not made when the simulator exits first, and nothing
  compares the made ones with the planned ones, so such a run can pass.  A host that dies
  between the exit check and its scheduled kill is replaced as if it had not, and such a
  run can pass too; `PassComplete` says that no other death goes unnoticed.  A bridge
  whose terminal closes before the end of the script has been read fails a run in which
  nothing went wrong (the exception in `HealthyBayPasses`).
* Simulation: erasing rounds an image up to whole pages, so the erase of a slot A that
  does not end on a page can wipe the head of a delta staged right behind it.  The
  matrix counts on, because it reads the image it is given and not the staged bytes.

## 5. Fairness

* `TxDrains` and `FairTurns` (radio): the timer fires while the emulation
  runs, a thread that waits for the lock gets it, and a machine runs its deferred
  events before its clock goes on (they are due at the present time).  These are weak
  fairness of the tick, of Enqueue and of Deliver.
* `WireDrains` (can_wire): a CPU finishes the register write it is in, an enabled
  timer fires and its handler runs to its end: weak fairness of the CPU's steps and
  of the timer thread.  Nothing obliges firmware to write, and `Fire` is only
  enabled while `timer.Enabled` is set, so a lost wake-up would show.

* `Drains` (uart): the CPU and the host finish the call they are in, virtual time
  passes, and the clock fires timers that are due and finishes its callbacks: weak
  fairness of each thread and of `Pass`.  The transmit timer fires only while it is
  enabled, so a lost wake-up would show; nothing obliges firmware to read.
* `ExecutionEnds` (simulation) and `BayReturns` (bay): the runner's thread and the
  two reader threads are scheduled, and the simulator goes on with its script or ends
  (weak fairness of each).  Nothing obliges it to print, to crash, or hosts and bridge
  to do anything.  A reader ends only when no process holds its pipe any more, so a
  kill that misses the holder would show as a join that waits forever; in
  `execution_launcher` it does.
* `Rediscovers` (pico_discovery): the loop runs (weak fairness), a calm network delivers
  queries (weak fairness of `Answer` in calm), and time passes.  The last is strong
  fairness of `calm /\ Tick`: time passes in the loop's sleep only, which is enabled
  again and again, not continuously.

## 6. Proofs

`RadioMediumProofs` proves for every profile allowed by `ProfileAssumption` (the
constructor's checks) and every bound:

* `TypeCorrect`, `OwnershipHolds`, `DescriptorsHold` from the inductive invariant
  `TypeOK /\ TxOwnership /\ PacketsOwn /\ SenderAttached`.  `PacketsOwn` strengthens
  `DescriptorsOwnBytes` with the fact that every packet owns at least one byte, so
  that taking the head packet leaves the rest aligned with the FIFO;
  `SenderAttached` says that the burst on the air has an attached sender, without
  which `Tick` could release bytes of a fresh node.  The three lemmas OwnedNew,
  OwnedExtend and OwnedTake are the data-structure argument: a byte opens a packet,
  joins the last one, or leaves with the first.

Its second part adds, in the same generality, what a station is promised.  The
only further assumption is `NullAssumption` (the null of the program, `NoBurst`, is no
burst).  Each result has an invariant of its own on top of the one above:

| Theorem | States | Invariant it needs |
|---|---|---|
| `KnownInvariance` | | `Known`: whatever a callback, a burst or a delivery names has been issued, belongs to one index for ever, and a UART waits for the lock with one byte at a time.  A node that has not been issued heard and offered nothing. |
| `HearingHolds` | `OnlyAttachedHear`, which in the runs is a part of `ImplementsBroadcast`: only who is present hears, and a step that hears does nothing else | `Known` |
| `CapacityHolds` | `AirCapacity` | `AirFits`: completed bits and those of the burst on the air fit in the time until its end, because `AirUs` rounds up (`AirUsEnough`) |
| `OffersHold` | `OffersAccounted` | `Offers`: each offered byte is in one place, for nodes that have been replaced too |
| `ReceptionHolds` | `ReceptionAccounted` | `Receptions`, `RxBounded`: what a tick stores in a FIFO and what it drops add up to the burst (`RxFilledParts`) |
| `GapsSeal` | `IdleGapSeals` | `Sealing`: the packets of a FIFO are exactly its runs without an idle gap, cut where a run is longer than a burst.  A FIFO is cut into given packets in one way only (`CutsUnique`), so what holds of one cut holds of all |
| `BroadcastHolds` | `ImplementsBroadcast` | the initial states are the broadcast's (`InitMaps`), and there is one lemma for each action: `AttachMaps`, `DetachMaps`, `EnqueueMaps`, `DeliverMaps`, `TickMaps`.  A tick that completes a burst and starts the next is one step of the broadcast (`StartMap`, `FinishMap`); an `Offer`, a link change and a refused byte are stutters |
| `OrderHolds` | `HeardInAirOrder` | `Ordered`: what a node has not sent is in the order of writing (`Queued`), what is due was written before what is still to come (`Aired`), and what it got follows what is due (`Follows`) |

`CanWireProofs` has no assumption but `ControllersAssumption`: hosted controllers are
controllers, each has at least one slot, identifiers have 11 or 18 more bits, null is no
request, and the bounds are numbers.  The number of controllers, slots, machines and
frames is open.

* `WakeupKept`: `NoLostWakeup`.  The invariant adds that `active` is null from the
  moment Tick decides to stop the timer; then a non-empty queue after `Disable` is
  either seen by `Recheck` or was filled by a CPU that has yet to enable the timer.
* `TypeCorrect`: `TypeOK`, and what a program counter says of the locals beside it.
* `QueueBounded`: `OneQueuedPerSlot`, of all controllers.  `Replaced` and the removal
  of the winner are shown to thin a sequence (`Thins`: what remains is in the old
  order, `NthRises`), and thinning leaves at most one request of a slot
  (`ThinsKeepsOne`).
* `WinnerTaken`: `ArbitrationWinner`.  `BeatsLower` is the arithmetic: for all
  identifiers of 11 and of 29 bits, a header that wins bit by bit has the lower key.
* `AcceptedOrderKept`: `SentInAcceptedOrder`, from `HostedInv`.  For a controller on the
  wire's machine: its CPU is not inside a write while the timer thread runs its
  completion (`Threads`, `Closing`), every request that can still complete has the slot
  of the frame it was made for (`Claims`), frames are numbered in the order of
  acceptance (`Numbered`), the requests that can still complete are in that order
  (`Lined`), and what was sent is older (`Passed`).  None of it holds for the other
  machines, which is what `can_reuse` shows.
* `AccountKept`: `AcceptedAccounted`, from `AccountInv`: at every step of a register
  write and of the completion, and not just at rest, each accepted frame is in one
  place.

`HostedInv` and `AccountInv` were model-checked on the instance of `can_wire` before
they were proved.

`UartProofs` proves `UartWakeupKept`: `NoLostWakeup` for every FIFO depth, character
time, set of configurations and bound.  The invariant adds `ResetQuiet`: between the
parts of a reset the queues stay empty (unless the reset is raced), without which a
byte could be behind the timer that the reset is about to stop.  `UartTypeCorrect`
proves the types of all variables in the same generality.  `UartOrderKept` proves
`ReceivedInOrder` from `InLine`: what was read, the FIFO, the byte in the hand of the
callback, the wire and the byte in the hand of the host are five rising pieces, each
below the next; a byte that goes from one to the next leaves them so, and one that is
dropped goes to `gone`.

`BayRunProofs` proves `PowerCyclesHold`: `PowerCycles` for any topology, firmware and
mishap.  `BaysAssumption` is what the types of `BayTopology` say: its nodes, links and
events, the probes and controllers of a node and the ends of a link are lists, and counts
are unsigned.  `HostInv` says that no host has started before the terminals are
there, that the runner keeps every terminal of a host open from then on, that what is
claimed is claimed by a host that is alive, and that the reboots that are due are apart
from those done.  The reboots of one round are made one at a time in the order of the
plan, the earliest first (`MinIn`, by a least-element argument).

The same module proves `SampleHonestHolds`: `SampleHonest` in the same generality.  The
runner reboots hosts when it reads a number from the sample file; the number has gone
from the script through the simulator, a pipe and a reader, and the simulator is ahead
of it.  `SampleInv` follows the promise of a sample on this way:

* `ScriptInv`: the rest of the script, begun with what is done, does everything a `done`
  promises before it comes to that `done` (`Prepared`), and captures no probe twice
  (`Once`).  `RenderIs` says so of the script as `Render` writes it.  `FlattenIs` says what the
  concatenations of the script builder are: lists laid end to end, with the offset of each;
* `RecordInv`: no record is there twice, and the rest of the script makes none again;
* `PublishedInv`: a line in a pipe, the sample being written and the sample file name only
  samples whose promises are kept.

Two probes of one node may have one name as far as the run goes (`validate_probe_indices`
refuses their records afterwards), so "exactly one record" is stated of nodes that keep
them apart (`ProbesApart`), and "a record" of all.  `SampleInv` was model-checked on the
instance of `bay` before it was proved.

`PassCompleteHolds` proves `PassComplete`: a bay that passed was
executed to its end, with no host dead when it ended.  The runner only knows what a reader saw of the script's last line;
`CompleteInv` says why that is enough:

* `EndInv`: the command that ends the script is its last (`Whole`), and while it is to
  come, what the last sample promises is done or in front of it; nor can a watchdog's
  line be behind it, since the first `run` is in front of it or has been printed;
* `LineInv`: whoever finds the line `complete` in a pipe, or on the console, may rely on
  all samples; and a watchdog is on the console before `complete` is (`Heralded`);
* `PlannedInv`: the script applies planned events only (`ToApply`), so what was applied is
  exactly the plan;
* `PassInv`: a run that came past validation has nodes, whoever boots does so by its
  firmware, and after the shutdown no host is left that could still die; the verdict
  (`RunClean`) adds the rest;
* `DeathInv`: a host that died on its own is still there to be found dead, unless a planned
  power cycle has been made.  The theorem says no more than this of deaths during the run:
  such a host may have been replaced unnoticed.

The proof does not use what the recorded values are (`Qualifies`), which is why
`PassComplete` holds for every firmware.  `CompleteInv` was model-checked on the instance
of `bay` too.

`SimulationProofs` proves `BoardSpared`: `OperationsSpareBoard` for every set of boards
that serde can produce (`BoardsAssumption`) and that `PartitionsValid` accepts, with any
pages, program units, slots, images and chunks.  The invariant is that every remaining
operation begins in one of the slots, that a program operation also ends in it, and
that an erase leaves it at most with its last page.  The arithmetic is in three lemmas: what is
aligned at its absolute address is aligned in the flash (`PageOffset`, for a flash that
begins with a page, as `WellTyped` says), a page that contains an address below
a page boundary ends at or below it (`PageEnds`), and the i-th piece of an image begins
inside the image (`PieceBegins`).  From there persistent data, which is whole pages
apart from the slots, cannot be reached although an erase is rounded up past the end of
its slot, and neither can the bootloader: an erase that is not aligned is refused,
which is why the property only asks about operations the flash would carry out.

It proves `RunSparesBoard`: the same property of a whole qualification
run.  Its invariant says that validation stands between any layout and the first
flash operation, and that no later phase changes the layout.  It also proves `PoolHolds`: `PoolConserved`
for every pool, queue limit and choice of payloads (`HeaderAssumption` and
`TrafficAssumption`: sizes are natural numbers, as their Rust types say).  `Balanced`
relates pool, queue and counters; that the queue's bytes add up to what the pool holds is
said by a function of partial sums (`Sums`), of which there is one for each queue
(`SumsUnique`).  So a release finds at least its bytes in use, and the branches for
underflow and leaks in `traffic.rs` are never taken.

The same module proves the verdict of the direct runner, `VerdictHolds`, and the figures
of its report, `ReportHolds`.  `GuestsAssumption` says of a board what serde produces (its
probes are a list, its counts unsigned) and of its firmware that a probe reads one value
in each sample.  `ReportAssumption` says that schedules are unsigned or left out, that an
outcome stands for one of three images, and that the firmware's outcome is one the layout
names: `unique_ota_outcome` looks for no others.

`VerdictTruthful` compares what the runner concludes from a transcript with what the
firmware is.  The runner, two readers, two pipes, a channel and the simulator are between
the two, so `ExecutionInv` follows the lines:

* `ProcessInv`: while nothing has gone wrong, what the runner has, what is in the channel
  and the pipe, and what the rest of the script will print are the whole transcript
  (`Undisturbed`); a reader ends only behind the last line (`Drained`); and a mishap shows
  in the end of the process or in a line that has been printed and not yet been thrown away
  (`Marked`), so the join cannot pass it over;
* what is read from a whole transcript is what the firmware did: the samples are those of
  each probe in their order, the outcome is looked for behind the line of the transfer or of
  the cut and is found there once, and the trace is the firmware's.  These are
  lemmas on the script as `RenderScript` writes it, one for each thing that is looked for;
* `VerdictInv`: between two processes, the results are those of the first k selected
  operations and the rest is still to do.

`ReportAccounted` needs `AccountInv`.  `DevicesInv` says that the counters of the device at
hand are what the closed forms of its schedule foretell of the reads so far; that they
advance with each read is a lemma about quotients (`NextQuotient`, `ScheduleNext`).
`PointsInv` counts the points of the flash model under the image they boot, and
`CountedAll` shows that those of the real updater, which replace them, are one for each
cut and one for the update that was not cut: every outcome that was recorded is named by
the layout (`OutcomesNamed`).  `PhaseInv` says that a phase is reached only when the components in front of it
are done.  `ProcessInv` and `VerdictInv`, and `AccountInv`, were model-checked on the
instance of `simulation` before they were proved.

`PicoDiscoveryProofs` proves `SessionFreshKept`: `SessionFresh` for any stations, times
and bounds.  Its invariant is that `best` is the lowest of the identities seen since the
latest query and answers that query, until the choice clears it; the nonce may
wrap, which is why datagrams with the nonce about to be reused are gone by then
(2^64 - 1 queries later).

`PicoEthernetProofs` is in its first half about the operators of the bridge, for every maximal frame length
from 6 to 65538 (`PicoAssumption`; the code's is 4100, and a header that says more than
the maximum must be possible for the loop to skip one):

* `Parse` is a recursive function, so nothing is known of it until a function that
  satisfies its equation is shown to exist (`AllRight`: for byte sequences of length n, by
  induction over n; any two that do agree).  `ParseIs` is the equation.
* `ParseSplits`: parsing a stream at once, or a part of it and then what was left with
  the remainder, recognises the same frames and leaves the same bytes, for all byte
  sequences.  It rests on `SyncedSplit`, the same of the search for a sync pair,
  which is where the byte that `Trailing` keeps is needed, and on a least
  counterexample (`Smallest`) in the length of the first part.
* `UnitParsed`: behind whatever a read can have left, each unit of the gateway is
  recognised exactly if it is a DATA frame.
* `EachGains`: offering frames one by one gains an ordered part of them and keeps the
  mailbox within its limits; the lemmas on `FlattenSeq`, `Cost` and `Drop` are what the
  byte counts and the writer need.

Its second half proves all six properties of `pico_ethernet` from these, for any
limits, chunks, units and number of sessions.  Its invariant `Inv` has four parts:

| Part | Says | Theorem |
|---|---|---|
| `UplinkInv` (`Framed`) | the DATA frames the gateway began to write are those recognised, followed by what `Parse` would find in the bytes the bridge has, those in the UART and those still to be written | `FramesSurviveCutsHolds` |
| `UartInv` (`Sent`) | what was written, the rest of the frame in flight and the queued frames are the admitted ones; the byte count is that of the queue | `WireWholeHolds`, `AccountedHolds` |
| `MailboxInv` (`Stored`) | the same of the mailbox to the host | `AccountedHolds` |
| `LinkInv` | the stream is a greeting and then headers and bodies in turn, of which the session retains at most a header and its body (`Streamed`); frames completed are admitted, retained or in the stream (`Retained`); frames accepted are uploaded, being written or in the mailbox (`Uploading`); without a greeted session there is nothing of either (`NoSession`, `Ungreeted`) | `BackpressureHolds`, `UploadsKeptHolds`, `EndsForCauseHolds` |

The parts are stated of values, not of variables, so that one lemma says what each
operation does to them and the steps cite it.  Every unit may be a frame without payload:
all six theorems hold with such frames.  `EndsForCauseHolds` says that a session ends by its
peer's doing or because such a frame is taken out for it; the other three ends of
`Session::service` come down to the peer: a stalled writer, a header or greeting that is
not one, and a connection that was closed.  `Inv` was model-checked with all kinds of
units, on 2.7 million states, before it was proved.

Arguments by induction are first-order here: a set of counterexamples in the natural
numbers has a least one (`Smallest`), which is cited at an instance.  So facts about the
n-th element of a sequence can be proved, and so can those about a recursive function
once it is shown to exist.

Sequences whose elements have no type of their own are written with `Lists` (`List`,
`Elements`), and `ListTheorems` has what the proofs need of them: least elements,
concatenation and its elements, `FlattenSeq` as lists laid end to end, and iteration of a
function over a list.  `SimulationProofs`, `BayRunProofs` and `PicoEthernetProofs` extend
it.

Only model-checked:

* liveness and what depends on fairness; `FairTurns` of the radio;
* `MachineMatchesLayout` of a qualification run: the regions it compares come out of
  `SortSeq` and `SelectSeq`, of which the provers know nothing, and its half about the
  vector table holds only of ELFs whose segments do not overlap it (section 7), as those
  of the instance;
* `PassJustified` and `HealthyBayPasses` of a bay: they compare the verdict with what the
  values of that instance's firmware mean, so they are about the bays of the instance.

## 7. Not modelled

The parts without a module in the inventory: DMA, ADC, USB, SDMMC, the register model
of the flash controller and the receive side of CAN are later in the plan; small
register models, sensors, tracing, reports, the command line and the scripts have one
actor, immediate effects or only output.

In the modelled parts:

* timing values of CAN frames, payload bytes, high-water marks and traces of the radio;
* the I2C session of the Pico-Fi bridge, and errors of its UART;
* of one board: sensor stimulus formats and their arithmetic (folded into whether a
  device's ranges are acceptable), the text of platforms and scripts, the tables of
  MCUs.  ELF segments do not overlap the vector table, and images are not prefixes of
  each other.  The branch of `Report` for missing cuts and the underflow branches of the
  pool are in the code as defence and never taken;
* the byte bounds of captured diagnostics (`bounded_diagnostics.rs`): lines are captured
  whole.  The code keeps the first 64 KiB and the last 4 MiB, so a line of a watchdog or of
  a failure in between can be gone before the runner looks for it (`bay.rs` lines
  2301-2310); the models find every line.  A marker and its value are one line: a line of the
  other pipe that comes between the two in the combined output is not modelled;
* of a bay: names and their collisions, register dumps, captures of CAN, radio and SD,
  trace exports.  Early returns on errors between spawn and the monitor loop are one
  (`StartFails`), those of a power cycle another (`RebootFails`): processes that run on
  after them are not followed.  `HostOpens` refuses a claimed terminal; with the code's `Release` that never
  happens, which is what `PowerCycles` says.
