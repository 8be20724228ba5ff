----------------------------- MODULE MCSimulation ----------------------------
(* Families of boards, each about one part of the run: the partitions of the    *)
(* flash, the attribution regions, the traffic, the fault schedules, the ELF,    *)
(* and the behaviour of the firmware under power cuts.                         *)
EXTENDS Simulation

Region(base, size) == [base |-> base, size |-> size]
Nowhere == Region(Absent, Absent)

\* Two-bit bytes: {0, 1} is erased.
Old == <<{0}, {1}, {}>>
New == <<{1}, {0}, {0}>>

SmallMemory ==
    [flash_size |-> 12, bootloader_size |-> 2, slot_a |-> Region(2, 4), slot_b |-> Nowhere,
     delta |-> Nowhere, persistent |-> Nowhere, erase_size |-> 2, write_alignment |-> 1,
     sedsnet_pool |-> 4, ram_regions |-> <<Region(100, 4), Region(104, 4)>>, ram_size |-> Absent]

Stack == 104
Entry == 5
Segment(physical, words) ==
    [load |-> TRUE, physical |-> physical, virtual |-> physical, words |-> words,
     memory_size |-> Len(words), complete |-> TRUE]

PlainElf == [header_ok |-> TRUE, entry |-> Entry, segments |-> <<Segment(4, <<Stack, Entry>>)>>]

NoProbeLimits ==
    [name |-> <<"ram", "word">>, register |-> None, gain |-> None, minimum |-> None, maximum |-> None, end_drop |-> None,
     ignore_zeroes |-> FALSE, stack |-> FALSE]

PlainJob ==
    [sample_count |-> 1, virtual_time |-> 4, warmup |-> 0, require_stack_probe |-> FALSE,
     probes |-> <<>>, can_acknowledged |-> TRUE, firmware_driven |-> FALSE,
     every_operation |-> FALSE, events |-> {}, architecture |-> "h5"]

PlainGuest ==
    [boots |-> TRUE, factory_boots |-> TRUE, fault |-> "none", factory_fault |-> FALSE,
     watchdog |-> FALSE, trace |-> <<>>, outcome |-> None, early_outcome |-> None,
     after_cut |-> <<>>, values |-> <<>>]

PlainBoard ==
    [architecture |-> "h5", mcu |-> "h523", memory |-> SmallMemory, elf_named |-> TRUE,
     elf |-> PlainElf, bootloader_elf |-> PlainElf, factory |-> <<Stack, Entry>>,
     bootloader_length |-> 2, firmware |-> Old, updated_firmware |-> New, ota |-> Absent,
     is_delta |-> FALSE, chunk_size |-> 2, inter_byte |-> 1, transport |-> Absent,
     outcomes |-> <<>>, clocks |-> <<>>, pins |-> {}, dma_routes |-> {},
     security |-> [trustzone |-> FALSE, secure_regions |-> <<>>],
     devices |-> <<>>, tick_address |-> Absent, word_size |-> 2,
     traffic |-> [iterations |-> 0, max_payload |-> 1, queue_depth |-> 0, immediate |-> TRUE],
     execution |-> PlainJob, guest |-> PlainGuest]

Coupling(kind, model, bus) ==
    [kind |-> kind, model |-> model, bus |-> bus, name |-> kind, position |-> FALSE, ranges_ok |-> TRUE,
     capacity |-> NoSchedule, bits |-> NoSchedule, samples |-> {},
     failure_every |-> NoSchedule, disconnect_after |-> NoSchedule]

Imu == Coupling("imu", "bmi088", "spi1")
Barometer == Coupling("barometer", "bmp390", "spi1")
Storage == Coupling("storage", NoSchedule, NoSchedule)
Converter == [Coupling("adc", NoSchedule, NoSchedule) EXCEPT !.name = "adc1"]

-----------------------------------------------------------------------------
(* The silicon. *)

H523 ==
    [architecture |-> "h5", flash_size |-> 12, ram_size |-> 8, ram_base |-> 100,
     ram_regions |-> <<Region(100, 4), Region(104, 4)>>, erase_size |-> 2, write_alignment |-> 1,
     trustzone_capable |-> TRUE, pin_count |-> 4, dma_controllers |-> {"dma1"}, core |-> "cortex-m33",
     ota_ports |-> {<<"can", "fdcan1">>, <<"usb", "usb">>},
     platform |-> [core |-> "cortex-m33", clocked |-> {"timer"}]]

G474 ==
    [H523 EXCEPT !.architecture = "g4", !.ram_regions = <<>>, !.trustzone_capable = FALSE,
                 !.core = "cortex-m4", !.platform.core = "cortex-m4"]

MCCatalog == [h523 |-> H523, h533 |-> [H523 EXCEPT !.write_alignment = 2], g474 |-> G474,
              h743 |-> [H523 EXCEPT !.architecture = "h7", !.trustzone_capable = FALSE], broken |-> [H523 EXCEPT !.ram_size = 9]]
MCLegacyMcu == [h5 |-> "h523", g4 |-> "g474"]
MCPhysicalAdc == [h5 |-> {"adc1"}, g4 |-> {"adc1"}, h7 |-> {}, f1 |-> {}]
MCOnBus ==
    LET sensors == {<<"bmi088", "spi1">>, <<"bmp390", "spi1">>}
    IN  [h5 |-> sensors \cup {<<"stm32_adc", "adc1">>}, g4 |-> {<<"stm32_adc", "adc1">>},
        h7 |-> {}, f1 |-> {}]
MCSupported == {<<"imu", "bmi088">>, <<"barometer", "bmp390">>, <<"adc", "stm32_adc">>}
MCEvents == {"erase", "program"}

-----------------------------------------------------------------------------
(* Two ways to stop a board of a family once its own part is over: a tick       *)
(* address outside the RAM, and a job whose warm-up is all of its samples.      *)
Untickable == 0
NoJob == [PlainJob EXCEPT !.warmup = 1]

\* Slots that end inside a page, neighbours that touch and overlap, persistent
\* pages before and after them, deltas and second slots of every fit.
FlashBoards ==
    {[PlainBoard EXCEPT !.memory = m, !.updated_firmware = u, !.ota = o, !.is_delta = (o # Absent),
                        !.mcu = IF m.write_alignment = 1 THEN "h523" ELSE "h533",
                        !.chunk_size = c, !.tick_address = Untickable] :
        m \in {[SmallMemory EXCEPT !.slot_a = a, !.slot_b = b, !.delta = d, !.persistent = p,
                                   !.write_alignment = w] :
                 w \in {1, 2}, a \in {Region(2, 3), Region(2, 4), Region(3, 3)},
                 b \in {Nowhere, Region(5, 3), Region(4, 4), Region(6, 3), Region(8, 4)},
                 d \in {Nowhere, Region(5, 3), Region(6, 2)},
                 p \in {Nowhere, Region(6, 4), Region(8, 4), Region(7, 4)}},
        u \in {New, Absent}, o \in {Absent, <<{}, {0}>>}, c \in {1, 2}}

\* Secure regions at the start, the middle and the end of a physical range.
SecureSets ==
    LET regions == {Region(0, 2), Region(2, 2), Region(4, 4), Region(10, 2), Region(9, 2),
                    Region(100, 4), Region(102, 4), Region(106, 2)}
    IN  {<<>>} \cup {<<r>> : r \in regions} \cup {<<r, s>> : r \in regions, s \in regions}

SecurityBoards ==
    {[PlainBoard EXCEPT !.security = [trustzone |-> t, secure_regions |-> s],
                        !.mcu = m, !.architecture = Catalog[m].architecture, !.execution = NoJob] :
        t \in BOOLEAN, s \in SecureSets, m \in {"h523", "g474"}}

\* A header before the vector table, a table inside a segment, a decoy in the
\* header, data that is copied to RAM, zeroed data that fits a bank and that
\* spans two, overlapping constants, a truncated file and a note segment.
Data(size) == [Segment(7, <<9>>) EXCEPT !.virtual = 100, !.memory_size = size]
Zeroed(base, size) == [Segment(base, <<>>) EXCEPT !.memory_size = size]
SegmentLists ==
    LET vector == Segment(4, <<Stack, Entry>>)
    IN  {<<>>, <<vector>>, <<Segment(2, <<7, 7>>), vector>>, <<Segment(2, <<7, 7, Stack, Entry>>)>>,
         <<Segment(2, <<Stack, Entry, Stack, Entry>>)>>, <<Segment(6, <<7, 8>>), vector>>,
         <<vector, Data(3), Zeroed(104, 4)>>, <<vector, Data(5)>>, <<vector, Zeroed(102, 3)>>,
         <<vector, Zeroed(108, 0)>>, <<vector, Segment(7, <<1, 2>>), Segment(8, <<3, 4>>)>>,
         <<Segment(4, <<7, Stack, 7>>)>>, <<[vector EXCEPT !.complete = FALSE]>>,
         <<[vector EXCEPT !.load = FALSE], vector>>, <<[vector EXCEPT !.memory_size = 1]>>,
         <<[vector EXCEPT !.physical = 11]>>, <<vector, Segment(6, <<7, 8>>), Segment(11, <<1>>)>>}

ElfBoards ==
    {[PlainBoard EXCEPT !.elf = [header_ok |-> TRUE, entry |-> e, segments |-> s],
                        !.execution = NoJob, !.tick_address = t] :
        e \in {Entry, 12}, s \in SegmentLists, t \in {Absent, 102, 103}}

\* v0.1 layouts.
LegacyBoards ==
    {[PlainBoard EXCEPT !.architecture = a, !.mcu = m, !.memory.ram_regions = r, !.memory.ram_size = n,
                        !.elf_named = named, !.devices = <<Converter>>, !.execution = NoJob] :
        a \in {"h5", "g4", "f1"}, m \in {Absent, "h523", "unknown"},
        r \in {Absent, <<Region(100, 4)>>}, n \in {Absent, 0, 4}, named \in BOOLEAN}

\* Pools smaller than a packet, than a queue, and large enough.
TrafficBoards ==
    {[PlainBoard EXCEPT !.memory.sedsnet_pool = p, !.tick_address = Untickable,
                        !.traffic = [iterations |-> 4, max_payload |-> w, queue_depth |-> q, immediate |-> i]] :
        p \in {1, 2, 3, 8}, w \in {0, 1, 2}, q \in {0, 1, 3}, i \in BOOLEAN}

\* Schedules at their boundaries, alone and shared by the two flight sensors.
FaultyBoards ==
    {[PlainBoard EXCEPT !.devices = <<[Imu EXCEPT !.failure_every = f, !.disconnect_after = d],
                                      [Barometer EXCEPT !.failure_every = g]>>, !.execution = NoJob] :
        f \in {NoSchedule, 0, 1, 2, 5}, d \in {NoSchedule, 0, 3, 4}, g \in {NoSchedule, 2}}

InvalidDevices ==
    {[Imu EXCEPT !.kind = "toaster"], [Imu EXCEPT !.position = TRUE], [Imu EXCEPT !.ranges_ok = FALSE],
     [Imu EXCEPT !.bus = NoSchedule], [Imu EXCEPT !.model = "bmp390"], [Imu EXCEPT !.bus = "i2c9"],
     [Storage EXCEPT !.capacity = 513], [Storage EXCEPT !.capacity = 512],
     [Converter EXCEPT !.bits = 2, !.samples = {4}], [Converter EXCEPT !.bits = 0]}

RejectedDevices ==
    {[PlainBoard EXCEPT !.devices = <<Imu, d>>, !.execution = NoJob] : d \in InvalidDevices}

-----------------------------------------------------------------------------
(* The updater of the firmware under power cuts. *)

Cutting ==
    [PlainBoard EXCEPT !.ota = <<{}, {0}>>,
        !.transport = [kind |-> "can", peripheral |-> "fdcan1", can_id |-> 1, mtu |-> 64, endpoint |-> Absent],
        !.outcomes = <<[name |-> "kept", image |-> "old"], [name |-> "updated", image |-> "new"],
                       [name |-> "waits", image |-> "recovery"]>>,
        !.execution = [PlainJob EXCEPT !.firmware_driven = TRUE, !.every_operation = TRUE],
        !.guest = [PlainGuest EXCEPT !.trace = <<"erase", "program">>, !.outcome = "updated",
                                     !.early_outcome = "kept",
                                     !.after_cut = <<"waits", "updated">>]]

CutGuests ==
    {Cutting.guest, [Cutting.guest EXCEPT !.outcome = None],
     [Cutting.guest EXCEPT !.after_cut = <<"waits", None>>],
     [Cutting.guest EXCEPT !.trace = <<>>, !.after_cut = <<>>]}

CutJobs ==
    {[Cutting.execution EXCEPT !.every_operation = FALSE],
     [Cutting.execution EXCEPT !.every_operation = FALSE, !.events = {"program"}]}

CutBoards ==
    {[Cutting EXCEPT !.guest = g] : g \in CutGuests} \cup {[Cutting EXCEPT !.execution = j] : j \in CutJobs}

BadOta ==
    {[Cutting EXCEPT !.transport = Absent], [Cutting EXCEPT !.ota = Absent],
     [Cutting EXCEPT !.ota = <<>>], [Cutting EXCEPT !.updated_firmware = Absent],
     [Cutting EXCEPT !.outcomes = <<>>, !.guest = PlainGuest], [Cutting EXCEPT !.outcomes = @ \o @],
     [Cutting EXCEPT !.transport.peripheral = "fdcan9"], [Cutting EXCEPT !.transport.can_id = Absent],
     [Cutting EXCEPT !.transport.mtu = 65], [Cutting EXCEPT !.execution.events = {"program"}],
     [Cutting EXCEPT !.execution.every_operation = FALSE, !.execution.events = {"read"}],
     [Cutting EXCEPT !.execution.firmware_driven = FALSE],
     [Cutting EXCEPT !.transport = [@ EXCEPT !.kind = "usb", !.peripheral = "usb", !.endpoint = 8]]}

BadWiring ==
    {[PlainBoard EXCEPT !.clocks = <<[target |-> "timer", hz |-> 1], [target |-> "timer", hz |-> 2]>>],
     [PlainBoard EXCEPT !.clocks = <<[target |-> "timer", hz |-> 0]>>],
     [PlainBoard EXCEPT !.clocks = <<[target |-> "radio", hz |-> 1]>>],
     [PlainBoard EXCEPT !.pins = {9}], [PlainBoard EXCEPT !.dma_routes = {[controller |-> "dma9", channel |-> 0]}],
     [PlainBoard EXCEPT !.dma_routes = {[controller |-> "dma1", channel |-> 16]}],
     [PlainBoard EXCEPT !.factory = <<Stack>>], [PlainBoard EXCEPT !.factory = <<99, Entry>>],
     [PlainBoard EXCEPT !.bootloader_length = 3], [PlainBoard EXCEPT !.firmware = <<>>],
     [PlainBoard EXCEPT !.mcu = "broken"], [PlainBoard EXCEPT !.elf.header_ok = FALSE]}

-----------------------------------------------------------------------------
(* The behaviour of the firmware and of its counters. *)

Counter == [NoProbeLimits EXCEPT !.gain = 1]
Pool == [NoProbeLimits EXCEPT !.minimum = 2, !.maximum = 6, !.end_drop = 1, !.ignore_zeroes = TRUE]
StackProbe == [NoProbeLimits EXCEPT !.minimum = 1, !.stack = TRUE]

FaultGuests ==
    {[PlainGuest EXCEPT !.fault = "early"], [PlainGuest EXCEPT !.fault = "late"],
     [PlainGuest EXCEPT !.watchdog = TRUE], [PlainGuest EXCEPT !.boots = FALSE],
     [PlainGuest EXCEPT !.factory_boots = FALSE], [PlainGuest EXCEPT !.factory_fault = TRUE]}

FaultBoards == {[PlainBoard EXCEPT !.guest = g] : g \in FaultGuests \cup {PlainGuest}}

Observed3(board, probe, values) ==
    [board EXCEPT !.execution.probes = <<probe>>, !.execution.sample_count = Len(values),
                  !.execution.warmup = 1, !.guest.values = <<values>>]

\* Counters that wrap, stall and run backwards; pools that leak or dip once.
ProfileBoards ==
    {Observed3(PlainBoard, Counter, v) : v \in {<<0, 7, 0>>, <<0, 3, 3>>, <<7, 4, 3>>}}
        \cup {Observed3(PlainBoard, Pool, v) : v \in {<<5, 0, 4, 2, 4>>, <<0, 5, 3, 2, 2>>}}

StackBoards ==
    {[Observed3(PlainBoard, p, <<1, 2>>) EXCEPT !.execution.require_stack_probe = TRUE] : p \in {Counter, StackProbe}}

Missed == <<<<1>>, <<AckError>>>>
Unharmed == {<<<<1>>, <<0>>>>, <<<<0>>, <<AckError>>>>}
Unanswered(board, values) ==
    [board EXCEPT !.execution.can_acknowledged = FALSE, !.guest.values = values]
G4Board == [PlainBoard EXCEPT !.architecture = "g4", !.mcu = "g474"]

\* The second of two controllers misses its acknowledgement, a layout samples a
\* register itself, with its name at another register, and on a board without CAN.
Unacknowledged ==
    {Unanswered(PlainBoard, v) : v \in {Missed} \cup Unharmed}
        \cup {Unanswered(G4Board, v \o Missed) : v \in Unharmed}
        \cup {Unanswered(G4Board, <<<<1>>, <<0>>>> \o <<<<0>>, <<AckError>>>>)}
        \cup {Unanswered([PlainBoard EXCEPT !.execution.probes =
                              <<[NoProbeLimits EXCEPT !.name = ErrorCode("fdcan1"), !.register = r]>>],
                          <<<<AckError>>, <<1>>>>) : r \in {None, ErrorCode("fdcan1")}}
        \cup {Unanswered([PlainBoard EXCEPT !.architecture = "h7", !.mcu = "h743"], <<>>)}

AllBoards ==
    FlashBoards \cup SecurityBoards \cup ElfBoards \cup LegacyBoards \cup TrafficBoards
        \cup FaultyBoards \cup RejectedDevices \cup CutBoards \cup BadOta \cup BadWiring
        \cup FaultBoards \cup ProfileBoards \cup StackBoards \cup Unacknowledged

PlainBoards == {PlainBoard}
SimulatedBoards == {[b EXCEPT !.execution.architecture = b.architecture] : b \in AllBoards}
=============================================================================
