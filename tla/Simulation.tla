------------------------------ MODULE Simulation -----------------------------
(* One qualification run of a board, simulator.rs: load and validate the       *)
(* layout, exercise the peripheral fault schedules, run the traffic and the     *)
(* update matrix, execute the firmware, and report.                           *)
EXTENDS FlashUpdate, PacketTraffic, DeviceFaults, FirmwareElf, Execution

CONSTANTS
    Iterations,         \* reads of every device
    Catalog,            \* mcu name -> descriptor
    LegacyMcu,          \* architecture -> the only mcu it had in v0.1
    PhysicalAdc,        \* architecture -> names of its converters
    OnBus,              \* architecture -> pairs <<model, bus>> with a Renode model
    RamBase,            \* where the RAM of a legacy layout starts
    Granule,            \* of the attribution unit
    SauRegions,         \* it has this many regions
    ExposedEvents       \* flash events a power cut can select

\* serde reads sizes and counts as unsigned.
ASSUME TrafficAssumption ==
    \A board \in Boards :
        /\ {"traffic", "memory"} \subseteq DOMAIN board /\ "sedsnet_pool" \in DOMAIN board.memory
        /\ {board.traffic.max_payload, board.memory.sedsnet_pool} \subseteq Nat

\* What the firmware of a board shows is external; a probe reads one value in each
\* sample, the registers of unacknowledged CAN controllers too.
Described(settings, firmware) ==
    LET probes == ProbesOf(settings)
    IN  /\ List(settings.probes) /\ settings.sample_count \in Nat
        /\ {settings.firmware_driven, settings.every_operation, settings.can_acknowledged}
               \subseteq BOOLEAN
        /\ {firmware.boots, firmware.factory_boots, firmware.factory_fault, firmware.watchdog}
               \subseteq BOOLEAN
        /\ List(firmware.trace)
        /\ \A p \in DOMAIN probes :
              List(firmware.values[p]) /\ Len(firmware.values[p]) = settings.sample_count

ASSUME GuestsAssumption ==
    \A board \in Boards :
        /\ board.execution.architecture = board.architecture
        /\ Described(board.execution, board.guest)

\* Schedules are unsigned or left out, an outcome stands for one of three images, and
\* the firmware reports nothing but the outcomes its layout names.
BootImages == {"old", "new", "recovery"}

Accountable(board) ==
    /\ List(board.devices)
    /\ \A i \in DOMAIN board.devices :
          /\ {"failure_every", "disconnect_after"} \subseteq DOMAIN board.devices[i]
          /\ {board.devices[i].failure_every, board.devices[i].disconnect_after}
                 \subseteq Nat \cup {NoSchedule}
    /\ "outcomes" \in DOMAIN board
    /\ \A o \in ToSet(board.outcomes) : o.image \in BootImages
    /\ {board.guest.outcome} \cup {board.guest.after_cut[n] : n \in DOMAIN board.guest.trace}
           \subseteq {None} \cup {o.name : o \in ToSet(board.outcomes)}

ASSUME ReportAssumption == Iterations \in Nat /\ \A board \in Boards : Accountable(board)

VARIABLES
    phase,              \* of the run
    report              \* the figures of the update report

vars == <<updateVars, trafficVars, deviceVars, executionVars, phase, report>>

-----------------------------------------------------------------------------
(* BoardLayout::load with normalize_legacy_layout: v0.1 layouts name neither    *)
(* the mcu nor the RAM banks nor the models of the built-in converters.         *)

Loadable(raw) ==
    /\ raw.mcu = Absent => raw.architecture \in DOMAIN LegacyMcu
    /\ raw.memory.ram_regions = Absent => raw.memory.ram_size # Absent /\ raw.memory.ram_size > 0
    /\ raw.elf_named

NamedMcu(raw) == IF raw.mcu = Absent THEN LegacyMcu[raw.architecture] ELSE raw.mcu

RamBanks(memory) ==
    IF memory.ram_regions = Absent THEN <<[base |-> RamBase, size |-> memory.ram_size]>>
                                   ELSE memory.ram_regions

WithConverter(spec, architecture) ==
    IF /\ spec.kind = "adc" /\ spec.model = NoSchedule /\ spec.bus = NoSchedule
       /\ spec.name \in PhysicalAdc[architecture]
      THEN [spec EXCEPT !.model = "stm32_adc", !.bus = spec.name] ELSE spec

Normalized(raw) ==
    [raw EXCEPT !.mcu = NamedMcu(raw),
                !.memory.ram_regions = RamBanks(raw.memory),
                !.devices = [i \in DOMAIN @ |-> WithConverter(@[i], raw.architecture)]]

\* resolve_mcu_descriptor: an exact descriptor of the layout, or the catalogue's.
Descriptor(l) == Catalog[l.mcu]
Resolvable(raw) == NamedMcu(raw) \in DOMAIN Catalog /\ DescriptorValid(Catalog[NamedMcu(raw)])

-----------------------------------------------------------------------------
(* validate and validate_machine_config.                                      *)

FactoryFits(l) ==
    LET m == l.memory
    IN  /\ Len(l.factory) <= m.flash_size
        /\ Present(m.persistent) => Len(l.factory) <= m.persistent.base
        /\ Len(l.factory) >= 2
        /\ PointsIntoRam(l.factory[1], m)
        /\ l.factory[2] \in Cells(Flash(m))

ImagesFit(l) ==
    LET m == l.memory
    IN  /\ l.bootloader_length \in 1..m.bootloader_size
        /\ Len(l.firmware) \in 1..m.slot_a.size
        /\ FactoryFits(l)
        /\ l.ota # Absent => l.ota # <<>>
        /\ l.updated_firmware # Absent => Len(l.updated_firmware) \in 1..m.slot_a.size

OutcomeNames(l) == {o.name : o \in ToSet(l.outcomes)}

\* A transport the silicon has, with the fields its kind needs.
TransportValid(t, mcu) ==
    /\ <<t.kind, t.peripheral>> \in mcu.ota_ports
    /\ t.kind = "can" => t.can_id # Absent /\ (t.mtu # Absent => t.mtu <= 64)
    /\ t.kind = "usb" /\ t.endpoint # Absent => t.endpoint <= 7

OtaConfigValid(l, mcu) ==
    LET x == l.execution
    IN  /\ l.chunk_size > 0 /\ l.inter_byte > 0
        /\ x.firmware_driven => /\ l.transport # Absent
                                /\ l.ota # Absent /\ l.updated_firmware # Absent
                                /\ l.outcomes # <<>>
                                /\ TransportValid(l.transport, mcu)
        /\ ~(x.every_operation /\ x.events # {})
        /\ x.every_operation \/ x.events # {} => x.firmware_driven
        /\ x.events \subseteq ExposedEvents
        /\ Cardinality(OutcomeNames(l)) = Len(l.outcomes)

WiringValid(l, mcu) ==
    /\ \A i, j \in DOMAIN l.clocks : i # j => l.clocks[i].target # l.clocks[j].target
    /\ \A i \in DOMAIN l.clocks : l.clocks[i].hz > 0
    /\ \A pin \in l.pins : pin < mcu.pin_count
    /\ \A route \in l.dma_routes : route.controller \in mcu.dma_controllers /\ route.channel < 16

MachineConfigValid(l, mcu) ==
    /\ OtaConfigValid(l, mcu)
    /\ WiringValid(l, mcu)
    /\ SecurityValid(l.memory, l.security, mcu, Granule, SauRegions)

\* materialize_platform: the core of the catalogue and the targets of the
\* clocks exist in the platform file.
PlatformConfigurable(l, mcu) ==
    /\ mcu.core = mcu.platform.core
    /\ \A i \in DOMAIN l.clocks : l.clocks[i].target \in mcu.platform.clocked
    /\ l.security.trustzone => mcu.platform.core = "cortex-m33"

Valid(l) ==
    LET mcu == Descriptor(l)
    IN  /\ FitsSilicon(l.memory, mcu, l.architecture)
        /\ ElfValid(l.elf, l.memory) /\ ElfValid(l.bootloader_elf, l.memory)
        /\ ImagesFit(l)
        /\ MachineConfigValid(l, mcu)
        /\ PlatformConfigurable(l, mcu)

-----------------------------------------------------------------------------
(* What execution::run prepares before the first process.                      *)

Coupled(l) == SelectSeq(l.devices, LAMBDA d : d.model # NoSchedule)

Schedule(d) == <<d.failure_every, d.disconnect_after>>

\* render_peripheral_overlay: every coupled device has a Renode model on its bus,
\* and the two flight sensors of an H5 are one bus model with one schedule.
OverlayPossible(l) ==
    /\ \A i \in DOMAIN Coupled(l) :
          <<Coupled(l)[i].model, Coupled(l)[i].bus>> \in OnBus[l.architecture]
    /\ \A i, j \in DOMAIN Coupled(l) :
          LET c == Coupled(l)[i]
              d == Coupled(l)[j]
          IN  {c.model, d.model} \subseteq {"bmi088", "bmp390"} => Schedule(c) = Schedule(d)

TickInRam(l) ==
    l.tick_address # Absent =>
        \E i \in DOMAIN l.memory.ram_regions :
            Cells([base |-> l.tick_address, size |-> l.word_size]) \subseteq
                Cells(l.memory.ram_regions[i])

MachineBuildable(l) ==
    /\ HasVector(l.elf, l.memory)
    /\ FlashLoads(l.elf, l.memory) # <<>>
    /\ TickInRam(l)
    /\ PlatformConfigurable(l, Descriptor(l))
    /\ OverlayPossible(l)

-----------------------------------------------------------------------------
(* The report.                                                                *)

ImageOf(name) == (CHOOSE o \in ToSet(layout.outcomes) : o.name = name).image

Counted(names) ==
    [image \in BootImages |->
        Cardinality({i \in DOMAIN names : ImageOf(names[i]) = image})]

\* A plausible bug: the uncut update is not counted.
MutCutOutcomes == [i \in DOMAIN results |-> results[i].outcome]

\* The cuts of the real updater replace the counts of the flash model.
CutOutcomes == Append([i \in DOMAIN results |-> results[i].outcome], finished)

\* The factory boot restarts the package only when the update ended in it.
Restarted(boots) == layout.ota # Absent /\ Updated = layout.firmware /\ boots.new > 0

ReportOf(tested, boots, everywhere) ==
    [tested |-> tested, boots |-> boots, everywhere |-> everywhere, restarted |-> Restarted(boots)]

UpdateReport ==
    IF PowerCutting THEN ReportOf(Len(results) + 1, Counted(CutOutcomes), job.every_operation)
                    ELSE ReportOf(PointCount, points, TRUE)

CutsComplete == PowerCutting /\ job.every_operation => Len(results) = Len(guest.trace)

NoReport == [tested |-> 0, boots |-> NoPoints, everywhere |-> FALSE, restarted |-> FALSE]

-----------------------------------------------------------------------------
Init ==
    /\ layout \in Boards
    /\ job = layout.execution /\ guest = layout.guest
    /\ UpdateIdle /\ TrafficIdle /\ DevicesIdle /\ ExecutionIdle
    /\ phase = "load" /\ report = NoReport

Stage(here) == phase = here
GoTo(next) == phase' = next /\ UNCHANGED report

OthersStay(mine) ==
    /\ mine # "update" => UNCHANGED updateVars
    /\ mine # "traffic" => UNCHANGED trafficVars
    /\ mine # "devices" => UNCHANGED deviceVars
    /\ mine # "execution" => UNCHANGED executionVars

Load ==
    /\ Stage("load")
    /\ IF Loadable(layout) /\ Resolvable(layout)
         THEN layout' = Normalized(layout) /\ GoTo("validate")
         ELSE UNCHANGED layout /\ GoTo("failed")
    /\ UNCHANGED <<flash, plan, points, update, trafficVars, deviceVars, executionVars>>

Validate ==
    /\ Stage("validate")
    /\ GoTo(IF Valid(layout) THEN "devices" ELSE "failed")
    /\ OthersStay("none")

\* A phase is the work of one component and ends with it.
Within(name, step) == Stage(name) /\ step /\ OthersStay(name) /\ UNCHANGED <<phase, report>>

Devices == Within("devices", DeviceStep(layout.devices, Iterations))

TrafficPhase ==
    Within("traffic", \/ TrafficBegin(layout.traffic, layout.memory.sedsnet_pool)
                      \/ TrafficStep(layout.traffic))

UpdatePhase == Within("update", UpdateNext)

Prepare ==
    /\ Stage("prepare")
    /\ IF MachineBuildable(layout) THEN ExecutionBegin /\ GoTo("execution")
                                   ELSE GoTo("failed") /\ UNCHANGED executionVars
    /\ UNCHANGED <<updateVars, trafficVars, deviceVars>>

ExecutionPhase == Within("execution", ExecutionStep)

Status == [devices |-> exercise, traffic |-> traffic, update |-> update, execution |-> runner]
After == [devices |-> "traffic", traffic |-> "update", update |-> "prepare", execution |-> "report"]

\* The first component that fails ends the run in its phase.
Leave ==
    /\ phase \in DOMAIN Status /\ Status[phase] \in {"done", "failed"}
    /\ GoTo(IF Status[phase] = "done" THEN After[phase] ELSE "failed")
    /\ OthersStay("none")

Report ==
    /\ Stage("report")
    /\ IF CutsComplete THEN phase' = "done" /\ report' = UpdateReport
                       ELSE phase' = "failed" /\ UNCHANGED report
    /\ OthersStay("none")

Next ==
    \/ Load \/ Validate \/ Devices \/ TrafficPhase \/ UpdatePhase
    \/ Prepare \/ ExecutionPhase \/ Leave \/ Report

Spec == Init /\ [][Next]_vars

FairSpec ==
    /\ Spec
    /\ WF_vars(Load \/ Validate \/ Devices \/ TrafficPhase \/ UpdatePhase \/ Prepare \/ Leave \/ Report)
    /\ ExecutionFairness

-----------------------------------------------------------------------------
(* Properties. *)

\* Every interruption point of a report that is handed out boots one of the
\* three images, whether the flash model or the real updater was cut, and the
\* fault schedules did what their closed forms say.
ReportAccounted ==
    phase = "done" =>
        /\ report.tested = report.boots.old + report.boots.new + report.boots.recovery
        /\ report.boots.new + report.boots.old + report.boots.recovery > 0
        /\ Len(reports) = Len(layout.devices)
        /\ \A i \in DOMAIN reports : reports[i].passed

\* The machine that is executed is the one the layout describes: the flash
\* image holds the vector table the CPU is started from, and the regions that
\* are opened to non-secure code are all of the physical memory and nothing of
\* the secure regions.
MachineMatchesLayout ==
    phase = "execution" =>
        LET m      == layout.memory
            vector == ResetVector(layout.elf, m)
            image  == FlashImage(layout.elf, m)
            open   == NonSecureRegions(m, layout.security.secure_regions)
            Area(regions) == UNION {Cells(regions[i]) : i \in DOMAIN regions}
        IN  /\ vector.table + 1 \in DOMAIN image
            /\ image[vector.table] = vector.msp
            /\ image[vector.table + 1] = layout.elf.entry
            /\ PairwiseApart(open)
            /\ Area(open) = Area(Physical(m)) \ Area(layout.security.secure_regions)
=============================================================================
