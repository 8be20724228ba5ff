----------------------------- MODULE FlashUpdate -----------------------------
(* The interruption matrix of update.rs: an update is a list of flash         *)
(* operations; after each of them the power could go, and the matrix records   *)
(* which image the board would boot.                                          *)
EXTENDS BoardMemory

CONSTANTS
    Bits,           \* the bits of a flash byte; an erased byte has all of them
    LowBit,         \* the bit in which a made-up predecessor differs
    Boards          \* the board layouts considered

\* What serde guarantees of a layout: its fields are there, sizes and offsets are
\* unsigned, and images are bytes. Its flash begins with a page, as that of every
\* STM32 does; the code takes that for granted of an MCU a layout describes itself.
Optional(S) == S \cup {Absent}

WellTyped(board) ==
    LET m == board.memory
    IN  /\ {"memory", "chunk_size", "firmware", "updated_firmware", "ota", "is_delta", "mcu", "devices"}
              \subseteq DOMAIN board
        /\ {"erase_size", "write_alignment", "bootloader_size", "flash_size", "slot_a", "slot_b",
            "delta", "persistent", "ram_regions"} \subseteq DOMAIN m
        /\ {m.erase_size, m.bootloader_size, m.flash_size} \subseteq Nat
        /\ m.erase_size > 0 => FlashBase % m.erase_size = 0
        /\ {m.slot_a.base, m.slot_a.size} \subseteq Nat
        /\ \A other \in {m.slot_b, m.delta, m.persistent} :
              {other.base, other.size} \subseteq Optional(Nat)
        /\ board.chunk_size \in Nat
        /\ board.firmware \in Seq(SUBSET Bits)
        /\ {board.updated_firmware, board.ota} \subseteq Optional(Seq(SUBSET Bits))

ASSUME BoardsAssumption == \A board \in Boards : WellTyped(board)

VARIABLES
    layout,         \* the board layout of this run
    flash,          \* flash address -> set of bits that read as one
    plan,           \* flash operations still to be carried out
    points,         \* interruption points counted by the image they boot
    update          \* "idle", "running", "done" or "failed"

updateVars == <<layout, flash, plan, points, update>>

Erased == Bits
Memory == layout.memory
PageSize == Memory.erase_size
Unit == Memory.write_alignment

Byte == SUBSET Bits

-----------------------------------------------------------------------------
(* Flash. *)

\* The last program unit is padded with erased bytes.
PaddedLength(data) == CeilDiv(Len(data), Unit) * Unit

Incoming(data, i) == IF i < Len(data) THEN data[i + 1] ELSE Erased

\* Programming only clears bits: a byte that would need a zero to become one fails.
Programmable(at, data) ==
    /\ at % Unit = 0
    /\ at + PaddedLength(data) <= Memory.flash_size
    /\ \A i \in 0..PaddedLength(data) - 1 : Incoming(data, i) \subseteq flash[at + i]

Programmed(f, at, data) ==
    [a \in DOMAIN f |-> IF a \in at .. at + PaddedLength(data) - 1
                          THEN f[a] \cap Incoming(data, a - at) ELSE f[a]]

Erasable(at, length) ==
    /\ at % PageSize = 0 /\ length % PageSize = 0
    /\ at + length <= Memory.flash_size

Wiped(f, at, length) ==
    [a \in DOMAIN f |-> IF a \in at .. at + length - 1 THEN Erased ELSE f[a]]

ReadOf(f, at, length) == [i \in 1..length |-> f[at + i - 1]]

-----------------------------------------------------------------------------
(* The plan of one update. *)

\* Without a next image the packaged one is the target and the board is taken
\* to hold a predecessor with one byte changed in the middle.
Original ==
    IF layout.updated_firmware # Absent THEN layout.firmware
    ELSE LET middle == Len(layout.firmware) \div 2 + 1
         IN  [layout.firmware EXCEPT ![middle] = IF LowBit \in @ THEN @ \ {LowBit}
                                                                      ELSE @ \cup {LowBit}]

Updated == IF layout.updated_firmware # Absent THEN layout.updated_firmware ELSE layout.firmware

Transfer == IF layout.ota # Absent THEN layout.ota ELSE Updated

Strategy ==
    IF Memory.slot_b.size # Absent /\ Memory.slot_b.size >= Len(Updated) THEN "DualSlot"
    ELSE IF layout.ota # Absent /\ layout.is_delta THEN "DeltaOnly"
    ELSE "RecoveryTransport"

\* Where the new image is written and looked for.
Target == IF Strategy = "DualSlot" THEN Memory.slot_b.base ELSE Memory.slot_a.base

Chunk == layout.chunk_size

Chunks(data) ==
    [i \in 1..CeilDiv(Len(data), Chunk) |->
        SubSeq(data, (i - 1) * Chunk + 1, IF i * Chunk < Len(data) THEN i * Chunk ELSE Len(data))]

Programs(at, data) ==
    [i \in DOMAIN Chunks(data) |->
        [op |-> "program", at |-> at + (i - 1) * Chunk, data |-> Chunks(data)[i]]]

\* Whole pages, from the start of the target to the page of its last byte.
Erases ==
    [i \in 1..CeilDiv(Len(Updated), PageSize) |->
        [op |-> "erase", at |-> Target + (i - 1) * PageSize, data |-> <<>>]]

\* A delta is staged before the slot it applies to is erased.
Staging == IF Strategy = "DeltaOnly" THEN Programs(Memory.delta.base, Transfer) ELSE <<>>

UpdatePossible ==
    /\ Original # <<>> /\ Updated # <<>> /\ Transfer # <<>> /\ Chunk > 0
    /\ Strategy = "DeltaOnly" => Present(Memory.delta) /\ Memory.delta.size > 0
                                 /\ Len(Transfer) <= Memory.delta.size
    /\ Strategy = "DualSlot" => Memory.slot_b.base # Absent
    /\ Original # Updated
    /\ Len(Original) <= Memory.slot_a.size
    /\ Len(Updated) <= Memory.slot_a.size
    /\ Programmable(Memory.slot_a.base, Original)

-----------------------------------------------------------------------------
(* What the board would boot. *)

BootsNew(f) == ReadOf(f, Target, Len(Updated)) = Updated
BootsOld(f) == ReadOf(f, Memory.slot_a.base, Len(Original)) = Original

Boots(f) == IF BootsNew(f) THEN "new" ELSE IF BootsOld(f) THEN "old" ELSE "recovery"

Record(counts, f) == [counts EXCEPT ![Boots(f)] = @ + 1]

NoPoints == [old |-> 0, new |-> 0, recovery |-> 0]
PointCount == points.old + points.new + points.recovery

-----------------------------------------------------------------------------
BlankFlash == [a \in 0 .. Memory.flash_size - 1 |-> Erased]

UpdateIdle ==
    /\ flash = BlankFlash
    /\ plan = <<>>
    /\ points = NoPoints
    /\ update = "idle"

UpdateBegin ==
    /\ update = "idle"
    /\ IF UpdatePossible
         THEN LET installed == Programmed(flash, Memory.slot_a.base, Original)
              IN  /\ flash' = installed
                  /\ plan' = Staging \o Erases \o Programs(Target, Updated)
                  /\ points' = Record(points, installed)
                  /\ update' = "running"
         ELSE /\ update' = "failed"
              /\ UNCHANGED <<flash, plan, points>>
    /\ UNCHANGED layout

UpdateErase ==
    /\ update = "running" /\ plan # <<>> /\ Head(plan).op = "erase"
    /\ Erasable(Head(plan).at, PageSize)
    /\ flash' = Wiped(flash, Head(plan).at, PageSize)
    /\ points' = Record(points, flash')
    /\ plan' = Tail(plan)
    /\ UNCHANGED <<layout, update>>

UpdateProgram ==
    /\ update = "running" /\ plan # <<>> /\ Head(plan).op = "program"
    /\ Programmable(Head(plan).at, Head(plan).data)
    /\ flash' = Programmed(flash, Head(plan).at, Head(plan).data)
    /\ points' = Record(points, flash')
    /\ plan' = Tail(plan)
    /\ UNCHANGED <<layout, update>>

\* Unaligned, outside the flash, or a zero that would have to become a one.
UpdateRefused ==
    /\ update = "running" /\ plan # <<>>
    /\ LET op == Head(plan)
       IN  ~ IF op.op = "erase" THEN Erasable(op.at, PageSize) ELSE Programmable(op.at, op.data)
    /\ update' = "failed"
    /\ UNCHANGED <<layout, flash, plan, points>>

UpdateEnd ==
    /\ update = "running" /\ plan = <<>>
    /\ update' = IF points.new > 0 THEN "done" ELSE "failed"
    /\ UNCHANGED <<layout, flash, plan, points>>

UpdateNext == UpdateBegin \/ UpdateErase \/ UpdateProgram \/ UpdateRefused \/ UpdateEnd

UpdateInit == layout \in Boards /\ PartitionsValid(layout.memory) /\ UpdateIdle

UpdateSpec == UpdateInit /\ [][UpdateNext]_updateVars

-----------------------------------------------------------------------------
(* Properties. *)

\* The cells an operation may change: whole pages when it erases.
Reach(op) == IF op.op = "erase" THEN op.at .. op.at + PageSize - 1
                                ELSE op.at .. op.at + Len(op.data) - 1

Protected ==
    (0 .. Memory.bootloader_size - 1)
        \cup IF Present(Memory.persistent) THEN Cells(Memory.persistent) ELSE {}

\* What update.rs does to flash never reaches the bootloader or the persistent
\* board state, although slots need not end on a page and erasing rounds the
\* image up to whole pages: the rules of Architecture::validate are enough.
OperationsSpareBoard ==
    update = "running" =>
        \A i \in DOMAIN plan :
            plan[i].op = "program" \/ Erasable(plan[i].at, PageSize)
                => Reach(plan[i]) \cap Protected = {}

\* The order of what a cut leaves behind: the old image until the first erase
\* of its slot, the new one once it is complete and for good; a dual-slot
\* update has no point in between.
PhasesInOrder ==
    [][ update = "running" =>
          /\ Boots(flash) = "new" => Boots(flash') = "new"
          /\ Boots(flash') = "old" => Boots(flash) = "old"
          /\ Strategy = "DualSlot" => Boots(flash') # "recovery"
      ]_<<flash, plan>>
=============================================================================
