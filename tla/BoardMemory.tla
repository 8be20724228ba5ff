----------------------------- MODULE BoardMemory -----------------------------
(* The memory map of a board and the rules that accept it: what              *)
(* Architecture::validate, McuDescriptor and the security checks of the       *)
(* simulator say of flash partitions, RAM banks and attribution regions.      *)
(* Flash addresses are relative to flash_base, except where the code checks    *)
(* their alignment; RAM lies above the flash.                                 *)
EXTENDS Integers, Sequences, FiniteSets, SequencesExt

CONSTANTS
    Absent,             \* an optional field that the layout leaves out
    FlashBase,          \* memory.flash_base, which is the flash_base of the MCU
    VectorAlignment     \* of the architecture

ASSUME FlashBaseAssumption == FlashBase \in Nat
ASSUME VectorAssumption == VectorAlignment \in Nat \ {0}

PowerOfTwo(n) == n > 0 /\ \E k \in 0..n : n = 2^k

CeilDiv(n, d) == (n + d - 1) \div d

LimitOf(region) == region.base + region.size

Cells(region) == region.base .. LimitOf(region) - 1

\* A partition counts only when both of its fields are given.
Present(region) == region.base # Absent /\ region.size # Absent

Overlap(r, s) == r.base < LimitOf(s) /\ s.base < LimitOf(r)

PairwiseApart(regions) ==
    \A i, j \in DOMAIN regions : i < j => ~Overlap(regions[i], regions[j])

TotalSize(regions) == FoldSeq(LAMBDA r, sum : r.size + sum, 0, regions)

-----------------------------------------------------------------------------
(* Architecture::validate. *)

FlashPartitionsFit(m) ==
    /\ m.flash_size > 0 /\ m.bootloader_size > 0 /\ m.slot_a.size > 0
    /\ PowerOfTwo(m.erase_size)
    /\ PowerOfTwo(m.write_alignment)
    /\ (FlashBase + m.slot_a.base) % VectorAlignment = 0
    /\ m.slot_a.base >= m.bootloader_size
    /\ LimitOf(m.slot_a) <= m.flash_size

\* A plausible bug: a spare slot may begin inside slot A.
MutSpareSlotFits(m, slot) ==
    Present(slot) => slot.size > 0 /\ LimitOf(slot) <= m.flash_size

SpareSlotFits(m, slot) ==
    Present(slot) => /\ slot.size > 0
                     /\ slot.base >= LimitOf(m.slot_a)
                     /\ LimitOf(slot) <= m.flash_size

\* A plausible bug: the pages of persistent data need not be whole.
MutPersistentAnywhere(m) ==
    Present(m.persistent) => /\ m.persistent.base >= LimitOf(m.slot_a)
                             /\ LimitOf(m.persistent) <= m.flash_size

\* Pages of persistent board state are whole and belong to nobody else.
PersistentDataApart(m) ==
    LET data == m.persistent
        boot == [base |-> 0, size |-> m.bootloader_size]
    IN  /\ (data.base = Absent) <=> (data.size = Absent)
        /\ Present(data) =>
              /\ data.size >= 2 * m.erase_size
              /\ (FlashBase + data.base) % m.erase_size = 0
              /\ data.size % m.erase_size = 0
              /\ data.base >= LimitOf(m.slot_a)
              /\ LimitOf(data) <= m.flash_size
              /\ ~Overlap(data, boot) /\ ~Overlap(data, m.slot_a)
              /\ \A other \in {m.delta, m.slot_b} :
                    Present(other) => ~Overlap(data, other)

RamUsable(m) ==
    /\ m.sedsnet_pool > 0
    /\ m.ram_regions # <<>>
    /\ \A i \in DOMAIN m.ram_regions : m.ram_regions[i].size > 0
    /\ PairwiseApart(m.ram_regions)
    /\ m.sedsnet_pool <= TotalSize(m.ram_regions)

PartitionsValid(m) ==
    /\ FlashPartitionsFit(m)
    /\ SpareSlotFits(m, m.delta)
    /\ SpareSlotFits(m, m.slot_b)
    /\ PersistentDataApart(m)
    /\ RamUsable(m)

-----------------------------------------------------------------------------
(* McuDescriptor::validate_definition and Architecture::validate_mcu. *)

DescriptorValid(mcu) ==
    /\ mcu.flash_size > 0 /\ mcu.ram_size > 0
    /\ PowerOfTwo(mcu.erase_size) /\ PowerOfTwo(mcu.write_alignment)
    /\ \A i \in DOMAIN mcu.ram_regions : mcu.ram_regions[i].size > 0
    /\ PairwiseApart(mcu.ram_regions)
    /\ mcu.ram_regions # <<>> => TotalSize(mcu.ram_regions) = mcu.ram_size

\* The banks of the silicon; a part with one contiguous RAM lists none.
Banks(mcu) ==
    IF mcu.ram_regions = <<>> THEN <<[base |-> mcu.ram_base, size |-> mcu.ram_size]>>
                              ELSE mcu.ram_regions

FitsSilicon(m, mcu, architecture) ==
    /\ DescriptorValid(mcu)
    /\ mcu.architecture = architecture
    /\ PartitionsValid(m)
    /\ m.flash_size <= mcu.flash_size
    /\ \A i \in DOMAIN m.ram_regions : \E b \in DOMAIN Banks(mcu) :
          Cells(m.ram_regions[i]) \subseteq Cells(Banks(mcu)[b])
    /\ TotalSize(m.ram_regions) <= mcu.ram_size
    /\ m.erase_size = mcu.erase_size
    /\ m.write_alignment = mcu.write_alignment

-----------------------------------------------------------------------------
(* Secure regions of a Cortex-M33 and what is left for the SAU to open. *)

Flash(m) == [base |-> 0, size |-> m.flash_size]

Physical(m) == <<Flash(m)>> \o m.ram_regions

ByBase(r, s) == r.base < s.base

\* A plausible bug: the secure regions are taken in the order of the layout.
MutOpenPartsUnsorted(range, secure) ==
    LET cut == FoldLeft(
                 LAMBDA s, r : [cursor |-> LimitOf(r),
                                parts  |-> s.parts \o <<[base |-> s.cursor, size |-> r.base - s.cursor]>>],
                 [cursor |-> range.base, parts |-> <<>>],
                 SelectSeq(secure, LAMBDA r : r.base \in Cells(range)))
    IN  SelectSeq(Append(cut.parts, [base |-> cut.cursor, size |-> LimitOf(range) - cut.cursor]),
                  LAMBDA r : r.size > 0)

\* What one physical range keeps when its secure regions are cut out of it.
OpenParts(range, secure) ==
    LET inside == SortSeq(SelectSeq(secure, LAMBDA r : r.base \in Cells(range)), ByBase)
        cut    == FoldLeft(
                    LAMBDA s, r :
                      [cursor |-> Max({s.cursor, LimitOf(r)}),
                       parts  |-> IF s.cursor < r.base
                                    THEN Append(s.parts, [base |-> s.cursor, size |-> r.base - s.cursor])
                                    ELSE s.parts],
                    [cursor |-> range.base, parts |-> <<>>], inside)
    IN  IF cut.cursor < LimitOf(range)
          THEN Append(cut.parts, [base |-> cut.cursor, size |-> LimitOf(range) - cut.cursor])
          ELSE cut.parts

NonSecureRegions(m, secure) ==
    FoldLeft(LAMBDA parts, range : parts \o OpenParts(range, secure), <<>>, Physical(m))

\* validate_machine_config: granularity, containment, overlap and SAU regions.
SecurityValid(m, security, mcu, granule, SauRegions) ==
    LET secure == security.secure_regions
    IN  /\ \A i \in DOMAIN secure :
              /\ secure[i].size > 0
              /\ \E p \in DOMAIN Physical(m) : Cells(secure[i]) \subseteq Cells(Physical(m)[p])
              /\ secure[i].base % granule = 0 /\ secure[i].size % granule = 0
        /\ security.trustzone => mcu.trustzone_capable
        /\ secure # <<>> => security.trustzone
        /\ PairwiseApart(secure)
        /\ Len(NonSecureRegions(m, secure)) <= SauRegions
=============================================================================
