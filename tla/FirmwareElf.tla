----------------------------- MODULE FirmwareElf -----------------------------
(* What elf.rs reads out of a firmware ELF: whether its segments fit the       *)
(* memory, where its vector table is, which flash image it makes, and whether   *)
(* a factory image carries the same application. A cell of memory and of the    *)
(* file is a 32-bit word.                                                     *)
EXTENDS BoardMemory

CONSTANTS
    Padding             \* an erased word

\* Of one program header: LOAD or not, addresses, the words of the file it
\* covers, its size in memory, and whether the file holds all of its words.
FileSize(seg) == Len(seg.words)

InRange(base, size, region) ==
    IF size = 0 THEN base >= region.base /\ base <= LimitOf(region)
                ELSE base >= region.base /\ base + size <= LimitOf(region)

FitsFlash(base, size, m) == InRange(base, size, Flash(m))

FitsPhysical(base, size, m) == \E i \in DOMAIN Physical(m) : InRange(base, size, Physical(m)[i])

Loads(elf) == SelectSeq(elf.segments, LAMBDA seg : seg.load)

HeaderReadable(elf) == elf.header_ok /\ elf.segments # <<>>

\* validate_elf
ElfValid(elf, m) ==
    /\ HeaderReadable(elf)
    /\ FitsFlash(elf.entry, 1, m)
    /\ \A i \in DOMAIN Loads(elf) :
          LET seg == Loads(elf)[i]
          IN  /\ FileSize(seg) <= seg.memory_size
              /\ seg.complete
              /\ FitsPhysical(seg.virtual, seg.memory_size, m)
              /\ FileSize(seg) > 0 => FitsPhysical(seg.physical, FileSize(seg), m)

-----------------------------------------------------------------------------
(* reset_vector: the first pair of words that looks like a vector table, a     *)
(* stack pointer in RAM followed by the entry point.                          *)

PointsIntoRam(word, m) ==
    \E i \in DOMAIN m.ram_regions : word \in m.ram_regions[i].base .. LimitOf(m.ram_regions[i])

IsVector(seg, n, elf, m) ==
    /\ n + 1 \in DOMAIN seg.words
    /\ PointsIntoRam(seg.words[n], m)
    /\ seg.words[n + 1] = elf.entry

VectorPlaces(elf, m) ==
    UNION {{<<i, n>> : n \in {n \in DOMAIN Loads(elf)[i].words : IsVector(Loads(elf)[i], n, elf, m)}} :
              i \in DOMAIN Loads(elf)}

First(places) ==
    CHOOSE p \in places : \A q \in places : p[1] < q[1] \/ (p[1] = q[1] /\ p[2] <= q[2])

HasVector(elf, m) == VectorPlaces(elf, m) # {}

ResetVector(elf, m) ==
    LET place == First(VectorPlaces(elf, m))
        seg   == Loads(elf)[place[1]]
    IN  [msp   |-> seg.words[place[2]],
         pc    |-> seg.words[place[2] + 1],
         table |-> seg.physical + place[2] - 1]

-----------------------------------------------------------------------------
(* flash_image: the initialised segments at their load addresses, erased words *)
(* between them; a later segment overwrites an earlier one.                   *)

FlashLoads(elf, m) ==
    SelectSeq(Loads(elf),
              LAMBDA seg : FileSize(seg) > 0 /\ FitsFlash(seg.physical, FileSize(seg), m))

ImageLength(elf, m) ==
    Max({FlashLoads(elf, m)[i].physical + FileSize(FlashLoads(elf, m)[i]) :
            i \in DOMAIN FlashLoads(elf, m)})

Covers(seg, a) == a >= seg.physical /\ a < seg.physical + FileSize(seg)

FlashImage(elf, m) ==
    LET loads == FlashLoads(elf, m)
    IN  [a \in 0 .. ImageLength(elf, m) - 1 |->
            LET over == {i \in DOMAIN loads : Covers(loads[i], a)}
            IN  IF over = {} THEN Padding
                ELSE loads[Max(over)].words[a - loads[Max(over)].physical + 1]]

-----------------------------------------------------------------------------
(* validated_factory_image: the application in the factory image is the ELF's, *)
(* from the vector table on; what precedes it is the packager's header.        *)

Compared(seg, table) == {a \in seg.physical .. seg.physical + FileSize(seg) - 1 : a >= table}

FactoryMatches(factory, elf, m, table) ==
    LET loads == FlashLoads(elf, m)
    IN  /\ Len(factory) >= 2 /\ Len(factory) <= m.flash_size
        /\ \A i \in DOMAIN loads : \A a \in Compared(loads[i], table) :
              /\ a + 1 \in DOMAIN factory
              /\ factory[a + 1] = loads[i].words[a - loads[i].physical + 1]
        /\ \E i \in DOMAIN loads : Compared(loads[i], table) # {}
=============================================================================
