--------------------------- MODULE SimulationProofs --------------------------
(* A whole run of simulator.rs, from the layout as it was read to the report,  *)
(* keeps its update away from what must survive it: validation stands between   *)
(* any layout and the first flash operation.  Its traffic neither underflows     *)
(* the packet pool nor leaks from it.  The runner of its executions passes       *)
(* exactly the firmware that is healthy and reports what every cut showed, and   *)
(* the figures of the final report add up.                                     *)
EXTENDS Simulation, ListTheorems

-----------------------------------------------------------------------------
(* Arithmetic. *)

\* Every piece but the first begins before the end of what is cut into pieces.
LEMMA PieceBegins ==
    ASSUME NEW n \in Nat, NEW d \in Nat, d > 0, NEW i \in 1..CeilDiv(n, d)
    PROVE  (i - 1) * d < n
<1> DEFINE q == CeilDiv(n, d)
<1>1. q \in Int /\ q * d <= n + d - 1
  BY DEF CeilDiv
<1>2. i \in Int /\ i <= q
  BY <1>1
<1>3. i * d <= q * d
  BY <1>1, <1>2
<1>4. (i - 1) * d = i * d - d
  BY <1>2
<1>5. i * d \in Int /\ q * d \in Int
  BY <1>1, <1>2
<1> QED
  BY <1>1, <1>3, <1>4, <1>5

\* A page that begins before an aligned limit ends before it too.
LEMMA PageEnds ==
    ASSUME NEW at \in Int, NEW limit \in Int, NEW page \in Nat, page > 0,
           at % page = 0, limit % page = 0, at < limit
    PROVE  at + page <= limit
<1> DEFINE k == at \div page
           l == limit \div page
<1>1. k \in Int /\ l \in Int
  OBVIOUS
<1>2. at = k * page /\ limit = l * page
  OBVIOUS
<1>3. k < l
  <2>1. CASE l <= k
    <3>1. l * page <= k * page
      BY <1>1, <2>1
    <3> QED
      BY <1>2, <3>1
  <2> QED
    BY <1>1, <2>1
<1>4. (k + 1) * page <= l * page
  BY <1>1, <1>3
<1>5. (k + 1) * page = k * page + page
  BY <1>1
<1> QED
  BY <1>2, <1>4, <1>5

\* What is aligned as an address is aligned in a flash that begins with a page.
LEMMA PageOffset ==
    ASSUME NEW base \in Nat, NEW at \in Nat, NEW page \in Nat, page > 0,
           base % page = 0, (base + at) % page = 0
    PROVE  at % page = 0
<1> DEFINE k == base \div page
           l == (base + at) \div page
<1>1. k \in Int /\ l \in Int /\ l - k \in Int
  OBVIOUS
<1>2. base = k * page /\ base + at = l * page
  OBVIOUS
<1>3. at = l * page - k * page
  BY <1>1, <1>2
<1>4. l * page - k * page = (l - k) * page
  BY <1>1
<1>5. at = (l - k) * page + 0
  BY <1>1, <1>3, <1>4
<1> HIDE DEF k, l
<1>6. ((l - k) * page) % page = 0
  BY <1>1
<1> QED
  BY <1>1, <1>5, <1>6

-----------------------------------------------------------------------------
(* Slots. *)

Slots == {Memory.slot_a} \cup {r \in {Memory.slot_b, Memory.delta} : Present(r)}

\* An operation begins in a slot; only the last page of an erase may leave it.
InSlot(op, r) ==
    /\ r.base <= op.at
    /\ op.op = "erase" => op.at < LimitOf(r)
    /\ op.op = "program" => op.at + Len(op.data) <= LimitOf(r)

Operation == [op : {"erase", "program"}, at : Nat, data : Seq(SUBSET Bits)]

Contained == {op \in Operation : \E r \in Slots : InSlot(op, r)}

BoardAccepted == WellTyped(layout) /\ PartitionsValid(Memory)

\* The invariant: what is still to be done stays in the slots of a valid board.
IInv == BoardAccepted /\ plan \in Seq(Contained)

\* What validation says of any slot.
LEMMA SlotApart ==
    ASSUME BoardAccepted, NEW r \in Slots
    PROVE  /\ r.base \in Nat /\ r.size \in Nat
           /\ Memory.bootloader_size \in Nat /\ Memory.bootloader_size <= r.base
           /\ PageSize \in Nat /\ PageSize > 0
           /\ Present(Memory.persistent) =>
                 /\ Memory.persistent.base \in Nat /\ Memory.persistent.size \in Nat
                 /\ Memory.persistent.base % PageSize = 0
                 /\ \/ LimitOf(r) <= Memory.persistent.base
                    \/ LimitOf(Memory.persistent) <= r.base
<1>1. /\ Memory.slot_a.base \in Nat /\ Memory.slot_a.size \in Nat
      /\ Memory.bootloader_size \in Nat /\ PageSize \in Nat
      /\ \A other \in {Memory.slot_b, Memory.delta, Memory.persistent} :
            Present(other) => other.base \in Nat /\ other.size \in Nat
  BY DEF BoardAccepted, WellTyped, Memory, PageSize, Present, Optional
<1>2. r.base \in Nat /\ r.size \in Nat
  BY <1>1 DEF Slots
<1>3. PageSize > 0 /\ Memory.bootloader_size <= Memory.slot_a.base
  BY <1>1 DEF BoardAccepted, PartitionsValid, FlashPartitionsFit, PowerOfTwo, PageSize
<1>4. Memory.bootloader_size <= r.base
  <2>1. CASE r = Memory.slot_a
    BY <1>3, <2>1
  <2>2. CASE r \in {Memory.slot_b, Memory.delta} /\ Present(r)
    <3>1. r.base >= LimitOf(Memory.slot_a)
      BY <2>2 DEF BoardAccepted, PartitionsValid, SpareSlotFits
    <3> QED
      BY <1>1, <1>2, <1>3, <3>1 DEF LimitOf
  <2> QED
    BY <2>1, <2>2 DEF Slots
<1>5. ASSUME Present(Memory.persistent)
      PROVE  /\ Memory.persistent.base % PageSize = 0
             /\ \/ LimitOf(r) <= Memory.persistent.base
                \/ LimitOf(Memory.persistent) <= r.base
  <2>1. (FlashBase + Memory.persistent.base) % PageSize = 0 /\ ~Overlap(Memory.persistent, r)
    BY <1>5 DEF BoardAccepted, PartitionsValid, PersistentDataApart, PageSize, Slots
  <2>2. Memory.persistent.base \in Nat /\ Memory.persistent.size \in Nat
    BY <1>1, <1>5
  <2>3. FlashBase \in Nat /\ FlashBase % PageSize = 0
    BY <1>3, FlashBaseAssumption DEF BoardAccepted, WellTyped, Memory, PageSize
  <2>4. Memory.persistent.base % PageSize = 0
    BY <1>1, <1>3, <2>1, <2>2, <2>3, PageOffset
  <2> QED
    BY <1>2, <2>1, <2>2, <2>4 DEF Overlap, LimitOf
<1> QED
  BY <1>1, <1>2, <1>3, <1>4, <1>5

\* Rounding an erase up to a page never enters persistent data, which begins
\* with a page of its own.
LEMMA ContainedSpares ==
    ASSUME BoardAccepted, NEW op \in Contained,
           op.op = "program" \/ Erasable(op.at, PageSize)
    PROVE  Reach(op) \cap Protected = {}
<1>1. PICK r \in Slots : InSlot(op, r)
  BY DEF Contained
<1>2. op.at \in Nat /\ op.data \in Seq(SUBSET Bits) /\ Len(op.data) \in Nat /\ op.op \in {"erase", "program"}
  BY DEF Contained, Operation
<1> DEFINE last == IF op.op = "erase" THEN op.at + PageSize ELSE op.at + Len(op.data)
           data == Memory.persistent
<1>3. Reach(op) = op.at .. last - 1 /\ last \in Nat
  BY <1>2, SlotApart DEF Reach
<1>4. r.base \in Nat /\ r.size \in Nat /\ r.base <= op.at
      /\ Memory.bootloader_size \in Nat /\ Memory.bootloader_size <= r.base
      /\ PageSize \in Nat /\ PageSize > 0
  BY <1>1, SlotApart DEF InSlot
<1>5. ASSUME Present(data), NEW a \in Reach(op) PROVE a \notin Cells(data)
  <2>1. /\ data.base \in Nat /\ data.size \in Nat
        /\ LimitOf(r) <= data.base \/ LimitOf(data) <= r.base
    BY <1>5, SlotApart
  <2>4. a \in op.at .. last - 1
    BY <1>3, <1>5
  <2>2. CASE LimitOf(data) <= r.base
    <3>1. data.base + data.size <= a
      BY <1>2, <1>4, <2>1, <2>2, <2>4 DEF LimitOf
    <3> QED
      BY <2>1, <2>4, <3>1 DEF Cells, LimitOf
  <2>3. CASE LimitOf(r) <= data.base
    <3>1. last <= data.base
      <4>1. CASE op.op = "program"
        BY <1>1, <1>2, <1>4, <2>1, <2>3, <4>1 DEF InSlot, LimitOf
      <4>2. CASE op.op = "erase"
        <5>1. op.at < data.base
          BY <1>1, <1>2, <1>4, <2>1, <2>3, <4>2 DEF InSlot, LimitOf
        <5>2. op.at % PageSize = 0 /\ data.base % PageSize = 0
          BY <1>5, <4>2, SlotApart DEF Erasable
        <5>3. op.at \in Int /\ data.base \in Int
          BY <1>2, <2>1
        <5>4. PageSize \in Nat /\ PageSize > 0
          BY <1>4
        <5>5. op.at + PageSize <= data.base
          BY <5>1, <5>2, <5>3, <5>4, PageEnds, Zenon
        <5> QED
          BY <4>2, <5>5
      <4> QED
        BY <1>2, <4>1, <4>2
    <3> QED
      BY <1>2, <1>3, <1>5, <2>1, <3>1 DEF Cells
  <2> QED
    BY <2>1, <2>2, <2>3
<1>6. ASSUME NEW a \in Reach(op) PROVE a \notin 0 .. Memory.bootloader_size - 1
  BY <1>2, <1>3, <1>4, <1>6
<1> QED
  BY <1>5, <1>6 DEF Protected

-----------------------------------------------------------------------------
(* The plan. *)

\* Chunks written from some place of a slot stay in it when their data fits.
LEMMA ProgramsContained ==
    ASSUME Chunk \in Nat, Chunk > 0, NEW r \in Slots, r.base \in Nat, r.size \in Nat,
           NEW data \in Seq(SUBSET Bits), Len(data) <= r.size
    PROVE  Programs(r.base, data) \in Seq(Contained)
<1> DEFINE n == CeilDiv(Len(data), Chunk)
<1>1. n \in Nat
  BY DEF CeilDiv
<1>2. ASSUME NEW i \in 1..n PROVE Programs(r.base, data)[i] \in Contained
  <2> DEFINE low  == (i - 1) * Chunk + 1
             high == IF i * Chunk < Len(data) THEN i * Chunk ELSE Len(data)
             op   == [op |-> "program", at |-> r.base + (i - 1) * Chunk, data |-> SubSeq(data, low, high)]
  <2>1. (i - 1) * Chunk < Len(data)
    BY PieceBegins
  <2>2. i \in Nat /\ (i - 1) * Chunk \in Nat /\ i * Chunk \in Nat /\ i * Chunk = (i - 1) * Chunk + Chunk
    BY <1>1
  <2>3. low \in Int /\ high \in Int /\ 1 <= low /\ low <= high /\ high <= Len(data)
    BY <2>1, <2>2
  <2>4. \A j \in low .. high : data[j] \in SUBSET Bits
    BY <2>3
  <2>5. SubSeq(data, low, high) \in Seq(SUBSET Bits) /\ Len(SubSeq(data, low, high)) = high - low + 1
    BY <2>3, <2>4, SubSeqProperties
  <2>6. Programs(r.base, data)[i] = op
    BY <1>1 DEF Programs, Chunks
  <2>7. op \in Operation
    BY <2>2, <2>5 DEF Operation
  <2>8. InSlot(op, r)
    <3> DEFINE before == (i - 1) * Chunk
               piece  == SubSeq(data, low, high)
    <3>1. before \in Nat /\ low = before + 1
      BY <2>2
    <3>2. op.op = "program" /\ op.at = r.base + before /\ op.data = piece
      OBVIOUS
    <3>3. Len(piece) = high - low + 1
      BY <2>5
    <3> HIDE DEF before, low, high, piece, op
    <3>4. Len(piece) \in Nat /\ before + Len(piece) <= r.size
      BY <2>3, <3>1, <3>3
    <3>5. op.at + Len(op.data) = r.base + (before + Len(piece))
      BY <3>1, <3>2, <3>4
    <3> QED
      BY <3>1, <3>2, <3>4, <3>5 DEF InSlot, LimitOf
  <2> QED
    BY <2>6, <2>7, <2>8 DEF Contained
<1>3. Programs(r.base, data) = [i \in 1..n |-> Programs(r.base, data)[i]]
  BY <1>1 DEF Programs, Chunks
<1> QED
  BY <1>1, <1>2, <1>3

\* The pages of a slot that hold an image begin in the slot.
LEMMA ErasesContained ==
    ASSUME BoardAccepted, NEW r \in Slots, r.base = Target,
           Updated \in Seq(SUBSET Bits), Len(Updated) <= r.size
    PROVE  Erases \in Seq(Contained)
<1> DEFINE n == CeilDiv(Len(Updated), PageSize)
<1>1. r.base \in Nat /\ r.size \in Nat /\ PageSize \in Nat /\ PageSize > 0
  BY SlotApart
<1>2. n \in Nat
  BY <1>1 DEF CeilDiv
<1>3. ASSUME NEW i \in 1..n PROVE Erases[i] \in Contained
  <2> DEFINE before == (i - 1) * PageSize
             op     == [op |-> "erase", at |-> r.base + before, data |-> <<>>]
  <2>1. before < Len(Updated)
    BY <1>1, PieceBegins
  <2>2. before \in Nat
    BY <1>1, <1>2
  <2>3. Erases[i] = op
    BY <1>2 DEF Erases
  <2>4. op \in Operation
    BY <1>1, <2>2 DEF Operation
  <2>5. InSlot(op, r)
    <3>1. op.op = "erase" /\ op.at = r.base + before
      OBVIOUS
    <3> HIDE DEF before, op
    <3> QED
      BY <1>1, <2>1, <2>2, <3>1 DEF InSlot, LimitOf
  <2> QED
    BY <2>3, <2>4, <2>5 DEF Contained
<1>4. Erases = [i \in 1..n |-> Erases[i]]
  BY <1>2 DEF Erases
<1> QED
  BY <1>2, <1>3, <1>4

\* An update that begins has a plan that keeps to the slots: the new image fits
\* its target, and a delta its staging area.
LEMMA PlanContained ==
    ASSUME BoardAccepted, UpdatePossible
    PROVE  Staging \o Erases \o Programs(Target, Updated) \in Seq(Contained)
<1>1. /\ Updated \in Seq(SUBSET Bits) /\ Transfer \in Seq(SUBSET Bits)
      /\ Chunk \in Nat
      /\ \A other \in {Memory.slot_b, Memory.delta} :
            /\ other.base # Absent => other.base \in Nat
            /\ other.size # Absent => other.size \in Nat
  BY DEF BoardAccepted, WellTyped, Memory, Updated, Transfer, Chunk, Optional
<1>2. Chunk > 0
  BY DEF UpdatePossible
<1>3. PICK r \in Slots : r.base = Target /\ Len(Updated) <= r.size
  <2>1. CASE Strategy = "DualSlot"
    <3>1. Memory.slot_b.base # Absent
      BY <2>1 DEF UpdatePossible
    <3>2. Memory.slot_b.size # Absent /\ Memory.slot_b.size >= Len(Updated)
      BY <2>1 DEF Strategy
    <3> QED
      BY <1>1, <2>1, <3>1, <3>2 DEF Slots, Present, Target
  <2>2. CASE Strategy # "DualSlot"
    BY <2>2 DEF Slots, Target, UpdatePossible
  <2> QED
    BY <2>1, <2>2
<1>4. Programs(Target, Updated) \in Seq(Contained)
  BY <1>1, <1>2, <1>3, SlotApart, ProgramsContained
<1>5. Erases \in Seq(Contained)
  BY <1>1, <1>3, ErasesContained
<1>6. Staging \in Seq(Contained)
  <2>1. CASE Strategy = "DeltaOnly"
    <3>1. Memory.delta \in Slots /\ Len(Transfer) <= Memory.delta.size
      BY <2>1 DEF UpdatePossible, Slots
    <3>2. Programs(Memory.delta.base, Transfer) \in Seq(Contained)
      BY <1>1, <1>2, <3>1, SlotApart, ProgramsContained
    <3> QED
      BY <2>1, <3>2 DEF Staging
  <2>2. CASE Strategy # "DeltaOnly"
    BY <2>2 DEF Staging
  <2> QED
    BY <2>1, <2>2
<1> QED
  BY <1>4, <1>5, <1>6, ConcatProperties

-----------------------------------------------------------------------------
(* The invariant of an update. *)

\* Taking an operation off the plan leaves the rest.
LEMMA PlanShortened ==
    ASSUME IInv, plan # <<>>, plan' = Tail(plan), UNCHANGED layout
    PROVE  IInv'
<1>1. Tail(plan) \in Seq(Contained)
  BY HeadTailProperties DEF IInv
<1>2. Contained' = Contained /\ BoardAccepted'
  BY DEF IInv, Contained, Operation, InSlot, Slots, BoardAccepted, Memory
<1> QED
  BY <1>1, <1>2 DEF IInv

\* A step that leaves layout and plan alone changes nothing of the invariant.
LEMMA PlanKept ==
    ASSUME IInv, UNCHANGED <<layout, plan>>
    PROVE  IInv'
BY DEF IInv, Contained, Operation, InSlot, Slots, BoardAccepted, Memory

\* Every step of an update keeps to the plan.
LEMMA UpdateStep == ASSUME IInv, UpdateNext PROVE IInv'
<1>1. CASE UpdateBegin
  <2>1. CASE UpdatePossible
    <3>1. plan' \in Seq(Contained) /\ UNCHANGED layout
      BY <1>1, <2>1, PlanContained DEF UpdateBegin, IInv
    <3>2. Contained' = Contained /\ BoardAccepted'
      BY <3>1 DEF IInv, Contained, Operation, InSlot, Slots, BoardAccepted, Memory
    <3> QED
      BY <3>1, <3>2 DEF IInv
  <2>2. CASE ~UpdatePossible
    BY <1>1, <2>2, PlanKept DEF UpdateBegin
  <2> QED
    BY <2>1, <2>2
<1>2. CASE UpdateErase
  BY <1>2, PlanShortened DEF UpdateErase
<1>3. CASE UpdateProgram
  BY <1>3, PlanShortened DEF UpdateProgram
<1>4. CASE UpdateRefused
  BY <1>4, PlanKept DEF UpdateRefused
<1>5. CASE UpdateEnd
  BY <1>5, PlanKept DEF UpdateEnd
<1> QED
  BY <1>1, <1>2, <1>3, <1>4, <1>5 DEF UpdateNext

\* The invariant gives the property.
LEMMA SparesBoard == IInv => OperationsSpareBoard
<1> SUFFICES ASSUME IInv, NEW i \in DOMAIN plan,
                    plan[i].op = "program" \/ Erasable(plan[i].at, PageSize)
             PROVE  Reach(plan[i]) \cap Protected = {}
  BY DEF OperationsSpareBoard
<1>1. plan[i] \in Contained
  BY DEF IInv
<1> QED
  BY <1>1, ContainedSpares DEF IInv

\* For every board that validation accepts, whatever its images, pages and
\* chunks are, no operation of its update reaches the bootloader or the
\* persistent board state (update.rs, architecture.rs).
THEOREM BoardSpared == UpdateSpec => []OperationsSpareBoard
<1>1. UpdateInit => IInv
  <2>1. UpdateInit => BoardAccepted /\ plan = <<>>
    BY BoardsAssumption DEF UpdateInit, UpdateIdle, BoardAccepted, Memory
  <2> QED
    BY <2>1 DEF IInv
<1>2. IInv /\ [UpdateNext]_updateVars => IInv'
  BY UpdateStep, PlanKept DEF updateVars
<1> QED
  BY <1>1, <1>2, SparesBoard, PTL DEF UpdateSpec

-----------------------------------------------------------------------------
(* The whole run. *)

Accepted == {"devices", "traffic", "update", "prepare", "execution", "report", "done"}

\* Past validation the layout is one that validate accepted, before it there is
\* no plan; a failed run may have stopped on either side.
RunInv ==
    /\ WellTyped(layout)
    /\ phase \in {"load", "validate"} => plan = <<>>
    /\ phase \in Accepted => PartitionsValid(Memory)
    /\ plan = <<>> \/ IInv

\* normalize_legacy_layout leaves flash partitions and images alone.
LEMMA NormalizedTyped ==
    ASSUME WellTyped(layout) PROVE WellTyped(Normalized(layout))
<1> DEFINE l == Normalized(layout)
<1>1. /\ DOMAIN l = DOMAIN layout
      /\ l.chunk_size = layout.chunk_size /\ l.firmware = layout.firmware
      /\ l.updated_firmware = layout.updated_firmware /\ l.ota = layout.ota
  BY DEF Normalized, WellTyped
<1>2. l.memory = [layout.memory EXCEPT !.ram_regions = RamBanks(layout.memory)]
  BY DEF Normalized, WellTyped
<1> HIDE DEF l
<1>3. /\ DOMAIN l.memory = DOMAIN layout.memory
      /\ l.memory.erase_size = layout.memory.erase_size
      /\ l.memory.bootloader_size = layout.memory.bootloader_size
      /\ l.memory.flash_size = layout.memory.flash_size
      /\ l.memory.slot_a = layout.memory.slot_a /\ l.memory.slot_b = layout.memory.slot_b
      /\ l.memory.delta = layout.memory.delta /\ l.memory.persistent = layout.memory.persistent
  BY <1>2 DEF WellTyped
<1>4. WellTyped(l)
  BY <1>1, <1>3 DEF WellTyped
<1> QED
  BY <1>4 DEF l

\* A step that leaves the layout and the plan alone and enters a phase behind
\* validation only from another one.
LEMMA RunKept ==
    ASSUME RunInv, UNCHANGED <<layout, plan>>,
           phase' \in {"load", "validate"} => phase \in {"load", "validate"},
           phase' \in Accepted => phase \in Accepted \/ PartitionsValid(Memory)
    PROVE  RunInv'
BY PlanKept DEF RunInv, WellTyped, Optional, Memory

\* Validation begins the second half of a run.
LEMMA ValidateStep == ASSUME RunInv, Validate PROVE RunInv'
<1>1. Valid(layout) => PartitionsValid(Memory)
  BY DEF Valid, FitsSilicon, Memory
<1>2. UNCHANGED <<layout, plan>> /\ phase' = IF Valid(layout) THEN "devices" ELSE "failed"
  BY DEF Validate, GoTo, OthersStay, updateVars
<1> QED
  BY <1>1, <1>2, RunKept DEF Accepted

\* Every step of a run.
LEMMA RunStep == ASSUME RunInv, Next PROVE RunInv'
<1>1. CASE Load
  <2>1. plan' = <<>> /\ phase' \in {"validate", "failed"} /\ layout' \in {layout, Normalized(layout)}
    BY <1>1 DEF Load, Stage, GoTo, RunInv
  <2>2. WellTyped(layout')
    BY <2>1, NormalizedTyped DEF RunInv
  <2> QED
    BY <2>1, <2>2 DEF RunInv, Accepted, WellTyped, Optional
<1>2. CASE Validate
  BY <1>2, ValidateStep
<1>3. CASE Devices \/ TrafficPhase \/ ExecutionPhase
  <2>1. UNCHANGED <<layout, plan, phase>>
    BY <1>3 DEF Devices, TrafficPhase, ExecutionPhase, Within, OthersStay, updateVars
  <2> QED
    BY <2>1, RunKept
<1>4. CASE UpdatePhase
  <2>1. phase = "update" /\ phase' = phase /\ UpdateNext
    BY <1>4 DEF UpdatePhase, Within, Stage
  <2>2. IInv
    <3>1. WellTyped(layout) /\ PartitionsValid(Memory) /\ (plan = <<>> \/ IInv)
      BY <2>1 DEF RunInv, Accepted
    <3>2. <<>> \in Seq(Contained)
      OBVIOUS
    <3> QED
      BY <3>1, <3>2 DEF IInv, BoardAccepted
  <2>3. IInv'
    BY <2>1, <2>2, UpdateStep
  <2> QED
    BY <2>1, <2>3 DEF RunInv, IInv, BoardAccepted, Accepted
<1>5. CASE Prepare
  <2>1. UNCHANGED <<layout, plan>> /\ phase = "prepare" /\ phase' \in {"execution", "failed"}
    BY <1>5 DEF Prepare, Stage, GoTo, updateVars
  <2> QED
    BY <2>1, RunKept DEF Accepted
<1>6. CASE Leave
  <2>1. UNCHANGED <<layout, plan>>
    BY <1>6 DEF Leave, OthersStay, updateVars
  <2>2. phase \in {"devices", "traffic", "update", "execution"}
    BY <1>6 DEF Leave, Status
  <2>3. phase' \in {"traffic", "update", "prepare", "report", "failed"}
    BY <1>6, <2>2 DEF Leave, GoTo, After
  <2> QED
    BY <2>1, <2>2, <2>3, RunKept DEF Accepted
<1>7. CASE Report
  <2>1. UNCHANGED <<layout, plan>> /\ phase = "report" /\ phase' \in {"done", "failed"}
    BY <1>7 DEF Report, Stage, OthersStay, updateVars
  <2> QED
    BY <2>1, RunKept DEF Accepted
<1> QED
  BY <1>1, <1>2, <1>3, <1>4, <1>5, <1>6, <1>7 DEF Next

\* Whatever layout is read, whatever the simulator does and wherever it fails, no
\* flash operation of the update reaches the bootloader or the persistent board
\* state (simulator.rs, update.rs).
THEOREM RunSparesBoard == Spec => []OperationsSpareBoard
<1>1. Init => RunInv
  BY BoardsAssumption DEF Init, UpdateIdle, RunInv, Accepted
<1>2. RunInv /\ [Next]_vars => RunInv'
  BY RunStep, RunKept DEF vars, updateVars
<1>3. RunInv => OperationsSpareBoard
  BY SparesBoard DEF RunInv, OperationsSpareBoard
<1> QED
  BY <1>1, <1>2, <1>3, PTL DEF Spec

-----------------------------------------------------------------------------
(* Sums of a queue of sizes. *)

\* f[i] is the sum of the first i sizes of q.
Sums(q, f) == f = [i \in 0 .. Len(q) |-> IF i = 0 THEN 0 ELSE f[i - 1] + q[i]]

SumsTo(q, n) == \E f : Sums(q, f) /\ f[Len(q)] = n

\* A property of the sums at every position that holds of the first and passes
\* from each to the next: there is no first position in T.
LEMMA NoFirst ==
    ASSUME NEW n \in Nat, NEW T, T \subseteq 0 .. n, 0 \notin T,
           \A i \in 1 .. n : i \in T => i - 1 \in T
    PROVE  T = {}
<1> SUFFICES ASSUME T # {} PROVE FALSE
  OBVIOUS
<1>1. PICK x \in T : \A y \in T : x <= y
  <2>1. T \subseteq Nat
    OBVIOUS
  <2> QED
    BY <2>1, Smallest
<1>2. x \in 1 .. n
  BY <1>1
<1>3. x - 1 \in T
  BY <1>2
<1> QED
  BY <1>1, <1>2, <1>3

\* The sums are naturals.
LEMMA SumsNat ==
    ASSUME NEW q \in Seq(Nat), NEW f, Sums(q, f)
    PROVE  /\ f \in [0 .. Len(q) -> Nat] /\ f[0] = 0
           /\ \A i \in 1 .. Len(q) : f[i] = f[i - 1] + q[i]
<1> DEFINE n == Len(q)
           T == {i \in 0 .. n : f[i] \notin Nat}
<1>1. n \in Nat /\ \A i \in 1 .. n : q[i] \in Nat
  BY LenProperties, ElementOfSeq
<1>2. /\ DOMAIN f = 0 .. n /\ f = [i \in 0 .. n |-> f[i]]
      /\ f[0] = 0 /\ \A i \in 1 .. n : f[i] = f[i - 1] + q[i]
  BY <1>1 DEF Sums
<1> HIDE DEF n
<1>3. T = {}
  <2>1. \A i \in 1 .. n : i \in T => i - 1 \in T
    <3> TAKE i \in 1 .. n
    <3>1. i - 1 \in 0 .. n
      BY <1>1
    <3>2. f[i] = f[i - 1] + q[i]
      BY <1>2, Zenon
    <3>3. q[i] \in Nat
      BY <1>1, Zenon
    <3> QED
      BY <3>1, <3>2, <3>3
  <2>2. T \subseteq 0 .. n /\ 0 \notin T
    BY <1>2
  <2> HIDE DEF T
  <2> QED
    BY <1>1, <2>1, <2>2, NoFirst
<1>4. f \in [0 .. n -> Nat]
  BY <1>2, <1>3
<1> QED
  BY <1>2, <1>4 DEF n

\* There is only one such f.
LEMMA SumsUnique ==
    ASSUME NEW q \in Seq(Nat), NEW f, NEW g, Sums(q, f), Sums(q, g)
    PROVE  f = g
<1> DEFINE n == Len(q)
           T == {i \in 0 .. n : f[i] # g[i]}
<1>1. n \in Nat
  BY LenProperties
<1>2. /\ f \in [0 .. n -> Nat] /\ f[0] = 0 /\ \A i \in 1 .. n : f[i] = f[i - 1] + q[i]
      /\ g \in [0 .. n -> Nat] /\ g[0] = 0 /\ \A i \in 1 .. n : g[i] = g[i - 1] + q[i]
  BY SumsNat
<1> HIDE DEF n
<1>3. T = {}
  <2>1. \A i \in 1 .. n : i \in T => i - 1 \in T
    <3> TAKE i \in 1 .. n
    <3>1. i - 1 \in 0 .. n /\ f[i] = f[i - 1] + q[i] /\ g[i] = g[i - 1] + q[i]
      BY <1>1, <1>2
    <3> QED
      BY <3>1
  <2>2. T \subseteq 0 .. n /\ 0 \notin T
    BY <1>2
  <2> HIDE DEF T
  <2> QED
    BY <1>1, <2>1, <2>2, NoFirst
<1>4. \A i \in 0 .. n : f[i] = g[i]
  BY <1>3
<1>5. f \in [0 .. n -> Nat] /\ g \in [0 .. n -> Nat]
  BY <1>2
<1>6. f = [i \in 0 .. n |-> f[i]] /\ g = [i \in 0 .. n |-> g[i]]
  BY <1>5
<1>7. [i \in 0 .. n |-> f[i]] = [i \in 0 .. n |-> g[i]]
  BY <1>4, Zenon
<1> QED
  BY <1>6, <1>7, Zenon

\* A packet that joins the queue.
LEMMA SumsAppend ==
    ASSUME NEW q \in Seq(Nat), NEW e \in Nat, NEW n, SumsTo(q, n)
    PROVE  n \in Nat /\ Append(q, e) \in Seq(Nat) /\ SumsTo(Append(q, e), n + e)
<1> DEFINE k == Len(q)
           r == Append(q, e)
<1>1. PICK f : Sums(q, f) /\ f[k] = n
  BY DEF SumsTo
<1>2. /\ k \in Nat /\ r \in Seq(Nat) /\ Len(r) = k + 1 /\ r[k + 1] = e
      /\ \A i \in 1 .. k : r[i] = q[i]
  BY AppendProperties, LenProperties
<1>3. f \in [0 .. k -> Nat] /\ f[0] = 0 /\ \A i \in 1 .. k : f[i] = f[i - 1] + q[i]
  BY <1>1, SumsNat
<1> DEFINE g == [i \in 0 .. k + 1 |-> IF i <= k THEN f[i] ELSE n + e]
           h == [i \in 0 .. k + 1 |-> IF i = 0 THEN 0 ELSE g[i - 1] + r[i]]
<1> HIDE DEF k, r
<1>4. n \in Nat
  BY <1>1, <1>2, <1>3
<1>5. ASSUME NEW i \in 0 .. k + 1 PROVE g[i] = h[i]
  <2>1. CASE i = 0
    BY <2>1, <1>2, <1>3
  <2>2. CASE i \in 1 .. k
    <3>1. i - 1 \in 0 .. k + 1 /\ i - 1 <= k
      BY <2>2, <1>2
    <3>2. g[i] = f[i] /\ g[i - 1] = f[i - 1] /\ r[i] = q[i]
      BY <2>2, <1>2, <3>1
    <3> QED
      BY <2>2, <1>2, <1>3, <3>2
  <2>3. CASE i = k + 1
    <3>1. k \in 0 .. k + 1 /\ g[k] = n /\ g[k + 1] = n + e /\ i - 1 = k /\ i # 0
      BY <2>3, <1>1, <1>2
    <3> QED
      BY <2>3, <1>2, <3>1
  <2> QED
    BY <2>1, <2>2, <2>3, <1>2
<1>6. g = h
  BY <1>5
<1>7. Sums(r, g)
  BY <1>2, <1>6 DEF Sums
<1>8. g[Len(r)] = n + e
  BY <1>2
<1> HIDE DEF g
<1> QED
  BY <1>2, <1>4, <1>7, <1>8 DEF SumsTo, r

\* The oldest packet leaves the queue: it is no larger than all of them.
LEMMA SumsTail ==
    ASSUME NEW q \in Seq(Nat), q # <<>>, NEW n, SumsTo(q, n)
    PROVE  /\ n \in Nat /\ Head(q) \in Nat /\ Head(q) <= n
           /\ Tail(q) \in Seq(Nat) /\ SumsTo(Tail(q), n - Head(q))
<1> DEFINE k == Len(q)
           r == Tail(q)
<1>1. PICK f : Sums(q, f) /\ f[k] = n
  BY DEF SumsTo
<1>2. /\ k \in Nat /\ k > 0 /\ r \in Seq(Nat) /\ Len(r) = k - 1
      /\ \A i \in 1 .. k - 1 : r[i] = q[i + 1]
      /\ Head(q) = q[1] /\ q[1] \in Nat
  BY HeadTailProperties, LenProperties, EmptySeq
<1>3. f \in [0 .. k -> Nat] /\ f[0] = 0 /\ \A i \in 1 .. k : f[i] = f[i - 1] + q[i]
  BY <1>1, SumsNat
<1> DEFINE g == [i \in 0 .. k - 1 |-> f[i + 1] - q[1]]
           h == [i \in 0 .. k - 1 |-> IF i = 0 THEN 0 ELSE g[i - 1] + r[i]]
<1> HIDE DEF k, r
<1>4. f[1] = q[1]
  BY <1>2, <1>3
<1>5. ASSUME NEW i \in 0 .. k - 1 PROVE g[i] = h[i]
  <2>1. CASE i = 0
    BY <2>1, <1>2, <1>4
  <2>2. CASE i # 0
    <3>1. i \in 1 .. k - 1 /\ i - 1 \in 0 .. k - 1 /\ i + 1 \in 1 .. k
          /\ i \in 0 .. k /\ (i + 1) - 1 = i /\ (i - 1) + 1 = i
      BY <2>2, <1>2
    <3>2. g[i] = f[i + 1] - q[1] /\ g[i - 1] = f[i] - q[1] /\ r[i] = q[i + 1]
      BY <3>1, <1>2
    <3>3. f[i + 1] = f[i] + q[i + 1]
      <4>1. f[i + 1] = f[(i + 1) - 1] + q[i + 1]
        BY <3>1, <1>3, Zenon
      <4> QED
        BY <4>1, <3>1
    <3>4. f[i] \in Nat /\ f[i + 1] \in Nat
      <4>1. i + 1 \in 0 .. k
        BY <3>1, <1>2
      <4>2. f \in [0 .. k -> Nat]
        BY <1>3
      <4> QED
        BY <3>1, <4>1, <4>2
    <3>5. q[i + 1] \in Nat
      BY <3>1, ElementOfSeq DEF k
    <3>6. h[i] = g[i - 1] + r[i]
      BY <2>2
    <3>7. g[i - 1] + r[i] = f[i] - q[1] + q[i + 1]
      BY <3>2
    <3> HIDE DEF g, h
    <3>8. f[i + 1] - q[1] = f[i] - q[1] + q[i + 1]
      <4> DEFINE a == f[i + 1]
                 b == f[i]
                 c == q[i + 1]
                 d == q[1]
      <4>1. a \in Nat /\ b \in Nat /\ c \in Nat /\ d \in Nat /\ a = b + c
        BY <1>2, <3>3, <3>4, <3>5
      <4> HIDE DEF a, b, c, d
      <4>2. a - d = b - d + c
        BY <4>1
      <4> QED
        BY <4>2 DEF a, b, c, d
    <3> QED
      BY <3>2, <3>6, <3>7, <3>8
  <2> QED
    BY <2>1, <2>2
<1>6. Sums(r, g)
  <2>1. g = h
    BY <1>5
  <2> QED
    BY <1>2, <2>1 DEF Sums
<1>7. g[Len(r)] = n - q[1]
  BY <1>1, <1>2
<1>8. n - q[1] \in Nat
  <2> HIDE DEF g
  <2>1. g \in [0 .. Len(r) -> Nat]
    BY <1>2, <1>6, SumsNat
  <2> QED
    BY <1>2, <1>7, <2>1
<1>9. n \in Nat
  BY <1>1, <1>2, <1>3
<1>10. q[1] <= n
  BY <1>2, <1>8, <1>9
<1> HIDE DEF g
<1> QED
  BY <1>2, <1>6, <1>7, <1>9, <1>10 DEF SumsTo, r

\* QueuedBytes is the sum of what is outstanding.
LEMMA QueuedSum ==
    ASSUME outstanding \in Seq(Nat), NEW n, SumsTo(outstanding, n)
    PROVE  QueuedBytes = n
<1> DEFINE g == CHOOSE f : Sums(outstanding, f)
<1>1. PICK f : Sums(outstanding, f) /\ f[Len(outstanding)] = n
  BY DEF SumsTo
<1>2. Sums(outstanding, g)
  BY <1>1
<1>3. g = f
  <2> HIDE DEF g
  <2> QED
    BY <1>1, <1>2, SumsUnique
<1>4. QueuedBytes = g[Len(outstanding)]
  BY DEF QueuedBytes, Sums
<1> QED
  BY <1>1, <1>3, <1>4

-----------------------------------------------------------------------------
(* The packet pool. *)

Pool == [capacity : Nat, in_use : Nat, high_water : Nat, allocations : Nat, failures : Nat]

\* The accounts of a pool p whose queue is q after n packets, d of them gone.
Balanced(p, q, d, n) ==
    /\ p \in Pool /\ q \in Seq(Nat) /\ d \in Nat /\ n \in Nat
    /\ SumsTo(q, p.in_use)
    /\ p.in_use <= p.high_water /\ p.high_water <= p.capacity
    /\ p.allocations = d + Len(q)
    /\ n = p.allocations + p.failures

TrafficInv ==
    /\ traffic \in {"idle", "running", "done", "failed"}
    /\ Balanced(pool, outstanding, dispatched, attempted)
    /\ traffic = "idle" => outstanding = <<>> /\ dispatched = 0
    /\ traffic \in {"idle", "failed"} => attempted = 0

\* An empty pool with an empty queue.
LEMMA NewBalanced ==
    ASSUME NEW capacity \in Nat
    PROVE  Balanced(NewPool(capacity), <<>>, 0, 0)
<1> DEFINE f == [i \in 0 .. 0 |-> 0]
<1>1. Sums(<<>>, f)
  <2>1. f = [i \in 0 .. Len(<<>>) |-> IF i = 0 THEN 0 ELSE f[i - 1] + <<>>[i]]
    OBVIOUS
  <2> QED
    BY <2>1 DEF Sums
<1>2. f[Len(<<>>)] = 0
  OBVIOUS
<1> HIDE DEF f
<1>3. SumsTo(<<>>, 0)
  BY <1>1, <1>2 DEF SumsTo
<1> QED
  BY <1>3 DEF Balanced, NewPool, Pool

\* The larger of two numbers.
LEMMA MaxOfTwo ==
    ASSUME NEW x \in Nat, NEW y \in Nat
    PROVE  Max({x, y}) \in Nat /\ x <= Max({x, y}) /\ y <= Max({x, y}) /\ Max({x, y}) \in {x, y}
<1>1. \E z \in {x, y} : \A w \in {x, y} : z >= w
  <2>1. CASE x >= y
    BY <2>1
  <2>2. CASE y >= x
    BY <2>2
  <2> QED
    BY <2>1, <2>2
<1>2. Max({x, y}) \in {x, y} /\ \A w \in {x, y} : Max({x, y}) >= w
  BY <1>1 DEF Max
<1> QED
  BY <1>2

\* Replacing counters of a pool.
LEMMA PoolFailed ==
    ASSUME NEW p \in Pool, NEW k \in Nat, NEW b, b = [p EXCEPT !.failures = k]
    PROVE  /\ b \in Pool
           /\ b.in_use = p.in_use /\ b.allocations = p.allocations
           /\ b.high_water = p.high_water /\ b.failures = k /\ b.capacity = p.capacity
BY DEF Pool

\* A packet that finds room.
LEMMA AllocatedFields ==
    ASSUME NEW p \in Pool, NEW bytes \in Nat, CanAllocate(p, bytes),
           p.in_use <= p.high_water, p.high_water <= p.capacity
    PROVE  LET a == Allocated(p, bytes)
           IN  /\ a \in Pool
               /\ a.in_use = p.in_use + bytes /\ a.allocations = p.allocations + 1
               /\ a.failures = p.failures
               /\ a.in_use <= a.high_water /\ a.high_water <= a.capacity
<1> DEFINE m == Max({p.high_water, p.in_use + bytes})
<1>1. /\ {p.in_use, p.high_water, p.capacity, p.allocations, p.failures} \subseteq Nat
      /\ p.in_use + bytes \in Nat /\ p.in_use + bytes <= p.capacity
  BY DEF Pool, CanAllocate
<1>2. m \in Nat /\ p.in_use + bytes <= m /\ m \in {p.high_water, p.in_use + bytes}
  BY <1>1, MaxOfTwo
<1>3. Allocated(p, bytes) = [p EXCEPT !.in_use = p.in_use + bytes,
                                      !.allocations = p.allocations + 1, !.high_water = m]
  BY DEF Allocated
<1> HIDE DEF m
<1> DEFINE a == [p EXCEPT !.in_use = p.in_use + bytes,
                          !.allocations = p.allocations + 1, !.high_water = m]
<1>4. /\ a \in Pool
      /\ a.in_use = p.in_use + bytes /\ a.allocations = p.allocations + 1
      /\ a.failures = p.failures /\ a.high_water = m /\ a.capacity = p.capacity
  <2>1. p.allocations + 1 \in Nat /\ p.in_use + bytes \in Nat /\ m \in Nat
    BY <1>1, <1>2
  <2> DEFINE u == p.in_use + bytes
             n == p.allocations + 1
  <2>2. a = [p EXCEPT !.in_use = u, !.allocations = n, !.high_water = m]
    OBVIOUS
  <2> HIDE DEF u, n, a
  <2>3. u \in Nat /\ n \in Nat
    BY <2>1 DEF u, n
  <2>4. /\ a \in Pool /\ a.in_use = u /\ a.allocations = n /\ a.high_water = m
        /\ a.failures = p.failures /\ a.capacity = p.capacity
    <3>1. m \in Nat
      BY <2>1
    <3> QED
      BY <2>2, <2>3, <3>1 DEF Pool
  <2> QED
    BY <2>4 DEF u, n
<1> HIDE DEF a
<1>5. a.in_use <= a.high_water /\ a.high_water <= a.capacity
  BY <1>1, <1>2, <1>4
<1>6. Allocated(p, bytes) = a
  BY <1>3 DEF a
<1> QED
  BY <1>4, <1>5, <1>6

\* A packet of those in the pool is released.
LEMMA ReleasedFields ==
    ASSUME NEW p \in Pool, NEW bytes \in Nat, bytes <= p.in_use,
           p.in_use <= p.high_water, p.high_water <= p.capacity
    PROVE  LET a == Released(p, bytes)
           IN  /\ a \in Pool
               /\ a.in_use = p.in_use - bytes /\ a.allocations = p.allocations
               /\ a.failures = p.failures
               /\ a.in_use <= a.high_water /\ a.high_water <= a.capacity
<1>1. Released(p, bytes) = [p EXCEPT !.in_use = p.in_use - bytes]
  BY DEF Released
<1>2. p.in_use - bytes \in Nat /\ p.in_use - bytes <= p.high_water
  BY DEF Pool
<1> QED
  BY <1>1, <1>2 DEF Pool

\* A packet joins the queue.
LEMMA JoinBalanced ==
    ASSUME NEW p, NEW q, NEW d, NEW n, Balanced(p, q, d, n),
           NEW bytes \in Nat, CanAllocate(p, bytes)
    PROVE  Balanced(Allocated(p, bytes), Append(q, bytes), d, n + 1)
<1> DEFINE a == Allocated(p, bytes)
<1>1. /\ p \in Pool /\ q \in Seq(Nat) /\ d \in Nat /\ n \in Nat /\ SumsTo(q, p.in_use)
      /\ p.in_use <= p.high_water /\ p.high_water <= p.capacity
      /\ p.allocations = d + Len(q) /\ n = p.allocations + p.failures
  BY DEF Balanced
<1>2. /\ a \in Pool /\ a.in_use = p.in_use + bytes /\ a.allocations = p.allocations + 1
      /\ a.failures = p.failures /\ a.in_use <= a.high_water /\ a.high_water <= a.capacity
  BY <1>1, AllocatedFields
<1>3. Append(q, bytes) \in Seq(Nat) /\ SumsTo(Append(q, bytes), p.in_use + bytes)
  BY <1>1, SumsAppend
<1>4. Len(Append(q, bytes)) = Len(q) + 1 /\ Len(q) \in Nat
  BY <1>1, AppendProperties, LenProperties
<1>5. p.allocations \in Nat /\ p.failures \in Nat
  BY <1>1 DEF Pool
<1> HIDE DEF a
<1>6. a.allocations = d + Len(Append(q, bytes)) /\ n + 1 = a.allocations + a.failures
  BY <1>1, <1>2, <1>4, <1>5
<1>7. Balanced(a, Append(q, bytes), d, n + 1)
  BY <1>1, <1>2, <1>3, <1>6 DEF Balanced
<1> QED
  BY <1>7 DEF a

\* The oldest packet leaves the queue and the pool: there is no underflow.
LEMMA OldestBalanced ==
    ASSUME NEW p, NEW q, NEW d, NEW n, Balanced(p, q, d, n), q # <<>>
    PROVE  /\ Head(q) <= p.in_use
           /\ Balanced(Released(p, Head(q)), Tail(q), d + 1, n)
<1> DEFINE a == Released(p, Head(q))
<1>1. /\ p \in Pool /\ q \in Seq(Nat) /\ d \in Nat /\ n \in Nat /\ SumsTo(q, p.in_use)
      /\ p.in_use <= p.high_water /\ p.high_water <= p.capacity
      /\ p.allocations = d + Len(q) /\ n = p.allocations + p.failures
  BY DEF Balanced
<1>2. /\ Head(q) \in Nat /\ Head(q) <= p.in_use /\ Tail(q) \in Seq(Nat)
      /\ SumsTo(Tail(q), p.in_use - Head(q))
  BY <1>1, SumsTail
<1>3. /\ a \in Pool /\ a.in_use = p.in_use - Head(q) /\ a.allocations = p.allocations
      /\ a.failures = p.failures /\ a.in_use <= a.high_water /\ a.high_water <= a.capacity
  BY <1>1, <1>2, ReleasedFields
<1>4. Len(Tail(q)) = Len(q) - 1 /\ Len(q) \in Nat
  BY <1>1, HeadTailProperties, LenProperties
<1>5. p.allocations \in Nat
  BY <1>1 DEF Pool
<1> HIDE DEF a
<1>6. a.allocations = (d + 1) + Len(Tail(q)) /\ n = a.allocations + a.failures
  BY <1>1, <1>3, <1>4, <1>5
<1>7. Balanced(a, Tail(q), d + 1, n)
  BY <1>1, <1>2, <1>3, <1>6 DEF Balanced
<1> QED
  BY <1>2, <1>7 DEF a

\* A packet that finds room leaves at once.
LEMMA PassBalanced ==
    ASSUME NEW p, NEW q, NEW d, NEW n, Balanced(p, q, d, n),
           NEW bytes \in Nat, CanAllocate(p, bytes)
    PROVE  /\ bytes <= Allocated(p, bytes).in_use
           /\ Balanced(Released(Allocated(p, bytes), bytes), q, d + 1, n + 1)
<1> DEFINE a == Allocated(p, bytes)
           b == Released(a, bytes)
<1>1. /\ p \in Pool /\ q \in Seq(Nat) /\ d \in Nat /\ n \in Nat /\ SumsTo(q, p.in_use)
      /\ p.in_use <= p.high_water /\ p.high_water <= p.capacity
      /\ p.allocations = d + Len(q) /\ n = p.allocations + p.failures
  BY DEF Balanced
<1>2. /\ a \in Pool /\ a.in_use = p.in_use + bytes /\ a.allocations = p.allocations + 1
      /\ a.failures = p.failures /\ a.in_use <= a.high_water /\ a.high_water <= a.capacity
  BY <1>1, AllocatedFields
<1>3. p.in_use \in Nat /\ p.allocations \in Nat /\ p.failures \in Nat /\ Len(q) \in Nat
  BY <1>1, LenProperties DEF Pool
<1> HIDE DEF a
<1>4. bytes <= a.in_use
  BY <1>2, <1>3
<1>5. /\ b \in Pool /\ b.in_use = a.in_use - bytes /\ b.allocations = a.allocations
      /\ b.failures = a.failures /\ b.in_use <= b.high_water /\ b.high_water <= b.capacity
  BY <1>2, <1>4, ReleasedFields
<1> HIDE DEF b
<1>6. b.in_use = p.in_use /\ b.allocations = (d + 1) + Len(q) /\ n + 1 = b.allocations + b.failures
  BY <1>1, <1>2, <1>3, <1>5
<1>7. Balanced(b, q, d + 1, n + 1)
  BY <1>1, <1>5, <1>6 DEF Balanced
<1> QED
  BY <1>4, <1>7 DEF a, b

\* A packet that finds no room is counted.
LEMMA DropBalanced ==
    ASSUME NEW p, NEW q, NEW d, NEW n, Balanced(p, q, d, n)
    PROVE  Balanced([p EXCEPT !.failures = @ + 1], q, d, n + 1)
<1> DEFINE b == [p EXCEPT !.failures = @ + 1]
<1>1. /\ p \in Pool /\ q \in Seq(Nat) /\ d \in Nat /\ n \in Nat /\ SumsTo(q, p.in_use)
      /\ p.in_use <= p.high_water /\ p.high_water <= p.capacity
      /\ p.allocations = d + Len(q) /\ n = p.allocations + p.failures
  BY DEF Balanced
<1>2. p.allocations \in Nat /\ p.failures \in Nat /\ p.in_use \in Nat /\ p.high_water \in Nat
      /\ p.failures + 1 \in Nat
  BY <1>1 DEF Pool
<1>3. b = [p EXCEPT !.failures = p.failures + 1]
  OBVIOUS
<1> HIDE DEF b
<1>4. /\ b \in Pool /\ b.in_use = p.in_use /\ b.allocations = p.allocations
      /\ b.failures = p.failures + 1 /\ b.high_water = p.high_water /\ b.capacity = p.capacity
  BY <1>1, <1>2, <1>3, PoolFailed
<1>5. n + 1 = b.allocations + b.failures
  BY <1>1, <1>2, <1>4
<1>6. Balanced(b, q, d, n + 1)
  BY <1>1, <1>4, <1>5 DEF Balanced
<1> QED
  BY <1>6 DEF b

\* One packet is generated.
LEMMA GenerateBalanced ==
    ASSUME TrafficInv, NEW config, config.max_payload \in Nat, Generate(config)
    PROVE  Balanced(pool', outstanding', dispatched', attempted') /\ traffic' = "running"
<1>1. /\ traffic = "running" /\ attempted' = attempted + 1
      /\ Balanced(pool, outstanding, dispatched, attempted)
  BY DEF TrafficInv, Generate
<1>2. PICK payload \in 0 .. config.max_payload - 1 :
          LET bytes == Header + payload
          IN  \/ DispatchNow(config, bytes) \/ Enqueue(config, bytes)
              \/ EnqueueAndDispatch(config, bytes) \/ Drop(bytes)
  BY DEF Generate
<1> DEFINE bytes == Header + payload
<1>3. bytes \in Nat
  BY HeaderAssumption
<1> HIDE DEF bytes
<1>4. CASE DispatchNow(config, bytes)
  <2>1. CanAllocate(pool, bytes) /\ UNCHANGED outstanding
        /\ ReleaseInto(Allocated(pool, bytes), bytes)
    BY <1>4 DEF DispatchNow
  <2>2. /\ bytes <= Allocated(pool, bytes).in_use
        /\ Balanced(Released(Allocated(pool, bytes), bytes), outstanding, dispatched + 1, attempted + 1)
    BY <1>1, <1>3, <2>1, PassBalanced
  <2>3. pool' = Released(Allocated(pool, bytes), bytes) /\ dispatched' = dispatched + 1
        /\ UNCHANGED traffic
    BY <2>1, <2>2 DEF ReleaseInto
  <2> QED
    BY <1>1, <2>1, <2>2, <2>3
<1>5. CASE Enqueue(config, bytes)
  <2>1. CanAllocate(pool, bytes) /\ pool' = Allocated(pool, bytes)
        /\ outstanding' = Append(outstanding, bytes) /\ UNCHANGED <<dispatched, traffic>>
    BY <1>5 DEF Enqueue
  <2> QED
    BY <1>1, <1>3, <2>1, JoinBalanced
<1>6. CASE EnqueueAndDispatch(config, bytes)
  <2> DEFINE a == Allocated(pool, bytes)
             q == Append(outstanding, bytes)
  <2>1. CanAllocate(pool, bytes) /\ outstanding' = Tail(q) /\ ReleaseInto(a, Head(q))
    BY <1>6 DEF EnqueueAndDispatch
  <2>2. Balanced(a, q, dispatched, attempted + 1)
    BY <1>1, <1>3, <2>1, JoinBalanced
  <2>3. q # <<>>
    BY <1>1, <1>3, AppendProperties DEF Balanced
  <2> HIDE DEF a, q
  <2>4. Head(q) <= a.in_use /\ Balanced(Released(a, Head(q)), Tail(q), dispatched + 1, attempted + 1)
    BY <2>2, <2>3, OldestBalanced
  <2>5. pool' = Released(a, Head(q)) /\ dispatched' = dispatched + 1 /\ UNCHANGED traffic
    BY <2>1, <2>4 DEF ReleaseInto
  <2> QED
    BY <1>1, <2>1, <2>4, <2>5
<1>7. CASE Drop(bytes)
  <2> DEFINE full == [pool EXCEPT !.failures = @ + 1]
  <2>1. Balanced(full, outstanding, dispatched, attempted + 1)
    BY <1>1, DropBalanced
  <2>2. \/ outstanding = <<>> /\ pool' = full /\ UNCHANGED <<outstanding, dispatched, traffic>>
        \/ /\ outstanding # <<>> /\ outstanding' = Tail(outstanding)
           /\ ReleaseInto(full, Head(outstanding))
    BY <1>7 DEF Drop
  <2> HIDE DEF full
  <2>3. CASE outstanding = <<>>
    BY <1>1, <2>1, <2>2, <2>3
  <2>4. CASE outstanding # <<>>
    <3>1. /\ Head(outstanding) <= full.in_use
          /\ Balanced(Released(full, Head(outstanding)), Tail(outstanding), dispatched + 1,
                      attempted + 1)
      BY <2>1, <2>4, OldestBalanced
    <3>2. /\ pool' = Released(full, Head(outstanding)) /\ dispatched' = dispatched + 1
          /\ UNCHANGED traffic /\ outstanding' = Tail(outstanding)
      BY <2>2, <2>4, <3>1 DEF ReleaseInto
    <3> QED
      BY <1>1, <3>1, <3>2
  <2> QED
    BY <2>3, <2>4
<1> QED
  BY <1>2, <1>4, <1>5, <1>6, <1>7 DEF bytes

\* Every step of the traffic.
LEMMA TrafficKept ==
    ASSUME TrafficInv, NEW config, config.max_payload \in Nat, NEW capacity \in Nat,
           TrafficBegin(config, capacity) \/ TrafficStep(config)
    PROVE  TrafficInv'
<1>1. CASE TrafficBegin(config, capacity)
  <2>1. /\ pool' = NewPool(capacity) /\ UNCHANGED <<outstanding, dispatched, attempted>>
        /\ traffic' \in {"running", "failed"} /\ traffic = "idle"
    BY <1>1 DEF TrafficBegin
  <2>2. outstanding = <<>> /\ dispatched = 0 /\ attempted = 0
    BY <2>1 DEF TrafficInv
  <2>3. Balanced(pool', outstanding', dispatched', attempted')
    BY <2>1, <2>2, NewBalanced
  <2> QED
    BY <2>1, <2>2, <2>3 DEF TrafficInv
<1>2. CASE Generate(config)
  BY <1>2, GenerateBalanced DEF TrafficInv
<1>3. CASE DrainOne(config)
  <2>1. /\ traffic = "running" /\ outstanding # <<>> /\ outstanding' = Tail(outstanding)
        /\ ReleaseInto(pool, Head(outstanding)) /\ UNCHANGED attempted
        /\ Balanced(pool, outstanding, dispatched, attempted)
    BY <1>3 DEF DrainOne, TrafficInv
  <2>2. /\ Head(outstanding) <= pool.in_use
        /\ Balanced(Released(pool, Head(outstanding)), Tail(outstanding), dispatched + 1, attempted)
    BY <2>1, OldestBalanced
  <2>3. pool' = Released(pool, Head(outstanding)) /\ dispatched' = dispatched + 1
        /\ UNCHANGED traffic
    BY <2>1, <2>2 DEF ReleaseInto
  <2> QED
    BY <2>1, <2>2, <2>3 DEF TrafficInv
<1>4. CASE TrafficEnd(config)
  <2>1. /\ outstanding = <<>> /\ UNCHANGED <<pool, outstanding, attempted, dispatched>>
        /\ traffic' = IF pool.in_use = 0 THEN "done" ELSE "failed"
    BY <1>4 DEF TrafficEnd
  <2>2. pool.in_use = 0
    <3>1. PICK f : Sums(<<>>, f) /\ f[Len(<<>>)] = pool.in_use
      BY <2>1 DEF TrafficInv, Balanced, SumsTo
    <3>2. f[0] = 0
      <4>1. <<>> \in Seq(Nat)
        OBVIOUS
      <4> QED
        BY <3>1, <4>1, SumsNat
    <3> QED
      BY <3>1, <3>2
  <2> QED
    BY <2>1, <2>2 DEF TrafficInv
<1> QED
  BY <1>1, <1>2, <1>3, <1>4 DEF TrafficStep

-----------------------------------------------------------------------------
(* The traffic of a run. *)

\* The layout keeps what serde read, and the traffic its accounts.
PoolInv ==
    /\ {"traffic", "memory", "mcu", "devices"} \subseteq DOMAIN layout
    /\ {"sedsnet_pool", "ram_regions"} \subseteq DOMAIN layout.memory
    /\ layout.traffic.max_payload \in Nat /\ layout.memory.sedsnet_pool \in Nat
    /\ TrafficInv

\* Every step of a run.
LEMMA PoolStep == ASSUME PoolInv, Next PROVE PoolInv'
<1>1. CASE Load
  <2>1. UNCHANGED trafficVars /\ layout' \in {layout, Normalized(layout)}
    BY <1>1 DEF Load
  <2>2. /\ DOMAIN Normalized(layout) = DOMAIN layout
        /\ Normalized(layout).traffic = layout.traffic
        /\ DOMAIN Normalized(layout).memory = DOMAIN layout.memory
        /\ Normalized(layout).memory.sedsnet_pool = layout.memory.sedsnet_pool
    BY DEF Normalized, PoolInv
  <2>3. TrafficInv'
    BY <2>1 DEF PoolInv, TrafficInv, trafficVars
  <2> QED
    BY <2>1, <2>2, <2>3 DEF PoolInv
<1>2. CASE TrafficPhase
  <2>1. /\ UNCHANGED layout
        /\ \/ TrafficBegin(layout.traffic, layout.memory.sedsnet_pool)
           \/ TrafficStep(layout.traffic)
    BY <1>2 DEF TrafficPhase, Within, OthersStay, updateVars
  <2>2. TrafficInv'
    BY <2>1, TrafficKept DEF PoolInv
  <2> QED
    BY <2>1, <2>2 DEF PoolInv
<1>3. CASE UNCHANGED <<layout, trafficVars>>
  BY <1>3 DEF PoolInv, TrafficInv, trafficVars
<1>4. CASE Validate \/ Leave \/ Report \/ Devices \/ ExecutionPhase \/ Prepare
  <2>1. UNCHANGED <<layout, trafficVars>>
    BY <1>4 DEF Validate, Leave, Report, Devices, ExecutionPhase, Prepare, Within, OthersStay,
                updateVars
  <2> QED
    BY <2>1, <1>3
<1>5. CASE UpdatePhase
  <2>1. UNCHANGED trafficVars /\ UpdateNext
    BY <1>5 DEF UpdatePhase, Within, OthersStay
  <2>2. UNCHANGED layout
    BY <2>1 DEF UpdateNext, UpdateBegin, UpdateErase, UpdateProgram, UpdateRefused, UpdateEnd
  <2> QED
    BY <2>1, <2>2, <1>3
<1> QED
  BY <1>1, <1>2, <1>4, <1>5 DEF Next

\* In every run the pool holds exactly the bytes of the queued packets, each packet
\* is counted once, and no accepted configuration can underflow the pool or leak
\* from it (traffic.rs, pool.rs).
THEOREM PoolHolds == Spec => []PoolConserved
<1>1. Init => PoolInv
  <2> SUFFICES ASSUME Init PROVE PoolInv
    OBVIOUS
  <2>1. layout \in Boards /\ TrafficIdle
    BY DEF Init
  <2>2. Balanced(pool, outstanding, dispatched, attempted)
    <3>1. 0 \in Nat
      OBVIOUS
    <3> QED
      BY <2>1, <3>1, NewBalanced DEF TrafficIdle
  <2>3. TrafficInv
    BY <2>1, <2>2 DEF TrafficIdle, TrafficInv
  <2>4. WellTyped(layout)
    BY <2>1, BoardsAssumption
  <2> QED
    BY <2>1, <2>3, <2>4, TrafficAssumption DEF PoolInv, WellTyped
<1>2. PoolInv /\ [Next]_vars => PoolInv'
  <2>1. ASSUME PoolInv, UNCHANGED vars PROVE PoolInv'
    BY <2>1 DEF PoolInv, TrafficInv, vars, updateVars, trafficVars
  <2> QED
    BY <2>1, PoolStep
<1>3. PoolInv => PoolConserved
  <2> SUFFICES ASSUME PoolInv PROVE PoolConserved
    OBVIOUS
  <2>1. TrafficInv
    BY DEF PoolInv
  <2>2. QueuedBytes = pool.in_use
    BY <2>1, QueuedSum DEF TrafficInv, Balanced
  <2> QED
    BY <2>1, <2>2 DEF PoolConserved, TrafficInv, Balanced
<1> QED
  BY <1>1, <1>2, <1>3, PTL DEF Spec

-----------------------------------------------------------------------------
(* The direct execution: what one process shows.                              *)
(*                                                                           *)
(* Nothing that is printed is lost or comes out of its order on its way         *)
(* through a pipe, the channel and the transcript: what the runner has, what is  *)
(* on its way to it and what the script still prints are together what the      *)
(* whole script prints.                                                       *)

Shown(s) == FlattenSeq([i \in 1 .. Len(s) |-> Printed(s[i])])
Transcript(n) == Shown(RenderScript(n))

\* A list of commands, each of which prints a list of lines.
Commands(s) == List(s) /\ \A i \in 1 .. Len(s) : List(Printed(s[i]))

Prints(s) == [i \in 1 .. Len(s) |-> Printed(s[i])]

\* The lists a list of commands prints.
LEMMA PrintsLists ==
    ASSUME NEW s, Commands(s)
    PROVE  /\ ListOfLists(Prints(s)) /\ Len(Prints(s)) = Len(s)
           /\ \A i \in 1 .. Len(s) : Prints(s)[i] = Printed(s[i])
<1> DEFINE ss == Prints(s)
<1>1. Len(s) \in Nat
  BY ListFacts DEF Commands
<1>2. DOMAIN ss = 1 .. Len(s) /\ ss = [i \in 1 .. Len(s) |-> ss[i]]
      /\ \A i \in 1 .. Len(s) : ss[i] = Printed(s[i])
  BY DEF Prints
<1> HIDE DEF ss
<1>3. List(ss) /\ Len(ss) = Len(s)
  BY <1>1, <1>2, FunIsList
<1>4. ListOfLists(ss)
  BY <1>2, <1>3 DEF ListOfLists, Commands
<1> QED
  BY <1>2, <1>3, <1>4 DEF ss

\* What is shown is those lists end to end.
LEMMA ShownPrints == \A s : Shown(s) = FlattenSeq(Prints(s))
BY DEF Shown, Prints

\* The lines of a script are those of its commands.
LEMMA ShownElements ==
    ASSUME NEW s, Commands(s)
    PROVE  /\ List(Shown(s))
           /\ \A l : l \in Elements(Shown(s)) <=> \E c \in Elements(s) : l \in Elements(Printed(c))
<1>1. /\ ListOfLists(Prints(s)) /\ Len(Prints(s)) = Len(s)
      /\ \A i \in 1 .. Len(s) : Prints(s)[i] = Printed(s[i])
  BY PrintsLists
<1>2. /\ List(FlattenSeq(Prints(s)))
      /\ \A l : l \in Elements(FlattenSeq(Prints(s))) <=>
                    \E a \in 1 .. Len(Prints(s)) : l \in Elements(Prints(s)[a])
  BY <1>1, ElementsFlatten DEF ListOfLists
<1>3. Elements(s) = {s[i] : i \in 1 .. Len(s)}
  BY ElementsAre DEF Commands
<1> QED
  BY <1>1, <1>2, <1>3, ShownPrints

\* Of two scripts in a row.
LEMMA ShownJoined ==
    ASSUME NEW s, NEW t, Commands(s), Commands(t)
    PROVE  Commands(s \o t) /\ Shown(s \o t) = Shown(s) \o Shown(t)
<1> DEFINE r == s \o t
<1>0. r = s \o t
  OBVIOUS
<1> HIDE DEF r
<1>1. List(s) /\ List(t)
  BY DEF Commands
<1>a. IsConcat(r, s, t)
  BY ONLY <1>0, <1>1, ListJoined, Zenon
<1>2. /\ List(r) /\ Len(r) = Len(s) + Len(t)
      /\ \A i \in 1 .. Len(s) : r[i] = s[i]
      /\ \A i \in 1 .. Len(t) : r[Len(s) + i] = t[i]
  BY <1>a DEF IsConcat
<1>3. Len(s) \in Nat /\ Len(t) \in Nat
  BY <1>1, ListFacts
<1>4. Commands(r)
  <2> SUFFICES ASSUME NEW i \in 1 .. Len(r) PROVE List(Printed(r[i]))
    BY <1>2 DEF Commands
  <2>1. CASE i \in 1 .. Len(s)
    BY <2>1, <1>2 DEF Commands
  <2>2. CASE i \notin 1 .. Len(s)
    <3>1. i - Len(s) \in 1 .. Len(t) /\ Len(s) + (i - Len(s)) = i
      BY <2>2, <1>2, <1>3
    <3>2. r[i] = t[i - Len(s)]
      BY <3>1, <1>2
    <3> QED
      BY <3>1, <3>2 DEF Commands
  <2> QED
    BY <2>1, <2>2
<1> DEFINE ps == Prints(s)
           pt == Prints(t)
           pr == Prints(r)
<1>5. /\ ListOfLists(ps) /\ Len(ps) = Len(s) /\ \A i \in 1 .. Len(s) : ps[i] = Printed(s[i])
      /\ ListOfLists(pt) /\ Len(pt) = Len(t) /\ \A i \in 1 .. Len(t) : pt[i] = Printed(t[i])
      /\ ListOfLists(pr) /\ Len(pr) = Len(r) /\ \A i \in 1 .. Len(r) : pr[i] = Printed(r[i])
  BY <1>4, PrintsLists
<1> DEFINE w == ps \o pt
<1> HIDE DEF ps, pt, pr
<1>6. w = ps \o pt
  OBVIOUS
<1> HIDE DEF w
<1>7. List(ps) /\ List(pt) /\ List(pr)
  BY <1>5 DEF ListOfLists
<1>b. IsConcat(w, ps, pt)
  BY ONLY <1>6, <1>7, ListJoined, Zenon
<1>8. /\ List(w) /\ Len(w) = Len(ps) + Len(pt)
      /\ \A i \in 1 .. Len(ps) : w[i] = ps[i]
      /\ \A i \in 1 .. Len(pt) : w[Len(ps) + i] = pt[i]
  BY <1>b DEF IsConcat
<1>9. \A i \in 1 .. Len(pr) : pr[i] = w[i]
  <2> TAKE i \in 1 .. Len(pr)
  <2>1. CASE i \in 1 .. Len(s)
    BY <2>1, <1>2, <1>5, <1>8
  <2>2. CASE i \notin 1 .. Len(s)
    <3>1. i - Len(s) \in 1 .. Len(t) /\ Len(s) + (i - Len(s)) = i
      BY <2>2, <1>2, <1>3, <1>5
    <3>2. r[i] = t[i - Len(s)] /\ w[i] = pt[i - Len(s)]
      BY <3>1, <1>2, <1>5, <1>8
    <3>3. pr[i] = Printed(r[i]) /\ pt[i - Len(s)] = Printed(t[i - Len(s)])
      BY <3>1, <1>5
    <3> QED
      BY ONLY <3>2, <3>3, Zenon
  <2> QED
    BY <2>1, <2>2
<1>10. pr = w
  BY <1>2, <1>5, <1>7, <1>8, <1>9, ListEqual
<1>11. FlattenSeq(ps \o pt) = FlattenSeq(ps) \o FlattenSeq(pt)
  BY <1>5, FlattenJoined
<1>12. FlattenSeq(pr) = FlattenSeq(ps) \o FlattenSeq(pt)
  BY ONLY <1>6, <1>10, <1>11
<1>13. Shown(r) = FlattenSeq(pr) /\ Shown(s) = FlattenSeq(ps) /\ Shown(t) = FlattenSeq(pt)
  BY ShownPrints DEF pr, ps, pt
<1>14. Shown(r) = Shown(s) \o Shown(t)
  BY ONLY <1>12, <1>13, Zenon
<1> QED
  BY <1>4, <1>14 DEF r

\* Of no command and of one.
LEMMA ShownNone == Commands(<<>>) /\ Shown(<<>>) = <<>>
<1>1. Commands(<<>>)
  BY EmptyList DEF Commands
<1>2. List(Prints(<<>>)) /\ Len(Prints(<<>>)) = 0
  BY <1>1, PrintsLists, EmptyList DEF ListOfLists
<1>3. Prints(<<>>) = <<>>
  BY <1>2, EmptyList, ListEqual
<1> QED
  BY <1>1, <1>3, ShownPrints, FlattenNone

\* One command shows what it prints.
LEMMA ShownOne ==
    ASSUME NEW c, List(Printed(c))
    PROVE  Commands(<<c>>) /\ Shown(<<c>>) = Printed(c)
<1> DEFINE e == <<c>>
           x == Printed(c)
           w == <<x>>
<1>1. List(e) /\ Len(e) = 1 /\ e[1] = c /\ List(w) /\ Len(w) = 1 /\ w[1] = x
  BY SingleList
<1> HIDE DEF e, w
<1>2. Commands(e)
  BY <1>1 DEF Commands
<1>3. ListOfLists(Prints(e)) /\ Len(Prints(e)) = 1 /\ Prints(e)[1] = x
  BY <1>1, <1>2, PrintsLists
<1>4. Prints(e) = w
  BY <1>1, <1>3, ListEqual DEF ListOfLists
<1>5. FlattenSeq(w) = x
  BY FlattenOne DEF w
<1>6. Shown(e) = x
  BY ONLY <1>4, <1>5, ShownPrints, Zenon
<1> QED
  BY <1>2, <1>6 DEF e

-----------------------------------------------------------------------------
(* The way of a line. *)

\* Of what has arrived, what is in the channel and in the pipe, and the script.
Whole(arrived, sent, written, left) == arrived \o (sent \o (written \o Shown(left)))

\* The head of b goes behind a.
Moved(a, b, c) == Append(a, Head(b)) \o (Tail(b) \o c) = a \o (b \o c)

\* To move the head of a list to the end of the one before it changes neither their
\* concatenation nor what they hold together.
LEMMA HeadMoves ==
    ASSUME NEW a, NEW b, NEW c, List(a), List(b), List(c), b # <<>>
    PROVE  /\ Moved(a, b, c)
           /\ List(Append(a, Head(b))) /\ List(Tail(b)) /\ Head(b) \in Elements(b)
           /\ Elements(Append(a, Head(b))) = Elements(a) \cup {Head(b)}
           /\ Elements(b) = {Head(b)} \cup Elements(Tail(b))
<1> DEFINE h == Head(b)
           t == Tail(b)
           e == <<h>>
           aa == Append(a, h)
<1>1. List(t) /\ b = e \o t /\ h \in Elements(b)
  BY ListHead
<1>2. aa = a \o e /\ List(aa) /\ Elements(aa) = Elements(a) \cup {h}
  BY ListAppend
<1>3. List(e) /\ Elements(e) = {h}
  BY SingleList, ElementsFew
<1> HIDE DEF t, e, aa
<1>4. Elements(b) = Elements(e) \cup Elements(t)
  BY <1>1, <1>3, ElementsConcat
<1>5. List(t \o c)
  BY <1>1, ListConcat
<1>6. (a \o e) \o (t \o c) = a \o (e \o (t \o c))
  <2> DEFINE tc == t \o c
  <2>1. List(a) /\ List(e) /\ List(tc)
    BY <1>3, <1>5
  <2> HIDE DEF tc
  <2>2. (a \o e) \o tc = a \o (e \o tc)
    BY ONLY <2>1, ListAssociative
  <2> QED
    BY <2>2 DEF tc
<1>7. (e \o t) \o c = e \o (t \o c)
  <2>1. List(e) /\ List(t) /\ List(c)
    BY <1>1, <1>3
  <2> QED
    BY ONLY <2>1, ListAssociative
<1>8. aa \o (t \o c) = a \o (b \o c)
  BY ONLY <1>1, <1>2, <1>6, <1>7
<1>9. Moved(a, b, c)
  BY <1>8 DEF Moved, t, aa
<1> QED
  BY <1>1, <1>2, <1>3, <1>4, <1>9 DEF t, aa

\* The same, to be cited without its context.
LEMMA MovesHead == \A a, b, c : List(a) /\ List(b) /\ List(c) /\ b # <<>> => Moved(a, b, c)
BY HeadMoves

\* A command prints.
LEMMA CommandMoves ==
    ASSUME NEW a, NEW b, NEW w, NEW s, List(a), List(b), List(w), Commands(s), s # <<>>
    PROVE  /\ Commands(Tail(s)) /\ List(w \o Printed(Head(s))) /\ Head(s) \in Elements(s)
           /\ List(Printed(Head(s)))
           /\ Whole(a, b, w \o Printed(Head(s)), Tail(s)) = Whole(a, b, w, s)
<1> DEFINE h == Head(s)
           t == Tail(s)
           e == <<h>>
           x == Printed(h)
           y == Shown(t)
<1>1. /\ List(s) /\ List(t) /\ s = e \o t /\ h \in Elements(s) /\ h = s[1] /\ 1 \in 1 .. Len(s)
  BY ListHead DEF Commands
<1>2. List(x)
  BY <1>1 DEF Commands
<1>3. Commands(t)
  <2>1. List(e) /\ Len(e) = 1
    BY SingleList
  <2> HIDE DEF e, t
  <2>2. IsConcat(s, e, t)
    BY ONLY <1>1, <2>1, ListJoined, Zenon
  <2>3. /\ Len(s) = 1 + Len(t) /\ Len(t) \in Nat
        /\ \A i \in 1 .. Len(t) : s[1 + i] = t[i]
    BY <1>1, <2>1, <2>2, ListFacts DEF IsConcat
  <2>4. \A i \in 1 .. Len(t) : 1 + i \in 1 .. Len(s)
    BY <2>3
  <2> QED
    BY <1>1, <2>3, <2>4 DEF Commands
<1>4. Commands(e) /\ Shown(e) = x
  BY <1>2, ShownOne
<1> HIDE DEF e, t, h
<1>5. Shown(s) = x \o y /\ List(y)
  <2>1. Shown(e \o t) = Shown(e) \o Shown(t)
    BY <1>3, <1>4, ShownJoined
  <2>2. List(Shown(t))
    BY <1>3, ShownElements
  <2> QED
    BY <1>1, <1>4, <2>1, <2>2
<1> HIDE DEF x, y
<1>6. (w \o x) \o y = w \o (x \o y)
  BY <1>2, <1>5, ListAssociative
<1>7. List(w \o x)
  BY <1>2, ListConcat
<1>8. Whole(a, b, w \o x, t) = Whole(a, b, w, s)
  <2>1. Whole(a, b, w \o x, t) = a \o (b \o ((w \o x) \o y))
    BY DEF Whole, y
  <2>2. Whole(a, b, w, s) = a \o (b \o (w \o (x \o y)))
    BY <1>5 DEF Whole
  <2> QED
    BY ONLY <2>1, <2>2, <1>6
<1> QED
  BY <1>1, <1>2, <1>3, <1>7, <1>8 DEF h, t, x

\* A reader forwards a line.
LEMMA ForwardMoves ==
    ASSUME NEW a, NEW b, NEW w, NEW s, List(a), List(b), List(w), Commands(s), w # <<>>
    PROVE  Whole(a, Append(b, Head(w)), Tail(w), s) = Whole(a, b, w, s)
<1> DEFINE z == Shown(s)
<1>1. List(z) /\ List(b) /\ List(w) /\ w # <<>>
  BY ShownElements
<1> HIDE DEF z
<1>2. Append(b, Head(w)) \o (Tail(w) \o z) = b \o (w \o z)
  <2>1. Moved(b, w, z)
    BY ONLY <1>1, MovesHead, Zenon
  <2> QED
    BY ONLY <2>1, Zenon DEF Moved
<1> QED
  BY <1>2 DEF Whole, z

\* The runner receives a line.
LEMMA ReceiveMoves ==
    ASSUME NEW a, NEW b, NEW w, NEW s, List(a), List(b), List(w), Commands(s), b # <<>>
    PROVE  Whole(Append(a, Head(b)), Tail(b), w, s) = Whole(a, b, w, s)
<1> DEFINE z == w \o Shown(s)
<1>1. List(z) /\ List(a) /\ List(b) /\ b # <<>>
  BY ShownElements, ListConcat
<1> HIDE DEF z
<1>2. Append(a, Head(b)) \o (Tail(b) \o z) = a \o (b \o z)
  <2>1. Moved(a, b, z)
    BY ONLY <1>1, MovesHead, Zenon
  <2> QED
    BY ONLY <2>1, Zenon DEF Moved
<1> QED
  BY <1>2 DEF Whole, z

\* The runner takes what is left in the channel.
LEMMA JoinMoves ==
    ASSUME NEW a, NEW b, NEW w, NEW s, List(a), List(b), List(w), Commands(s)
    PROVE  Whole(a \o b, <<>>, w, s) = Whole(a, b, w, s)
<1> DEFINE z == w \o Shown(s)
<1>1. List(z)
  BY ShownElements, ListConcat
<1> HIDE DEF z
<1>2. (a \o b) \o z = a \o (b \o z) /\ <<>> \o z = z
  BY <1>1, ListAssociative, ListNeutral
<1>3. (a \o b) \o (<<>> \o z) = a \o (b \o z)
  BY ONLY <1>2
<1> QED
  BY <1>3 DEF Whole, z

-----------------------------------------------------------------------------
(* What the commands print.                                                   *)

\* A list of two.
LEMMA PairList ==
    ASSUME NEW c, NEW d
    PROVE  <<c, d>> = <<c>> \o <<d>> /\ List(<<c, d>>) /\ Elements(<<c, d>>) = {c, d}
<1> DEFINE g == <<c, d>>
           e == <<c>>
           f == <<d>>
           w == e \o f
<1>1. g \in Seq({c, d}) /\ Len(g) = 2 /\ g[1] = c /\ g[2] = d
  OBVIOUS
<1>2. List(e) /\ Len(e) = 1 /\ e[1] = c /\ List(f) /\ Len(f) = 1 /\ f[1] = d
  BY SingleList
<1>3. Elements(e) = {c} /\ Elements(f) = {d}
  BY ElementsFew
<1>4. w = e \o f
  OBVIOUS
<1> HIDE DEF e, f, g, w
<1>5. List(g)
  BY <1>1, SeqIsList
<1>6. IsConcat(w, e, f)
  BY ONLY <1>2, <1>4, ListJoined, Zenon
<1>7. List(w) /\ Len(w) = 2 /\ w[1] = c /\ w[2] = d
  <2>1. 1 \in 1 .. Len(e) /\ 1 \in 1 .. Len(f) /\ Len(e) + 1 = 2
    BY <1>2
  <2> QED
    BY <1>2, <1>6, <2>1 DEF IsConcat
<1>8. \A i \in 1 .. Len(g) : g[i] = w[i]
  BY <1>1, <1>7
<1>9. g = w
  BY <1>1, <1>5, <1>7, <1>8, ListEqual
<1>10. Elements(w) = {c} \cup {d}
  BY <1>2, <1>3, <1>4, ElementsConcat
<1> QED
  BY <1>4, <1>5, <1>9, <1>10 DEF e, f, g

\* Of two commands.
LEMMA ShownPair ==
    ASSUME NEW c, NEW d, List(Printed(c)), List(Printed(d))
    PROVE  Commands(<<c, d>>) /\ Shown(<<c, d>>) = Printed(c) \o Printed(d)
<1> DEFINE e == <<c>>
           f == <<d>>
           g == <<c, d>>
<1>1. g = e \o f
  BY PairList
<1>2. Commands(e) /\ Commands(f) /\ Shown(e) = Printed(c) /\ Shown(f) = Printed(d)
  BY ShownOne
<1> HIDE DEF e, f, g
<1>3. Commands(e \o f) /\ Shown(e \o f) = Shown(e) \o Shown(f)
  BY <1>2, ShownJoined
<1>4. Commands(g) /\ Shown(g) = Printed(c) \o Printed(d)
  BY ONLY <1>1, <1>2, <1>3
<1> QED
  BY <1>4 DEF g

When(c, l) == IF c THEN {l} ELSE {}

\* A conditional line is a list of at most that line.
LEMMA IfList == \A c, l : List(If(c, l)) /\ Elements(If(c, l)) = When(c, l)
<1> TAKE c, l
<1>1. CASE c
  BY <1>1, SingleList, ElementsFew DEF If, When
<1>2. CASE ~c
  BY <1>2, EmptyList, ElementsFew DEF If, When
<1> QED
  BY <1>1, <1>2

\* Two lists end to end hold the elements of both.
LEMMA TwoLists ==
    ASSUME NEW a, NEW b, List(a), List(b)
    PROVE  List(a \o b) /\ Elements(a \o b) = Elements(a) \cup Elements(b)
BY ListConcat, ElementsConcat

\* run_firmware prints, in its first sample only, the early fault, the boot, the late fault
\* and the watchdog reset.
LEMMA PrintedRun ==
    ASSUME NEW s
    PROVE  LET x == Printed(Cmd("run_firmware", s))
           IN  /\ List(x)
               /\ Elements(x) = ((When(s = 1 /\ guest.fault = "early", Line("firmware_fault", 0))
                                \cup When(s = 1 /\ guest.boots, Line("firmware_boot", 0)))
                                \cup When(s = 1 /\ guest.fault = "late", Line("firmware_fault", 0)))
                                \cup When(s = 1 /\ guest.watchdog, Line("iwdg_reset", 0))
<1> DEFINE a == If(s = 1 /\ guest.fault = "early", Line("firmware_fault", 0))
           b == If(s = 1 /\ guest.boots, Line("firmware_boot", 0))
           c == If(s = 1 /\ guest.fault = "late", Line("firmware_fault", 0))
           d == If(s = 1 /\ guest.watchdog, Line("iwdg_reset", 0))
           x == Printed(Cmd("run_firmware", s))
<1>1. x = ((a \o b) \o c) \o d
  BY DEF Printed, Cmd
<1>2. /\ List(a) /\ Elements(a) = When(s = 1 /\ guest.fault = "early", Line("firmware_fault", 0))
      /\ List(b) /\ Elements(b) = When(s = 1 /\ guest.boots, Line("firmware_boot", 0))
      /\ List(c) /\ Elements(c) = When(s = 1 /\ guest.fault = "late", Line("firmware_fault", 0))
      /\ List(d) /\ Elements(d) = When(s = 1 /\ guest.watchdog, Line("iwdg_reset", 0))
  BY IfList
<1> HIDE DEF a, b, c, d, x
<1>3. List(a \o b) /\ Elements(a \o b) = Elements(a) \cup Elements(b)
  BY <1>2, TwoLists
<1>4. List((a \o b) \o c) /\ Elements((a \o b) \o c) = Elements(a \o b) \cup Elements(c)
  BY <1>2, <1>3, TwoLists
<1>5. /\ List(((a \o b) \o c) \o d)
      /\ Elements(((a \o b) \o c) \o d) = Elements((a \o b) \o c) \cup Elements(d)
  BY <1>2, <1>4, TwoLists
<1>6. List(x) /\ Elements(x) = ((Elements(a) \cup Elements(b)) \cup Elements(c)) \cup Elements(d)
  BY ONLY <1>1, <1>3, <1>4, <1>5
<1> QED
  BY <1>2, <1>6 DEF x

ProbeLine(p, s) ==
    Line("probe", [probe |-> p, sample |-> s, value |-> guest.values[p][s]])

\* A probe prints its value.
LEMMA PrintedProbe ==
    ASSUME NEW p, NEW s
    PROVE  LET x == Printed(Cmd("probe", <<p, s>>))
           IN  List(x) /\ Elements(x) = {ProbeLine(p, s)} /\ x = <<ProbeLine(p, s)>>
<1>1. Printed(Cmd("probe", <<p, s>>)) = <<ProbeLine(p, s)>>
  BY DEF Printed, Cmd, ProbeLine
<1> QED
  BY <1>1, SingleList, ElementsFew

\* The registers are printed once per request.
LEMMA PrintedRegisters ==
    LET x == Printed(Cmd("registers", 0)) IN List(x) /\ Elements(x) = {Line("registers", 0)}
<1>1. Printed(Cmd("registers", 0)) = <<Line("registers", 0)>>
  BY DEF Printed, Cmd
<1> QED
  BY <1>1, SingleList, ElementsFew

\* report_flash prints the trace of the flash operations.
LEMMA PrintedFlash ==
    LET x == Printed(Cmd("report_flash", 0))
    IN  List(x) /\ Elements(x) = {Line("flash", guest.trace)} /\ x = <<Line("flash", guest.trace)>>
<1>1. Printed(Cmd("report_flash", 0)) = <<Line("flash", guest.trace)>>
  BY DEF Printed, Cmd
<1> QED
  BY <1>1, SingleList, ElementsFew

\* run_factory prints the boot, the fault and an outcome that comes too early.
LEMMA PrintedFactory ==
    LET x == Printed(Cmd("run_factory", 0))
    IN  /\ List(x)
        /\ Elements(x) = (When(guest.factory_boots, Line("factory_boot", 0))
                         \cup When(guest.factory_fault, Line("factory_fault", 0)))
                         \cup When(guest.early_outcome # None, Line("outcome", guest.early_outcome))
<1> DEFINE a == If(guest.factory_boots, Line("factory_boot", 0))
           b == If(guest.factory_fault, Line("factory_fault", 0))
           c == If(guest.early_outcome # None, Line("outcome", guest.early_outcome))
           x == Printed(Cmd("run_factory", 0))
<1>1. x = (a \o b) \o c
  BY DEF Printed, Cmd
<1>2. /\ List(a) /\ Elements(a) = When(guest.factory_boots, Line("factory_boot", 0))
      /\ List(b) /\ Elements(b) = When(guest.factory_fault, Line("factory_fault", 0))
      /\ List(c) /\ Elements(c) = When(guest.early_outcome # None, Line("outcome", guest.early_outcome))
  BY IfList
<1> HIDE DEF a, b, c, x
<1>3. List(a \o b) /\ Elements(a \o b) = Elements(a) \cup Elements(b)
  BY <1>2, TwoLists
<1>4. List((a \o b) \o c) /\ Elements((a \o b) \o c) = Elements(a \o b) \cup Elements(c)
  BY <1>2, <1>3, TwoLists
<1>5. List(x) /\ Elements(x) = (Elements(a) \cup Elements(b)) \cup Elements(c)
  BY ONLY <1>1, <1>3, <1>4
<1> QED
  BY <1>2, <1>5 DEF x

\* transfer prints its beginning, and the outcome unless the power is cut.
LEMMA PrintedTransfer ==
    ASSUME NEW n
    PROVE  LET x == Printed(Cmd("transfer", n))
               b == If(~CutHits(n) /\ guest.outcome # None, Line("outcome", guest.outcome))
           IN  /\ List(x) /\ x = <<Line("transfer_begin", 0)>> \o b
               /\ List(b) /\ Elements(b) = When(~CutHits(n) /\ guest.outcome # None, Line("outcome", guest.outcome))
               /\ Elements(x) = {Line("transfer_begin", 0)} \cup Elements(b)
<1> DEFINE a == <<Line("transfer_begin", 0)>>
           b == If(~CutHits(n) /\ guest.outcome # None, Line("outcome", guest.outcome))
           x == Printed(Cmd("transfer", n))
<1>1. x = a \o b
  BY DEF Printed, Cmd
<1>2. /\ List(a) /\ Elements(a) = {Line("transfer_begin", 0)}
      /\ List(b) /\ Elements(b) = When(~CutHits(n) /\ guest.outcome # None, Line("outcome", guest.outcome))
  BY IfList, SingleList, ElementsFew
<1> HIDE DEF a, b, x
<1>3. List(a \o b) /\ Elements(a \o b) = Elements(a) \cup Elements(b)
  BY <1>2, TwoLists
<1>4. List(x) /\ Elements(x) = Elements(a) \cup Elements(b)
  BY ONLY <1>1, <1>3
<1> QED
  BY <1>1, <1>2, <1>4 DEF x, a, b

\* reboot prints whether the cut was triggered, the reboot and the outcome after it.
LEMMA PrintedReboot ==
    ASSUME NEW n
    PROVE  LET x == Printed(Cmd("reboot", n))
               b == If(guest.after_cut[n] # None, Line("outcome", guest.after_cut[n]))
           IN  /\ List(x) /\ x = <<Line("cut_triggered", CutHits(n)), Line("reboot", 0)>> \o b
               /\ List(b) /\ Elements(b) = When(guest.after_cut[n] # None, Line("outcome", guest.after_cut[n]))
               /\ Elements(x) = {Line("cut_triggered", CutHits(n)), Line("reboot", 0)} \cup Elements(b)
<1> DEFINE d == Line("cut_triggered", CutHits(n))
           e == Line("reboot", 0)
           a == <<d, e>>
           b == If(guest.after_cut[n] # None, Line("outcome", guest.after_cut[n]))
           x == Printed(Cmd("reboot", n))
<1>1. x = a \o b
  BY DEF Printed, Cmd
<1>2. List(b) /\ Elements(b) = When(guest.after_cut[n] # None, Line("outcome", guest.after_cut[n]))
  BY IfList
<1> HIDE DEF b, x, d, e
<1>3. List(a) /\ Elements(a) = {d, e}
  BY PairList
<1> HIDE DEF a
<1>4. List(a \o b) /\ Elements(a \o b) = Elements(a) \cup Elements(b)
  BY <1>2, <1>3, TwoLists
<1>5. List(x) /\ Elements(x) = Elements(a) \cup Elements(b)
  BY ONLY <1>1, <1>4
<1> QED
  BY <1>1, <1>2, <1>3, <1>5 DEF x, a, b, d, e

-----------------------------------------------------------------------------
(* The script.                                                                *)

\* An architecture has no, one or two controllers.
LEMMA ControllersList == \A a : List(CanControllers(a))
<1> TAKE a
<1>1. List(<<"fdcan1", "fdcan2">>) /\ List(<<"fdcan1">>) /\ List(<<>>)
  BY PairList, SingleList, EmptyList
<1>2. \/ CanControllers(a) = <<"fdcan1", "fdcan2">> \/ CanControllers(a) = <<"fdcan1">>
      \/ CanControllers(a) = <<>>
  BY DEF CanControllers
<1> QED
  BY <1>1, <1>2

\* A register is sampled by a probe of its name unless the layout has one.
LEMMA SamplingIs ==
    ASSUME NEW x, NEW r
    PROVE  /\ List(Sampling(x, r))
           /\ Named(x.probes, r) = {} => \E q \in Elements(Sampling(x, r)) : q.name = r
<1> DEFINE q == [name |-> r, register |-> r, gain |-> None, minimum |-> None,
                 maximum |-> None, end_drop |-> None, ignore_zeroes |-> FALSE]
           c == Named(x.probes, r) = {}
<1>1. q.name = r
  OBVIOUS
<1>2. Sampling(x, r) = If(c, q)
  BY DEF Sampling
<1> HIDE DEF q
<1>3. List(If(c, q)) /\ Elements(If(c, q)) = When(c, q)
  BY IfList
<1>4. c => q \in When(c, q)
  BY DEF When
<1> QED
  BY <1>1, <1>2, <1>3, <1>4

\* add_unacknowledged_can_probes: the probes of the layout stay in their places, and
\* each register of each controller has one.
LEMMA ProbesAdded ==
    ASSUME List(job.probes), ~job.can_acknowledged
    PROVE  /\ List(Probes)
           /\ \A c \in Elements(CanControllers(job.architecture)) :
                 Named(Probes, ErrorCount(c)) # {} /\ Named(Probes, ErrorCode(c)) # {}
<1> DEFINE cs == CanControllers(job.architecture)
           Both(c) == Sampling(job, ErrorCount(c)) \o Sampling(job, ErrorCode(c))
           lists == [i \in DOMAIN cs |-> Both(cs[i])]
           more == FlattenSeq(lists)
           all == job.probes \o more
<1>1. Probes = all
  BY DEF Probes, ProbesOf
<1>2. List(cs) /\ Len(cs) \in Nat /\ DOMAIN cs = 1 .. Len(cs)
  BY ControllersList, ListFacts
<1>3. \A c : /\ List(Both(c))
             /\ Elements(Both(c)) = Elements(Sampling(job, ErrorCount(c))) \cup Elements(Sampling(job, ErrorCode(c)))
  BY SamplingIs, TwoLists
<1>4. DOMAIN lists = 1 .. Len(cs) /\ lists = [i \in 1 .. Len(cs) |-> lists[i]]
      /\ \A i \in 1 .. Len(cs) : lists[i] = Both(cs[i])
  BY <1>2
<1> HIDE DEF cs, Both, lists
<1>5. List(lists) /\ Len(lists) = Len(cs)
  BY <1>2, <1>4, FunIsList
<1>6. \A i \in 1 .. Len(lists) : List(lists[i])
  BY <1>3, <1>4, <1>5
<1>7. /\ List(more)
      /\ \A q : q \in Elements(more) <=> \E i \in 1 .. Len(lists) : q \in Elements(lists[i])
  BY <1>5, <1>6, ElementsFlatten
<1> HIDE DEF more
<1>8. List(all) /\ Elements(all) = Elements(job.probes) \cup Elements(more)
  BY <1>7, TwoLists
<1> HIDE DEF all
<1>9. ASSUME NEW c \in Elements(cs), NEW r \in {ErrorCount(c), ErrorCode(c)} PROVE Named(Probes, r) # {}
  <2>1. \E q \in Elements(all) : q.name = r
    <3>1. CASE Named(job.probes, r) # {}
      <4>1. PICK p \in DOMAIN job.probes : job.probes[p].name = r
        BY <3>1 DEF Named
      <4>2. job.probes[p] \in Elements(job.probes)
        BY DEF Elements
      <4> QED
        BY <1>8, <4>1, <4>2
    <3>2. CASE Named(job.probes, r) = {}
      <4>1. PICK q \in Elements(Sampling(job, r)) : q.name = r
        BY <3>2, SamplingIs
      <4>2. q \in Elements(Both(c))
        BY <1>3, <4>1
      <4>3. PICK i \in 1 .. Len(cs) : c = cs[i]
        BY <1>2, <1>9 DEF Elements
      <4>4. q \in Elements(lists[i])
        BY <1>4, <4>2, <4>3
      <4>5. q \in Elements(all)
        BY <1>5, <1>7, <1>8, <4>4
      <4> QED
        BY <4>1, <4>5
    <3> QED
      BY <3>1, <3>2
  <2>2. PICK p \in DOMAIN all : all[p].name = r
    BY <2>1 DEF Elements
  <2> QED
    BY <1>1, <2>2 DEF Named
<1> QED
  BY <1>1, <1>8, <1>9 DEF cs

\* The probes are a list, and the firmware has a value of each for every sample.
LEMMA ProbesList ==
    ASSUME Described(job, guest)
    PROVE  /\ List(Probes) /\ DOMAIN Probes = 1 .. Len(Probes) /\ Len(Probes) \in Nat
           /\ job.can_acknowledged \in BOOLEAN /\ job.sample_count \in Nat
           /\ \A p \in 1 .. Len(Probes) :
                 List(guest.values[p]) /\ Len(guest.values[p]) = job.sample_count
<1>1. /\ List(job.probes) /\ job.can_acknowledged \in BOOLEAN /\ job.sample_count \in Nat
      /\ \A p \in DOMAIN Probes : List(guest.values[p]) /\ Len(guest.values[p]) = job.sample_count
  BY DEF Described, Probes
<1>2. job.can_acknowledged => Probes = job.probes
  BY DEF Probes, ProbesOf
<1>3. List(Probes)
  BY <1>1, <1>2, ProbesAdded
<1>4. DOMAIN Probes = 1 .. Len(Probes) /\ Len(Probes) \in Nat
  BY <1>3, ListFacts
<1> QED
  BY <1>1, <1>3, <1>4

Block(s) == <<Cmd("run_firmware", s)>> \o [p \in DOMAIN Probes |-> Cmd("probe", <<p, s>>)]
Blocks == [s \in 1 .. job.sample_count |-> Block(s)]

\* What is run for one sample: the firmware, then every probe.
LEMMA BlockIs ==
    ASSUME Described(job, guest), NEW s
    PROVE  /\ List(Block(s)) /\ Len(Block(s)) = Len(Probes) + 1
           /\ Block(s)[1] = Cmd("run_firmware", s)
           /\ \A p \in 1 .. Len(Probes) : Block(s)[p + 1] = Cmd("probe", <<p, s>>)
           /\ \A b \in 1 .. Len(Block(s)) :
                 \/ b = 1
                 \/ b - 1 \in 1 .. Len(Probes) /\ Block(s)[b] = Cmd("probe", <<b - 1, s>>)
<1> DEFINE e == <<Cmd("run_firmware", s)>>
           f == [p \in DOMAIN Probes |-> Cmd("probe", <<p, s>>)]
           w == Block(s)
<1>1. DOMAIN Probes = 1 .. Len(Probes) /\ Len(Probes) \in Nat
  BY ProbesList
<1>2. /\ DOMAIN f = 1 .. Len(Probes) /\ f = [p \in 1 .. Len(Probes) |-> f[p]]
      /\ \A p \in 1 .. Len(Probes) : f[p] = Cmd("probe", <<p, s>>)
  BY <1>1
<1>3. List(e) /\ Len(e) = 1 /\ e[1] = Cmd("run_firmware", s)
  BY SingleList
<1>4. w = e \o f
  BY DEF Block
<1> HIDE DEF e, f, w
<1>5. List(f) /\ Len(f) = Len(Probes)
  BY <1>1, <1>2, FunIsList
<1>6. IsConcat(w, e, f)
  BY ONLY <1>3, <1>4, <1>5, ListJoined, Zenon
<1>7. /\ List(w) /\ Len(w) = 1 + Len(Probes) /\ w[1] = Cmd("run_firmware", s)
      /\ \A p \in 1 .. Len(Probes) : w[1 + p] = f[p]
  BY <1>3, <1>5, <1>6 DEF IsConcat
<1>8. \A p \in 1 .. Len(Probes) : w[p + 1] = Cmd("probe", <<p, s>>)
  BY <1>1, <1>2, <1>7
<1>9. ASSUME NEW b \in 1 .. Len(w), b # 1
      PROVE  b - 1 \in 1 .. Len(Probes) /\ w[b] = Cmd("probe", <<b - 1, s>>)
  <2>1. b - 1 \in 1 .. Len(Probes) /\ (b - 1) + 1 = b
    BY <1>1, <1>7, <1>9
  <2>2. w[(b - 1) + 1] = Cmd("probe", <<b - 1, s>>)
    BY <1>8, <2>1
  <2> QED
    BY <2>1, <2>2
<1> QED
  BY <1>1, <1>7, <1>8, <1>9 DEF w

\* The profile script is a list of such blocks, flattened.
LEMMA ProfileIs ==
    ASSUME Described(job, guest)
    PROVE  /\ ListOfLists(Blocks) /\ Len(Blocks) = job.sample_count
           /\ \A s \in 1 .. job.sample_count : Blocks[s] = Block(s)
           /\ ProfileScript = FlattenSeq(Blocks) /\ List(ProfileScript)
           /\ Flat(ProfileScript, Blocks, job.sample_count)
<1> DEFINE bb == Blocks
<1>1. job.sample_count \in Nat
  BY ProbesList
<1>2. /\ DOMAIN bb = 1 .. job.sample_count /\ bb = [s \in 1 .. job.sample_count |-> bb[s]]
      /\ \A s \in 1 .. job.sample_count : bb[s] = Block(s)
  BY DEF Blocks
<1>3. ProfileScript = FlattenSeq(bb)
  BY DEF ProfileScript, Blocks, Block
<1> HIDE DEF bb
<1>4. List(bb) /\ Len(bb) = job.sample_count
  BY <1>1, <1>2, FunIsList
<1>5. \A s \in 1 .. job.sample_count : List(bb[s])
  BY <1>2, BlockIs
<1>6. ListOfLists(bb)
  BY <1>4, <1>5 DEF ListOfLists
<1>7. Flat(FlattenSeq(bb), bb, Len(bb))
  BY <1>6, FlattenIs DEF ListOfLists
<1>8. List(ProfileScript) /\ Flat(ProfileScript, bb, job.sample_count)
  BY <1>3, <1>4, <1>7 DEF Flat
<1> QED
  BY <1>2, <1>3, <1>4, <1>6, <1>8 DEF bb

ProfileCommands ==
    {Cmd("run_firmware", s) : s \in 1 .. job.sample_count}
        \cup {Cmd("probe", c) : c \in (1 .. Len(Probes)) \X (1 .. job.sample_count)}

\* The commands of the profile script.
LEMMA ProfileElements ==
    ASSUME Described(job, guest)
    PROVE  Elements(ProfileScript) = ProfileCommands /\ Commands(ProfileScript)
<1>1. /\ ListOfLists(Blocks) /\ Len(Blocks) = job.sample_count
      /\ \A s \in 1 .. job.sample_count : Blocks[s] = Block(s)
      /\ ProfileScript = FlattenSeq(Blocks) /\ List(ProfileScript)
  BY ProfileIs
<1>2. \A x : x \in Elements(FlattenSeq(Blocks)) <=> \E a \in 1 .. Len(Blocks) : x \in Elements(Blocks[a])
  BY <1>1, ElementsFlatten DEF ListOfLists
<1>3. \A x : x \in Elements(ProfileScript) <=> \E s \in 1 .. job.sample_count : x \in Elements(Block(s))
  BY <1>1, <1>2
<1>4. Len(Probes) \in Nat /\ job.sample_count \in Nat
  BY ProbesList
<1>5. ASSUME NEW s \in 1 .. job.sample_count
      PROVE  \A x : x \in Elements(Block(s)) <=>
                       \/ x = Cmd("run_firmware", s)
                       \/ \E p \in 1 .. Len(Probes) : x = Cmd("probe", <<p, s>>)
  <2>1. /\ List(Block(s)) /\ Len(Block(s)) = Len(Probes) + 1
        /\ Block(s)[1] = Cmd("run_firmware", s)
        /\ \A p \in 1 .. Len(Probes) : Block(s)[p + 1] = Cmd("probe", <<p, s>>)
        /\ \A b \in 1 .. Len(Block(s)) :
              \/ b = 1
              \/ b - 1 \in 1 .. Len(Probes) /\ Block(s)[b] = Cmd("probe", <<b - 1, s>>)
    BY BlockIs
  <2>2. Elements(Block(s)) = {Block(s)[i] : i \in 1 .. Len(Block(s))}
    BY <2>1, ElementsAre
  <2> DEFINE w == Block(s)
  <2> HIDE DEF w
  <2> TAKE x
  <2>3. ASSUME x \in Elements(Block(s))
        PROVE  x = Cmd("run_firmware", s) \/ \E p \in 1 .. Len(Probes) : x = Cmd("probe", <<p, s>>)
    <3>1. PICK i \in 1 .. Len(Block(s)) : x = Block(s)[i]
      BY <2>2, <2>3
    <3> QED
      BY <2>1, <3>1
  <2>4. Cmd("run_firmware", s) \in Elements(Block(s))
    <3>1. 1 \in 1 .. Len(Block(s))
      BY <1>4, <2>1
    <3> QED
      BY <2>1, <2>2, <3>1
  <2>5. ASSUME NEW p \in 1 .. Len(Probes) PROVE Cmd("probe", <<p, s>>) \in Elements(Block(s))
    <3>1. p + 1 \in 1 .. Len(Block(s))
      BY <1>4, <2>1
    <3> QED
      BY <2>1, <2>2, <3>1
  <2> QED
    BY <2>3, <2>4, <2>5
<1>6. Elements(ProfileScript) = ProfileCommands
  <2>1. ASSUME NEW x \in Elements(ProfileScript) PROVE x \in ProfileCommands
    <3>1. PICK s \in 1 .. job.sample_count : x \in Elements(Block(s))
      BY <1>3, <2>1
    <3>2. CASE x = Cmd("run_firmware", s)
      BY <3>2 DEF ProfileCommands
    <3>3. CASE \E p \in 1 .. Len(Probes) : x = Cmd("probe", <<p, s>>)
      <4>1. PICK p \in 1 .. Len(Probes) : x = Cmd("probe", <<p, s>>)
        BY <3>3
      <4>2. <<p, s>> \in (1 .. Len(Probes)) \X (1 .. job.sample_count)
        OBVIOUS
      <4> QED
        BY <4>1, <4>2 DEF ProfileCommands
    <3> QED
      BY <1>5, <3>1, <3>2, <3>3
  <2>2. ASSUME NEW x \in ProfileCommands PROVE x \in Elements(ProfileScript)
    <3>1. CASE x \in {Cmd("run_firmware", s) : s \in 1 .. job.sample_count}
      BY <1>3, <1>5, <3>1
    <3>2. CASE x \in {Cmd("probe", c) : c \in (1 .. Len(Probes)) \X (1 .. job.sample_count)}
      <4>1. PICK c \in (1 .. Len(Probes)) \X (1 .. job.sample_count) : x = Cmd("probe", c)
        BY <3>2
      <4>2. PICK p \in 1 .. Len(Probes), s \in 1 .. job.sample_count : c = <<p, s>>
        OBVIOUS
      <4> QED
        BY <1>3, <1>5, <4>1, <4>2
    <3> QED
      BY <2>2, <3>1, <3>2 DEF ProfileCommands
  <2> QED
    BY <2>1, <2>2
<1>7. \A c \in ProfileCommands : List(Printed(c))
  <2> TAKE c \in ProfileCommands
  <2>1. CASE c \in {Cmd("run_firmware", s) : s \in 1 .. job.sample_count}
    BY <2>1, PrintedRun
  <2>2. CASE c \in {Cmd("probe", d) : d \in (1 .. Len(Probes)) \X (1 .. job.sample_count)}
    <3>1. PICK d \in (1 .. Len(Probes)) \X (1 .. job.sample_count) : c = Cmd("probe", d)
      BY <2>2
    <3>2. PICK p \in 1 .. Len(Probes), s \in 1 .. job.sample_count : d = <<p, s>>
      OBVIOUS
    <3>3. List(Printed(Cmd("probe", <<p, s>>)))
      BY PrintedProbe
    <3> QED
      BY <3>1, <3>2, <3>3
  <2> QED
    BY <2>1, <2>2 DEF ProfileCommands
<1>8. Commands(ProfileScript)
  <2>1. \A i \in 1 .. Len(ProfileScript) : ProfileScript[i] \in Elements(ProfileScript)
    BY <1>1, ListFacts
  <2> QED
    BY <1>1, <1>6, <1>7, <2>1 DEF Commands
<1> QED
  BY <1>6, <1>8

Transferred(n) == Printed(Cmd("transfer", n))
Rebooted(n) == Printed(Cmd("reboot", n))

\* The commands of the update.
LEMMA OtaIs ==
    ASSUME NEW n
    PROVE  /\ Commands(OtaScript(n)) /\ List(Shown(OtaScript(n)))
           /\ ~job.firmware_driven => Shown(OtaScript(n)) = <<>>
           /\ job.firmware_driven /\ ~(n > 0) => Shown(OtaScript(n)) = Transferred(n)
           /\ job.firmware_driven /\ n > 0 => Shown(OtaScript(n)) = Transferred(n) \o Rebooted(n)
<1> DEFINE s == OtaScript(n)
           t == <<Cmd("transfer", n)>>
           r == <<Cmd("reboot", n)>>
<1>1. Commands(<<>>) /\ Shown(<<>>) = <<>>
  BY ShownNone
<1>2. List(Transferred(n)) /\ List(Rebooted(n))
  BY PrintedTransfer, PrintedReboot DEF Transferred, Rebooted
<1>3. Commands(t) /\ Shown(t) = Transferred(n)
  BY <1>2, ShownOne DEF Transferred
<1>4. Commands(r) /\ Shown(r) = Rebooted(n)
  BY <1>2, ShownOne DEF Rebooted
<1>5. s = IF ~job.firmware_driven THEN <<>> ELSE t \o (IF n > 0 THEN r ELSE <<>>)
  BY DEF OtaScript
<1> HIDE DEF s, t, r
<1>6. Commands(t \o r) /\ Shown(t \o r) = Shown(t) \o Shown(r)
  BY <1>3, <1>4, ShownJoined
<1>7. t \o <<>> = t
  BY <1>3, ListNeutral DEF Commands
<1>8. CASE ~job.firmware_driven
  <2>1. s = <<>>
    BY <1>5, <1>8
  <2>2. Commands(s) /\ Shown(s) = <<>>
    BY ONLY <1>1, <2>1
  <2> QED
    BY <1>8, <2>2, ShownElements DEF s
<1>9. CASE job.firmware_driven /\ ~(n > 0)
  <2>1. s = t \o <<>>
    BY <1>5, <1>9
  <2>2. Commands(s) /\ Shown(s) = Transferred(n)
    BY ONLY <1>3, <1>7, <2>1
  <2> QED
    BY <1>9, <2>2, ShownElements DEF s
<1>10. CASE job.firmware_driven /\ n > 0
  <2>1. s = t \o r
    BY <1>5, <1>10
  <2>2. Commands(s) /\ Shown(s) = Transferred(n) \o Rebooted(n)
    BY ONLY <1>3, <1>4, <1>6, <2>1
  <2> QED
    BY <1>10, <2>2, ShownElements DEF s
<1> QED
  BY <1>8, <1>9, <1>10

Profile == Shown(ProfileScript)
Factory == Printed(Cmd("registers", 0)) \o Printed(Cmd("run_factory", 0))
Update(n) == Shown(OtaScript(n))
Closing == Printed(Cmd("report_flash", 0)) \o Printed(Cmd("registers", 0))

\* The parts of what one process prints.
LEMMA TranscriptIs ==
    ASSUME Described(job, guest), NEW n
    PROVE  /\ Commands(RenderScript(n)) /\ List(Transcript(n))
           /\ List(Profile) /\ List(Factory) /\ List(Update(n)) /\ List(Closing)
           /\ Transcript(n) = ((Profile \o Factory) \o Update(n)) \o Closing
<1> DEFINE p == ProfileScript
           f == <<Cmd("registers", 0), Cmd("run_factory", 0)>>
           o == OtaScript(n)
           c == <<Cmd("report_flash", 0), Cmd("registers", 0)>>
<1>1. Commands(p)
  BY ProfileElements
<1>2. Commands(f) /\ Shown(f) = Factory
  <2>1. List(Printed(Cmd("registers", 0))) /\ List(Printed(Cmd("run_factory", 0)))
    BY PrintedRegisters, PrintedFactory
  <2> QED
    BY <2>1, ShownPair DEF Factory
<1>3. Commands(o)
  BY OtaIs
<1>4. Commands(c) /\ Shown(c) = Closing
  <2>1. List(Printed(Cmd("registers", 0))) /\ List(Printed(Cmd("report_flash", 0)))
    BY PrintedRegisters, PrintedFlash
  <2> QED
    BY <2>1, ShownPair DEF Closing
<1>5. RenderScript(n) = ((p \o f) \o o) \o c
  BY DEF RenderScript
<1> HIDE DEF p, f, o, c
<1>6. Commands(p \o f) /\ Shown(p \o f) = Shown(p) \o Shown(f)
  BY <1>1, <1>2, ShownJoined
<1>7. Commands((p \o f) \o o) /\ Shown((p \o f) \o o) = Shown(p \o f) \o Shown(o)
  BY <1>3, <1>6, ShownJoined
<1>8. /\ Commands(((p \o f) \o o) \o c)
      /\ Shown(((p \o f) \o o) \o c) = Shown((p \o f) \o o) \o Shown(c)
  BY <1>4, <1>7, ShownJoined
<1>9. /\ Commands(RenderScript(n))
      /\ Shown(RenderScript(n)) = ((Shown(p) \o Factory) \o Shown(o)) \o Closing
  BY ONLY <1>2, <1>4, <1>5, <1>6, <1>7, <1>8
<1>10. List(Shown(p)) /\ List(Shown(f)) /\ List(Shown(o)) /\ List(Shown(c)) /\ List(Shown(RenderScript(n)))
  BY <1>1, <1>2, <1>3, <1>4, <1>9, ShownElements
<1>11. List(Factory) /\ List(Closing)
  BY ONLY <1>2, <1>4, <1>10
<1> QED
  BY <1>9, <1>10, <1>11 DEF Transcript, Profile, Update, p, o

\* The lines of a part.
LEMMA TranscriptElements ==
    ASSUME Described(job, guest), NEW n
    PROVE  Elements(Transcript(n)) =
               ((Elements(Profile) \cup Elements(Factory)) \cup Elements(Update(n))) \cup Elements(Closing)
<1> DEFINE p == Profile
           f == Factory
           o == Update(n)
           c == Closing
           t == Transcript(n)
<1>1. List(p) /\ List(f) /\ List(o) /\ List(c) /\ t = ((p \o f) \o o) \o c
  BY TranscriptIs
<1> HIDE DEF p, f, o, c, t
<1>2. List(p \o f) /\ Elements(p \o f) = Elements(p) \cup Elements(f)
  BY <1>1, TwoLists
<1>3. List((p \o f) \o o) /\ Elements((p \o f) \o o) = Elements(p \o f) \cup Elements(o)
  BY <1>1, <1>2, TwoLists
<1>4. Elements(((p \o f) \o o) \o c) = Elements((p \o f) \o o) \cup Elements(c)
  BY <1>1, <1>3, TwoLists
<1>5. Elements(t) = ((Elements(p) \cup Elements(f)) \cup Elements(o)) \cup Elements(c)
  BY ONLY <1>1, <1>2, <1>3, <1>4
<1> QED
  BY <1>5 DEF p, f, o, c, t

ProbeLines == {ProbeLine(c[1], c[2]) : c \in (1 .. Len(Probes)) \X (1 .. job.sample_count)}

\* What a run of the firmware prints, beside the probes.
FirmwareLines ==
    ((When(guest.fault = "early", Line("firmware_fault", 0))
      \cup When(guest.boots, Line("firmware_boot", 0)))
      \cup When(guest.fault = "late", Line("firmware_fault", 0)))
      \cup When(guest.watchdog, Line("iwdg_reset", 0))

\* The lines the profile script shows.
LEMMA ProfileLines ==
    ASSUME Described(job, guest)
    PROVE  /\ Elements(Profile) \subseteq FirmwareLines \cup ProbeLines
           /\ job.sample_count > 0 => FirmwareLines \subseteq Elements(Profile)
<1>1. /\ Elements(ProfileScript) = ProfileCommands
      /\ \A l : l \in Elements(Profile) <=> \E c \in Elements(ProfileScript) : l \in Elements(Printed(c))
  BY ProfileElements, ShownElements DEF Profile
<1>2. job.sample_count \in Nat
  BY ProbesList
<1>3. ASSUME NEW l \in Elements(Profile) PROVE l \in FirmwareLines \cup ProbeLines
  <2>1. PICK c \in ProfileCommands : l \in Elements(Printed(c))
    BY <1>1, <1>3
  <2>2. CASE c \in {Cmd("run_firmware", s) : s \in 1 .. job.sample_count}
    <3>1. PICK s \in 1 .. job.sample_count : c = Cmd("run_firmware", s)
      BY <2>2
    <3>2. l \in Elements(Printed(Cmd("run_firmware", s)))
      BY <2>1, <3>1
    <3> QED
      BY <3>2, PrintedRun DEF FirmwareLines, When
  <2>3. CASE c \in {Cmd("probe", d) : d \in (1 .. Len(Probes)) \X (1 .. job.sample_count)}
    <3>1. PICK d \in (1 .. Len(Probes)) \X (1 .. job.sample_count) : c = Cmd("probe", d)
      BY <2>3
    <3>2. d = <<d[1], d[2]>>
      OBVIOUS
    <3>3. Elements(Printed(Cmd("probe", <<d[1], d[2]>>))) = {ProbeLine(d[1], d[2])}
      BY PrintedProbe
    <3>4. l = ProbeLine(d[1], d[2])
      BY <2>1, <3>1, <3>2, <3>3
    <3> QED
      BY <3>4 DEF ProbeLines
  <2> QED
    BY <2>2, <2>3 DEF ProfileCommands
<1>4. ASSUME job.sample_count > 0, NEW l \in FirmwareLines PROVE l \in Elements(Profile)
  <2>1. Cmd("run_firmware", 1) \in ProfileCommands
    <3>1. 1 \in 1 .. job.sample_count
      BY <1>2, <1>4
    <3> QED
      BY <3>1 DEF ProfileCommands
  <2>2. l \in Elements(Printed(Cmd("run_firmware", 1)))
    BY <1>4, PrintedRun DEF FirmwareLines, When
  <2> QED
    BY <1>1, <2>1, <2>2
<1> QED
  BY <1>3, <1>4

\* The lines of the factory image.
LEMMA FactoryLines ==
    /\ List(Factory)
    /\ Elements(Factory) = {Line("registers", 0)}
           \cup ((When(guest.factory_boots, Line("factory_boot", 0))
                  \cup When(guest.factory_fault, Line("factory_fault", 0)))
                  \cup When(guest.early_outcome # None, Line("outcome", guest.early_outcome)))
<1> DEFINE x == Printed(Cmd("registers", 0))
           y == Printed(Cmd("run_factory", 0))
<1>1. /\ List(x) /\ List(y) /\ Elements(x) = {Line("registers", 0)}
      /\ Elements(y) = (When(guest.factory_boots, Line("factory_boot", 0))
                         \cup When(guest.factory_fault, Line("factory_fault", 0)))
                         \cup When(guest.early_outcome # None, Line("outcome", guest.early_outcome))
  BY PrintedRegisters, PrintedFactory
<1>2. Factory = x \o y
  BY DEF Factory
<1> HIDE DEF x, y
<1>3. List(x \o y) /\ Elements(x \o y) = Elements(x) \cup Elements(y)
  BY <1>1, TwoLists
<1> QED
  BY ONLY <1>1, <1>2, <1>3

\* The lines after the update.
LEMMA ClosingLines ==
    List(Closing) /\ Elements(Closing) = {Line("flash", guest.trace), Line("registers", 0)}
<1> DEFINE x == Printed(Cmd("report_flash", 0))
           y == Printed(Cmd("registers", 0))
<1>1. /\ List(x) /\ List(y) /\ Elements(x) = {Line("flash", guest.trace)}
      /\ Elements(y) = {Line("registers", 0)}
  BY PrintedRegisters, PrintedFlash
<1>2. Closing = x \o y
  BY DEF Closing
<1> HIDE DEF x, y
<1>3. List(x \o y) /\ Elements(x \o y) = Elements(x) \cup Elements(y)
  BY <1>1, TwoLists
<1> QED
  BY ONLY <1>1, <1>2, <1>3

TransferLines(n) == {Line("transfer_begin", 0)}
    \cup When(~CutHits(n) /\ guest.outcome # None, Line("outcome", guest.outcome))
RebootLines(n) == {Line("cut_triggered", CutHits(n)), Line("reboot", 0)}
    \cup When(guest.after_cut[n] # None, Line("outcome", guest.after_cut[n]))

\* The lines of the update.
LEMMA UpdateLines ==
    ASSUME NEW n
    PROVE  /\ ~job.firmware_driven => Elements(Update(n)) = {}
           /\ job.firmware_driven /\ ~(n > 0) => Elements(Update(n)) = TransferLines(n)
           /\ job.firmware_driven /\ n > 0 => Elements(Update(n)) = TransferLines(n) \cup RebootLines(n)
<1> DEFINE x == Transferred(n)
           y == Rebooted(n)
           u == Update(n)
<1>1. List(x) /\ List(y) /\ Elements(x) = TransferLines(n) /\ Elements(y) = RebootLines(n)
  BY PrintedTransfer, PrintedReboot DEF Transferred, Rebooted, TransferLines, RebootLines
<1>2. /\ ~job.firmware_driven => u = <<>>
      /\ job.firmware_driven /\ ~(n > 0) => u = x
      /\ job.firmware_driven /\ n > 0 => u = x \o y
  BY OtaIs DEF Update
<1> HIDE DEF x, y, u
<1>3. Elements(x \o y) = Elements(x) \cup Elements(y)
  BY <1>1, TwoLists
<1>4. /\ ~job.firmware_driven => Elements(u) = {}
      /\ job.firmware_driven /\ ~(n > 0) => Elements(u) = Elements(x)
      /\ job.firmware_driven /\ n > 0 => Elements(u) = Elements(x \o y)
  BY ONLY <1>2, ElementsFew
<1> QED
  BY <1>1, <1>3, <1>4 DEF u

\* No line of the firmware reads like an error of the simulator.
LEMMA TranscriptQuiet ==
    ASSUME Described(job, guest), NEW n
    PROVE  \A l \in Elements(Transcript(n)) : l.kind \notin {"fault", "error"}
<1>1. \A l \in FirmwareLines : l.kind \notin {"fault", "error"}
  BY DEF FirmwareLines, When, Line
<1>2. \A l \in ProbeLines : l.kind \notin {"fault", "error"}
  BY DEF ProbeLines, ProbeLine, Line
<1>3. \A l \in Elements(Factory) : l.kind \notin {"fault", "error"}
  BY FactoryLines DEF When, Line
<1>4. \A l \in Elements(Closing) : l.kind \notin {"fault", "error"}
  BY ClosingLines DEF Line
<1>5. \A l \in TransferLines(n) \cup RebootLines(n) : l.kind \notin {"fault", "error"}
  BY DEF TransferLines, RebootLines, When, Line
<1>6. Elements(Update(n)) \subseteq TransferLines(n) \cup RebootLines(n)
  BY UpdateLines
<1> QED
  BY <1>1, <1>2, <1>3, <1>4, <1>5, <1>6, ProfileLines, TranscriptElements

-----------------------------------------------------------------------------
(* The process, its readers and the runner.                                   *)

InFlight(arrived, sent, pipes) ==
    ((Elements(arrived) \cup Elements(sent)) \cup Elements(pipes["stdout"])) \cup Elements(pipes["stderr"])

ListsTyped ==
    /\ Commands(script) /\ List(channel) /\ List(combined)
    /\ DOMAIN pipe = Pipes /\ List(pipe["stdout"]) /\ List(pipe["stderr"])
    /\ reading \subseteq Pipes
    /\ mishap \in {"none", "crash", "fault", "error"}
    /\ runner \in {"idle", "receive", "kill", "poll", "join", "judge", "next", "done", "failed"}

\* A reader ends only after the last line.
Drained ==
    \A p \in Pipes : p \notin reading => pipe[p] = <<>> /\ runtime \in {"gone", "none"} /\ child # "alive"

\* While no process runs nothing is on its way.
Settled ==
    runner \in {"idle", "judge", "next", "done", "failed"} => reading = {} /\ channel = <<>>

Undisturbed ==
    /\ Whole(combined, channel, pipe["stdout"], script) = Transcript(cut)
    /\ pipe["stderr"] = <<>> /\ ~faulted /\ runner # "kill"
    /\ child \in {"alive", "ok"}
    /\ (runtime = "busy" /\ child = "alive") \/ (runtime = "gone" /\ script = <<>>)

\* What went wrong shows: in the end of the process or in a line.
Marked ==
    /\ runner \in {"receive", "kill", "poll", "join", "judge", "failed"}
    /\ mishap = "crash" => child # "ok"
    /\ mishap # "crash" => \E l \in InFlight(combined, channel, pipe) : l.kind = mishap

ProcessInv ==
    /\ ListsTyped /\ Drained /\ Settled
    /\ (mishap = "none" /\ runner \notin {"idle", "failed"}) => Undisturbed
    /\ mishap # "none" => Marked

\* The settings and the firmware do not change.
LEMMA ScriptRigid ==
    ASSUME job' = job, guest' = guest
    PROVE  RenderScript(cut)' = RenderScript(cut')
<1>1. Probes' = Probes
  BY DEF Probes
<1>2. ProfileScript' = ProfileScript
  BY <1>1 DEF ProfileScript
<1>3. OtaScript(cut)' = OtaScript(cut')
  BY DEF OtaScript
<1> QED
  BY <1>2, <1>3 DEF RenderScript

\* What is shown of the script depends on settings and firmware, which do not change.
LEMMA ShownRigid ==
    ASSUME job' = job, guest' = guest
    PROVE  /\ Shown(script)' = Shown(script')
           /\ Commands(script)' = Commands(script')
           /\ Transcript(cut)' = Transcript(cut')
<1>1. \A i : (Printed(script[i]))' = Printed(script'[i])
  BY DEF Printed, CutHits
<1>2. Shown(script)' = Shown(script')
  BY <1>1 DEF Shown
<1>3. Commands(script)' = Commands(script')
  BY <1>1 DEF Commands
<1>4. \A i : (Printed(RenderScript(cut)[i]))' = Printed(RenderScript(cut')[i])
  <2>1. RenderScript(cut)' = RenderScript(cut')
    BY ScriptRigid
  <2> QED
    BY <2>1 DEF Printed, CutHits
<1>5. Transcript(cut)' = Transcript(cut')
  <2>1. RenderScript(cut)' = RenderScript(cut')
    BY ScriptRigid
  <2> QED
    BY <1>4, <2>1 DEF Transcript, Shown
<1> QED
  BY <1>2, <1>3, <1>5

Holds(co, ch, pi, sc, n) == Whole(co, ch, pi["stdout"], sc) = Transcript(n)

\* The operators of the process invariant do not change with them either.
LEMMA Rigid ==
    ASSUME job' = job, guest' = guest
    PROVE  /\ Commands(script') => Commands(script)'
           /\ Holds(combined', channel', pipe', script', cut')
                 => (Whole(combined, channel, pipe["stdout"], script) = Transcript(cut))'
<1>1. /\ Shown(script)' = Shown(script') /\ Commands(script)' = Commands(script')
      /\ Transcript(cut)' = Transcript(cut')
  BY ShownRigid
<1>2. Commands(script') => Commands(script)'
  BY <1>1
<1>3. ASSUME Holds(combined', channel', pipe', script', cut')
      PROVE  (Whole(combined, channel, pipe["stdout"], script) = Transcript(cut))'
  <2>1. Whole(combined', channel', pipe'["stdout"], script') = Transcript(cut')
    BY <1>3 DEF Holds
  <2>2. combined' \o (channel' \o (pipe'["stdout"] \o Shown(script'))) = Transcript(cut')
    BY <2>1 DEF Whole
  <2>3. (combined \o (channel \o (pipe["stdout"] \o Shown(script))))' = Transcript(cut)'
    BY <1>1, <2>2
  <2> QED
    BY <2>3 DEF Whole
<1> QED
  BY <1>2, <1>3

\* A reader sends one line to the channel.
LEMMA ForwardKept == ASSUME ProcessInv, NEW p \in Pipes, Forward(p) PROVE ProcessInv'
<1>1. /\ p \in reading /\ pipe[p] # <<>>
      /\ channel' = Append(channel, Head(pipe[p])) /\ pipe' = [pipe EXCEPT ![p] = Tail(@)]
      /\ UNCHANGED <<job, guest, cut, script, runtime, child, reading, combined, faulted, mishap, runner>>
  BY DEF Forward
<1>2. /\ Commands(script) /\ List(channel) /\ List(combined) /\ DOMAIN pipe = Pipes
      /\ List(pipe["stdout"]) /\ List(pipe["stderr"]) /\ reading \subseteq Pipes
      /\ mishap \in {"none", "crash", "fault", "error"}
      /\ runner \in {"idle", "receive", "kill", "poll", "join", "judge", "next", "done", "failed"}
  BY DEF ProcessInv, ListsTyped
<1>3. List(pipe[p]) /\ List(<<>>)
  BY <1>2, EmptyList DEF Pipes
<1>4. /\ List(channel') /\ List(Tail(pipe[p])) /\ Head(pipe[p]) \in Elements(pipe[p])
      /\ Elements(channel') = Elements(channel) \cup {Head(pipe[p])}
      /\ Elements(pipe[p]) = {Head(pipe[p])} \cup Elements(Tail(pipe[p]))
  BY <1>1, <1>2, <1>3, HeadMoves
<1>5. pipe'[p] = Tail(pipe[p]) /\ DOMAIN pipe' = Pipes /\ \A q \in Pipes : q # p => pipe'[q] = pipe[q]
  BY <1>1, <1>2
<1>6. ListsTyped'
  <2>1. List(pipe'["stdout"]) /\ List(pipe'["stderr"])
    BY <1>2, <1>4, <1>5 DEF Pipes
  <2> QED
    BY <1>1, <1>2, <1>4, <1>5, <2>1, Rigid DEF ListsTyped
<1>7. Drained'
  BY <1>1, <1>2, <1>5 DEF Drained, ProcessInv
<1>8. Settled'
  BY <1>1 DEF Settled, ProcessInv
<1>9. ASSUME mishap' = "none", runner' \notin {"idle", "failed"} PROVE Undisturbed'
  <2>1. Undisturbed
    BY <1>1, <1>9 DEF ProcessInv
  <2>2. p = "stdout" /\ pipe'["stderr"] = pipe["stderr"] /\ pipe'["stdout"] = Tail(pipe["stdout"])
    BY <1>1, <1>5, <2>1 DEF Undisturbed, Pipes
  <2>3. Whole(combined, Append(channel, Head(pipe["stdout"])), Tail(pipe["stdout"]), script)
            = Whole(combined, channel, pipe["stdout"], script)
    BY <1>1, <1>2, <2>2, ForwardMoves
  <2>4. Holds(combined', channel', pipe', script', cut')
    BY <1>1, <2>1, <2>2, <2>3 DEF Undisturbed, Holds
  <2> QED
    BY <1>1, <2>1, <2>2, <2>4, Rigid DEF Undisturbed
<1>10. ASSUME mishap' # "none" PROVE Marked'
  <2>1. Marked
    BY <1>1, <1>10 DEF ProcessInv
  <2>2. InFlight(combined, channel, pipe) \subseteq InFlight(combined', channel', pipe')
    BY <1>1, <1>4, <1>5 DEF InFlight, Pipes
  <2> QED
    BY <1>1, <2>1, <2>2 DEF Marked
<1> QED
  BY <1>6, <1>7, <1>8, <1>9, <1>10 DEF ProcessInv

\* A reader ends at the end of its pipe.
LEMMA ReaderEndsKept == ASSUME ProcessInv, NEW p \in Pipes, ReaderEnds(p) PROVE ProcessInv'
<1>1. /\ p \in reading /\ Closed(p) /\ reading' = reading \ {p}
      /\ UNCHANGED <<job, guest, cut, script, runtime, child, pipe, channel, combined, faulted, mishap, runner>>
  BY DEF ReaderEnds
<1>2. ListsTyped'
  BY <1>1, Rigid DEF ListsTyped, ProcessInv
<1>3. Drained'
  BY <1>1 DEF Drained, ProcessInv, Closed
<1>4. Settled'
  BY <1>1 DEF Settled, ProcessInv
<1>5. ASSUME mishap' = "none", runner' \notin {"idle", "failed"} PROVE Undisturbed'
  <2>1. Undisturbed
    BY <1>1, <1>5 DEF ProcessInv
  <2>2. Holds(combined', channel', pipe', script', cut')
    BY <1>1, <2>1 DEF Undisturbed, Holds
  <2> QED
    BY <1>1, <2>1, <2>2, Rigid DEF Undisturbed
<1>6. ASSUME mishap' # "none" PROVE Marked'
  BY <1>1, <1>6 DEF ProcessInv, Marked
<1> QED
  BY <1>2, <1>3, <1>4, <1>5, <1>6 DEF ProcessInv

\* A command prints to the pipe and leaves the script.
LEMMA CommandRunsKept == ASSUME ProcessInv, CommandRuns PROVE ProcessInv'
<1> DEFINE x == Printed(Head(script))
<1>1. /\ runtime = "busy" /\ script # <<>> /\ script' = Tail(script)
      /\ pipe' = [pipe EXCEPT !["stdout"] = pipe["stdout"] \o x]
      /\ UNCHANGED <<job, guest, cut, reading, channel, combined, faulted, runtime, child, mishap, runner>>
  BY DEF CommandRuns, Busy, Write, RunnerUntouched
<1>2. /\ Commands(script) /\ List(channel) /\ List(combined) /\ DOMAIN pipe = Pipes
      /\ List(pipe["stdout"]) /\ List(pipe["stderr"]) /\ reading \subseteq Pipes
      /\ mishap \in {"none", "crash", "fault", "error"}
      /\ runner \in {"idle", "receive", "kill", "poll", "join", "judge", "next", "done", "failed"}
  BY DEF ProcessInv, ListsTyped
<1>3. /\ Commands(Tail(script)) /\ List(pipe["stdout"] \o x) /\ List(x)
      /\ Whole(combined, channel, pipe["stdout"] \o x, Tail(script))
            = Whole(combined, channel, pipe["stdout"], script)
  BY <1>1, <1>2, CommandMoves
<1>4. Elements(pipe["stdout"] \o x) = Elements(pipe["stdout"]) \cup Elements(x)
  BY <1>2, <1>3, ElementsConcat
<1> HIDE DEF x
<1>5. /\ pipe'["stdout"] = pipe["stdout"] \o x /\ pipe'["stderr"] = pipe["stderr"]
      /\ DOMAIN pipe' = Pipes
  BY <1>1, <1>2 DEF Pipes
<1>6. ListsTyped'
  BY <1>1, <1>2, <1>3, <1>5, Rigid DEF ListsTyped
<1>7. Drained'
  BY <1>1 DEF Drained, ProcessInv
<1>8. Settled'
  BY <1>1 DEF Settled, ProcessInv
<1>9. ASSUME mishap' = "none", runner' \notin {"idle", "failed"} PROVE Undisturbed'
  <2>1. Undisturbed
    BY <1>1, <1>9 DEF ProcessInv
  <2>4. Holds(combined', channel', pipe', script', cut')
    BY <1>1, <1>3, <1>5, <2>1 DEF Undisturbed, Holds
  <2> QED
    BY <1>1, <1>5, <2>1, <2>4, Rigid DEF Undisturbed
<1>10. ASSUME mishap' # "none" PROVE Marked'
  <2>1. Marked
    BY <1>1, <1>10 DEF ProcessInv
  <2>2. InFlight(combined, channel, pipe) \subseteq InFlight(combined', channel', pipe')
    BY <1>1, <1>4, <1>5 DEF InFlight
  <2> QED
    BY <1>1, <2>1, <2>2 DEF Marked
<1> QED
  BY <1>6, <1>7, <1>8, <1>9, <1>10 DEF ProcessInv

\* The script is done and Renode quits.
LEMMA ScriptQuitsKept == ASSUME ProcessInv, ScriptQuits PROVE ProcessInv'
<1>1. /\ runtime = "busy" /\ script = <<>> /\ runtime' = "gone"
      /\ UNCHANGED <<job, guest, cut, reading, channel, combined, faulted, script, pipe, child, mishap, runner>>
  BY DEF ScriptQuits, RunnerUntouched
<1>2. ListsTyped'
  BY <1>1, Rigid DEF ListsTyped, ProcessInv
<1>3. Drained'
  BY <1>1 DEF Drained, ProcessInv
<1>4. Settled'
  BY <1>1 DEF Settled, ProcessInv
<1>5. ASSUME mishap' = "none", runner' \notin {"idle", "failed"} PROVE Undisturbed'
  <2>1. Undisturbed
    BY <1>1, <1>5 DEF ProcessInv
  <2>2. Holds(combined', channel', pipe', script', cut')
    BY <1>1, <2>1 DEF Undisturbed, Holds
  <2> QED
    BY <1>1, <2>1, <2>2, Rigid DEF Undisturbed
<1>6. ASSUME mishap' # "none" PROVE Marked'
  BY <1>1, <1>6 DEF ProcessInv, Marked
<1> QED
  BY <1>2, <1>3, <1>4, <1>5, <1>6 DEF ProcessInv

\* The process the runner waits for ends.
LEMMA ChildEndsKept == ASSUME ProcessInv, ChildEnds PROVE ProcessInv'
<1>1. /\ child = "alive" /\ runtime = "gone"
      /\ child' = IF mishap = "crash" THEN "failed" ELSE "ok"
      /\ UNCHANGED <<job, guest, cut, reading, channel, combined, faulted, script, pipe, runtime, mishap, runner>>
  BY DEF ChildEnds, RunnerUntouched
<1>2. ListsTyped'
  BY <1>1, Rigid DEF ListsTyped, ProcessInv
<1>3. Drained'
  BY <1>1 DEF Drained, ProcessInv
<1>4. Settled'
  BY <1>1 DEF Settled, ProcessInv
<1>5. ASSUME mishap' = "none", runner' \notin {"idle", "failed"} PROVE Undisturbed'
  <2>1. Undisturbed
    BY <1>1, <1>5 DEF ProcessInv
  <2>2. Holds(combined', channel', pipe', script', cut')
    BY <1>1, <2>1 DEF Undisturbed, Holds
  <2> QED
    BY <1>1, <1>5, <2>1, <2>2, Rigid DEF Undisturbed
<1>6. ASSUME mishap' # "none" PROVE Marked'
  BY <1>1, <1>6 DEF ProcessInv, Marked
<1> QED
  BY <1>2, <1>3, <1>4, <1>5, <1>6 DEF ProcessInv

\* While the runtime works, the readers are there and the runner waits.
LEMMA BusyRuns ==
    ASSUME ProcessInv, runtime = "busy"
    PROVE  reading = Pipes /\ runner \in {"receive", "kill", "poll", "join"}
BY DEF ProcessInv, ListsTyped, Drained, Settled, Pipes

\* A mishap that is written to a pipe is on its way to the transcript.
LEMMA MishapWritten ==
    ASSUME ProcessInv, runtime = "busy", mishap = "none",
           runner \in {"receive", "kill", "poll", "join"}, NEW p \in Pipes, NEW k \in {"fault", "error"},
           pipe' = [pipe EXCEPT ![p] = @ \o <<Line(k, 0)>>], mishap' = k,
           script' = <<>> \/ script' = script,
           UNCHANGED <<job, guest, cut, reading, channel, combined, faulted, child, runner>>
    PROVE  ProcessInv'
<1> DEFINE x == <<Line(k, 0)>>
<1>1. pipe' = [pipe EXCEPT ![p] = pipe[p] \o x]
  OBVIOUS
<1>2. /\ Commands(script) /\ List(channel) /\ List(combined) /\ DOMAIN pipe = Pipes
      /\ List(pipe["stdout"]) /\ List(pipe["stderr"]) /\ reading \subseteq Pipes
  BY DEF ProcessInv, ListsTyped
<1>3. List(pipe[p]) /\ List(x) /\ Elements(x) = {Line(k, 0)}
  BY <1>2, SingleList, ElementsFew DEF Pipes
<1> HIDE DEF x
<1>4. List(pipe[p] \o x) /\ Elements(pipe[p] \o x) = Elements(pipe[p]) \cup {Line(k, 0)}
  BY <1>3, TwoLists
<1>5. /\ pipe'[p] = pipe[p] \o x /\ DOMAIN pipe' = Pipes
      /\ \A q \in Pipes : q # p => pipe'[q] = pipe[q]
  BY <1>1, <1>2
<1>6. ListsTyped'
  <2>1. List(pipe'["stdout"]) /\ List(pipe'["stderr"])
    BY <1>2, <1>4, <1>5 DEF Pipes
  <2>2. Commands(script')
    BY <1>2, ShownNone
  <2> QED
    BY <1>2, <1>5, <2>1, <2>2, Rigid DEF ListsTyped
<1>7. reading = Pipes
  BY BusyRuns
<1>8. Drained' /\ Settled'
  BY <1>7 DEF Drained, Settled
<1>9. Marked'
  <2>1. Line(k, 0) \in InFlight(combined', channel', pipe')
    BY <1>4, <1>5 DEF InFlight, Pipes
  <2>2. Line(k, 0).kind = mishap'
    BY DEF Line
  <2> QED
    BY <2>1, <2>2 DEF Marked
<1> QED
  BY <1>6, <1>8, <1>9 DEF ProcessInv

\* A command fails.
LEMMA CommandFailsKept == ASSUME ProcessInv, NEW p \in Pipes, CommandFails(p) PROVE ProcessInv'
<1>1. /\ runtime = "busy" /\ mishap = "none" /\ mishap' = "fault" /\ script' = <<>>
      /\ pipe' = [pipe EXCEPT ![p] = @ \o <<Line("fault", 0)>>]
      /\ UNCHANGED <<job, guest, cut, reading, channel, combined, faulted, child, runner>>
  BY DEF CommandFails, Busy, Write, RunnerUntouched
<1>2. runner \in {"receive", "kill", "poll", "join"}
  BY <1>1, BusyRuns
<1> QED
  BY <1>1, <1>2, MishapWritten

\* An error is logged.
LEMMA ErrorLoggedKept == ASSUME ProcessInv, NEW p \in Pipes, ErrorLogged(p) PROVE ProcessInv'
<1>1. /\ runtime = "busy" /\ mishap = "none" /\ mishap' = "error" /\ script' = script
      /\ pipe' = [pipe EXCEPT ![p] = @ \o <<Line("error", 0)>>]
      /\ UNCHANGED <<job, guest, cut, reading, channel, combined, faulted, child, runner>>
  BY DEF ErrorLogged, Busy, Write, RunnerUntouched
<1>2. runner \in {"receive", "kill", "poll", "join"}
  BY <1>1, BusyRuns
<1> QED
  BY <1>1, <1>2, MishapWritten

\* The runtime crashes; its end tells.
LEMMA RuntimeCrashesKept == ASSUME ProcessInv, RuntimeCrashes PROVE ProcessInv'
<1>1. /\ runtime = "busy" /\ mishap = "none" /\ mishap' = "crash" /\ script' = <<>> /\ runtime' = "gone"
      /\ UNCHANGED <<job, guest, cut, reading, channel, combined, faulted, child, pipe, runner>>
  BY DEF RuntimeCrashes, Busy, RunnerUntouched
<1>2. reading = Pipes /\ runner \in {"receive", "kill", "poll", "join"}
  BY <1>1, BusyRuns
<1>3. child # "ok"
  <2>1. Undisturbed
    BY <1>1, <1>2 DEF ProcessInv
  <2> QED
    BY <1>1, <2>1 DEF Undisturbed
<1>4. ListsTyped'
  BY <1>1, ShownNone, Rigid DEF ListsTyped, ProcessInv
<1>5. Drained' /\ Settled' /\ Marked'
  BY <1>1, <1>2, <1>3 DEF Drained, Settled, Marked
<1> QED
  BY <1>1, <1>4, <1>5 DEF ProcessInv

\* The runner receives a line.
LEMMA ReceiveKept == ASSUME ProcessInv, Described(job, guest), Receive PROVE ProcessInv'
<1> DEFINE h == Head(channel)
<1>1. /\ runner = "receive" /\ channel # <<>> /\ combined' = Append(combined, h) /\ channel' = Tail(channel)
      /\ faulted' = (faulted \/ h.kind = "fault")
      /\ runner' = IF h.kind = "fault" THEN "kill" ELSE "poll"
      /\ UNCHANGED <<job, guest, cut, script, pipe, reading, runtime, child, mishap>>
  BY DEF Receive, ProcessUntouched
<1>2. /\ Commands(script) /\ List(channel) /\ List(combined) /\ DOMAIN pipe = Pipes
      /\ List(pipe["stdout"]) /\ List(pipe["stderr"]) /\ reading \subseteq Pipes
      /\ mishap \in {"none", "crash", "fault", "error"}
  BY DEF ProcessInv, ListsTyped
<1>3. List(<<>>)
  BY EmptyList
<1>4. /\ List(combined') /\ List(channel') /\ h \in Elements(channel)
      /\ Elements(combined') = Elements(combined) \cup {h}
      /\ Elements(channel) = {h} \cup Elements(channel')
  BY <1>1, <1>2, <1>3, HeadMoves
<1> HIDE DEF h
<1>5. ListsTyped'
  BY <1>1, <1>2, <1>4, Rigid DEF ListsTyped
<1>6. Drained'
  BY <1>1 DEF Drained, ProcessInv
<1>7. Settled'
  BY <1>1 DEF Settled
<1>8. ASSUME mishap' = "none" PROVE Undisturbed'
  <2>1. Undisturbed
    BY <1>1, <1>8 DEF ProcessInv
  <2>2. Whole(combined', channel', pipe["stdout"], script) = Whole(combined, channel, pipe["stdout"], script)
    <3>1. Whole(Append(combined, Head(channel)), Tail(channel), pipe["stdout"], script)
              = Whole(combined, channel, pipe["stdout"], script)
      BY <1>1, <1>2, ReceiveMoves
    <3> QED
      BY <1>1, <3>1 DEF h
  <2>3. h.kind # "fault"
    <3> DEFINE y == Shown(script)
               z == pipe["stdout"] \o y
               w == channel \o z
    <3>1. List(y)
      BY <1>2, ShownElements
    <3>2. List(z)
      BY <1>2, <3>1, ListConcat
    <3> HIDE DEF z
    <3>3. List(w) /\ Elements(w) = Elements(channel) \cup Elements(z)
      BY <1>2, <3>2, TwoLists
    <3> HIDE DEF w
    <3>4. Elements(combined \o w) = Elements(combined) \cup Elements(w)
      BY <1>2, <3>3, TwoLists
    <3>5. Whole(combined, channel, pipe["stdout"], script) = combined \o w
      BY DEF Whole, w, z
    <3>6. h \in Elements(Transcript(cut))
      BY <1>4, <2>1, <3>3, <3>4, <3>5 DEF Undisturbed
    <3> QED
      BY <3>6, TranscriptQuiet
  <2>4. Holds(combined', channel', pipe', script', cut')
    BY <1>1, <2>1, <2>2 DEF Undisturbed, Holds
  <2> QED
    BY <1>1, <2>1, <2>3, <2>4, Rigid DEF Undisturbed
<1>9. ASSUME mishap' # "none" PROVE Marked'
  <2>1. Marked
    BY <1>1, <1>9 DEF ProcessInv
  <2>2. InFlight(combined, channel, pipe) \subseteq InFlight(combined', channel', pipe')
    BY <1>1, <1>4 DEF InFlight
  <2> QED
    BY <1>1, <2>1, <2>2 DEF Marked
<1> QED
  BY <1>5, <1>6, <1>7, <1>8, <1>9 DEF ProcessInv

\* The runner receives none.
LEMMA TimeoutKept == ASSUME ProcessInv, ReceiveTimeout PROVE ProcessInv'
<1>1. /\ runner = "receive" /\ runner' = "poll"
      /\ UNCHANGED <<job, guest, cut, script, pipe, reading, runtime, child, channel, combined, faulted, mishap>>
  BY DEF ReceiveTimeout, ProcessUntouched
<1>2. ListsTyped'
  BY <1>1, Rigid DEF ListsTyped, ProcessInv
<1>3. Drained' /\ Settled'
  BY <1>1 DEF Drained, Settled, ProcessInv
<1>5. ASSUME mishap' = "none" PROVE Undisturbed'
  <2>1. Undisturbed
    BY <1>1, <1>5 DEF ProcessInv
  <2>2. Holds(combined', channel', pipe', script', cut')
    BY <1>1, <2>1 DEF Undisturbed, Holds
  <2> QED
    BY <1>1, <2>1, <2>2, Rigid DEF Undisturbed
<1>6. ASSUME mishap' # "none" PROVE Marked'
  BY <1>1, <1>6 DEF ProcessInv, Marked
<1> QED
  BY <1>2, <1>3, <1>5, <1>6 DEF ProcessInv

\* The runner kills its child, and only after a fault was received.
LEMMA KillKept == ASSUME ProcessInv, KillChild PROVE ProcessInv'
<1>1. /\ runner = "kill" /\ runner' = "poll"
      /\ child' = IF child = "alive" THEN "killed" ELSE child
      /\ runtime' \in {"gone", runtime}
      /\ UNCHANGED <<job, guest, cut, script, pipe, reading, channel, combined, faulted, mishap>>
  BY DEF KillChild, ProcessUntouched
<1>2. mishap # "none" /\ Marked
  BY <1>1 DEF ProcessInv, Undisturbed
<1>3. ListsTyped'
  BY <1>1, Rigid DEF ListsTyped, ProcessInv
<1>4. Drained'
  BY <1>1 DEF Drained, ProcessInv
<1>5. Settled' /\ Marked'
  BY <1>1, <1>2 DEF Settled, Marked
<1> QED
  BY <1>1, <1>2, <1>3, <1>4, <1>5 DEF ProcessInv

\* The runner asks for the end of its child.
LEMMA PollKept == ASSUME ProcessInv, Poll PROVE ProcessInv'
<1>1. /\ runner = "poll" /\ runner' \in {"receive", "join"}
      /\ UNCHANGED <<job, guest, cut, script, pipe, reading, runtime, child, channel, combined, faulted, mishap>>
  BY DEF Poll, ProcessUntouched
<1>2. ListsTyped'
  BY <1>1, Rigid DEF ListsTyped, ProcessInv
<1>3. Drained' /\ Settled'
  BY <1>1 DEF Drained, Settled, ProcessInv
<1>5. ASSUME mishap' = "none" PROVE Undisturbed'
  <2>1. Undisturbed
    BY <1>1, <1>5 DEF ProcessInv
  <2>2. Holds(combined', channel', pipe', script', cut')
    BY <1>1, <2>1 DEF Undisturbed, Holds
  <2> QED
    BY <1>1, <2>1, <2>2, Rigid DEF Undisturbed
<1>6. ASSUME mishap' # "none" PROVE Marked'
  BY <1>1, <1>6 DEF ProcessInv, Marked
<1> QED
  BY <1>2, <1>3, <1>5, <1>6 DEF ProcessInv

\* The runner joins the readers and takes what they sent.
LEMMA JoinKept == ASSUME ProcessInv, Join PROVE ProcessInv'
<1>1. /\ runner = "join" /\ runner' = "judge" /\ reading = {}
      /\ combined' = combined \o channel /\ channel' = <<>>
      /\ UNCHANGED <<job, guest, cut, script, pipe, reading, runtime, child, faulted, mishap>>
  BY DEF Join, ProcessUntouched
<1>2. /\ Commands(script) /\ List(channel) /\ List(combined) /\ DOMAIN pipe = Pipes
      /\ List(pipe["stdout"]) /\ List(pipe["stderr"]) /\ reading \subseteq Pipes
      /\ mishap \in {"none", "crash", "fault", "error"}
  BY DEF ProcessInv, ListsTyped
<1>3. List(combined') /\ Elements(combined') = Elements(combined) \cup Elements(channel)
  BY <1>1, <1>2, TwoLists
<1>4. List(channel')
  BY <1>1, EmptyList
<1>5. ListsTyped'
  BY <1>1, <1>2, <1>3, <1>4, Rigid DEF ListsTyped
<1>6. Drained' /\ Settled'
  BY <1>1 DEF Drained, Settled, ProcessInv
<1>8. ASSUME mishap' = "none" PROVE Undisturbed'
  <2>1. Undisturbed
    BY <1>1, <1>8 DEF ProcessInv
  <2>2. Whole(combined \o channel, <<>>, pipe["stdout"], script)
            = Whole(combined, channel, pipe["stdout"], script)
    BY <1>2, JoinMoves
  <2>4. Holds(combined', channel', pipe', script', cut')
    BY <1>1, <2>1, <2>2 DEF Undisturbed, Holds
  <2> QED
    BY <1>1, <2>1, <2>4, Rigid DEF Undisturbed
<1>9. ASSUME mishap' # "none" PROVE Marked'
  <2>1. Marked
    BY <1>1, <1>9 DEF ProcessInv
  <2>2. InFlight(combined, channel, pipe) \subseteq InFlight(combined', channel', pipe')
    BY <1>1, <1>3 DEF InFlight
  <2> QED
    BY <1>1, <2>1, <2>2 DEF Marked
<1> QED
  BY <1>5, <1>6, <1>8, <1>9 DEF ProcessInv

\* A transcript without a trace of a mishap is all that the firmware printed.
LEMMA CleanComplete ==
    ASSUME ProcessInv, runner = "judge"
    PROVE  /\ mishap # "none" => ~TranscriptClean
           /\ mishap = "none" => combined = Transcript(cut) /\ child = "ok" /\ ~faulted
<1>1. reading = {} /\ channel = <<>>
  BY DEF ProcessInv, Settled
<1>2. pipe["stdout"] = <<>> /\ pipe["stderr"] = <<>> /\ child # "alive" /\ runtime \in {"gone", "none"}
  BY <1>1 DEF ProcessInv, Drained, Pipes
<1>3. Commands(script) /\ List(combined) /\ mishap \in {"none", "crash", "fault", "error"}
  BY DEF ProcessInv, ListsTyped
<1>4. ASSUME mishap # "none" PROVE ~TranscriptClean
  <2>1. Marked
    BY <1>4 DEF ProcessInv
  <2>2. CASE mishap = "crash"
    BY <2>1, <2>2 DEF Marked, TranscriptClean
  <2>3. CASE mishap # "crash"
    <3>1. PICK l \in InFlight(combined, channel, pipe) : l.kind = mishap
      BY <2>1, <2>3 DEF Marked
    <3>2. l \in Elements(combined)
      BY <1>1, <1>2, <3>1, ElementsFew DEF InFlight
    <3>3. Observed(mishap, combined)
      BY <3>1, <3>2 DEF Observed, Elements
    <3>4. mishap \in {"fault", "error"}
      BY <1>3, <1>4, <2>3
    <3> QED
      BY <3>3, <3>4 DEF TranscriptClean
  <2> QED
    BY <2>2, <2>3
<1>5. ASSUME mishap = "none" PROVE combined = Transcript(cut) /\ child = "ok" /\ ~faulted
  <2>1. Undisturbed
    BY <1>5 DEF ProcessInv
  <2>2. script = <<>> /\ child = "ok" /\ ~faulted
    BY <1>2, <2>1 DEF Undisturbed
  <2>3. Whole(combined, <<>>, <<>>, <<>>) = Transcript(cut)
    BY <1>1, <1>2, <2>1, <2>2 DEF Undisturbed
  <2>4. <<>> \o <<>> = <<>> /\ combined \o <<>> = combined
    BY <1>3, EmptyList, ListNeutral
  <2>5. Whole(combined, <<>>, <<>>, <<>>) = combined
    BY <2>4, ShownNone DEF Whole
  <2> QED
    BY <2>2, <2>3, <2>5
<1> QED
  BY <1>4, <1>5

\* The runner alone moves between two processes.
LEMMA RunnerMoves ==
    ASSUME ProcessInv, runner \in {"judge", "next"}, runner' \in {"next", "done", "failed"},
           UNCHANGED <<job, guest, mishap>>, UNCHANGED <<procVars, cut>>,
           mishap = "none" \/ runner' = "failed"
    PROVE  ProcessInv'
<1>1. UNCHANGED <<job, guest, cut, script, pipe, reading, runtime, child, channel, combined, faulted, mishap>>
  BY DEF procVars
<1>2. ListsTyped'
  BY <1>1, Rigid DEF ListsTyped, ProcessInv
<1>3. Drained' /\ Settled'
  BY <1>1 DEF Drained, Settled, ProcessInv
<1>5. ASSUME mishap' = "none", runner' # "failed" PROVE Undisturbed'
  <2>1. Undisturbed
    BY <1>1, <1>5 DEF ProcessInv
  <2>2. Holds(combined', channel', pipe', script', cut')
    BY <1>1, <2>1 DEF Undisturbed, Holds
  <2> QED
    BY <1>1, <2>1, <2>2, Rigid DEF Undisturbed
<1>6. ASSUME mishap' # "none" PROVE Marked'
  BY <1>1, <1>6 DEF ProcessInv, Marked
<1> QED
  BY <1>1, <1>2, <1>3, <1>5, <1>6 DEF ProcessInv

\* The runner judges the first process.
LEMMA JudgeBaselineKept == ASSUME ProcessInv, JudgeBaseline PROVE ProcessInv'
<1>1. /\ runner = "judge" /\ UNCHANGED <<job, guest, mishap>> /\ UNCHANGED <<procVars, cut>>
      /\ (BaselineAccepted /\ runner' = "next") \/ runner' = "failed"
  BY DEF JudgeBaseline, ProcessGone, SettingsUntouched
<1>2. BaselineAccepted => mishap = "none"
  BY <1>1, CleanComplete DEF BaselineAccepted
<1> QED
  BY <1>1, <1>2, RunnerMoves

\* The runner judges the process of a cut.
LEMMA JudgeCutKept == ASSUME ProcessInv, JudgeCut PROVE ProcessInv'
<1>1. /\ runner = "judge" /\ UNCHANGED <<job, guest, mishap>> /\ UNCHANGED <<procVars, cut>>
      /\ (CutAccepted /\ runner' = "next") \/ runner' = "failed"
  BY DEF JudgeCut, ProcessGone, SettingsUntouched
<1>2. CutAccepted => mishap = "none"
  BY <1>1, CleanComplete DEF CutAccepted
<1> QED
  BY <1>1, <1>2, RunnerMoves

\* Nothing is left to cut.
LEMMA ExecutionEndKept == ASSUME ProcessInv, ExecutionEnd PROVE ProcessInv'
<1>1. /\ runner = "next" /\ UNCHANGED <<job, guest, mishap>> /\ UNCHANGED <<procVars, cut>>
      /\ runner' = "done"
  BY DEF ExecutionEnd, ProcessGone, SettingsUntouched
<1>2. mishap = "none"
  BY <1>1 DEF ProcessInv, Marked
<1> QED
  BY <1>1, <1>2, RunnerMoves

\* A process is launched.
LEMMA LaunchKept ==
    ASSUME ProcessInv, Described(job, guest), NEW n, Launch(n), mishap = "none", UNCHANGED <<job, guest, mishap>>
    PROVE  ProcessInv'
<1>1. /\ cut' = n /\ script' = RenderScript(n) /\ runtime' = "busy" /\ child' = "alive"
      /\ pipe' = [p \in Pipes |-> <<>>] /\ reading' = Pipes /\ channel' = <<>> /\ combined' = <<>>
      /\ faulted' = FALSE /\ runner' = "receive" /\ UNCHANGED <<job, guest, mishap>>
  BY DEF Launch
<1>2. pipe'["stdout"] = <<>> /\ pipe'["stderr"] = <<>> /\ DOMAIN pipe' = Pipes
  BY <1>1 DEF Pipes
<1>3. Commands(RenderScript(n)) /\ List(Transcript(n))
  BY TranscriptIs
<1>4. ListsTyped'
  BY <1>1, <1>2, <1>3, EmptyList, Rigid DEF ListsTyped, ProcessInv
<1>5. Drained' /\ Settled'
  BY <1>1 DEF Drained, Settled
<1>6. Undisturbed'
  <2>1. <<>> \o Transcript(n) = Transcript(n)
    BY <1>3, ListNeutral
  <2>2. Whole(<<>>, <<>>, <<>>, RenderScript(n)) = Transcript(n)
    BY <2>1 DEF Whole, Transcript
  <2>3. Holds(combined', channel', pipe', script', cut')
    BY <1>1, <1>2, <2>2 DEF Holds
  <2> QED
    BY <1>1, <1>2, <2>3, Rigid DEF Undisturbed
<1> QED
  BY <1>1, <1>4, <1>5, <1>6 DEF ProcessInv

-----------------------------------------------------------------------------
(* What the runner reads.                                                     *)

\* A line of a kind is observed exactly when the transcript has one.
LEMMA ObservedIn ==
    ASSUME NEW kind, NEW text
    PROVE  Observed(kind, text) <=> \E l \in Elements(text) : l.kind = kind
BY DEF Observed, Elements

\* The position of the first line of a kind.
FirstPlace(kind, text) == SelectInSeq(text, LAMBDA l : l.kind = kind)

\* The first place of a kind that is observed.
LEMMA FirstAt ==
    ASSUME NEW kind, NEW text, List(text), Observed(kind, text)
    PROVE  /\ FirstPlace(kind, text) \in 1 .. Len(text) /\ text[FirstPlace(kind, text)].kind = kind
           /\ \A j \in 1 .. Len(text) : text[j].kind = kind => FirstPlace(kind, text) <= j
<1> DEFINE I == {i \in 1 .. Len(text) : text[i].kind = kind}
           first == FirstPlace(kind, text)
<1>1. DOMAIN text = 1 .. Len(text) /\ Len(text) \in Nat
  BY ListFacts
<1>2. I # {} /\ I \subseteq Nat
  BY <1>1 DEF Observed
<1>3. first = Min(I)
  BY <1>2 DEF SelectInSeq, FirstPlace
<1>4. \E x \in I : \A y \in I : x <= y
  BY <1>2, Smallest
<1>5. Min(I) \in I /\ \A y \in I : Min(I) <= y
  BY <1>4 DEF Min
<1> HIDE DEF first
<1>6. first \in 1 .. Len(text) /\ text[first].kind = kind
  BY <1>3, <1>5
<1>7. \A j \in 1 .. Len(text) : text[j].kind = kind => first <= j
  BY <1>3, <1>5
<1> QED
  BY <1>6, <1>7 DEF first

\* The first line of a kind is a line of the transcript of this kind.
LEMMA FirstLineIn ==
    ASSUME NEW kind, NEW text, List(text), Observed(kind, text)
    PROVE  FirstLine(kind, text) \in Elements(text) /\ FirstLine(kind, text).kind = kind
<1> DEFINE i == FirstPlace(kind, text)
<1>1. i \in 1 .. Len(text) /\ text[i].kind = kind
  BY FirstAt
<1>2. FirstLine(kind, text) = text[i]
  BY DEF FirstLine, FirstPlace
<1> HIDE DEF i
<1>3. text[i] \in Elements(text)
  BY <1>1, ListFacts
<1> QED
  BY <1>1, <1>2, <1>3

\* What follows the first line of a kind.
Parted(text, a, l, b) == text = a \o (<<l>> \o b)

\* What follows the first line of a kind, when none of this kind comes before it.
LEMMA FollowingIs ==
    ASSUME NEW kind, NEW a, NEW b, NEW l, NEW text, List(a), List(b), Parted(text, a, l, b),
           l.kind = kind, ~Observed(kind, a)
    PROVE  List(Following(kind, text)) /\ Elements(Following(kind, text)) = Elements(b)
<1> DEFINE e == <<l>>
           w == e \o b
           n == Len(a)
           first == FirstPlace(kind, text)
           rest == Following(kind, text)
<1>1. List(e) /\ Len(e) = 1 /\ e[1] = l
  BY SingleList
<1>0. \A x \in Elements(a) : x.kind # kind
  BY ObservedIn
<1>2. w = e \o b /\ text = a \o w
  BY DEF Parted
<1>3. rest = SubSeq(text, 1 + first, Len(text))
  BY DEF Following, FirstPlace
<1>4. (List(text) /\ Observed(kind, text)) =>
         /\ first \in 1 .. Len(text) /\ text[first].kind = kind
         /\ \A j \in 1 .. Len(text) : text[j].kind = kind => first <= j
  BY FirstAt
<1> HIDE DEF e, w, first, rest
<1>5. IsConcat(w, e, b)
  <2>1. List(b)
    OBVIOUS
  <2> QED
    BY ONLY <1>1, <1>2, <2>1, ListJoined, Zenon
<1>6. List(w) /\ Len(w) = 1 + Len(b) /\ w[1] = l /\ \A i \in 1 .. Len(b) : w[1 + i] = b[i]
  BY <1>1, <1>5 DEF IsConcat
<1>7. IsConcat(text, a, w)
  <2>1. List(a)
    OBVIOUS
  <2> QED
    BY ONLY <1>2, <1>6, <2>1, ListJoined, Zenon
<1>8. /\ List(text) /\ Len(text) = n + Len(w)
      /\ \A i \in 1 .. n : text[i] = a[i]
      /\ \A i \in 1 .. Len(w) : text[n + i] = w[i]
  BY <1>7 DEF IsConcat
<1>9. n \in Nat /\ Len(b) \in Nat /\ \A i \in 1 .. n : a[i] \in Elements(a)
  BY ListFacts
<1> HIDE DEF n
<1>10. n + 1 \in 1 .. Len(text) /\ text[n + 1] = l
  <2>1. 1 \in 1 .. Len(w)
    BY <1>6, <1>9
  <2> QED
    BY <1>6, <1>8, <1>9, <2>1
<1>11. DOMAIN text = 1 .. Len(text)
  BY <1>8, ListFacts
<1>12. first = n + 1
  <2>1. Observed(kind, text)
    BY <1>10, <1>11 DEF Observed
  <2>2. /\ first \in 1 .. Len(text) /\ text[first].kind = kind
        /\ \A j \in 1 .. Len(text) : text[j].kind = kind => first <= j
    BY <1>4, <1>8, <2>1
  <2>3. first <= n + 1
    BY <1>10, <2>2
  <2>4. first \notin 1 .. n
    BY <1>0, <1>8, <1>9, <2>2
  <2> QED
    BY <1>9, <2>2, <2>3, <2>4
<1>13. \A i \in 1 .. Len(b) : (n + 1) + i \in 1 .. Len(text) /\ text[(n + 1) + i] = b[i]
  <2> TAKE i \in 1 .. Len(b)
  <2>1. 1 + i \in 1 .. Len(w) /\ n + (1 + i) = (n + 1) + i /\ (n + 1) + i \in 1 .. Len(text)
    BY <1>6, <1>8, <1>9
  <2>2. text[n + (1 + i)] = w[1 + i]
    BY <1>8, <2>1
  <2> QED
    BY <1>6, <2>1, <2>2
<1> DEFINE m == 1 + first
           k == Len(text)
<1>14. m \in Int /\ k \in Int /\ m = n + 2 /\ k = (n + 1) + Len(b)
  BY <1>6, <1>8, <1>9, <1>12
<1> DEFINE S == Elements(text)
<1>15. \A i \in m .. k : text[i] \in S
  <2>1. \A i \in 1 .. Len(text) : text[i] \in Elements(text)
    BY <1>8, ListFacts
  <2> QED
    BY <1>9, <1>14, <2>1
<1> HIDE DEF m, k, S
<1>16. /\ SubSeq(text, m, k) \in Seq(S)
       /\ Len(SubSeq(text, m, k)) = (IF m <= k THEN k - m + 1 ELSE 0)
       /\ \A i \in 1 .. k - m + 1 : SubSeq(text, m, k)[i] = text[m + i - 1]
  <2>1. m \in Int /\ k \in Int
    BY <1>14
  <2> QED
    BY ONLY <2>1, <1>15, SubSeqProperties
<1>17. rest = SubSeq(text, m, k)
  BY <1>3 DEF m, k
<1>18. List(rest) /\ Len(rest) = Len(b)
  <2>1. k - m + 1 = Len(b) /\ (m <= k <=> Len(b) >= 1)
    BY <1>9, <1>14
  <2>2. rest \in Seq(S) /\ Len(rest) = IF m <= k THEN k - m + 1 ELSE 0
    BY ONLY <1>16, <1>17
  <2>3. Len(rest) = Len(b)
    BY ONLY <1>9, <2>1, <2>2
  <2> QED
    BY <2>2, <2>3, SeqIsList
<1>19. \A i \in 1 .. Len(rest) : rest[i] = b[i]
  <2> TAKE i \in 1 .. Len(rest)
  <2>1. i \in 1 .. k - m + 1 /\ m + i - 1 = (n + 1) + i /\ i \in 1 .. Len(b)
    BY <1>9, <1>14, <1>18
  <2> QED
    BY <1>13, <1>16, <1>17, <2>1
<1>20. rest = b
  BY <1>18, <1>19, ListEqual
<1> QED
  BY <1>20 DEF rest

\* One line after another in two parts: within a part or across them.
LEMMA AfterConcat ==
    ASSUME NEW a, NEW b, List(a), List(b), NEW f, NEW k
    PROVE  ObservedAfter(f, k, a \o b) <=>
              \/ ObservedAfter(f, k, a) \/ ObservedAfter(f, k, b)
              \/ (Observed(f, a) /\ Observed(k, b))
<1> DEFINE w == a \o b
<1>0. w = a \o b
  OBVIOUS
<1> HIDE DEF w
<1>1. IsConcat(w, a, b)
  <2>1. List(a) /\ List(b)
    OBVIOUS
  <2> QED
    BY ONLY <1>0, <2>1, ListJoined, Zenon
<1>2. /\ List(w) /\ Len(w) = Len(a) + Len(b)
      /\ \A i \in 1 .. Len(a) : w[i] = a[i]
      /\ \A i \in 1 .. Len(b) : w[Len(a) + i] = b[i]
  BY <1>1 DEF IsConcat
<1>3. /\ Len(a) \in Nat /\ Len(b) \in Nat /\ DOMAIN a = 1 .. Len(a) /\ DOMAIN b = 1 .. Len(b)
      /\ DOMAIN w = 1 .. Len(w)
  BY <1>2, ListFacts
<1>4. ASSUME NEW i \in DOMAIN a, NEW j \in DOMAIN a, i < j, a[i].kind = f, a[j].kind = k
      PROVE  ObservedAfter(f, k, w)
  <2>1. i \in DOMAIN w /\ j \in DOMAIN w /\ w[i] = a[i] /\ w[j] = a[j]
    BY <1>2, <1>3
  <2> QED
    BY <1>4, <2>1 DEF ObservedAfter
<1>5. ASSUME NEW i \in DOMAIN b, NEW j \in DOMAIN b, i < j, b[i].kind = f, b[j].kind = k
      PROVE  ObservedAfter(f, k, w)
  <2>1. /\ Len(a) + i \in DOMAIN w /\ Len(a) + j \in DOMAIN w /\ w[Len(a) + i] = b[i]
        /\ w[Len(a) + j] = b[j] /\ Len(a) + i < Len(a) + j
    BY <1>2, <1>3, <1>5
  <2> QED
    BY <1>5, <2>1 DEF ObservedAfter
<1>6. ASSUME NEW i \in DOMAIN a, NEW j \in DOMAIN b, a[i].kind = f, b[j].kind = k
      PROVE  ObservedAfter(f, k, w)
  <2>1. /\ i \in DOMAIN w /\ Len(a) + j \in DOMAIN w /\ w[i] = a[i]
        /\ w[Len(a) + j] = b[j] /\ i < Len(a) + j
    BY <1>2, <1>3, <1>6
  <2> QED
    BY <1>6, <2>1 DEF ObservedAfter
<1>7. ASSUME NEW i \in DOMAIN w, NEW j \in DOMAIN w, i < j, w[i].kind = f, w[j].kind = k
      PROVE  \/ ObservedAfter(f, k, a) \/ ObservedAfter(f, k, b)
             \/ (Observed(f, a) /\ Observed(k, b))
  <2>1. CASE j \in DOMAIN a
    <3>1. i \in DOMAIN a /\ w[i] = a[i] /\ w[j] = a[j]
      BY <1>2, <1>3, <1>7, <2>1
    <3> QED
      BY <1>7, <2>1, <3>1 DEF ObservedAfter
  <2>2. CASE i \in DOMAIN a /\ j \notin DOMAIN a
    <3>1. /\ j - Len(a) \in DOMAIN b /\ Len(a) + (j - Len(a)) = j
      BY <1>2, <1>3, <1>7, <2>2
    <3>2. w[j] = b[j - Len(a)] /\ w[i] = a[i]
      BY <1>2, <1>3, <2>2, <3>1
    <3>3. Observed(f, a) /\ Observed(k, b)
      BY <1>7, <2>2, <3>1, <3>2 DEF Observed
    <3> QED
      BY <3>3
  <2>3. CASE i \notin DOMAIN a
    <3>0. i \in 1 .. Len(a) + Len(b) /\ j \in 1 .. Len(a) + Len(b) /\ i \notin 1 .. Len(a) /\ i < j
      BY <1>2, <1>3, <1>7, <2>3
    <3>1. /\ j - Len(a) \in DOMAIN b /\ Len(a) + (j - Len(a)) = j
          /\ i - Len(a) \in DOMAIN b /\ Len(a) + (i - Len(a)) = i
          /\ i - Len(a) < j - Len(a)
      BY <1>3, <3>0
    <3>2. w[j] = b[j - Len(a)] /\ w[i] = b[i - Len(a)]
      BY <1>2, <1>3, <3>1
    <3>3. ObservedAfter(f, k, b)
      BY <1>7, <3>1, <3>2 DEF ObservedAfter
    <3> QED
      BY <3>3
  <2> QED
    BY <2>1, <2>2, <2>3
<1>8. ObservedAfter(f, k, w) =>
              \/ ObservedAfter(f, k, a) \/ ObservedAfter(f, k, b)
              \/ (Observed(f, a) /\ Observed(k, b))
  BY <1>7 DEF ObservedAfter
<1>9. /\ ObservedAfter(f, k, a) => ObservedAfter(f, k, w)
      /\ ObservedAfter(f, k, b) => ObservedAfter(f, k, w)
      /\ Observed(f, a) /\ Observed(k, b) => ObservedAfter(f, k, w)
  BY <1>4, <1>5, <1>6 DEF ObservedAfter, Observed
<1> QED
  BY <1>8, <1>9 DEF w

\* A text of at most one line.
LEMMA AfterShort ==
    ASSUME NEW a, List(a), Len(a) <= 1, NEW f, NEW k
    PROVE  ~ObservedAfter(f, k, a)
<1>1. DOMAIN a = 1 .. Len(a) /\ Len(a) \in Nat
  BY ListFacts
<1> QED
  BY <1>1 DEF ObservedAfter

-----------------------------------------------------------------------------
(* What is printed once.                                                      *)

OnlyAt(x, s, i) == i \in 1 .. Len(s) /\ \A j \in 1 .. Len(s) : s[j] = x <=> j = i

\* What stands once in one part and in no other stands once in the whole.
LEMMA OnceFlat ==
    ASSUME NEW n \in Nat, NEW ss, NEW s, Flat(s, ss, n), \A c \in 1 .. n : List(ss[c]),
           NEW x, NEW a \in 1 .. n, NEW b, OnlyAt(x, ss[a], b),
           \A c \in 1 .. n : c # a => x \notin Elements(ss[c])
    PROVE  \E i : OnlyAt(x, s, i)
<1>1. PICK off : Laid(s, ss, n, off)
  BY DEF Flat
<1>2. List(s) /\ \A c \in 1 .. n : Len(ss[c]) \in Nat
  BY ListFacts DEF Flat
<1>3. b \in 1 .. Len(ss[a]) /\ \A j \in 1 .. Len(ss[a]) : ss[a][j] = x <=> j = b
  BY DEF OnlyAt
<1> DEFINE i == off[a - 1] + b
<1>4. i \in 1 .. Len(s) /\ s[i] = x
  <2>1. off[a - 1] \in Nat /\ off[a - 1] + b \in 1 .. Len(s) /\ s[off[a - 1] + b] = ss[a][b]
    BY <1>1, <1>2, <1>3, LaidAt
  <2> QED
    BY <1>3, <2>1
<1>5. ASSUME NEW j \in 1 .. Len(s), s[j] = x PROVE j = i
  <2>1. InPart(s, ss, n, off, j)
    BY <1>1, <1>2, LaidWhere
  <2>2. PICK c \in 1 .. n : \E k \in 1 .. Len(ss[c]) : j = off[c - 1] + k /\ s[j] = ss[c][k]
    BY <2>1, Zenon DEF InPart
  <2>3. PICK k \in 1 .. Len(ss[c]) : j = off[c - 1] + k /\ s[j] = ss[c][k]
    BY <2>2
  <2>4. x \in Elements(ss[c])
    <3>1. List(ss[c])
      OBVIOUS
    <3>2. ss[c][k] \in Elements(ss[c])
      BY <3>1, ListFacts
    <3> QED
      BY <1>5, <2>3, <3>2
  <2>5. c = a
    BY <2>4
  <2>6. k = b
    BY <1>3, <1>5, <2>3, <2>5
  <2> QED
    BY <2>3, <2>5, <2>6
<1> HIDE DEF i
<1>6. OnlyAt(x, s, i)
  BY <1>4, <1>5 DEF OnlyAt
<1> QED
  BY <1>6

\* Commands of different names or arguments are different.
LEMMA CommandDistinct ==
    /\ \A s, t : Cmd("run_firmware", s) = Cmd("run_firmware", t) => s = t
    /\ \A s, c : Cmd("run_firmware", s) # Cmd("probe", c)
    /\ \A c, d : Cmd("probe", c) = Cmd("probe", d) => c = d
    /\ \A p, s, q, t : <<p, s>> = <<q, t>> => p = q /\ s = t
<1>1. \A s, t : Cmd("run_firmware", s) = Cmd("run_firmware", t) => s = t
  BY DEF Cmd
<1>2. \A s, c : Cmd("run_firmware", s) # Cmd("probe", c)
  BY DEF Cmd
<1>3. \A c, d : Cmd("probe", c) = Cmd("probe", d) => c = d
  BY DEF Cmd
<1>4. \A p, s, q, t : <<p, s>> = <<q, t>> => p = q /\ s = t
  OBVIOUS
<1> QED
  BY <1>1, <1>2, <1>3, <1>4

\* The profile script has every command of a sample once.
LEMMA CommandsOnce ==
    ASSUME Described(job, guest), NEW s \in 1 .. job.sample_count
    PROVE  /\ \E i : OnlyAt(Cmd("run_firmware", s), ProfileScript, i)
           /\ \A p \in 1 .. Len(Probes) : \E i : OnlyAt(Cmd("probe", <<p, s>>), ProfileScript, i)
<1>1. /\ ListOfLists(Blocks) /\ Len(Blocks) = job.sample_count
      /\ \A t \in 1 .. job.sample_count : Blocks[t] = Block(t)
      /\ Flat(ProfileScript, Blocks, job.sample_count)
  BY ProfileIs
<1>2. job.sample_count \in Nat /\ Len(Probes) \in Nat
  BY ProbesList
<1>3. \A t \in 1 .. job.sample_count : List(Blocks[t])
  BY <1>1 DEF ListOfLists
<1>4. ASSUME NEW t \in 1 .. job.sample_count
      PROVE  /\ List(Block(t)) /\ Len(Block(t)) = Len(Probes) + 1
             /\ Block(t)[1] = Cmd("run_firmware", t)
             /\ \A p \in 1 .. Len(Probes) : Block(t)[p + 1] = Cmd("probe", <<p, t>>)
             /\ \A b \in 1 .. Len(Block(t)) :
                   \/ b = 1
                   \/ b - 1 \in 1 .. Len(Probes) /\ Block(t)[b] = Cmd("probe", <<b - 1, t>>)
  BY BlockIs
<1>5. ASSUME NEW t \in 1 .. job.sample_count, NEW x \in Elements(Block(t))
      PROVE  x = Cmd("run_firmware", t) \/ \E p \in 1 .. Len(Probes) : x = Cmd("probe", <<p, t>>)
  <2>1. Elements(Block(t)) = {Block(t)[b] : b \in 1 .. Len(Block(t))}
    BY <1>4, ElementsAre
  <2>2. PICK b \in 1 .. Len(Block(t)) : x = Block(t)[b]
    BY <1>5, <2>1
  <2> QED
    BY <1>4, <2>2
<1>6. \E i : OnlyAt(Cmd("run_firmware", s), ProfileScript, i)
  <2>1. OnlyAt(Cmd("run_firmware", s), Blocks[s], 1)
    <3>1. 1 \in 1 .. Len(Block(s))
      BY <1>2, <1>4
    <3>2. ASSUME NEW b \in 1 .. Len(Block(s)), b # 1 PROVE Block(s)[b] # Cmd("run_firmware", s)
      <4>1. Block(s)[b] = Cmd("probe", <<b - 1, s>>)
        BY <1>4, <3>2
      <4>2. Cmd("run_firmware", s) # Cmd("probe", <<b - 1, s>>)
        BY CommandDistinct, Zenon
      <4> QED
        BY <4>1, <4>2
    <3>3. Block(s)[1] = Cmd("run_firmware", s)
      BY <1>4
    <3> QED
      BY <1>1, <3>1, <3>2, <3>3 DEF OnlyAt
  <2>2. \A c \in 1 .. job.sample_count : c # s => Cmd("run_firmware", s) \notin Elements(Blocks[c])
    <3> SUFFICES ASSUME NEW c \in 1 .. job.sample_count, c # s,
                        Cmd("run_firmware", s) \in Elements(Block(c))
                 PROVE  FALSE
      BY <1>1
    <3>1. \/ Cmd("run_firmware", s) = Cmd("run_firmware", c)
          \/ \E p \in 1 .. Len(Probes) : Cmd("run_firmware", s) = Cmd("probe", <<p, c>>)
      BY <1>5
    <3>2. /\ Cmd("run_firmware", s) = Cmd("run_firmware", c) => s = c
          /\ \A p : Cmd("run_firmware", s) # Cmd("probe", <<p, c>>)
      BY CommandDistinct, Zenon
    <3> QED
      BY <3>1, <3>2
  <2> QED
    BY <1>1, <1>2, <1>3, <2>1, <2>2, OnceFlat
<1>7. ASSUME NEW p \in 1 .. Len(Probes) PROVE \E i : OnlyAt(Cmd("probe", <<p, s>>), ProfileScript, i)
  <2> DEFINE x == Cmd("probe", <<p, s>>)
  <2>1. OnlyAt(x, Blocks[s], p + 1)
    <3>1. p + 1 \in 1 .. Len(Block(s)) /\ Block(s)[p + 1] = x
      BY <1>2, <1>4
    <3>2. ASSUME NEW b \in 1 .. Len(Block(s)), Block(s)[b] = x PROVE b = p + 1
      <4>1. b # 1
        <5>1. Block(s)[1] = Cmd("run_firmware", s)
          BY <1>4
        <5>2. Cmd("run_firmware", s) # Cmd("probe", <<p, s>>)
          BY CommandDistinct, Zenon
        <5> QED
          BY <3>2, <5>1, <5>2
      <4>2. b - 1 \in 1 .. Len(Probes) /\ Cmd("probe", <<b - 1, s>>) = Cmd("probe", <<p, s>>)
        BY <1>4, <3>2, <4>1
      <4>3. <<b - 1, s>> = <<p, s>>
        BY <4>2, CommandDistinct
      <4>4. b - 1 = p
        BY <4>3, CommandDistinct
      <4> QED
        BY <1>2, <4>2, <4>4
    <3> QED
      BY <1>1, <3>1, <3>2 DEF OnlyAt
  <2>2. ASSUME NEW c \in 1 .. job.sample_count, c # s PROVE x \notin Elements(Blocks[c])
    <3> SUFFICES ASSUME x \in Elements(Block(c)) PROVE FALSE
      BY <1>1
    <3>1. PICK q \in 1 .. Len(Probes) : x = Cmd("probe", <<q, c>>)
      <4>1. x = Cmd("run_firmware", c) \/ \E q \in 1 .. Len(Probes) : x = Cmd("probe", <<q, c>>)
        BY <1>5
      <4>2. Cmd("run_firmware", c) # x
        BY CommandDistinct, Zenon
      <4> QED
        BY <4>1, <4>2
    <3>2. <<p, s>> = <<q, c>>
      BY <3>1, CommandDistinct
    <3> QED
      BY <2>2, <3>2, CommandDistinct
  <2> HIDE DEF x
  <2>3. p + 1 \in Int
    BY <1>2
  <2>4. \E i : OnlyAt(x, ProfileScript, i)
    BY <1>1, <1>2, <1>3, <2>1, <2>2, OnceFlat
  <2> QED
    BY <2>4 DEF x
<1> QED
  BY <1>6, <1>7

\* The firmware reports its boot and its faults in the first sample.
LEMMA ProfileBegins ==
    ASSUME Described(job, guest), job.sample_count > 0
    PROVE  \E q : /\ List(q) /\ Profile = Printed(Cmd("run_firmware", 1)) \o q
                  /\ Elements(q) \subseteq ProbeLines
<1> DEFINE r == Cmd("run_firmware", 1)
           s == ProfileScript
           t == Tail(s)
           e == <<r>>
<1>1. job.sample_count \in Nat /\ 1 \in 1 .. job.sample_count
  BY ProbesList
<1>2. /\ Commands(s) /\ List(s) /\ Elements(s) = ProfileCommands
  BY ProfileElements DEF Commands
<1>3. /\ Flat(s, Blocks, job.sample_count) /\ Blocks[1] = Block(1)
      /\ \A c \in 1 .. job.sample_count : List(Blocks[c])
  BY <1>1, ProfileIs DEF ListOfLists
<1>4. 1 \in 1 .. Len(s) /\ s[1] = r
  <2>1. PICK off : Laid(s, Blocks, job.sample_count, off)
    BY <1>3 DEF Flat
  <2>2. List(Block(1)) /\ Len(Block(1)) = Len(Probes) + 1 /\ Block(1)[1] = r /\ Len(Probes) \in Nat
    BY BlockIs, ProbesList
  <2>3. 1 \in 1 .. Len(Blocks[1])
    BY <1>3, <2>2
  <2>4. \A c \in 1 .. job.sample_count : Len(Blocks[c]) \in Nat
    BY <1>3, ListFacts
  <2>5. /\ off[1 - 1] \in Nat /\ off[1 - 1] + 1 \in 1 .. Len(s)
        /\ s[off[1 - 1] + 1] = Blocks[1][1]
    BY <1>1, <1>2, <2>1, <2>3, <2>4, LaidAt
  <2>6. off[1 - 1] = 0
    BY <2>1 DEF Laid
  <2> QED
    BY <1>3, <2>2, <2>5, <2>6
<1>5. PICK i : OnlyAt(r, s, i)
  BY <1>1, CommandsOnce
<1>6. \A j \in 1 .. Len(s) : s[j] = r => j = 1
  BY <1>4, <1>5 DEF OnlyAt
<1>7. s # <<>>
  BY <1>4, EmptyList
<1>8. List(t) /\ s = e \o t /\ Head(s) = s[1]
  <2>1. List(t) /\ s = <<Head(s)>> \o t /\ Head(s) = s[1]
    BY <1>2, <1>7, ListHead
  <2> QED
    BY <1>4, <2>1
<1>9. List(e) /\ Len(e) = 1
  BY SingleList
<1> HIDE DEF e, t
<1>10. IsConcat(s, e, t)
  BY ONLY <1>8, <1>9, ListJoined, Zenon
<1>11. Len(s) = 1 + Len(t) /\ Len(t) \in Nat /\ \A j \in 1 .. Len(t) : s[1 + j] = t[j]
  BY <1>8, <1>9, <1>10, ListFacts DEF IsConcat
<1>12. \A j \in 1 .. Len(t) : t[j] \in ProfileCommands /\ t[j] # r /\ List(Printed(t[j]))
  <2> TAKE j \in 1 .. Len(t)
  <2>1. 1 + j \in 1 .. Len(s) /\ 1 + j # 1
    BY <1>11
  <2>2. s[1 + j] \in Elements(s)
    BY <1>2, <2>1, ListFacts
  <2> QED
    BY <1>2, <1>6, <1>11, <2>1, <2>2 DEF Commands
<1>13. Commands(t)
  BY <1>8, <1>12 DEF Commands
<1>14. Elements(t) = {t[j] : j \in 1 .. Len(t)}
  BY <1>8, ElementsAre
<1>15. List(Shown(t)) /\ \A l : l \in Elements(Shown(t)) <=> \E c \in Elements(t) : l \in Elements(Printed(c))
  BY <1>13, ShownElements
<1>16. ASSUME NEW l \in Elements(Shown(t)) PROVE l \in ProbeLines
  <2>1. PICK c \in Elements(t) : l \in Elements(Printed(c))
    BY <1>15, <1>16
  <2>2. c \in ProfileCommands /\ c # r
    BY <1>12, <1>14
  <2>3. CASE c \in {Cmd("run_firmware", k) : k \in 1 .. job.sample_count}
    <3>1. PICK k \in 1 .. job.sample_count : c = Cmd("run_firmware", k)
      BY <2>3
    <3>2. k # 1
      BY <2>2, <3>1
    <3>3. Elements(Printed(Cmd("run_firmware", k))) = {}
      BY <3>2, PrintedRun DEF When
    <3> QED
      BY <2>1, <3>1, <3>3
  <2>4. CASE c \in {Cmd("probe", d) : d \in (1 .. Len(Probes)) \X (1 .. job.sample_count)}
    <3>1. PICK d \in (1 .. Len(Probes)) \X (1 .. job.sample_count) : c = Cmd("probe", d)
      BY <2>4
    <3>2. d = <<d[1], d[2]>>
      OBVIOUS
    <3>3. Elements(Printed(Cmd("probe", <<d[1], d[2]>>))) = {ProbeLine(d[1], d[2])}
      BY PrintedProbe
    <3> QED
      BY <2>1, <3>1, <3>2, <3>3 DEF ProbeLines
  <2> QED
    BY <2>2, <2>3, <2>4 DEF ProfileCommands
<1>17. Commands(e) /\ Shown(e) = Printed(r)
  BY PrintedRun, ShownOne DEF e
<1>18. Shown(e \o t) = Shown(e) \o Shown(t)
  BY <1>13, <1>17, ShownJoined
<1>19. Shown(s) = Printed(r) \o Shown(t)
  BY ONLY <1>8, <1>17, <1>18
<1> QED
  BY <1>15, <1>16, <1>19 DEF Profile

-----------------------------------------------------------------------------
(* The order of boots and faults.                                             *)

\* What is observed in an order is observed.
LEMMA AfterSeen == \A f, k, t : ObservedAfter(f, k, t) => Observed(f, t) /\ Observed(k, t)
BY DEF ObservedAfter, Observed

\* What is observed in two parts is observed in one of them.
LEMMA ObservedConcat ==
    ASSUME NEW a, NEW b, List(a), List(b), NEW k
    PROVE  Observed(k, a \o b) <=> Observed(k, a) \/ Observed(k, b)
<1> DEFINE w == a \o b
<1>1. Elements(w) = Elements(a) \cup Elements(b)
  BY ElementsConcat
<1> HIDE DEF w
<1>2. Observed(k, w) <=> Observed(k, a) \/ Observed(k, b)
  BY <1>1, ObservedIn
<1> QED
  BY <1>2 DEF w

\* A part without lines of one of the kinds does not matter.
LEMMA AfterLeft ==
    ASSUME NEW a, NEW b, List(a), List(b), NEW f, NEW k, ~Observed(k, b)
    PROVE  ObservedAfter(f, k, a \o b) <=> ObservedAfter(f, k, a)
BY AfterConcat, AfterSeen

\* An order of two kinds of which the first part has none is one of the second part.
LEMMA AfterRight ==
    ASSUME NEW a, NEW b, List(a), List(b), NEW f, NEW k, ~Observed(f, a)
    PROVE  ObservedAfter(f, k, a \o b) <=> ObservedAfter(f, k, b)
BY AfterConcat, AfterSeen

\* A conditional line is observed when its condition holds.
LEMMA IfObserved ==
    ASSUME NEW c, NEW j, NEW v
    PROVE  /\ \A k : Observed(k, If(c, Line(j, v))) <=> c /\ j = k
           /\ \A f, k : ~ObservedAfter(f, k, If(c, Line(j, v)))
<1> DEFINE l == Line(j, v)
<1>0. l.kind = j
  BY DEF Line
<1> HIDE DEF l
<1>1. List(If(c, l)) /\ Elements(If(c, l)) = When(c, l)
  BY IfList
<1>2. \A k : Observed(k, If(c, l)) <=> \E x \in When(c, l) : x.kind = k
  BY <1>1, ObservedIn
<1>3. Len(If(c, l)) <= 1
  BY SingleList, EmptyList DEF If
<1>4. \A f, k : ~ObservedAfter(f, k, If(c, l))
  BY <1>1, <1>3, AfterShort
<1>5. \A k : Observed(k, If(c, l)) <=> c /\ j = k
  BY <1>0, <1>2 DEF When
<1> QED
  BY <1>4, <1>5 DEF l

\* A fault follows the boot of the application exactly when it is the late one.
LEMMA RunOrder ==
    LET x == Printed(Cmd("run_firmware", 1))
    IN  ObservedAfter("firmware_boot", "firmware_fault", x) <=> guest.boots /\ guest.fault = "late"
<1> DEFINE a == If(1 = 1 /\ guest.fault = "early", Line("firmware_fault", 0))
           b == If(1 = 1 /\ guest.boots, Line("firmware_boot", 0))
           c == If(1 = 1 /\ guest.fault = "late", Line("firmware_fault", 0))
           d == If(1 = 1 /\ guest.watchdog, Line("iwdg_reset", 0))
           x == Printed(Cmd("run_firmware", 1))
           Later(t) == ObservedAfter("firmware_boot", "firmware_fault", t)
           Boot(t) == Observed("firmware_boot", t)
           Fault(t) == Observed("firmware_fault", t)
<1>1. x = ((a \o b) \o c) \o d
  BY DEF Printed, Cmd
<1>2. List(a) /\ List(b) /\ List(c) /\ List(d)
  BY IfList
<1>a. /\ \A k : Observed(k, a) <=> (1 = 1 /\ guest.fault = "early") /\ "firmware_fault" = k
      /\ \A f, k : ~ObservedAfter(f, k, a)
  BY IfObserved
<1>b. /\ \A k : Observed(k, b) <=> (1 = 1 /\ guest.boots) /\ "firmware_boot" = k
      /\ \A f, k : ~ObservedAfter(f, k, b)
  BY IfObserved
<1>c. /\ \A k : Observed(k, c) <=> (1 = 1 /\ guest.fault = "late") /\ "firmware_fault" = k
      /\ \A f, k : ~ObservedAfter(f, k, c)
  BY IfObserved
<1>d. /\ \A k : Observed(k, d) <=> (1 = 1 /\ guest.watchdog) /\ "iwdg_reset" = k
      /\ \A f, k : ~ObservedAfter(f, k, d)
  BY IfObserved
<1>3. /\ ~Boot(a) /\ (Boot(b) <=> guest.boots) /\ ~Boot(c) /\ ~Boot(d)
      /\ ~Fault(b) /\ (Fault(c) <=> guest.fault = "late") /\ ~Fault(d)
      /\ ~Later(a) /\ ~Later(b) /\ ~Later(c) /\ ~Later(d)
  BY <1>a, <1>b, <1>c, <1>d
<1> HIDE DEF a, b, c, d, x
<1>4. /\ List(a \o b) /\ (Boot(a \o b) <=> Boot(a) \/ Boot(b))
      /\ Later(a \o b) <=> Later(a) \/ Later(b) \/ (Boot(a) /\ Fault(b))
  BY <1>2, ListConcat, ObservedConcat, AfterConcat
<1>5. /\ List((a \o b) \o c)
      /\ Later((a \o b) \o c) <=> Later(a \o b) \/ Later(c) \/ (Boot(a \o b) /\ Fault(c))
  BY <1>2, <1>4, ListConcat, AfterConcat
<1>6. Later(((a \o b) \o c) \o d) <=> Later((a \o b) \o c)
  BY <1>2, <1>3, <1>5, AfterLeft
<1>7. Later(x) <=> guest.boots /\ guest.fault = "late"
  BY ONLY <1>1, <1>3, <1>4, <1>5, <1>6
<1> QED
  BY <1>7 DEF x

\* A fault follows the boot of the factory image exactly when both happen.
LEMMA RunFactoryOrder ==
    LET x == Printed(Cmd("run_factory", 0))
    IN  ObservedAfter("factory_boot", "factory_fault", x) <=> guest.factory_boots /\ guest.factory_fault
<1> DEFINE a == If(guest.factory_boots, Line("factory_boot", 0))
           b == If(guest.factory_fault, Line("factory_fault", 0))
           c == If(guest.early_outcome # None, Line("outcome", guest.early_outcome))
           x == Printed(Cmd("run_factory", 0))
           Later(t) == ObservedAfter("factory_boot", "factory_fault", t)
           Boot(t) == Observed("factory_boot", t)
           Fault(t) == Observed("factory_fault", t)
<1>1. x = (a \o b) \o c
  BY DEF Printed, Cmd
<1>2. List(a) /\ List(b) /\ List(c)
  BY IfList
<1>a. /\ \A k : Observed(k, a) <=> (guest.factory_boots) /\ "factory_boot" = k
      /\ \A f, k : ~ObservedAfter(f, k, a)
  BY IfObserved
<1>b. /\ \A k : Observed(k, b) <=> (guest.factory_fault) /\ "factory_fault" = k
      /\ \A f, k : ~ObservedAfter(f, k, b)
  BY IfObserved
<1>c. /\ \A k : Observed(k, c) <=> (guest.early_outcome # None) /\ "outcome" = k
      /\ \A f, k : ~ObservedAfter(f, k, c)
  BY IfObserved
<1>3. /\ (Boot(a) <=> guest.factory_boots) /\ (Fault(b) <=> guest.factory_fault) /\ ~Fault(c)
      /\ ~Later(a) /\ ~Later(b)
  BY <1>a, <1>b, <1>c
<1> HIDE DEF a, b, c, x
<1>4. /\ List(a \o b)
      /\ Later(a \o b) <=> Later(a) \/ Later(b) \/ (Boot(a) /\ Fault(b))
  BY <1>2, ListConcat, AfterConcat
<1>6. Later((a \o b) \o c) <=> Later(a \o b)
  BY <1>2, <1>3, <1>4, AfterLeft
<1>7. Later(x) <=> guest.factory_boots /\ guest.factory_fault
  BY ONLY <1>1, <1>3, <1>4, <1>6
<1> QED
  BY <1>7 DEF x

\* Which lines each part can hold.
LEMMA PartKinds ==
    ASSUME Described(job, guest), NEW n, NEW k
    PROVE  /\ (Observed(k, Factory) =>
                  k \in {"registers", "factory_boot", "factory_fault", "outcome"})
           /\ (Observed(k, Update(n)) =>
                  k \in {"transfer_begin", "outcome", "cut_triggered", "reboot"})
           /\ (Observed(k, Closing) => k \in {"flash", "registers"})
           /\ (Observed(k, Profile) =>
                  k \in {"firmware_boot", "firmware_fault", "iwdg_reset", "probe"})
<1>0. \A j, l : Line(j, l).kind = j
  BY DEF Line
<1>1. \A l \in Elements(Factory) : l.kind \in {"registers", "factory_boot", "factory_fault", "outcome"}
  BY <1>0, FactoryLines DEF When
<1>2. \A l \in Elements(Update(n)) : l.kind \in {"transfer_begin", "outcome", "cut_triggered", "reboot"}
  BY <1>0, UpdateLines DEF When, TransferLines, RebootLines
<1>3. \A l \in Elements(Closing) : l.kind \in {"flash", "registers"}
  BY <1>0, ClosingLines
<1>4. \A l \in Elements(Profile) : l.kind \in {"firmware_boot", "firmware_fault", "iwdg_reset", "probe"}
  <2>1. \A l \in FirmwareLines : l.kind \in {"firmware_boot", "firmware_fault", "iwdg_reset"}
    BY <1>0 DEF FirmwareLines, When
  <2>2. \A l \in ProbeLines : l.kind = "probe"
    BY <1>0 DEF ProbeLines, ProbeLine
  <2> QED
    BY <2>1, <2>2, ProfileLines
<1> QED
  BY <1>1, <1>2, <1>3, <1>4, ObservedIn

\* The same of the whole transcript.
LEMMA TranscriptOrder ==
    ASSUME Described(job, guest), job.sample_count > 0, NEW n
    PROVE  /\ (ObservedAfter("firmware_boot", "firmware_fault", Transcript(n))
                  <=> guest.boots /\ guest.fault = "late")
           /\ (ObservedAfter("factory_boot", "factory_fault", Transcript(n))
                  <=> guest.factory_boots /\ guest.factory_fault)
<1> DEFINE p == Profile
           f == Factory
           u == Update(n)
           c == Closing
           t == Transcript(n)
<1>1. List(p) /\ List(f) /\ List(u) /\ List(c) /\ t = ((p \o f) \o u) \o c
  BY TranscriptIs
<1>2. /\ ~Observed("firmware_fault", f) /\ ~Observed("firmware_fault", u) /\ ~Observed("firmware_fault", c)
      /\ ~Observed("factory_boot", p) /\ ~Observed("factory_fault", u) /\ ~Observed("factory_fault", c)
  <2>0. \A k : /\ (Observed(k, f) => k \in {"registers", "factory_boot", "factory_fault", "outcome"})
              /\ (Observed(k, u) => k \in {"transfer_begin", "outcome", "cut_triggered", "reboot"})
              /\ (Observed(k, c) => k \in {"flash", "registers"})
              /\ (Observed(k, p) => k \in {"firmware_boot", "firmware_fault", "iwdg_reset", "probe"})
    BY PartKinds
  <2> HIDE DEF p, f, u, c, t
  <2>1. ~Observed("firmware_fault", f)
    BY <2>0
  <2>2. ~Observed("firmware_fault", u)
    BY <2>0
  <2>3. ~Observed("firmware_fault", c)
    BY <2>0
  <2>4. ~Observed("factory_boot", p)
    BY <2>0
  <2>5. ~Observed("factory_fault", u)
    BY <2>0
  <2>6. ~Observed("factory_fault", c)
    BY <2>0
  <2> QED
    BY <2>1, <2>2, <2>3, <2>4, <2>5, <2>6
<1>3. ObservedAfter("firmware_boot", "firmware_fault", p) <=> guest.boots /\ guest.fault = "late"
  <2>1. PICK q : List(q) /\ Profile = Printed(Cmd("run_firmware", 1)) \o q /\ Elements(q) \subseteq ProbeLines
    BY ProfileBegins
  <2>2. ~Observed("firmware_fault", q)
    BY <2>1, ObservedIn DEF ProbeLines, ProbeLine, Line
  <2> DEFINE x == Printed(Cmd("run_firmware", 1))
  <2>3. List(x)
    BY PrintedRun
  <2>4. ObservedAfter("firmware_boot", "firmware_fault", x) <=> guest.boots /\ guest.fault = "late"
    BY RunOrder
  <2> HIDE DEF x
  <2>5. ObservedAfter("firmware_boot", "firmware_fault", x \o q)
            <=> ObservedAfter("firmware_boot", "firmware_fault", x)
    BY <2>1, <2>2, <2>3, AfterLeft
  <2> QED
    BY <2>1, <2>4, <2>5 DEF x
<1>4. ObservedAfter("factory_boot", "factory_fault", f) <=> guest.factory_boots /\ guest.factory_fault
  <2> DEFINE x == Printed(Cmd("registers", 0))
             y == Printed(Cmd("run_factory", 0))
  <2>1. List(x) /\ List(y) /\ Elements(x) = {Line("registers", 0)}
    BY PrintedRegisters, PrintedFactory
  <2>2. ~Observed("factory_boot", x)
    BY <2>1, ObservedIn DEF Line
  <2>3. ObservedAfter("factory_boot", "factory_fault", y) <=> guest.factory_boots /\ guest.factory_fault
    BY RunFactoryOrder
  <2>4. f = x \o y
    BY DEF Factory
  <2> HIDE DEF x, y, f
  <2>5. ObservedAfter("factory_boot", "factory_fault", x \o y)
            <=> ObservedAfter("factory_boot", "factory_fault", y)
    BY <2>1, <2>2, AfterRight
  <2> QED
    BY <2>3, <2>4, <2>5
<1> HIDE DEF p, f, u, c, t
<1>5. List(p \o f) /\ List((p \o f) \o u)
  BY <1>1, ListConcat
<1>6. ObservedAfter("firmware_boot", "firmware_fault", ((p \o f) \o u) \o c)
          <=> ObservedAfter("firmware_boot", "firmware_fault", p)
  <2>1. ObservedAfter("firmware_boot", "firmware_fault", p \o f)
            <=> ObservedAfter("firmware_boot", "firmware_fault", p)
    BY <1>1, <1>2, AfterLeft
  <2>2. ObservedAfter("firmware_boot", "firmware_fault", (p \o f) \o u)
            <=> ObservedAfter("firmware_boot", "firmware_fault", p \o f)
    BY <1>1, <1>2, <1>5, AfterLeft
  <2>3. ObservedAfter("firmware_boot", "firmware_fault", ((p \o f) \o u) \o c)
            <=> ObservedAfter("firmware_boot", "firmware_fault", (p \o f) \o u)
    BY <1>1, <1>2, <1>5, AfterLeft
  <2> QED
    BY <2>1, <2>2, <2>3
<1>7. ObservedAfter("factory_boot", "factory_fault", ((p \o f) \o u) \o c)
          <=> ObservedAfter("factory_boot", "factory_fault", f)
  <2>1. ObservedAfter("factory_boot", "factory_fault", p \o f)
            <=> ObservedAfter("factory_boot", "factory_fault", f)
    BY <1>1, <1>2, AfterRight
  <2>2. ObservedAfter("factory_boot", "factory_fault", (p \o f) \o u)
            <=> ObservedAfter("factory_boot", "factory_fault", p \o f)
    BY <1>1, <1>2, <1>5, AfterLeft
  <2>3. ObservedAfter("factory_boot", "factory_fault", ((p \o f) \o u) \o c)
            <=> ObservedAfter("factory_boot", "factory_fault", (p \o f) \o u)
    BY <1>1, <1>2, <1>5, AfterLeft
  <2> QED
    BY <2>1, <2>2, <2>3
<1>8. /\ (ObservedAfter("firmware_boot", "firmware_fault", t) <=> guest.boots /\ guest.fault = "late")
      /\ (ObservedAfter("factory_boot", "factory_fault", t) <=> guest.factory_boots /\ guest.factory_fault)
  BY ONLY <1>1, <1>3, <1>4, <1>6, <1>7
<1> QED
  BY <1>8 DEF t

-----------------------------------------------------------------------------
(* The samples of a probe.                                                    *)

\* What only the first of two lists has, and once, keeps its place.
LEMMA OnceLeft ==
    ASSUME NEW a, NEW b, List(a), List(b), NEW x, NEW i, OnlyAt(x, a, i), x \notin Elements(b)
    PROVE  OnlyAt(x, a \o b, i)
<1> DEFINE w == a \o b
<1>0. w = a \o b
  OBVIOUS
<1> HIDE DEF w
<1>a. List(a) /\ List(b)
  OBVIOUS
<1>1. IsConcat(w, a, b)
  BY ONLY <1>0, <1>a, ListJoined, Zenon
<1>2. /\ List(w) /\ Len(w) = Len(a) + Len(b)
      /\ \A j \in 1 .. Len(a) : w[j] = a[j]
      /\ \A j \in 1 .. Len(b) : w[Len(a) + j] = b[j]
  BY <1>1 DEF IsConcat
<1>3. Len(a) \in Nat /\ Len(b) \in Nat /\ \A j \in 1 .. Len(b) : b[j] \in Elements(b)
  BY ListFacts
<1>4. i \in 1 .. Len(a) /\ \A j \in 1 .. Len(a) : a[j] = x <=> j = i
  BY DEF OnlyAt
<1>5. ASSUME NEW j \in 1 .. Len(w), w[j] = x PROVE j = i
  <2>1. CASE j \in 1 .. Len(a)
    BY <1>2, <1>4, <1>5, <2>1
  <2>2. CASE j \notin 1 .. Len(a)
    <3>1. j - Len(a) \in 1 .. Len(b) /\ Len(a) + (j - Len(a)) = j
      BY <1>2, <1>3, <2>2
    <3>2. w[j] = b[j - Len(a)]
      BY <1>2, <3>1
    <3> QED
      BY <1>3, <1>5, <3>1, <3>2
  <2> QED
    BY <2>1, <2>2
<1>6. i \in 1 .. Len(w) /\ w[i] = x
  BY <1>2, <1>3, <1>4
<1>7. OnlyAt(x, w, i)
  BY <1>5, <1>6 DEF OnlyAt
<1> QED
  BY <1>7 DEF w

\* The line of a probe in a sample.
LEMMA ProbeLineIs ==
    \A p, s : /\ ProbeLine(p, s).kind = "probe"
              /\ ProbeLine(p, s).arg.probe = p /\ ProbeLine(p, s).arg.sample = s
              /\ ProbeLine(p, s).arg.value = guest.values[p][s]
BY DEF ProbeLine, Line

\* The lines of the profile have the value of a probe in a sample once.
LEMMA PlacesOnce ==
    ASSUME Described(job, guest), NEW p \in 1 .. Len(Probes), NEW s \in 1 .. job.sample_count
    PROVE  \E i : OnlyAt(ProbeLine(p, s), Profile, i)
<1> DEFINE r == ProfileScript
           ss == Prints(r)
           x == ProbeLine(p, s)
           c == Cmd("probe", <<p, s>>)
<1>1. Commands(r) /\ List(r) /\ Elements(r) = ProfileCommands /\ Len(r) \in Nat
  BY ProfileElements, ListFacts DEF Commands
<1>2. ListOfLists(ss) /\ Len(ss) = Len(r) /\ \A i \in 1 .. Len(r) : ss[i] = Printed(r[i])
  BY <1>1, PrintsLists
<1>3. List(ss) /\ \A i \in 1 .. Len(ss) : List(ss[i])
  BY <1>2 DEF ListOfLists
<1>4. Profile = FlattenSeq(ss)
  BY ShownPrints DEF Profile
<1>5. PICK a : OnlyAt(c, r, a)
  BY CommandsOnce
<1>6. a \in 1 .. Len(r) /\ \A j \in 1 .. Len(r) : r[j] = c <=> j = a
  BY <1>5 DEF OnlyAt
<1>7. Printed(c) = <<x>>
  BY PrintedProbe
<1>8. \A j \in 1 .. Len(r) : r[j] \in ProfileCommands
  BY <1>1, ListFacts
<1>9. ASSUME NEW j \in 1 .. Len(r), j # a PROVE x \notin Elements(Printed(r[j]))
  <2>1. r[j] # c /\ r[j] \in ProfileCommands
    BY <1>6, <1>8, <1>9
  <2>2. CASE r[j] \in {Cmd("run_firmware", k) : k \in 1 .. job.sample_count}
    <3>1. PICK k \in 1 .. job.sample_count : r[j] = Cmd("run_firmware", k)
      BY <2>2
    <3>2. \A l \in Elements(Printed(Cmd("run_firmware", k))) : l.kind # "probe"
      BY PrintedRun DEF When, Line
    <3>3. x.kind = "probe"
      BY ProbeLineIs
    <3> QED
      BY <3>1, <3>2, <3>3
  <2>3. CASE r[j] \in {Cmd("probe", d) : d \in (1 .. Len(Probes)) \X (1 .. job.sample_count)}
    <3>1. PICK d \in (1 .. Len(Probes)) \X (1 .. job.sample_count) : r[j] = Cmd("probe", d)
      BY <2>3
    <3>2. d = <<d[1], d[2]>>
      OBVIOUS
    <3>3. Elements(Printed(Cmd("probe", <<d[1], d[2]>>))) = {ProbeLine(d[1], d[2])}
      BY PrintedProbe
    <3>4. ASSUME x = ProbeLine(d[1], d[2]) PROVE FALSE
      <4>1. /\ x.arg.probe = p /\ x.arg.sample = s
        BY ProbeLineIs
      <4>2. ProbeLine(d[1], d[2]).arg.probe = d[1] /\ ProbeLine(d[1], d[2]).arg.sample = d[2]
        BY ProbeLineIs
      <4> HIDE DEF x
      <4>3. p = d[1] /\ s = d[2]
        BY <3>4, <4>1, <4>2
      <4> QED
        BY <2>1, <3>1, <3>2, <4>3
    <3> QED
      BY <3>1, <3>2, <3>3, <3>4
  <2> QED
    BY <2>1, <2>2, <2>3 DEF ProfileCommands
<1> HIDE DEF r, x, c
<1>10. OnlyAt(x, ss[a], 1)
  <2>1. ss[a] = <<x>>
    BY <1>2, <1>6, <1>7
  <2>2. Len(<<x>>) = 1 /\ <<x>>[1] = x
    BY SingleList
  <2> QED
    BY <2>1, <2>2 DEF OnlyAt
<1>11. \A j \in 1 .. Len(r) : j # a => x \notin Elements(ss[j])
  BY <1>2, <1>9
<1> HIDE DEF ss
<1>12. Flat(FlattenSeq(ss), ss, Len(ss))
  BY <1>3, FlattenIs
<1>13. \E i : OnlyAt(x, FlattenSeq(ss), i)
  BY <1>1, <1>2, <1>3, <1>6, <1>10, <1>11, <1>12, OnceFlat
<1> QED
  BY <1>4, <1>13 DEF x

\* The transcript has the line of every probe and sample once.
LEMMA TranscriptOnce ==
    ASSUME Described(job, guest), NEW n, NEW p \in 1 .. Len(Probes), NEW s \in 1 .. job.sample_count
    PROVE  \E i : OnlyAt(ProbeLine(p, s), Transcript(n), i)
<1> DEFINE x == ProbeLine(p, s)
           a == Profile
           f == Factory
           u == Update(n)
           c == Closing
           t == Transcript(n)
<1>1. List(a) /\ List(f) /\ List(u) /\ List(c) /\ t = ((a \o f) \o u) \o c
  BY TranscriptIs
<1>2. PICK i : OnlyAt(x, a, i)
  BY PlacesOnce
<1>3. /\ (Observed("probe", f) => "probe" \in {"registers", "factory_boot", "factory_fault", "outcome"})
      /\ (Observed("probe", u) => "probe" \in {"transfer_begin", "outcome", "cut_triggered", "reboot"})
      /\ (Observed("probe", c) => "probe" \in {"flash", "registers"})
  BY PartKinds
<1>4. x.kind = "probe"
  BY ProbeLineIs
<1> HIDE DEF x, a, f, u, c, t
<1>5. x \notin Elements(f) /\ x \notin Elements(u) /\ x \notin Elements(c)
  <2>1. ~Observed("probe", f) /\ ~Observed("probe", u) /\ ~Observed("probe", c)
    BY <1>3
  <2> QED
    BY <1>4, <2>1, ObservedIn
<1>6. List(a \o f) /\ OnlyAt(x, a \o f, i)
  BY <1>1, <1>2, <1>5, ListConcat, OnceLeft
<1>7. List((a \o f) \o u) /\ OnlyAt(x, (a \o f) \o u, i)
  BY <1>1, <1>5, <1>6, ListConcat, OnceLeft
<1>8. OnlyAt(x, ((a \o f) \o u) \o c, i)
  BY <1>1, <1>5, <1>7, OnceLeft
<1>9. OnlyAt(x, t, i)
  BY ONLY <1>1, <1>8
<1> QED
  BY <1>9 DEF x, t

-----------------------------------------------------------------------------
(* What parse_memory_profile makes of the lines of a probe. *)

LinesOf(text, p) == {i \in DOMAIN text : text[i].kind = "probe" /\ text[i].arg.probe = p}
Before(text, p, i) ==
    {j \in LinesOf(text, p) : \/ text[j].arg.sample < text[i].arg.sample
                              \/ (text[j].arg.sample = text[i].arg.sample /\ j < i)}
Nth(text, p, n) == CHOOSE i \in LinesOf(text, p) : Cardinality(Before(text, p, i)) = n - 1

\* SamplesOf by the operators Places, LinesOf and Nth of this module.
LEMMA SamplesIs ==
    \A text, p : SamplesOf(text, p) =
        [n \in 1 .. Cardinality(LinesOf(text, p)) |-> text[Nth(text, p, n)].arg.value]
BY DEF SamplesOf, LinesOf, Before, Nth

\* Counting the values of an injective function on 1 .. n.
LEMMA Images ==
    ASSUME NEW n \in Nat, NEW f, \A i, j \in 1 .. n : f[i] = f[j] => i = j
    PROVE  Cardinality({f[i] : i \in 1 .. n}) = n
<1> DEFINE S == {f[i] : i \in 1 .. n}
           g == [i \in 1 .. n |-> f[i]]
<1>1. g \in [1 .. n -> S] /\ \A i \in 1 .. n : g[i] = f[i]
  OBVIOUS
<1>2. \A y \in S : \E i \in 1 .. n : g[i] = y
  BY <1>1
<1>3. \A i, j \in 1 .. n : g[i] = g[j] => i = j
  BY <1>1
<1> HIDE DEF S, g
<1>4. g \in Bijection(1 .. n, S)
  BY <1>1, <1>2, <1>3 DEF Bijection, Injection, Surjection, IsInjective
<1>5. ExistsBijection(1 .. n, S)
  BY <1>4 DEF ExistsBijection
<1>6. Cardinality(S) = n
  BY <1>5, FS_CountingElements
<1> QED
  BY <1>6 DEF S

\* One line for each sample, wherever it stands.
LEMMA SamplesFrom ==
    ASSUME NEW text, List(text), NEW p, NEW v, List(v), NEW at,
           \A s \in 1 .. Len(v) :
               /\ at[s] \in 1 .. Len(text)
               /\ text[at[s]].kind = "probe" /\ text[at[s]].arg.probe = p
               /\ text[at[s]].arg.sample = s /\ text[at[s]].arg.value = v[s],
           \A i \in 1 .. Len(text) : text[i].kind = "probe" /\ text[i].arg.probe = p
               => \E s \in 1 .. Len(v) : i = at[s]
    PROVE  SamplesOf(text, p) = v
<1> DEFINE m == Len(v)
           Lines == LinesOf(text, p)
<1>1. m \in Nat /\ DOMAIN text = 1 .. Len(text) /\ v = [s \in 1 .. m |-> v[s]]
  BY ListFacts
<1>2. Lines = {at[s] : s \in 1 .. m}
  BY <1>1 DEF LinesOf
<1>3. \A s, t \in 1 .. m : at[s] = at[t] => s = t
  OBVIOUS
<1>4. Cardinality(Lines) = m
  BY <1>1, <1>2, <1>3, Images
<1>5. ASSUME NEW s \in 1 .. m PROVE Cardinality(Before(text, p, at[s])) = s - 1
  <2>1. s - 1 \in Nat /\ \A t \in 1 .. s - 1 : t \in 1 .. m
    BY <1>1
  <2>2. Before(text, p, at[s]) = {at[t] : t \in 1 .. s - 1}
    <3>1. ASSUME NEW t \in 1 .. s - 1 PROVE at[t] \in Before(text, p, at[s])
      BY <1>2, <2>1 DEF Before
    <3>2. ASSUME NEW j \in Before(text, p, at[s]) PROVE \E t \in 1 .. s - 1 : j = at[t]
      <4>1. PICK t \in 1 .. m : j = at[t]
        BY <1>2 DEF Before
      <4>2. t < s
        BY <4>1 DEF Before
      <4> QED
        BY <1>1, <4>1, <4>2
    <3> QED
      BY <3>1, <3>2
  <2>3. \A i, j \in 1 .. s - 1 : at[i] = at[j] => i = j
    BY <1>3, <2>1
  <2>4. Cardinality({at[t] : t \in 1 .. s - 1}) = s - 1
    BY <2>1, <2>3, Images
  <2> QED
    BY <2>2, <2>4
<1>6. ASSUME NEW n \in 1 .. m PROVE Nth(text, p, n) = at[n]
  <2>1. at[n] \in Lines /\ Cardinality(Before(text, p, at[n])) = n - 1
    BY <1>2, <1>5
  <2>2. \A i \in Lines : Cardinality(Before(text, p, i)) = n - 1 => i = at[n]
    <3> SUFFICES ASSUME NEW i \in Lines, Cardinality(Before(text, p, i)) = n - 1 PROVE i = at[n]
      OBVIOUS
    <3>1. PICK s \in 1 .. m : i = at[s]
      BY <1>2
    <3>2. s - 1 = n - 1
      BY <1>5, <3>1
    <3>3. s = n
      BY <1>1, <3>2
    <3> QED
      BY <3>1, <3>3
  <2> QED
    BY <2>1, <2>2 DEF Nth
<1>7. SamplesOf(text, p) = [n \in 1 .. m |-> text[Nth(text, p, n)].arg.value]
  BY <1>4, SamplesIs
<1>8. \A n \in 1 .. m : text[Nth(text, p, n)].arg.value = v[n]
  BY <1>6
<1> QED
  BY <1>1, <1>7, <1>8

\* The samples that are read from the transcript are the values of the firmware.
LEMMA SamplesTrue ==
    ASSUME Described(job, guest), NEW n, NEW p \in 1 .. Len(Probes)
    PROVE  SamplesOf(Transcript(n), p) = guest.values[p]
<1> DEFINE text == Transcript(n)
           v == guest.values[p]
           at == [s \in 1 .. job.sample_count |-> CHOOSE i : OnlyAt(ProbeLine(p, s), text, i)]
<1>1. List(text)
  BY TranscriptIs
<1>2. List(v) /\ Len(v) = job.sample_count /\ job.sample_count \in Nat
  BY ProbesList
<1>3. \A s \in 1 .. job.sample_count : OnlyAt(ProbeLine(p, s), text, at[s])
  <2> TAKE s \in 1 .. job.sample_count
  <2>1. \E i : OnlyAt(ProbeLine(p, s), text, i)
    BY TranscriptOnce
  <2> QED
    BY <2>1
<1>4. \A l \in Elements(text) : l.kind = "probe" => l \in ProbeLines
  <2> TAKE l \in Elements(text)
  <2> HAVE l.kind = "probe"
  <2>1. l \in ((Elements(Profile) \cup Elements(Factory)) \cup Elements(Update(n))) \cup Elements(Closing)
    BY TranscriptElements
  <2>2. /\ (Observed("probe", Factory) => "probe" \in {"registers", "factory_boot", "factory_fault", "outcome"})
        /\ (Observed("probe", Update(n)) => "probe" \in {"transfer_begin", "outcome", "cut_triggered", "reboot"})
        /\ (Observed("probe", Closing) => "probe" \in {"flash", "registers"})
    BY PartKinds
  <2>3. ~Observed("probe", Factory) /\ ~Observed("probe", Update(n)) /\ ~Observed("probe", Closing)
    BY <2>2
  <2>4. l \in Elements(Profile)
    BY <2>1, <2>3, ObservedIn
  <2>5. l \in FirmwareLines \cup ProbeLines
    BY <2>4, ProfileLines
  <2>6. \A k \in FirmwareLines : k.kind # "probe"
    BY DEF FirmwareLines, When, Line
  <2> QED
    BY <2>5, <2>6
<1> HIDE DEF text, v, at
<1>5. ASSUME NEW s \in 1 .. Len(v)
      PROVE  /\ at[s] \in 1 .. Len(text)
             /\ text[at[s]].kind = "probe" /\ text[at[s]].arg.probe = p
             /\ text[at[s]].arg.sample = s /\ text[at[s]].arg.value = v[s]
  <2>1. at[s] \in 1 .. Len(text) /\ text[at[s]] = ProbeLine(p, s)
    BY <1>2, <1>3 DEF OnlyAt
  <2>2. guest.values[p][s] = v[s]
    BY DEF v
  <2> QED
    BY <2>1, <2>2, ProbeLineIs
<1>6. ASSUME NEW i \in 1 .. Len(text), text[i].kind = "probe", text[i].arg.probe = p
      PROVE  \E s \in 1 .. Len(v) : i = at[s]
  <2>1. text[i] \in ProbeLines
    BY <1>1, <1>4, <1>6, ListFacts
  <2>2. PICK d \in (1 .. Len(Probes)) \X (1 .. job.sample_count) : text[i] = ProbeLine(d[1], d[2])
    BY <2>1 DEF ProbeLines
  <2>3. d[1] = p
    BY <1>6, <2>2, ProbeLineIs
  <2>4. d[2] \in 1 .. job.sample_count /\ text[i] = ProbeLine(p, d[2])
    BY <2>2, <2>3
  <2>5. i = at[d[2]]
    BY <1>3, <2>4 DEF OnlyAt
  <2> QED
    BY <1>2, <2>4, <2>5
<1>7. SamplesOf(text, p) = v
  BY <1>1, <1>2, <1>5, <1>6, SamplesFrom
<1> QED
  BY <1>7 DEF text, v

-----------------------------------------------------------------------------
(* Lines of a kind in the transcript. *)

\* A kind is observed in the transcript when one of its parts has it.
LEMMA PartsObserved ==
    ASSUME Described(job, guest), NEW n, NEW k
    PROVE  Observed(k, Transcript(n)) <=>
               Observed(k, Profile) \/ Observed(k, Factory) \/ Observed(k, Update(n)) \/ Observed(k, Closing)
BY TranscriptElements, ObservedIn

HasKind(S, k) == \E l \in S : l.kind = k

\* The kinds of a union, of a conditional line and of one line.
LEMMA HasKinds ==
    /\ \A S, T, k : HasKind(S \cup T, k) <=> HasKind(S, k) \/ HasKind(T, k)
    /\ \A c, j, v, k : HasKind(When(c, Line(j, v)), k) <=> c /\ j = k
    /\ \A j, v, k : HasKind({Line(j, v)}, k) <=> j = k
<1>0. \A j, v : Line(j, v).kind = j
  BY DEF Line
<1>1. \A S, T, k : HasKind(S \cup T, k) <=> HasKind(S, k) \/ HasKind(T, k)
  BY DEF HasKind
<1>2. \A c, j, v, k : HasKind(When(c, Line(j, v)), k) <=> c /\ j = k
  BY <1>0 DEF HasKind, When
<1>3. \A j, v, k : HasKind({Line(j, v)}, k) <=> j = k
  BY <1>0 DEF HasKind
<1> QED
  BY <1>1, <1>2, <1>3

\* The kinds of longer unions.
LEMMA HasUnions ==
    /\ \A a, b, k : HasKind(a \cup b, k) <=> HasKind(a, k) \/ HasKind(b, k)
    /\ \A a, b, c, k : HasKind((a \cup b) \cup c, k) <=> HasKind(a, k) \/ HasKind(b, k) \/ HasKind(c, k)
    /\ \A a, b, c, d, k : HasKind(((a \cup b) \cup c) \cup d, k)
           <=> HasKind(a, k) \/ HasKind(b, k) \/ HasKind(c, k) \/ HasKind(d, k)
    /\ \A a, b, c, d, k : HasKind(a \cup ((b \cup c) \cup d), k)
           <=> HasKind(a, k) \/ HasKind(b, k) \/ HasKind(c, k) \/ HasKind(d, k)
BY DEF HasKind

\* The kinds of lines the application prints.
LEMMA FirmwareObserved ==
    ASSUME Described(job, guest), job.sample_count > 0
    PROVE  /\ Observed("firmware_boot", Profile) <=> guest.boots
           /\ Observed("iwdg_reset", Profile) <=> guest.watchdog
<1>1. /\ Elements(Profile) \subseteq FirmwareLines \cup ProbeLines
      /\ FirmwareLines \subseteq Elements(Profile)
  BY ProfileLines
<1>2. \A l \in ProbeLines : l.kind = "probe"
  BY ProbeLineIs DEF ProbeLines
<1>0. \A k : HasKind(FirmwareLines, k) <=>
          \/ guest.fault = "early" /\ "firmware_fault" = k
          \/ guest.boots /\ "firmware_boot" = k
          \/ guest.fault = "late" /\ "firmware_fault" = k
          \/ guest.watchdog /\ "iwdg_reset" = k
  <2> DEFINE a == When(guest.fault = "early", Line("firmware_fault", 0))
             b == When(guest.boots, Line("firmware_boot", 0))
             c == When(guest.fault = "late", Line("firmware_fault", 0))
             d == When(guest.watchdog, Line("iwdg_reset", 0))
  <2>1. FirmwareLines = ((a \cup b) \cup c) \cup d
    BY DEF FirmwareLines
  <2>2. \A k : HasKind(a, k) <=> guest.fault = "early" /\ "firmware_fault" = k
    <3>1. CASE guest.fault = "early"
      <4>1. a = {Line("firmware_fault", 0)}
        BY <3>1 DEF When
      <4> QED
        BY <3>1, <4>1, HasKinds
    <3>2. CASE guest.fault # "early"
      <4>1. a = {}
        BY <3>2 DEF When
      <4> HIDE DEF a
      <4> QED
        BY <3>2, <4>1 DEF HasKind
    <3> QED
      BY <3>1, <3>2
  <2>3. \A k : HasKind(b, k) <=> guest.boots /\ "firmware_boot" = k
    BY HasKinds
  <2>4. \A k : HasKind(c, k) <=> guest.fault = "late" /\ "firmware_fault" = k
    <3>1. CASE guest.fault = "late"
      <4>1. c = {Line("firmware_fault", 0)}
        BY <3>1 DEF When
      <4> QED
        BY <3>1, <4>1, HasKinds
    <3>2. CASE guest.fault # "late"
      <4>1. c = {}
        BY <3>2 DEF When
      <4> HIDE DEF c
      <4> QED
        BY <3>2, <4>1 DEF HasKind
    <3> QED
      BY <3>1, <3>2
  <2>5. \A k : HasKind(d, k) <=> guest.watchdog /\ "iwdg_reset" = k
    BY HasKinds
  <2> HIDE DEF a, b, c, d
  <2>6. \A k : HasKind(((a \cup b) \cup c) \cup d, k)
                 <=> HasKind(a, k) \/ HasKind(b, k) \/ HasKind(c, k) \/ HasKind(d, k)
    BY DEF HasKind
  <2> QED
    BY ONLY <2>1, <2>2, <2>3, <2>4, <2>5, <2>6
<1>3. (\E l \in FirmwareLines : l.kind = "firmware_boot") <=> guest.boots
  BY <1>0 DEF HasKind
<1>4. (\E l \in FirmwareLines : l.kind = "iwdg_reset") <=> guest.watchdog
  BY <1>0 DEF HasKind
<1>5. Observed("firmware_boot", Profile) <=> \E l \in FirmwareLines : l.kind = "firmware_boot"
  BY <1>1, <1>2, ObservedIn
<1>6. Observed("iwdg_reset", Profile) <=> \E l \in FirmwareLines : l.kind = "iwdg_reset"
  BY <1>1, <1>2, ObservedIn
<1> QED
  BY <1>3, <1>4, <1>5, <1>6

\* The kinds of lines the update prints.
LEMMA UpdateObserved ==
    ASSUME NEW n
    PROVE  /\ Observed("transfer_begin", Update(n)) <=> job.firmware_driven
           /\ Observed("reboot", Update(n)) <=> job.firmware_driven /\ n > 0
           /\ Observed("cut_triggered", Update(n)) <=> job.firmware_driven /\ n > 0
<1>1. /\ ~job.firmware_driven => Elements(Update(n)) = {}
      /\ job.firmware_driven /\ ~(n > 0) => Elements(Update(n)) = TransferLines(n)
      /\ job.firmware_driven /\ n > 0 => Elements(Update(n)) = TransferLines(n) \cup RebootLines(n)
  BY UpdateLines
<1>2. /\ \E l \in TransferLines(n) : l.kind = "transfer_begin"
      /\ \A l \in TransferLines(n) : l.kind \notin {"reboot", "cut_triggered"}
  <2>1. \A k : HasKind(TransferLines(n), k) <=>
            \/ "transfer_begin" = k
            \/ (~CutHits(n) /\ guest.outcome # None) /\ "outcome" = k
    <3> DEFINE a == {Line("transfer_begin", 0)}
               b == When(~CutHits(n) /\ guest.outcome # None, Line("outcome", guest.outcome))
    <3>1. TransferLines(n) = a \cup b
      BY DEF TransferLines
    <3>2. \A k : HasKind(a, k) <=> "transfer_begin" = k
      BY HasKinds
    <3>3. \A k : HasKind(b, k) <=> (~CutHits(n) /\ guest.outcome # None) /\ "outcome" = k
      BY HasKinds
    <3> HIDE DEF a, b
    <3>4. \A k : HasKind(a \cup b, k) <=> HasKind(a, k) \/ HasKind(b, k)
      BY HasUnions, Zenon
    <3> QED
      BY <3>1, <3>2, <3>3, <3>4, Zenon
  <2>2. /\ HasKind(TransferLines(n), "transfer_begin")
        /\ ~HasKind(TransferLines(n), "reboot") /\ ~HasKind(TransferLines(n), "cut_triggered")
    <3>1. HasKind(TransferLines(n), "transfer_begin")
      BY <2>1
    <3>2. ~HasKind(TransferLines(n), "reboot")
      BY <2>1
    <3>3. ~HasKind(TransferLines(n), "cut_triggered")
      BY <2>1
    <3> QED
      BY <3>1, <3>2, <3>3
  <2> QED
    BY <2>2 DEF HasKind
<1>3. (\E l \in RebootLines(n) : l.kind = "reboot") /\ (\E l \in RebootLines(n) : l.kind = "cut_triggered")
  <2>1. RebootLines(n) = ({Line("cut_triggered", CutHits(n))} \cup {Line("reboot", 0)})
                             \cup When(guest.after_cut[n] # None, Line("outcome", guest.after_cut[n]))
    BY DEF RebootLines
  <2>2. HasKind(RebootLines(n), "reboot") /\ HasKind(RebootLines(n), "cut_triggered")
    <3> DEFINE a == {Line("cut_triggered", CutHits(n))}
               b == {Line("reboot", 0)}
               c == When(guest.after_cut[n] # None, Line("outcome", guest.after_cut[n]))
    <3>1. HasKind(a, "cut_triggered") /\ HasKind(b, "reboot")
      BY HasKinds
    <3> HIDE DEF a, b, c
    <3>2. \A k : HasKind((a \cup b) \cup c, k) <=> HasKind(a, k) \/ HasKind(b, k) \/ HasKind(c, k)
      BY HasUnions, Zenon
    <3>3. RebootLines(n) = (a \cup b) \cup c
      BY <2>1 DEF a, b, c
    <3> QED
      BY ONLY <3>1, <3>2, <3>3
  <2> QED
    BY <2>2 DEF HasKind
<1>4. \A k : Observed(k, Update(n)) <=> \E l \in Elements(Update(n)) : l.kind = k
  BY ObservedIn
<1>5. CASE ~job.firmware_driven
  BY <1>1, <1>4, <1>5
<1>6. CASE job.firmware_driven /\ ~(n > 0)
  BY <1>1, <1>2, <1>4, <1>6
<1>7. CASE job.firmware_driven /\ n > 0
  BY <1>1, <1>2, <1>3, <1>4, <1>7
<1> QED
  BY <1>5, <1>6, <1>7

\* The kinds of lines a whole transcript has.
LEMMA TranscriptKinds ==
    ASSUME Described(job, guest), job.sample_count > 0, NEW n
    PROVE  /\ Observed("firmware_boot", Transcript(n)) <=> guest.boots
           /\ Observed("iwdg_reset", Transcript(n)) <=> guest.watchdog
           /\ Observed("factory_boot", Transcript(n)) <=> guest.factory_boots
           /\ Observed("registers", Transcript(n)) /\ Observed("flash", Transcript(n))
           /\ ~Observed("fault", Transcript(n)) /\ ~Observed("error", Transcript(n))
           /\ Observed("transfer_begin", Transcript(n)) <=> job.firmware_driven
           /\ Observed("reboot", Transcript(n)) <=> job.firmware_driven /\ n > 0
           /\ Observed("cut_triggered", Transcript(n)) <=> job.firmware_driven /\ n > 0
<1> DEFINE p == Profile
           f == Factory
           u == Update(n)
           c == Closing
           t == Transcript(n)
<1>1. \A k : Observed(k, t) <=> Observed(k, p) \/ Observed(k, f) \/ Observed(k, u) \/ Observed(k, c)
  BY PartsObserved
<1>2. \A k : /\ (Observed(k, f) => k \in {"registers", "factory_boot", "factory_fault", "outcome"})
             /\ (Observed(k, u) => k \in {"transfer_begin", "outcome", "cut_triggered", "reboot"})
             /\ (Observed(k, c) => k \in {"flash", "registers"})
             /\ (Observed(k, p) => k \in {"firmware_boot", "firmware_fault", "iwdg_reset", "probe"})
  BY PartKinds
<1>3. (Observed("firmware_boot", p) <=> guest.boots) /\ (Observed("iwdg_reset", p) <=> guest.watchdog)
  BY FirmwareObserved
<1>4. /\ Observed("transfer_begin", u) <=> job.firmware_driven
      /\ Observed("reboot", u) <=> job.firmware_driven /\ n > 0
      /\ Observed("cut_triggered", u) <=> job.firmware_driven /\ n > 0
  BY UpdateObserved
<1>5. Observed("factory_boot", f) <=> guest.factory_boots
  <2>1. (\E l \in Elements(Factory) : l.kind = "factory_boot") <=> guest.factory_boots
    <3>1. HasKind(Elements(Factory), "factory_boot") <=>
              \/ "registers" = "factory_boot"
              \/ guest.factory_boots /\ "factory_boot" = "factory_boot"
              \/ guest.factory_fault /\ "factory_fault" = "factory_boot"
              \/ (guest.early_outcome # None) /\ "outcome" = "factory_boot"
      <4> DEFINE a == {Line("registers", 0)}
                 b == When(guest.factory_boots, Line("factory_boot", 0))
                 e == When(guest.factory_fault, Line("factory_fault", 0))
                 d == When(guest.early_outcome # None, Line("outcome", guest.early_outcome))
      <4>1. Elements(Factory) = a \cup ((b \cup e) \cup d)
        BY FactoryLines
      <4>2. HasKind(a, "factory_boot") <=> "registers" = "factory_boot"
        BY HasKinds
      <4>3. HasKind(b, "factory_boot") <=> guest.factory_boots /\ "factory_boot" = "factory_boot"
        BY HasKinds
      <4>4. HasKind(e, "factory_boot") <=> guest.factory_fault /\ "factory_fault" = "factory_boot"
        BY HasKinds
      <4>5. HasKind(d, "factory_boot") <=> (guest.early_outcome # None) /\ "outcome" = "factory_boot"
        BY HasKinds
      <4> HIDE DEF a, b, e, d
      <4>6. HasKind(a \cup ((b \cup e) \cup d), "factory_boot")
                <=> \/ HasKind(a, "factory_boot") \/ HasKind(b, "factory_boot")
                    \/ HasKind(e, "factory_boot") \/ HasKind(d, "factory_boot")
        BY DEF HasKind
      <4> QED
        BY ONLY <4>1, <4>2, <4>3, <4>4, <4>5, <4>6
    <3> QED
      BY <3>1 DEF HasKind
  <2> QED
    BY <2>1, ObservedIn
<1>6. Observed("registers", c) /\ Observed("flash", c)
  <2>1. /\ \E l \in Elements(Closing) : l.kind = "registers"
        /\ \E l \in Elements(Closing) : l.kind = "flash"
    BY ClosingLines DEF Line
  <2> QED
    BY <2>1, ObservedIn
<1> HIDE DEF p, f, u, c, t
<1>7. /\ Observed("firmware_boot", t) <=> guest.boots
      /\ Observed("iwdg_reset", t) <=> guest.watchdog
  BY <1>1, <1>2, <1>3
<1>8. Observed("factory_boot", t) <=> guest.factory_boots
  BY <1>1, <1>2, <1>5
<1>9. /\ Observed("registers", t) /\ Observed("flash", t)
      /\ ~Observed("fault", t) /\ ~Observed("error", t)
  BY <1>1, <1>2, <1>6
<1>10. Observed("transfer_begin", t) <=> job.firmware_driven
  BY <1>1, <1>2, <1>4
<1>11. Observed("reboot", t) <=> job.firmware_driven /\ n > 0
  BY <1>1, <1>2, <1>4
<1>12. Observed("cut_triggered", t) <=> job.firmware_driven /\ n > 0
  BY <1>1, <1>2, <1>4
<1> QED
  BY <1>7, <1>8, <1>9, <1>10, <1>11, <1>12 DEF t

\* The list of flash operations and the mark of the cut.
LEMMA TranscriptFirsts ==
    ASSUME Described(job, guest), job.sample_count > 0, NEW n
    PROVE  /\ FirstLine("flash", Transcript(n)).arg = guest.trace
           /\ job.firmware_driven /\ n > 0 => FirstLine("cut_triggered", Transcript(n)).arg = CutHits(n)
<1> DEFINE t == Transcript(n)
<1>1. List(t)
  BY TranscriptIs
<1>2. Observed("flash", t) /\ (job.firmware_driven /\ n > 0 => Observed("cut_triggered", t))
  BY TranscriptKinds
<1>3. \A k : /\ (Observed(k, Factory) => k \in {"registers", "factory_boot", "factory_fault", "outcome"})
             /\ (Observed(k, Update(n)) => k \in {"transfer_begin", "outcome", "cut_triggered", "reboot"})
             /\ (Observed(k, Closing) => k \in {"flash", "registers"})
             /\ (Observed(k, Profile) => k \in {"firmware_boot", "firmware_fault", "iwdg_reset", "probe"})
  BY PartKinds
<1>4. \A l \in Elements(t) : l.kind = "flash" => l \in Elements(Closing)
  BY <1>3, TranscriptElements, ObservedIn
<1>5. \A l \in Elements(t) : l.kind = "cut_triggered" => l \in Elements(Update(n))
  BY <1>3, TranscriptElements, ObservedIn
<1>6. \A l \in Elements(Closing) : l.kind = "flash" => l.arg = guest.trace
  BY ClosingLines DEF Line
<1>7. \A l \in Elements(Update(n)) : l.kind = "cut_triggered" => l.arg = CutHits(n)
  <2>1. \A l \in TransferLines(n) \cup RebootLines(n) : l.kind = "cut_triggered" => l.arg = CutHits(n)
    BY DEF TransferLines, RebootLines, When, Line
  <2> QED
    BY <2>1, UpdateLines
<1> HIDE DEF t
<1>8. FirstLine("flash", t).arg = guest.trace
  <2>1. FirstLine("flash", t) \in Elements(t) /\ FirstLine("flash", t).kind = "flash"
    BY <1>1, <1>2, FirstLineIn
  <2> QED
    BY <1>4, <1>6, <2>1
<1>9. ASSUME job.firmware_driven, n > 0 PROVE FirstLine("cut_triggered", t).arg = CutHits(n)
  <2>1. FirstLine("cut_triggered", t) \in Elements(t) /\ FirstLine("cut_triggered", t).kind = "cut_triggered"
    BY <1>1, <1>2, <1>9, FirstLineIn
  <2> QED
    BY <1>5, <1>7, <2>1
<1> QED
  BY <1>8, <1>9 DEF t

-----------------------------------------------------------------------------
(* Outcomes. *)

\* A text whose only line with an outcome is a given one has this outcome.
LEMMA OutcomesFew ==
    ASSUME NEW text, NEW o,
           \A l : (l \in Elements(text) /\ l.kind = "outcome") <=> (o # None /\ l = Line("outcome", o))
    PROVE  UniqueOutcome(text) /\ OutcomeOf(text) = o
<1>0. Line("outcome", o).arg = o
  BY DEF Line
<1>1. CASE o = None
  <2>1. Outcomes(text) = {}
    BY <1>1 DEF Outcomes
  <2>2. Cardinality({}) = 0
    BY FS_EmptySet
  <2> QED
    BY <1>1, <2>1, <2>2 DEF UniqueOutcome, OutcomeOf
<1>2. CASE o # None
  <2> DEFINE L == {l \in Elements(text) : l.kind = "outcome"}
  <2>1. L = {Line("outcome", o)}
    BY <1>2
  <2>2. Outcomes(text) = {l.arg : l \in L}
    BY DEF Outcomes
  <2> HIDE DEF L
  <2>3. Outcomes(text) = {o}
    BY <1>0, <2>1, <2>2
  <2>4. Cardinality({o}) = 1
    BY FS_Singleton
  <2>5. (CHOOSE x \in {o} : TRUE) = o
    OBVIOUS
  <2> QED
    BY <2>3, <2>4, <2>5 DEF UniqueOutcome, OutcomeOf
<1> QED
  BY <1>1, <1>2

-----------------------------------------------------------------------------
(* What stands behind the start of the update and behind the reboot. *)

Associated(a, b, c) == (a \o b) \o c = a \o (b \o c)
\* Concatenation associates.
LEMMA Associates == \A a, b, c : List(a) /\ List(b) /\ List(c) => Associated(a, b, c)
BY ListAssociative DEF Associated

\* What follows the beginning of the transfer, without a cut.
LEMMA TransferFollowed ==
    ASSUME Described(job, guest), job.firmware_driven
    PROVE  Elements(Following("transfer_begin", Transcript(0)))
               = When(~CutHits(0) /\ guest.outcome # None, Line("outcome", guest.outcome)) \cup Elements(Closing)
<1> DEFINE p == Profile
           f == Factory
           x == Transferred(0)
           c == Closing
           l == Line("transfer_begin", 0)
           e == <<l>>
           b == If(~CutHits(0) /\ guest.outcome # None, Line("outcome", guest.outcome))
           t == Transcript(0)
           late == When(~CutHits(0) /\ guest.outcome # None, Line("outcome", guest.outcome))
<1>1. List(p) /\ List(f) /\ List(c) /\ t = ((p \o f) \o Update(0)) \o c
  BY TranscriptIs
<1>2. Update(0) = x
  BY OtaIs DEF Update
<1>3. List(x) /\ List(b) /\ x = e \o b /\ Elements(b) = late
  BY PrintedTransfer DEF Transferred
<1>4. List(e) /\ l.kind = "transfer_begin"
  BY SingleList DEF Line
<1>5. /\ (Observed("transfer_begin", f) =>
             "transfer_begin" \in {"registers", "factory_boot", "factory_fault", "outcome"})
      /\ (Observed("transfer_begin", p) =>
             "transfer_begin" \in {"firmware_boot", "firmware_fault", "iwdg_reset", "probe"})
  BY PartKinds
<1>6. ~Observed("transfer_begin", f) /\ ~Observed("transfer_begin", p)
  BY <1>5
<1>e. e = <<l>>
  OBVIOUS
<1> HIDE DEF p, f, x, c, l, e, b, t, late
<1>7. List(p \o f) /\ Elements(p \o f) = Elements(p) \cup Elements(f)
  BY <1>1, TwoLists
<1>8. \A y \in Elements(p \o f) : y.kind # "transfer_begin"
  BY <1>6, <1>7, ObservedIn
<1>9. List(b \o c) /\ Elements(b \o c) = late \cup Elements(c)
  BY <1>1, <1>3, TwoLists
<1>10. t = (p \o f) \o (e \o (b \o c))
  <2>0. List(p \o f) /\ List(x) /\ List(c) /\ List(e) /\ List(b)
    BY <1>1, <1>3, <1>4, <1>7
  <2>1. Associated(p \o f, x, c)
    BY ONLY <2>0, Associates, Zenon
  <2>2. Associated(e, b, c)
    BY ONLY <2>0, Associates, Zenon
  <2> QED
    BY ONLY <1>1, <1>2, <1>3, <2>1, <2>2 DEF Associated
<1> DEFINE a == p \o f
           r == b \o c
<1>11. Parted(t, a, l, r)
  BY ONLY <1>10, <1>e DEF Parted
<1> HIDE DEF a, r
<1>12. List(a) /\ List(r) /\ ~Observed("transfer_begin", a)
  BY <1>7, <1>8, <1>9, ObservedIn DEF a, r
<1>13. Elements(Following("transfer_begin", t)) = Elements(r)
  <2>1. l.kind = "transfer_begin"
    BY <1>4
  <2> QED
    BY ONLY <1>11, <1>12, <2>1, FollowingIs
<1> QED
  BY <1>9, <1>13 DEF r, t, late, c

\* What follows the reboot after a cut.
LEMMA RebootFollowed ==
    ASSUME Described(job, guest), job.firmware_driven, NEW n, n > 0
    PROVE  Elements(Following("reboot", Transcript(n)))
               = When(guest.after_cut[n] # None, Line("outcome", guest.after_cut[n])) \cup Elements(Closing)
<1> DEFINE p == Profile
           f == Factory
           x == Transferred(n)
           y == Rebooted(n)
           c == Closing
           k == Line("cut_triggered", CutHits(n))
           l == Line("reboot", 0)
           d == <<k>>
           e == <<l>>
           g == <<k, l>>
           b == If(guest.after_cut[n] # None, Line("outcome", guest.after_cut[n]))
           t == Transcript(n)
           late == When(guest.after_cut[n] # None, Line("outcome", guest.after_cut[n]))
<1>1. List(p) /\ List(f) /\ List(c) /\ t = ((p \o f) \o Update(n)) \o c
  BY TranscriptIs
<1>2. Update(n) = x \o y
  BY OtaIs DEF Update
<1>3. List(x) /\ Elements(x) = TransferLines(n)
  BY PrintedTransfer DEF Transferred, TransferLines
<1>4. List(y) /\ List(b) /\ y = g \o b /\ Elements(b) = late
  BY PrintedReboot DEF Rebooted
<1>5. List(d) /\ List(e) /\ Elements(d) = {k} /\ l.kind = "reboot" /\ k.kind = "cut_triggered"
  BY SingleList, ElementsFew DEF Line
<1>6. g = d \o e
  BY PairList
<1>7. /\ (Observed("reboot", f) => "reboot" \in {"registers", "factory_boot", "factory_fault", "outcome"})
      /\ (Observed("reboot", p) => "reboot" \in {"firmware_boot", "firmware_fault", "iwdg_reset", "probe"})
  BY PartKinds
<1>8. ~Observed("reboot", f) /\ ~Observed("reboot", p)
  BY <1>7
<1>9. \A z \in TransferLines(n) : z.kind # "reboot"
  BY DEF TransferLines, When, Line
<1>e. e = <<l>>
  OBVIOUS
<1> HIDE DEF p, f, x, y, c, k, l, d, e, g, b, t, late
<1>10. List(p \o f) /\ Elements(p \o f) = Elements(p) \cup Elements(f)
  BY <1>1, TwoLists
<1>11. List((p \o f) \o x) /\ Elements((p \o f) \o x) = Elements(p \o f) \cup Elements(x)
  BY <1>3, <1>10, TwoLists
<1>12. List(((p \o f) \o x) \o d) /\ Elements(((p \o f) \o x) \o d) = Elements((p \o f) \o x) \cup Elements(d)
  BY <1>5, <1>11, TwoLists
<1>13. \A z \in Elements(((p \o f) \o x) \o d) : z.kind # "reboot"
  BY <1>3, <1>5, <1>8, <1>9, <1>10, <1>11, <1>12, ObservedIn
<1>14. List(b \o c) /\ Elements(b \o c) = late \cup Elements(c)
  BY <1>1, <1>4, TwoLists
<1>15. List(e \o (b \o c)) /\ List(y \o c)
  BY <1>1, <1>4, <1>5, <1>14, ListConcat
<1>16. y \o c = d \o (e \o (b \o c))
  <2>0. List(b) /\ List(c) /\ List(d) /\ List(e)
    BY <1>1, <1>4, <1>5
  <2>1. Associated(d, e, b)
    BY ONLY <2>0, Associates, Zenon
  <2>2. List(e \o b)
    BY <1>4, <1>5, ListConcat
  <2>3. Associated(d, e \o b, c)
    BY ONLY <2>0, <2>2, Associates, Zenon
  <2>4. Associated(e, b, c)
    BY ONLY <2>0, Associates, Zenon
  <2> QED
    BY ONLY <1>4, <1>6, <2>1, <2>3, <2>4 DEF Associated
<1>17. t = (((p \o f) \o x) \o d) \o (e \o (b \o c))
  <2>0. /\ List(p \o f) /\ List((p \o f) \o x) /\ List(x) /\ List(y) /\ List(c) /\ List(d)
        /\ List(e \o (b \o c))
    BY <1>1, <1>3, <1>4, <1>5, <1>10, <1>11, <1>15
  <2>1. Associated(p \o f, x, y)
    BY ONLY <2>0, Associates, Zenon
  <2>2. Associated((p \o f) \o x, y, c)
    BY ONLY <2>0, Associates, Zenon
  <2>3. Associated((p \o f) \o x, d, e \o (b \o c))
    BY ONLY <2>0, Associates, Zenon
  <2> QED
    BY ONLY <1>1, <1>2, <1>16, <2>1, <2>2, <2>3 DEF Associated
<1> DEFINE a == ((p \o f) \o x) \o d
           r == b \o c
<1>18. Parted(t, a, l, r)
  BY ONLY <1>17, <1>e DEF Parted
<1> HIDE DEF a, r
<1>19. List(a) /\ List(r) /\ ~Observed("reboot", a)
  BY <1>12, <1>13, <1>14, ObservedIn DEF a, r
<1>20. Elements(Following("reboot", t)) = Elements(r)
  <2>1. l.kind = "reboot"
    BY <1>5
  <2> QED
    BY ONLY <1>18, <1>19, <2>1, FollowingIs
<1> QED
  BY <1>14, <1>20 DEF r, t, late, c

-----------------------------------------------------------------------------
(* The verdicts. *)

\* The first process has at most one outcome after its transfer begins: that of the firmware.
LEMMA FirstOutcome ==
    ASSUME Described(job, guest)
    PROVE  LET text == IF Observed("transfer_begin", Transcript(0))
                       THEN Following("transfer_begin", Transcript(0)) ELSE Transcript(0)
           IN  /\ UniqueOutcome(text)
               /\ job.firmware_driven => OutcomeOf(text) = guest.outcome
<1> DEFINE t == Transcript(0)
           q == Following("transfer_begin", t)
<1>1. \A l \in Elements(Closing) : l.kind # "outcome"
  BY ClosingLines DEF Line
<1>2. \A j, v : Line(j, v).kind = j
  BY DEF Line
<1>3. ~CutHits(0)
  BY DEF CutHits
<1>4. CASE job.firmware_driven
  <2>1. Observed("transfer_begin", t)
    <3>1. Observed("transfer_begin", Update(0))
      BY <1>4, UpdateObserved
    <3> QED
      BY <3>1, PartsObserved
  <2>2. Elements(q) = When(~CutHits(0) /\ guest.outcome # None, Line("outcome", guest.outcome))
                          \cup Elements(Closing)
    BY <1>4, TransferFollowed
  <2> DEFINE o == guest.outcome
             lo == Line("outcome", o)
  <2>3. lo.kind = "outcome"
    BY <1>2
  <2>4. \A l : l \in Elements(q) <=> (o # None /\ l = lo) \/ l \in Elements(Closing)
    <3>1. When(~CutHits(0) /\ guest.outcome # None, Line("outcome", guest.outcome))
              = IF o # None THEN {lo} ELSE {}
      BY <1>3 DEF When
    <3> QED
      BY <2>2, <3>1
  <2> HIDE DEF q, lo
  <2>5. \A l : (l \in Elements(q) /\ l.kind = "outcome") <=> (o # None /\ l = lo)
    BY <1>1, <2>3, <2>4
  <2>6. UniqueOutcome(q) /\ OutcomeOf(q) = o
    BY <2>5, OutcomesFew DEF lo
  <2> QED
    BY <2>1, <2>6 DEF q
<1>5. CASE ~job.firmware_driven
  <2>1. ~Observed("transfer_begin", t)
    <3>1. ~Observed("transfer_begin", Update(0))
      BY <1>5, UpdateObserved
    <3>2. /\ (Observed("transfer_begin", Factory) =>
                 "transfer_begin" \in {"registers", "factory_boot", "factory_fault", "outcome"})
          /\ (Observed("transfer_begin", Closing) => "transfer_begin" \in {"flash", "registers"})
          /\ (Observed("transfer_begin", Profile) =>
                 "transfer_begin" \in {"firmware_boot", "firmware_fault", "iwdg_reset", "probe"})
      BY PartKinds
    <3>3. /\ ~Observed("transfer_begin", Factory) /\ ~Observed("transfer_begin", Closing)
          /\ ~Observed("transfer_begin", Profile)
      BY <3>2
    <3> QED
      BY <3>1, <3>3, PartsObserved
  <2>2. Elements(t) = ((Elements(Profile) \cup Elements(Factory)) \cup Elements(Update(0))) \cup Elements(Closing)
    BY TranscriptElements
  <2>3. Elements(Update(0)) = {}
    BY <1>5, UpdateLines
  <2>4. \A l \in Elements(Profile) : l.kind # "outcome"
    <3>1. Observed("outcome", Profile) =>
              "outcome" \in {"firmware_boot", "firmware_fault", "iwdg_reset", "probe"}
      BY PartKinds
    <3>2. ~Observed("outcome", Profile)
      BY <3>1
    <3> QED
      BY <3>2, ObservedIn
  <2> DEFINE o == guest.early_outcome
             lo == Line("outcome", o)
  <2>5. \A l : (l \in Elements(Factory) /\ l.kind = "outcome") <=> (o # None /\ l = lo)
    <3> DEFINE other == ({Line("registers", 0)} \cup When(guest.factory_boots, Line("factory_boot", 0)))
                            \cup When(guest.factory_fault, Line("factory_fault", 0))
               some == When(guest.early_outcome # None, Line("outcome", guest.early_outcome))
    <3>1. Elements(Factory) = other \cup some
      BY FactoryLines
    <3>2. \A l \in other : l.kind # "outcome"
      BY DEF When, Line
    <3>3. some = IF o # None THEN {lo} ELSE {}
      BY DEF When
    <3>4. lo.kind = "outcome"
      BY <1>2
    <3> HIDE DEF other, some, lo
    <3> QED
      BY <3>1, <3>2, <3>3, <3>4
  <2> HIDE DEF t, lo
  <2>6. \A l : (l \in Elements(t) /\ l.kind = "outcome") <=> (o # None /\ l = lo)
    BY <1>1, <2>2, <2>3, <2>4, <2>5
  <2>7. UniqueOutcome(t)
    BY <2>6, OutcomesFew DEF lo
  <2> QED
    BY <1>5, <2>1, <2>7 DEF t
<1> QED
  BY <1>4, <1>5

-----------------------------------------------------------------------------
(* The operations to cut after. *)

Picked(f, t) ==
    f = [n \in 0 .. Len(t) |->
            IF n = 0 THEN <<>>
            ELSE IF job.every_operation \/ t[n] \in job.events THEN Append(f[n - 1], n)
            ELSE f[n - 1]]

\* Selected by the recursive function it chooses.
LEMMA SelectedAs == \A t : Selected(t) = (CHOOSE f : Picked(f, t))[Len(t)]
BY DEF Selected, Picked

\* There is such a function.
LEMMA PickedExists ==
    ASSUME NEW t, Len(t) \in Nat
    PROVE  \E f : Picked(f, t)
<1> DEFINE m == Len(t)
           S == Seq(1 .. m)
           Wanted(n) == n \in 1 .. m /\ (job.every_operation \/ t[n] \in job.events)
           g == [i \in Nat |-> [s \in S |-> IF Wanted(i + 1) THEN Append(s, i + 1) ELSE s]]
<1>1. ASSUME NEW i \in Nat, NEW s \in S PROVE (IF Wanted(i + 1) THEN Append(s, i + 1) ELSE s) \in S
  <2>1. Wanted(i + 1) => i + 1 \in 1 .. m
    OBVIOUS
  <2> HIDE DEF Wanted, m
  <2>2. ASSUME i + 1 \in 1 .. m PROVE Append(s, i + 1) \in S
    BY <2>2, AppendProperties
  <2> QED
    BY <2>1, <2>2
<1>2. g \in [Nat -> [S -> S]]
  BY <1>1
<1>3. <<>> \in S
  OBVIOUS
<1>4. \A i \in Nat : \A s \in S : g[i][s] = IF Wanted(i + 1) THEN Append(s, i + 1) ELSE s
  OBVIOUS
<1>5. m \in Nat
  OBVIOUS
<1>w. \A n \in 1 .. m : Wanted(n) <=> job.every_operation \/ t[n] \in job.events
  OBVIOUS
<1> HIDE DEF S, g, m, Wanted
<1>6. PICK f : Repeats(f, S, <<>>, g, m)
  BY <1>2, <1>3, <1>5, Repeated
<1>7. /\ f \in [0 .. m -> S] /\ f[0] = <<>>
      /\ \A i \in 0 .. m - 1 : f[i + 1] = g[i][f[i]]
  BY <1>6 DEF Repeats
<1>8. ASSUME NEW n \in 0 .. m
      PROVE  f[n] = IF n = 0 THEN <<>>
                    ELSE IF job.every_operation \/ t[n] \in job.events THEN Append(f[n - 1], n)
                    ELSE f[n - 1]
  <2>1. CASE n = 0
    BY <1>7, <2>1
  <2>2. CASE n # 0
    <3>1. n - 1 \in 0 .. m - 1 /\ (n - 1) + 1 = n /\ n - 1 \in Nat /\ n \in 1 .. m /\ n - 1 \in 0 .. m
      BY <1>5, <2>2
    <3>2. f[n] = g[n - 1][f[n - 1]] /\ f[n - 1] \in S
      BY <1>7, <3>1
    <3>3. f[n] = IF Wanted(n) THEN Append(f[n - 1], n) ELSE f[n - 1]
      BY <1>4, <3>1, <3>2
    <3> QED
      BY <1>w, <2>2, <3>1, <3>3
  <2> QED
    BY <2>1, <2>2
<1>9. f = [n \in 0 .. m |-> f[n]]
  BY <1>7
<1>10. f = [n \in 0 .. m |->
            IF n = 0 THEN <<>>
            ELSE IF job.every_operation \/ t[n] \in job.events THEN Append(f[n - 1], n)
            ELSE f[n - 1]]
  BY <1>8, <1>9
<1> QED
  BY <1>10 DEF Picked, m

\* The selected operations are a list of places in the trace.
LEMMA SelectedIs ==
    ASSUME NEW t, Len(t) \in Nat
    PROVE  /\ List(Selected(t))
           /\ \A i \in 1 .. Len(Selected(t)) : Selected(t)[i] \in 1 .. Len(t)
<1> DEFINE m == Len(t)
           f == CHOOSE g : Picked(g, t)
           T == {i \in Nat : i \in 0 .. m => f[i] \in Seq(1 .. m)}
<1>1. Picked(f, t)
  BY PickedExists
<1>2. \A n \in 0 .. m : f[n] = IF n = 0 THEN <<>>
                    ELSE IF job.every_operation \/ t[n] \in job.events THEN Append(f[n - 1], n)
                    ELSE f[n - 1]
  BY <1>1 DEF Picked
<1>3. Selected(t) = f[m]
  BY SelectedAs
<1>m. m \in Nat
  OBVIOUS
<1> HIDE DEF f, m
<1>4. 0 \in T
  <2>1. f[0] = <<>> /\ 0 \in Nat
    BY <1>2, <1>m
  <2>2. <<>> \in Seq(1 .. m)
    OBVIOUS
  <2> QED
    BY <2>1, <2>2
<1>5. ASSUME NEW i \in 0 .. m PROVE i \in T /\ i + 1 \in 0 .. m => i + 1 \in T
  <2> HAVE i \in T /\ i + 1 \in 0 .. m
  <2>1. f[i] \in Seq(1 .. m) /\ i + 1 \in 1 .. m /\ i + 1 # 0 /\ (i + 1) - 1 = i /\ i + 1 \in Nat
    BY <1>5, <1>m
  <2>2. f[i + 1] = IF job.every_operation \/ t[i + 1] \in job.events THEN Append(f[i], i + 1) ELSE f[i]
    BY <1>2, <2>1
  <2>3. f[i + 1] \in Seq(1 .. m)
    <3>1. Append(f[i], i + 1) \in Seq(1 .. m)
      BY <2>1
    <3> QED
      BY <2>1, <2>2, <3>1
  <2> QED
    BY <2>1, <2>3
<1> HIDE DEF T
<1>6. 0 .. m \subseteq T
  BY <1>m, <1>4, <1>5, EveryFrom
<1>7. f[m] \in Seq(1 .. m)
  BY <1>m, <1>6 DEF T
<1>8. List(f[m]) /\ \A i \in 1 .. Len(f[m]) : f[m][i] \in 1 .. m
  <2>1. List(f[m])
    BY <1>7, SeqIsList
  <2>2. DOMAIN f[m] = 1 .. Len(f[m]) /\ f[m] \in [1 .. Len(f[m]) -> 1 .. m]
    BY <1>7, LenProperties
  <2> QED
    BY <2>1, <2>2
<1> QED
  BY <1>3, <1>8 DEF m

\* The firmware's values of some controller's registers show a missing acknowledgement.
FaultShown ==
    \E c \in Elements(CanControllers(job.architecture)) :
        AckFault(guest.values[ProbeOf(ErrorCount(c))], guest.values[ProbeOf(ErrorCode(c))])

\* What the firmware must be, apart from its behaviour after a cut.
Sound ==
    /\ guest.boots /\ guest.factory_boots
    /\ guest.fault # "late" /\ ~guest.factory_fault /\ ~guest.watchdog
    /\ \A p \in DOMAIN Probes : WithinLimits(Probes[p], Qualified(Probes[p], guest.values[p], job.warmup))
    /\ ~job.can_acknowledged => FaultShown
    /\ job.firmware_driven => guest.outcome # None /\ guest.trace # <<>>
    /\ PowerCutting => Selected(guest.trace) # <<>>

\* A whole transcript of an undisturbed first process is accepted exactly when the
\* firmware is sound, and shows its trace.
LEMMA BaselineJudged ==
    ASSUME Described(job, guest), ExecutionValid, combined = Transcript(0), child = "ok", ~faulted
    PROVE  (BaselineAccepted <=> Sound) /\ FlashTrace = guest.trace
<1> DEFINE t == Transcript(0)
<1>1. job.sample_count > 0
  BY DEF ExecutionValid
<1>2. /\ Observed("firmware_boot", t) <=> guest.boots
      /\ Observed("iwdg_reset", t) <=> guest.watchdog
      /\ Observed("factory_boot", t) <=> guest.factory_boots
      /\ Observed("registers", t) /\ Observed("flash", t)
      /\ ~Observed("fault", t) /\ ~Observed("error", t)
  BY <1>1, TranscriptKinds
<1>3. FirstLine("flash", t).arg = guest.trace
  BY <1>1, TranscriptFirsts
<1>4. /\ (ObservedAfter("firmware_boot", "firmware_fault", t) <=> guest.boots /\ guest.fault = "late")
      /\ (ObservedAfter("factory_boot", "factory_fault", t) <=> guest.factory_boots /\ guest.factory_fault)
  BY <1>1, TranscriptOrder
<1>5. UniqueOutcome(AfterTransfer) /\ (job.firmware_driven => OutcomeOf(AfterTransfer) = guest.outcome)
  BY FirstOutcome DEF AfterTransfer
<1>6. \A p \in DOMAIN Probes : SamplesOf(t, p) = guest.values[p] /\ Len(guest.values[p]) = job.sample_count
  <2> TAKE p \in DOMAIN Probes
  <2>1. p \in 1 .. Len(Probes)
    BY ProbesList
  <2>2. SamplesOf(t, p) = guest.values[p]
    BY <2>1, SamplesTrue
  <2>3. Len(guest.values[p]) = job.sample_count
    BY <2>1, ProbesList
  <2> QED
    BY <2>2, <2>3
<1> HIDE DEF t
<1>7. ProfileAccepted(t) <=>
          \A p \in DOMAIN Probes : WithinLimits(Probes[p], Qualified(Probes[p], guest.values[p], job.warmup))
  BY <1>6 DEF ProfileAccepted
<1>8. AckFaultSeen(t) <=> (~job.can_acknowledged => FaultShown)
  <2> SUFFICES ASSUME ~job.can_acknowledged PROVE AckFaultSeen(t) <=> FaultShown
    BY DEF AckFaultSeen
  <2>1. List(job.probes)
    BY DEF Described
  <2> SUFFICES ASSUME NEW c \in Elements(CanControllers(job.architecture)), NEW r \in {ErrorCount(c), ErrorCode(c)}
               PROVE  SamplesOf(t, ProbeOf(r)) = guest.values[ProbeOf(r)]
    BY DEF AckFaultSeen, FaultShown
  <2>2. Named(Probes, r) # {}
    BY <2>1, ProbesAdded
  <2>3. ProbeOf(r) \in DOMAIN Probes
    BY <2>2 DEF ProbeOf, Named
  <2> QED
    BY <1>6, <2>3
<1>9. combined = t
  BY DEF t
<1>10. FlashTrace = guest.trace
  BY <1>3, <1>9 DEF FlashTrace
<1>11. TranscriptClean
  BY <1>2, <1>9 DEF TranscriptClean
<1>12. BaselineAccepted <=>
        /\ ~guest.watchdog
        /\ \A p \in DOMAIN Probes : WithinLimits(Probes[p], Qualified(Probes[p], guest.values[p], job.warmup))
        /\ ~job.can_acknowledged => FaultShown
        /\ guest.boots /\ guest.factory_boots
        /\ ~(guest.boots /\ guest.fault = "late")
        /\ ~(guest.factory_boots /\ guest.factory_fault)
        /\ job.firmware_driven => guest.outcome # None /\ guest.trace # <<>>
        /\ PowerCutting => Selected(guest.trace) # <<>>
  BY <1>2, <1>4, <1>5, <1>7, <1>8, <1>9, <1>10, <1>11 DEF BaselineAccepted
<1>13. BaselineAccepted <=> Sound
  BY <1>12 DEF Sound
<1> QED
  BY <1>10, <1>13

\* A whole transcript of an undisturbed cut is accepted exactly when the firmware reports
\* an outcome after it, and shows this outcome.
LEMMA CutJudged ==
    ASSUME Described(job, guest), ExecutionValid, job.firmware_driven, NEW n \in 1 .. Len(guest.trace),
           combined = Transcript(n), child = "ok", ~faulted
    PROVE  /\ CutAccepted <=> guest.after_cut[n] # None
           /\ OutcomeOf(Following("reboot", combined)) = guest.after_cut[n]
<1> DEFINE t == Transcript(n)
           q == Following("reboot", t)
           o == guest.after_cut[n]
           lo == Line("outcome", o)
<1>0. Len(guest.trace) \in Nat
  BY ListFacts DEF Described
<1>1. job.sample_count > 0 /\ n > 0 /\ CutHits(n)
  BY <1>0 DEF ExecutionValid, CutHits
<1>2. /\ ~Observed("fault", t) /\ ~Observed("error", t) /\ Observed("reboot", t)
  BY <1>1, TranscriptKinds
<1>3. FirstLine("cut_triggered", t).arg = CutHits(n)
  BY <1>1, TranscriptFirsts
<1>4. Elements(q) = When(guest.after_cut[n] # None, Line("outcome", guest.after_cut[n])) \cup Elements(Closing)
  BY <1>1, RebootFollowed
<1>5. \A l \in Elements(Closing) : l.kind # "outcome"
  BY ClosingLines DEF Line
<1>6. lo.kind = "outcome"
  BY DEF Line
<1>7. When(guest.after_cut[n] # None, Line("outcome", guest.after_cut[n])) = IF o # None THEN {lo} ELSE {}
  BY DEF When
<1>8. combined = t
  OBVIOUS
<1> HIDE DEF t, q, lo
<1>9. \A l : (l \in Elements(q) /\ l.kind = "outcome") <=> (o # None /\ l = lo)
  BY <1>4, <1>5, <1>6, <1>7
<1>10. UniqueOutcome(q) /\ OutcomeOf(q) = o
  BY <1>9, OutcomesFew DEF lo
<1>11. CutAccepted <=> o # None
  BY <1>1, <1>2, <1>3, <1>8, <1>10 DEF CutAccepted, TranscriptClean, q
<1> QED
  BY <1>8, <1>10, <1>11 DEF q

-----------------------------------------------------------------------------
(* The verdict. *)

Sel == IF PowerCutting THEN Selected(guest.trace) ELSE <<>>
Recovers == PowerCutting => \A n \in ToSet(Selected(guest.trace)) : guest.after_cut[n] # None

\* What was reported of the first k selected operations, and what is left to do.
Entry(n, after) == [after |-> n, outcome |-> after[n]]
ReportedTo(rs, se, after, k) ==
    /\ List(rs) /\ Len(rs) = k
    /\ \A i \in 1 .. k : rs[i] = Entry(se[i], after) /\ after[se[i]] # None
LeftFrom(td, se, k) ==
    List(td) /\ Len(td) = Len(se) - k /\ \A i \in 1 .. Len(td) : td[i] = se[k + i]

BetweenAt(td, rs, se, after, k) == k \in 0 .. Len(se) /\ ReportedTo(rs, se, after, k) /\ LeftFrom(td, se, k)
DuringAt(n, td, rs, se, after, k) ==
    k \in 1 .. Len(se) /\ n = se[k] /\ ReportedTo(rs, se, after, k - 1) /\ LeftFrom(td, se, k)

Between(td, rs, se, after) == \E k : BetweenAt(td, rs, se, after, k)
During(n, td, rs, se, after) == \E k : DuringAt(n, td, rs, se, after, k)
Uncut(n, td, rs) == n = 0 /\ rs = <<>> /\ td = <<>>

Running == {"receive", "kill", "poll", "join", "judge"}

VerdictInv ==
    /\ runner \notin {"idle", "failed"} => ExecutionValid
    /\ runner = "idle" => Uncut(cut, todo, results)
    /\ runner \in Running =>
          Uncut(cut, todo, results) \/ (Sound /\ During(cut, todo, results, Sel, guest.after_cut))
    /\ runner \in {"next", "done"} =>
          Sound /\ mishap = "none" /\ Between(todo, results, Sel, guest.after_cut)
    /\ runner = "done" => todo = <<>>
    /\ runner = "failed" => ~(Sound /\ Recovers /\ mishap = "none") \/ ~ExecutionValid

\* A healthy board is sound, recovers from every selected cut, and nothing went wrong.
LEMMA HealthyIs == Healthy <=> Sound /\ Recovers /\ mishap = "none"
BY DEF Healthy, Sound, Recovers, FaultShown

\* What is judged does not change while settings and firmware do not.
LEMMA JudgedRigid ==
    ASSUME job' = job, guest' = guest
    PROVE  /\ Probes' = Probes /\ PowerCutting' = PowerCutting
           /\ Selected(guest.trace)' = Selected(guest.trace)
<1>1. Probes' = Probes /\ PowerCutting' = PowerCutting
  BY DEF Probes, PowerCutting
<1>2. Selected(guest.trace)' = Selected(guest.trace)
  BY DEF Selected
<1> QED
  BY <1>1, <1>2

\* Nor does the verdict they deserve.
LEMMA VerdictRigid ==
    ASSUME job' = job, guest' = guest
    PROVE  /\ Sel' = Sel /\ (Recovers' <=> Recovers) /\ (ExecutionValid' <=> ExecutionValid)
           /\ Sound' <=> Sound
<1>1. /\ Probes' = Probes /\ PowerCutting' = PowerCutting
      /\ Selected(guest.trace)' = Selected(guest.trace)
  BY JudgedRigid
<1>2. Sel' = Sel
  BY <1>1 DEF Sel
<1>3. Recovers' <=> Recovers
  BY <1>1 DEF Recovers
<1>4. ExecutionValid' <=> ExecutionValid
  BY DEF ExecutionValid, ProbesAddable
<1>5. Sound' <=> Sound
  <2>1. FaultShown' <=> FaultShown
    BY <1>1 DEF FaultShown, ProbeOf
  <2> QED
    BY <1>1, <2>1 DEF Sound
<1> QED
  BY <1>2, <1>3, <1>4, <1>5

\* Steps of the process and of the runner that waits for it leave the verdict alone.
LEMMA VerdictStays ==
    ASSUME VerdictInv, UNCHANGED <<job, guest, cut, todo, results>>,
           runner' = runner \/ (runner \in Running /\ runner' \in Running),
           mishap' = mishap \/ runner \in Running
    PROVE  VerdictInv'
<1>1. /\ Sel' = Sel /\ (Recovers' <=> Recovers) /\ (ExecutionValid' <=> ExecutionValid)
      /\ Sound' <=> Sound
  BY VerdictRigid
<1>2. /\ Uncut(cut, todo, results)' <=> Uncut(cut, todo, results)
      /\ During(cut, todo, results, Sel, guest.after_cut)' <=> During(cut, todo, results, Sel, guest.after_cut)
      /\ Between(todo, results, Sel, guest.after_cut)' <=> Between(todo, results, Sel, guest.after_cut)
  BY <1>1
<1>3. runner' \notin {"idle", "failed"} => ExecutionValid
  BY DEF VerdictInv, Running
<1>4. runner' = "idle" => Uncut(cut, todo, results)
  BY DEF VerdictInv, Running
<1>5. runner' \in Running =>
          Uncut(cut, todo, results) \/ (Sound /\ During(cut, todo, results, Sel, guest.after_cut))
  BY DEF VerdictInv, Running
<1>6. runner' \in {"next", "done"} =>
          Sound /\ mishap' = "none" /\ Between(todo, results, Sel, guest.after_cut)
  BY DEF VerdictInv, Running
<1>7. runner' = "done" => todo' = <<>>
  BY DEF VerdictInv, Running
<1>8. runner' = "failed" => ~(Sound /\ Recovers /\ mishap' = "none") \/ ~ExecutionValid
  BY DEF VerdictInv, Running
<1> QED
  BY <1>1, <1>2, <1>3, <1>4, <1>5, <1>6, <1>7, <1>8 DEF VerdictInv

\* A cut is made after a selected operation, of which there are only some.
LEMMA SelList ==
    ASSUME Described(job, guest)
    PROVE  /\ List(Sel) /\ Len(guest.trace) \in Nat
           /\ \A i \in 1 .. Len(Sel) : Sel[i] \in 1 .. Len(guest.trace)
           /\ Sel # <<>> => PowerCutting
<1>1. Len(guest.trace) \in Nat
  BY ListFacts DEF Described
<1>2. List(Selected(guest.trace))
      /\ \A i \in 1 .. Len(Selected(guest.trace)) : Selected(guest.trace)[i] \in 1 .. Len(guest.trace)
  BY <1>1, SelectedIs
<1>3. CASE PowerCutting
  BY <1>1, <1>2, <1>3 DEF Sel
<1>4. CASE ~PowerCutting
  <2>1. Sel = <<>>
    BY <1>4 DEF Sel
  <2> QED
    BY <1>1, <2>1, EmptyList
<1> QED
  BY <1>3, <1>4

\* A cut in progress is after an operation of the trace.
LEMMA CutIsSelected ==
    ASSUME Described(job, guest), NEW k, DuringAt(cut, todo, results, Sel, guest.after_cut, k)
    PROVE  cut \in 1 .. Len(guest.trace) /\ cut > 0 /\ PowerCutting /\ k \in 1 .. Len(Sel) /\ cut = Sel[k]
<1>1. k \in 1 .. Len(Sel) /\ cut = Sel[k]
  BY DEF DuringAt
<1>2. cut \in 1 .. Len(guest.trace) /\ Len(guest.trace) \in Nat /\ List(Sel)
  BY <1>1, SelList
<1>3. Sel # <<>>
  BY <1>1, EmptyList
<1> QED
  BY <1>1, <1>2, <1>3, SelList

\* The verdict on the first process.
LEMMA BaselineVerdict ==
    ASSUME ProcessInv, VerdictInv, Described(job, guest), JudgeBaseline
    PROVE  VerdictInv'
<1>1. /\ runner = "judge" /\ cut = 0 /\ results' = results /\ cut' = cut
      /\ UNCHANGED <<job, guest, mishap>>
      /\ \/ BaselineAccepted /\ todo' = (IF PowerCutting THEN Selected(FlashTrace) ELSE <<>>) /\ runner' = "next"
         \/ ~BaselineAccepted /\ runner' = "failed" /\ todo' = todo
  BY DEF JudgeBaseline, ProcessGone, SettingsUntouched
<1>2. Uncut(cut, todo, results) /\ ExecutionValid
  <2>1. ~During(cut, todo, results, Sel, guest.after_cut)
    <3> SUFFICES ASSUME NEW k, DuringAt(cut, todo, results, Sel, guest.after_cut, k) PROVE FALSE
      BY DEF During
    <3> QED
      BY <1>1, CutIsSelected
  <2> QED
    BY <1>1, <2>1 DEF VerdictInv, Running
<1>3. BaselineAccepted => mishap = "none"
  BY <1>1, CleanComplete DEF BaselineAccepted
<1>4. mishap = "none" => (BaselineAccepted <=> Sound) /\ FlashTrace = guest.trace
  <2>1. mishap = "none" => combined = Transcript(0) /\ child = "ok" /\ ~faulted
    BY <1>1, CleanComplete
  <2> QED
    BY <1>2, <2>1, BaselineJudged
<1>5. /\ Sel' = Sel /\ (Recovers' <=> Recovers) /\ (ExecutionValid' <=> ExecutionValid)
      /\ Sound' <=> Sound
  BY <1>1, VerdictRigid
<1>6. CASE BaselineAccepted
  <2>1. runner' = "next" /\ todo' = Sel /\ results' = <<>> /\ Sound /\ mishap' = "none" /\ guest' = guest
    BY <1>1, <1>2, <1>3, <1>4, <1>6 DEF Sel, Uncut
  <2>2. Between(todo', results', Sel, guest.after_cut)
    <3>1. List(Sel) /\ Len(Sel) \in Nat
      BY SelList, ListFacts
    <3>2. ReportedTo(<<>>, Sel, guest.after_cut, 0)
      BY EmptyList DEF ReportedTo
    <3>3. LeftFrom(Sel, Sel, 0)
      BY <3>1 DEF LeftFrom
    <3>4. 0 \in 0 .. Len(Sel)
      BY <3>1
    <3> QED
      BY <2>1, <3>2, <3>3, <3>4 DEF Between, BetweenAt
  <2> QED
    BY <1>2, <1>5, <2>1, <2>2 DEF VerdictInv, Running
<1>7. CASE ~BaselineAccepted
  <2>1. runner' = "failed" /\ mishap' = mishap
    BY <1>1, <1>7
  <2>2. ~(Sound /\ Recovers /\ mishap = "none")
    BY <1>4, <1>7
  <2> QED
    BY <1>2, <1>5, <2>1, <2>2 DEF VerdictInv, Running
<1> QED
  BY <1>6, <1>7

\* The tail of a list.
LEMMA TailParts ==
    ASSUME NEW s, List(s), s # <<>>
    PROVE  /\ List(Tail(s)) /\ Len(s) = 1 + Len(Tail(s)) /\ Head(s) = s[1]
           /\ \A i \in 1 .. Len(Tail(s)) : Tail(s)[i] = s[1 + i]
<1> DEFINE S == Elements(s)
<1>1. s \in Seq(S)
  BY DEF List
<1> HIDE DEF S
<1>2. Tail(s) \in Seq(S) /\ Len(s) = 1 + Len(Tail(s)) /\ Head(s) = s[1]
      /\ \A i \in 1 .. Len(Tail(s)) : Tail(s)[i] = s[1 + i]
  BY <1>1
<1>3. List(Tail(s))
  BY <1>2, SeqIsList
<1> QED
  BY <1>2, <1>3

\* A list with one more element.
LEMMA AppendParts ==
    ASSUME NEW s, List(s), NEW x
    PROVE  /\ List(Append(s, x)) /\ Len(Append(s, x)) = Len(s) + 1 /\ Append(s, x)[Len(s) + 1] = x
           /\ \A i \in 1 .. Len(s) : Append(s, x)[i] = s[i]
<1> DEFINE S == Elements(s) \cup {x}
<1>0. Len(s) \in Nat /\ DOMAIN s = 1 .. Len(s) /\ s = [i \in 1 .. Len(s) |-> s[i]]
      /\ \A i \in 1 .. Len(s) : s[i] \in Elements(s)
  BY ListFacts
<1>1. s \in Seq(S) /\ x \in S
  <2>1. s \in [1 .. Len(s) -> S]
    BY <1>0
  <2> QED
    BY <1>0, <2>1, SeqDef
<1> HIDE DEF S
<1>2. Append(s, x) \in Seq(S) /\ Len(Append(s, x)) = Len(s) + 1 /\ Append(s, x)[Len(s) + 1] = x
      /\ \A i \in 1 .. Len(s) : Append(s, x)[i] = s[i]
  BY <1>1
<1>3. List(Append(s, x))
  BY <1>2, SeqIsList
<1> QED
  BY <1>2, <1>3

\* The next selected operation is cut.
LEMMA NextCutVerdict ==
    ASSUME VerdictInv, Described(job, guest), NextCut
    PROVE  VerdictInv'
<1>1. /\ runner = "next" /\ todo # <<>> /\ todo' = Tail(todo) /\ cut' = Head(todo) /\ runner' = "receive"
      /\ UNCHANGED <<job, guest, mishap, results>>
  BY DEF NextCut, Launch, SettingsUntouched
<1>2. ExecutionValid /\ Sound /\ Between(todo, results, Sel, guest.after_cut)
  BY <1>1 DEF VerdictInv
<1>3. /\ Sel' = Sel /\ (Recovers' <=> Recovers) /\ (ExecutionValid' <=> ExecutionValid)
      /\ Sound' <=> Sound
  BY <1>1, VerdictRigid
<1>4. PICK k : BetweenAt(todo, results, Sel, guest.after_cut, k)
  BY <1>2 DEF Between
<1>5. /\ k \in 0 .. Len(Sel) /\ ReportedTo(results, Sel, guest.after_cut, k) /\ List(todo)
      /\ Len(todo) = Len(Sel) - k /\ \A i \in 1 .. Len(todo) : todo[i] = Sel[k + i]
  BY <1>4 DEF BetweenAt, LeftFrom
<1>6. Len(Sel) \in Nat /\ Len(todo) \in Nat
  BY <1>5, SelList, ListFacts
<1>7. /\ List(todo') /\ Len(todo) = 1 + Len(todo') /\ cut' = todo[1]
      /\ \A i \in 1 .. Len(todo') : todo'[i] = todo[1 + i]
  BY <1>1, <1>5, TailParts
<1>8. Len(todo') \in Nat
  BY <1>7, ListFacts
<1>9. k + 1 \in 1 .. Len(Sel) /\ cut' = Sel[k + 1] /\ (k + 1) - 1 = k
  <2>1. 1 \in 1 .. Len(todo) /\ k + 1 <= Len(Sel) /\ k + 1 \in 1 .. Len(Sel) /\ (k + 1) - 1 = k
    BY <1>5, <1>6, <1>7, <1>8
  <2>2. todo[1] = Sel[k + 1]
    BY <1>5, <2>1
  <2> QED
    BY <1>7, <2>1, <2>2
<1>10. LeftFrom(todo', Sel, k + 1)
  <2>0. k \in Nat /\ Len(todo) = Len(Sel) - k /\ Len(todo) = 1 + Len(todo')
    <3>1. Len(todo) = 1 + Len(todo')
      BY ONLY <1>7
    <3>2. Len(todo) = Len(Sel) - k
      BY ONLY <1>5
    <3>3. k \in Nat
      BY <1>9
    <3> QED
      BY ONLY <3>1, <3>2, <3>3
  <2>1. Len(todo') = Len(Sel) - (k + 1)
    BY ONLY <2>0, <1>6, <1>8
  <2>2. ASSUME NEW i \in 1 .. Len(todo') PROVE todo'[i] = Sel[(k + 1) + i]
    <3>1. 1 + i \in 1 .. Len(todo) /\ k + (1 + i) = (k + 1) + i
      BY <1>5, <1>6, <1>7, <1>8
    <3>2. todo'[i] = todo[1 + i] /\ todo[1 + i] = Sel[k + (1 + i)]
      BY <1>5, <1>7, <3>1
    <3> QED
      BY <3>1, <3>2
  <2> QED
    BY <1>7, <2>1, <2>2 DEF LeftFrom
<1>11. DuringAt(cut', todo', results, Sel, guest.after_cut, k + 1)
  BY <1>5, <1>9, <1>10 DEF DuringAt
<1>12. During(cut', todo', results, Sel, guest.after_cut)
  BY <1>11 DEF During
<1>13. During(cut, todo, results, Sel, guest.after_cut)'
  BY <1>1, <1>3, <1>12
<1> QED
  BY <1>1, <1>2, <1>3, <1>13 DEF VerdictInv, Running

\* The verdict on a cut.
LEMMA CutVerdict ==
    ASSUME ProcessInv, VerdictInv, Described(job, guest), JudgeCut
    PROVE  VerdictInv'
<1> DEFINE o == OutcomeOf(Following("reboot", combined))
<1>1. /\ runner = "judge" /\ cut > 0 /\ todo' = todo /\ cut' = cut
      /\ UNCHANGED <<job, guest, mishap>>
      /\ \/ CutAccepted /\ results' = Append(results, [after |-> cut, outcome |-> o]) /\ runner' = "next"
         \/ ~CutAccepted /\ runner' = "failed" /\ results' = results
  BY DEF JudgeCut, ProcessGone, SettingsUntouched
<1> HIDE DEF o
<1>2. Sound /\ During(cut, todo, results, Sel, guest.after_cut) /\ ExecutionValid
  BY <1>1 DEF VerdictInv, Running, Uncut
<1>3. PICK k : DuringAt(cut, todo, results, Sel, guest.after_cut, k)
  BY <1>2 DEF During
<1>4. cut \in 1 .. Len(guest.trace) /\ PowerCutting /\ k \in 1 .. Len(Sel) /\ cut = Sel[k]
  BY <1>3, CutIsSelected
<1>5. List(Sel) /\ Len(Sel) \in Nat /\ DOMAIN Sel = 1 .. Len(Sel)
  BY SelList, ListFacts
<1>6. CutAccepted => mishap = "none"
  BY <1>1, CleanComplete DEF CutAccepted
<1>7. mishap = "none" => (CutAccepted <=> guest.after_cut[cut] # None) /\ o = guest.after_cut[cut]
  <2>1. mishap = "none" => combined = Transcript(cut) /\ child = "ok" /\ ~faulted
    BY <1>1, CleanComplete
  <2>2. job.firmware_driven
    BY <1>4 DEF PowerCutting
  <2> QED
    BY <1>2, <1>4, <2>1, <2>2, CutJudged DEF o
<1>8. /\ Sel' = Sel /\ (Recovers' <=> Recovers) /\ (ExecutionValid' <=> ExecutionValid)
      /\ Sound' <=> Sound
  BY <1>1, VerdictRigid
<1>9. CASE CutAccepted
  <2>1. /\ mishap' = "none" /\ runner' = "next" /\ guest.after_cut[cut] # None
        /\ results' = Append(results, Entry(cut, guest.after_cut))
    BY <1>1, <1>6, <1>7, <1>9 DEF Entry
  <2>2. /\ List(results) /\ Len(results) = k - 1 /\ LeftFrom(todo, Sel, k)
        /\ \A i \in 1 .. k - 1 : results[i] = Entry(Sel[i], guest.after_cut) /\ guest.after_cut[Sel[i]] # None
    BY <1>3 DEF DuringAt, ReportedTo
  <2>3. /\ List(results') /\ Len(results') = k /\ results'[k] = Entry(cut, guest.after_cut)
        /\ \A i \in 1 .. k - 1 : results'[i] = results[i]
    <3> DEFINE e == Entry(cut, guest.after_cut)
    <3> HIDE DEF e
    <3>1. results' = Append(results, e)
      BY <2>1 DEF e
    <3>2. /\ List(results') /\ Len(results') = Len(results) + 1 /\ results'[Len(results) + 1] = e
          /\ \A i \in 1 .. Len(results) : results'[i] = results[i]
      BY <2>2, <3>1, AppendParts
    <3>3. (k - 1) + 1 = k
      BY <1>4
    <3> QED
      BY <2>2, <3>2, <3>3 DEF e
  <2>4. ASSUME NEW i \in 1 .. k
        PROVE  results'[i] = Entry(Sel[i], guest.after_cut) /\ guest.after_cut[Sel[i]] # None
    <3>1. CASE i = k
      BY <1>4, <2>1, <2>3, <3>1
    <3>2. CASE i # k
      <4>1. i \in 1 .. k - 1
        BY <1>4, <3>2
      <4> QED
        BY <2>2, <2>3, <4>1
    <3> QED
      BY <3>1, <3>2
  <2>5. ReportedTo(results', Sel, guest.after_cut, k)
    BY <2>3, <2>4 DEF ReportedTo
  <2>6. k \in 0 .. Len(Sel)
    BY <1>4, <1>5
  <2>7. Between(todo, results', Sel, guest.after_cut)
    BY <2>2, <2>5, <2>6 DEF Between, BetweenAt
  <2>8. Between(todo, results, Sel, guest.after_cut)'
    BY <1>1, <1>8, <2>7
  <2> QED
    BY <1>2, <1>8, <2>1, <2>8 DEF VerdictInv, Running
<1>10. CASE ~CutAccepted
  <2>1. runner' = "failed" /\ mishap' = mishap
    BY <1>1, <1>10
  <2>2. mishap = "none" => ~Recovers
    <3> SUFFICES ASSUME mishap = "none" PROVE ~Recovers
      OBVIOUS
    <3>1. guest.after_cut[cut] = None
      BY <1>7, <1>10
    <3>2. cut \in ToSet(Selected(guest.trace))
      BY <1>4, <1>5 DEF Sel, ToSet
    <3> QED
      BY <1>4, <3>1, <3>2 DEF Recovers
  <2>3. ~(Sound /\ Recovers /\ mishap = "none")
    BY <2>2
  <2> QED
    BY <1>2, <1>8, <2>1, <2>3 DEF VerdictInv, Running
<1> QED
  BY <1>9, <1>10

\* The verdict after the last cut.
LEMMA EndVerdict == ASSUME VerdictInv, ExecutionEnd PROVE VerdictInv'
<1>1. /\ runner = "next" /\ todo = <<>> /\ runner' = "done"
      /\ UNCHANGED <<job, guest, mishap, todo, results, cut>>
  BY DEF ExecutionEnd, ProcessGone, SettingsUntouched
<1>2. ExecutionValid /\ Sound /\ mishap = "none" /\ Between(todo, results, Sel, guest.after_cut)
  BY <1>1 DEF VerdictInv
<1>3. /\ Sel' = Sel /\ (Recovers' <=> Recovers) /\ (ExecutionValid' <=> ExecutionValid)
      /\ Sound' <=> Sound
  BY <1>1, VerdictRigid
<1>4. Between(todo, results, Sel, guest.after_cut)'
  BY <1>1, <1>2, <1>3
<1> QED
  BY <1>1, <1>2, <1>3, <1>4 DEF VerdictInv, Running

\* The first process, or none when the settings are refused.
LEMMA BeginVerdict ==
    ASSUME ProcessInv, VerdictInv, Described(job, guest), ExecutionBegin, mishap = "none"
    PROVE  ProcessInv' /\ VerdictInv'
<1>1. /\ runner = "idle" /\ UNCHANGED <<job, guest, mishap, todo, results>>
      /\ \/ ExecutionValid /\ Launch(0)
         \/ ~ExecutionValid /\ runner' = "failed" /\ UNCHANGED <<procVars, cut>>
  BY DEF ExecutionBegin, SettingsUntouched
<1>2. Uncut(cut, todo, results)
  BY <1>1 DEF VerdictInv
<1>3. /\ Sel' = Sel /\ (Recovers' <=> Recovers) /\ (ExecutionValid' <=> ExecutionValid)
      /\ Sound' <=> Sound
  BY <1>1, VerdictRigid
<1>4. CASE ExecutionValid /\ Launch(0)
  <2>1. ProcessInv'
    BY <1>1, <1>4, LaunchKept
  <2>2. runner' = "receive" /\ cut' = 0
    BY <1>4 DEF Launch
  <2>3. Uncut(cut, todo, results)'
    BY <1>1, <1>2, <2>2 DEF Uncut
  <2> QED
    BY <1>3, <1>4, <2>1, <2>2, <2>3 DEF VerdictInv, Running
<1>5. CASE ~ExecutionValid /\ runner' = "failed" /\ UNCHANGED <<procVars, cut>>
  <2>1. VerdictInv'
    BY <1>3, <1>5 DEF VerdictInv, Running
  <2>2. UNCHANGED <<job, guest, cut, script, pipe, reading, runtime, child, channel, combined, faulted, mishap>>
    BY <1>1, <1>5 DEF procVars
  <2>3. ListsTyped'
    BY <1>5, <2>2, Rigid DEF ListsTyped, ProcessInv
  <2>4. Drained' /\ Settled' /\ (mishap' = "none" /\ runner' \notin {"idle", "failed"}) = FALSE
    BY <1>1, <1>5, <2>2 DEF ProcessInv, Drained, Settled
  <2> QED
    BY <1>5, <2>1, <2>2, <2>3, <2>4 DEF ProcessInv
<1> QED
  BY <1>1, <1>4, <1>5

\* What is said of a verdict follows.
LEMMA VerdictFollows ==
    ASSUME VerdictInv, Described(job, guest)
    PROVE  VerdictTruthful
<1>1. ASSUME runner = "done"
      PROVE  /\ Healthy
             /\ PowerCutting =>
                    results = [i \in DOMAIN Selected(guest.trace) |->
                                  [after   |-> Selected(guest.trace)[i],
                                   outcome |-> guest.after_cut[Selected(guest.trace)[i]]]]
  <2>1. Sound /\ mishap = "none" /\ Between(todo, results, Sel, guest.after_cut) /\ todo = <<>>
    BY <1>1 DEF VerdictInv
  <2>2. PICK k : BetweenAt(todo, results, Sel, guest.after_cut, k)
    BY <2>1 DEF Between
  <2>3. List(Sel) /\ Len(Sel) \in Nat /\ DOMAIN Sel = 1 .. Len(Sel) /\ Len(todo) = 0
    BY <2>1, SelList, ListFacts, EmptyList
  <2>4. k = Len(Sel) /\ ReportedTo(results, Sel, guest.after_cut, k)
    BY <2>2, <2>3 DEF BetweenAt, LeftFrom
  <2>5. /\ List(results) /\ Len(results) = Len(Sel)
        /\ \A i \in 1 .. Len(Sel) : results[i] = Entry(Sel[i], guest.after_cut) /\ guest.after_cut[Sel[i]] # None
    BY <2>4 DEF ReportedTo
  <2>6. Recovers
    <3> SUFFICES ASSUME PowerCutting, NEW n \in ToSet(Selected(guest.trace))
                 PROVE  guest.after_cut[n] # None
      BY DEF Recovers
    <3>1. PICK i \in DOMAIN Sel : n = Sel[i]
      BY DEF ToSet, Sel
    <3> QED
      BY <2>3, <2>5, <3>1
  <2>7. results = [i \in 1 .. Len(Sel) |-> Entry(Sel[i], guest.after_cut)]
    <3>1. results = [i \in 1 .. Len(Sel) |-> results[i]]
      BY <2>5, ListFacts
    <3> QED
      BY <2>5, <3>1
  <2>8. ASSUME PowerCutting
        PROVE  results = [i \in DOMAIN Selected(guest.trace) |->
                             [after   |-> Selected(guest.trace)[i],
                              outcome |-> guest.after_cut[Selected(guest.trace)[i]]]]
    <3>1. Sel = Selected(guest.trace)
      BY <2>8 DEF Sel
    <3> QED
      BY <2>3, <2>7, <3>1 DEF Entry
  <2> QED
    BY <2>1, <2>6, <2>8, HealthyIs
<1>2. ASSUME runner = "failed" PROVE ~Healthy \/ ~ExecutionValid
  BY <1>2, HealthyIs DEF VerdictInv
<1> QED
  BY <1>1, <1>2 DEF VerdictTruthful

-----------------------------------------------------------------------------
(* Every step of an execution, and of the run around it. *)

ExecutionInv == Described(job, guest) /\ ProcessInv /\ VerdictInv

\* A step of another part of the run.
LEMMA ExecutionStays == ASSUME ExecutionInv, UNCHANGED executionVars PROVE ExecutionInv'
<1>1. /\ UNCHANGED <<job, guest, cut, script, pipe, reading, runtime, child, channel, combined, faulted, mishap>>
      /\ UNCHANGED <<job, guest, cut, todo, results>> /\ runner' = runner
  BY DEF executionVars, procVars
<1>2. ListsTyped'
  BY <1>1, Rigid DEF ExecutionInv, ListsTyped, ProcessInv
<1>3. Drained' /\ Settled'
  BY <1>1 DEF ExecutionInv, Drained, Settled, ProcessInv
<1>4. ASSUME mishap' = "none", runner' \notin {"idle", "failed"} PROVE Undisturbed'
  <2>1. Undisturbed
    BY <1>1, <1>4 DEF ExecutionInv, ProcessInv
  <2>2. Holds(combined', channel', pipe', script', cut')
    BY <1>1, <2>1 DEF Undisturbed, Holds
  <2> QED
    BY <1>1, <2>1, <2>2, Rigid DEF Undisturbed
<1>5. ASSUME mishap' # "none" PROVE Marked'
  BY <1>1, <1>5 DEF ExecutionInv, ProcessInv, Marked
<1>6. ProcessInv'
  BY <1>2, <1>3, <1>4, <1>5 DEF ProcessInv
<1>7. VerdictInv'
  BY <1>1, VerdictStays DEF ExecutionInv
<1>8. Described(job, guest)'
  BY <1>1 DEF ExecutionInv, Described
<1> QED
  BY <1>6, <1>7, <1>8 DEF ExecutionInv

\* The threads and the processes leave the verdict to the runner.
LEMMA ProcessStep ==
    ASSUME ExecutionInv, Simulator \/ \E p \in Pipes : Reader(p)
    PROVE  ProcessInv' /\ VerdictInv'
<1>0. ProcessInv /\ VerdictInv
  BY DEF ExecutionInv
<1>1. CASE Simulator
  <2>1. ProcessInv'
    BY <1>0, <1>1, CommandRunsKept, ScriptQuitsKept, ChildEndsKept, RuntimeCrashesKept,
       CommandFailsKept, ErrorLoggedKept DEF Simulator
  <2>2. UNCHANGED <<job, guest, cut, todo, results, runner>>
    BY <1>1 DEF Simulator, CommandRuns, ScriptQuits, ChildEnds, RuntimeCrashes, CommandFails, ErrorLogged,
                RunnerUntouched
  <2>3. mishap' = mishap \/ runtime = "busy"
    BY <1>1 DEF Simulator, CommandRuns, ScriptQuits, ChildEnds, RuntimeCrashes, CommandFails, ErrorLogged,
                Busy
  <2>4. mishap' = mishap \/ runner \in Running
    BY <1>0, <2>3, BusyRuns DEF Running
  <2>5. VerdictInv'
    BY <1>0, <2>2, <2>4, VerdictStays
  <2> QED
    BY <2>1, <2>5
<1>2. ASSUME NEW p \in Pipes, Reader(p) PROVE ProcessInv' /\ VerdictInv'
  <2>1. ProcessInv'
    BY <1>0, <1>2, ForwardKept, ReaderEndsKept DEF Reader
  <2>2. UNCHANGED <<job, guest, cut, todo, results, runner, mishap>>
    BY <1>2 DEF Reader, Forward, ReaderEnds
  <2>3. VerdictInv'
    BY <1>0, <2>2, VerdictStays
  <2> QED
    BY <2>1, <2>3
<1> QED
  BY <1>1, <1>2

\* A step of the runner.
LEMMA RunnerStep == ASSUME ExecutionInv, Runner PROVE ProcessInv' /\ VerdictInv'
<1>0. ProcessInv /\ VerdictInv /\ Described(job, guest)
  BY DEF ExecutionInv
<1>1. CASE Receive \/ ReceiveTimeout \/ KillChild \/ Poll \/ Join
  <2>1. ProcessInv'
    BY <1>0, <1>1, ReceiveKept, TimeoutKept, KillKept, PollKept, JoinKept
  <2>2. /\ UNCHANGED <<job, guest, cut, todo, results, mishap>>
        /\ runner \in Running /\ runner' \in Running
    BY <1>1 DEF Receive, ReceiveTimeout, KillChild, Poll, Join, ProcessUntouched, Running
  <2>3. VerdictInv'
    BY <1>0, <2>2, VerdictStays
  <2> QED
    BY <2>1, <2>3
<1>2. CASE JudgeBaseline
  BY <1>0, <1>2, JudgeBaselineKept, BaselineVerdict
<1>3. CASE JudgeCut
  BY <1>0, <1>3, JudgeCutKept, CutVerdict
<1>4. CASE ExecutionEnd
  BY <1>0, <1>4, ExecutionEndKept, EndVerdict
<1>5. CASE NextCut
  <2>1. mishap = "none" /\ UNCHANGED <<job, guest, mishap>> /\ Launch(Head(todo))
    BY <1>0, <1>5 DEF NextCut, VerdictInv, SettingsUntouched
  <2>2. ProcessInv'
    BY <1>0, <2>1, LaunchKept
  <2> QED
    BY <1>0, <1>5, <2>2, NextCutVerdict
<1> QED
  BY <1>1, <1>2, <1>3, <1>4, <1>5 DEF Runner

\* No step of an execution changes its settings or the firmware.
LEMMA SettingsRigid ==
    ASSUME ExecutionStep \/ ExecutionBegin
    PROVE  UNCHANGED <<job, guest>>
BY DEF ExecutionStep, ExecutionBegin, Runner, Simulator, Reader, CommandRuns, ScriptQuits, ChildEnds,
       RuntimeCrashes, CommandFails, ErrorLogged, RunnerUntouched, Forward, ReaderEnds, Receive,
       ReceiveTimeout, KillChild, Poll, Join, ProcessUntouched, JudgeBaseline, NextCut, JudgeCut,
       ExecutionEnd, SettingsUntouched

\* Every step of an execution.
LEMMA ExecutionKept ==
    ASSUME ExecutionInv, ExecutionStep \/ ExecutionBegin
    PROVE  ExecutionInv'
<1>1. Described(job, guest)'
  BY SettingsRigid DEF ExecutionInv, Described
<1>2. CASE ExecutionStep
  BY <1>1, <1>2, RunnerStep, ProcessStep DEF ExecutionStep, ExecutionInv
<1>3. CASE ExecutionBegin
  <2>1. mishap = "none"
    BY <1>3 DEF ExecutionBegin, ExecutionInv, ProcessInv, Marked
  <2> QED
    BY <1>1, <1>3, <2>1, BeginVerdict DEF ExecutionInv
<1> QED
  BY <1>2, <1>3

\* The invariant holds before the execution.
LEMMA ExecutionBegins ==
    ASSUME Described(job, guest), ExecutionIdle
    PROVE  ExecutionInv
<1>1. /\ cut = 0 /\ todo = <<>> /\ results = <<>> /\ script = <<>> /\ runtime = "none" /\ child = "none"
      /\ pipe = [p \in Pipes |-> <<>>] /\ reading = {} /\ channel = <<>> /\ combined = <<>>
      /\ mishap = "none" /\ runner = "idle"
  BY DEF ExecutionIdle
<1>2. pipe["stdout"] = <<>> /\ pipe["stderr"] = <<>> /\ DOMAIN pipe = Pipes
  BY <1>1 DEF Pipes
<1>3. Commands(<<>>) /\ List(<<>>)
  BY ShownNone, EmptyList
<1>4. ListsTyped
  BY <1>1, <1>2, <1>3 DEF ListsTyped
<1>5. Drained
  BY <1>1, <1>2 DEF Drained, Pipes
<1>6. Settled
  BY <1>1 DEF Settled
<1>7. ProcessInv
  BY <1>1, <1>4, <1>5, <1>6 DEF ProcessInv
<1>8. VerdictInv
  BY <1>1 DEF VerdictInv, Uncut, Running
<1> QED
  BY <1>7, <1>8 DEF ExecutionInv

\* In every run the runner passes exactly the firmware that is healthy and reports
\* of every selected cut what the board did after it, in whatever order the
\* threads and processes ran, however much a pipe holds and whether or not the
\* runner's child is only a launcher (execution.rs).
THEOREM VerdictHolds == Spec => []VerdictTruthful
<1>1. Init => ExecutionInv
  <2> SUFFICES ASSUME Init PROVE ExecutionInv
    OBVIOUS
  <2>1. layout \in Boards /\ job = layout.execution /\ guest = layout.guest /\ ExecutionIdle
    BY DEF Init
  <2>2. Described(layout.execution, layout.guest)
    BY <2>1, GuestsAssumption
  <2>3. Described(job, guest)
    BY <2>1, <2>2
  <2> QED
    BY <2>1, <2>3, ExecutionBegins
<1>2. ExecutionInv /\ [Next]_vars => ExecutionInv'
  <2> SUFFICES ASSUME ExecutionInv, [Next]_vars PROVE ExecutionInv'
    OBVIOUS
  <2>1. ExecutionStep \/ ExecutionBegin \/ UNCHANGED executionVars
    BY DEF Next, vars, Load, Validate, Devices, TrafficPhase, UpdatePhase, Prepare, ExecutionPhase,
           Leave, Report, Within, OthersStay
  <2> QED
    BY <2>1, ExecutionStays, ExecutionKept
<1>3. ExecutionInv => VerdictTruthful
  BY VerdictFollows DEF ExecutionInv
<1> QED
  BY <1>1, <1>2, <1>3, PTL DEF Spec

-----------------------------------------------------------------------------
(* The fault schedules. *)

\* One more makes the quotient grow exactly at a multiple of the divisor.
LEMMA NextQuotient ==
    ASSUME NEW k \in Nat \ {0}, NEW n \in Nat
    PROVE  (n + 1) \div k = (n \div k) + (IF (n + 1) % k = 0 THEN 1 ELSE 0)
<1> DEFINE q == n \div k
           r == n % k
           a == (n + 1) \div k
           b == (n + 1) % k
<1>1. n = k * q + r /\ q \in Nat /\ r \in 0 .. k - 1
  OBVIOUS
<1>2. n + 1 = k * a + b /\ a \in Nat /\ b \in 0 .. k - 1
  OBVIOUS
<1> HIDE DEF q, r, a, b
<1>3. a = q + (IF b = 0 THEN 1 ELSE 0)
  <2>1. k * a + b = k * q + r + 1
    BY <1>1, <1>2
  <2>2. CASE a <= q - 1
    <3>1. k * a <= k * (q - 1)
      BY <1>1, <1>2, <2>2
    <3>2. k * (q - 1) = k * q - k
      BY <1>1
    <3> QED
      BY <1>1, <1>2, <2>1, <3>1, <3>2
  <2>3. CASE a >= q + 2
    <3>1. k * a >= k * (q + 2)
      BY <1>1, <1>2, <2>3
    <3>2. k * (q + 2) = k * q + 2 * k
      BY <1>1
    <3> QED
      BY <1>1, <1>2, <2>1, <3>1, <3>2
  <2>4. CASE a = q
    BY <1>1, <1>2, <2>1, <2>4
  <2>5. CASE a = q + 1
    <3>1. k * a = k * q + k
      BY <1>1, <2>5
    <3> QED
      BY <1>1, <1>2, <2>1, <2>5, <3>1
  <2> QED
    BY <1>1, <1>2, <2>2, <2>3, <2>4, <2>5
<1> QED
  BY <1>3 DEF q, a, b

Scheduled(spec) == {spec.failure_every, spec.disconnect_after} \subseteq Nat \cup {NoSchedule}

\* One more read.
LEMMA ScheduleNext ==
    ASSUME NEW spec, Scheduled(spec), NEW n \in Nat
    PROVE  /\ ExpectedDisconnected(spec, n + 1)
                  = ExpectedDisconnected(spec, n) + (IF Gone(spec, n + 1) THEN 1 ELSE 0)
           /\ ExpectedErrors(spec, n + 1) = ExpectedErrors(spec, n)
                  + (IF ~Gone(spec, n + 1) /\ Fails(spec, n + 1) THEN 1 ELSE 0)
           /\ ExpectedDisconnected(spec, n) \in Nat /\ ExpectedErrors(spec, n) \in Nat
<1> DEFINE F == spec.failure_every
           D == spec.disconnect_after
           c == ConnectedAttempts(spec, n)
           d == ConnectedAttempts(spec, n + 1)
<1>1. F \in Nat \cup {NoSchedule} /\ D \in Nat \cup {NoSchedule}
  BY DEF Scheduled
<1>2. c = (IF D # NoSchedule /\ D < n THEN D ELSE n) /\ d = (IF D # NoSchedule /\ D < n + 1 THEN D ELSE n + 1)
  BY DEF ConnectedAttempts
<1>3. Gone(spec, n + 1) <=> D # NoSchedule /\ n + 1 > D
  BY DEF Gone
<1>4. Fails(spec, n + 1) <=> (F # NoSchedule /\ F > 0) /\ (n + 1) % F = 0
  BY DEF Fails
<1>5. /\ ExpectedErrors(spec, n) = (IF F # NoSchedule /\ F > 0 THEN c \div F ELSE 0)
      /\ ExpectedErrors(spec, n + 1) = (IF F # NoSchedule /\ F > 0 THEN d \div F ELSE 0)
      /\ ExpectedDisconnected(spec, n) = n - c /\ ExpectedDisconnected(spec, n + 1) = (n + 1) - d
  BY DEF ExpectedErrors, ExpectedDisconnected
<1> HIDE DEF F, D, c, d
<1>6. /\ c \in Nat /\ d \in Nat /\ c <= n
      /\ Gone(spec, n + 1) => d = c
      /\ ~Gone(spec, n + 1) => c = n /\ d = n + 1
  BY <1>1, <1>2, <1>3
<1>7. ExpectedDisconnected(spec, n + 1) = ExpectedDisconnected(spec, n) + (IF Gone(spec, n + 1) THEN 1 ELSE 0)
      /\ ExpectedDisconnected(spec, n) \in Nat
  BY <1>5, <1>6
<1>8. CASE ~(F # NoSchedule /\ F > 0)
  BY <1>4, <1>5, <1>7, <1>8
<1>9. CASE F # NoSchedule /\ F > 0
  <2>1. F \in Nat \ {0}
    BY <1>1, <1>9
  <2>2. c \div F \in Nat
    BY <1>6, <2>1
  <2>3. CASE Gone(spec, n + 1)
    BY <1>5, <1>6, <1>7, <1>9, <2>2, <2>3
  <2>4. CASE ~Gone(spec, n + 1)
    <3>1. (n + 1) \div F = (n \div F) + (IF (n + 1) % F = 0 THEN 1 ELSE 0)
      BY <2>1, NextQuotient
    <3> QED
      BY <1>4, <1>5, <1>6, <1>7, <1>9, <2>2, <2>4, <3>1
  <2> QED
    BY <2>3, <2>4
<1> QED
  BY <1>8, <1>9

\* Before the first read nothing has failed.
LEMMA ScheduleFirst ==
    ASSUME NEW spec, Scheduled(spec)
    PROVE  ExpectedErrors(spec, 0) = 0 /\ ExpectedDisconnected(spec, 0) = 0
<1>1. ConnectedAttempts(spec, 0) = 0
  BY DEF ConnectedAttempts, Scheduled
<1>2. \A k \in Nat : k > 0 => 0 \div k = 0
  OBVIOUS
<1> QED
  BY <1>1, <1>2 DEF ExpectedErrors, ExpectedDisconnected, Scheduled

\* Every finished device passed, and the counters of the one at hand are what its
\* schedule foretells of the reads so far.
DevicesInv(specs) ==
    /\ List(specs) /\ \A i \in 1 .. Len(specs) : Scheduled(specs[i])
    /\ device \in Nat \ {0} /\ attempt \in Nat
    /\ List(reports) /\ Len(reports) = device - 1
    /\ \A i \in 1 .. Len(reports) : reports[i].passed
    /\ counts \in [reads : Nat, errors : Nat, disconnected : Nat]
    /\ device \in 1 .. Len(specs) =>
          /\ counts.errors = ExpectedErrors(specs[device], attempt)
          /\ counts.disconnected = ExpectedDisconnected(specs[device], attempt)
    /\ device \notin 1 .. Len(specs) => attempt = 0
    /\ attempt = 0 => counts = NoCounts
    /\ exercise = "done" => device = Len(specs) + 1

\* The exercise begins.
LEMMA DevicesBegin ==
    ASSUME NEW specs, List(specs), \A i \in 1 .. Len(specs) : Scheduled(specs[i]), DevicesIdle
    PROVE  DevicesInv(specs)
<1>1. device = 1 /\ attempt = 0 /\ counts = NoCounts /\ reports = <<>> /\ exercise = "idle"
  BY DEF DevicesIdle
<1>2. device \in 1 .. Len(specs) => ExpectedErrors(specs[device], 0) = 0 /\ ExpectedDisconnected(specs[device], 0) = 0
  BY ScheduleFirst
<1> QED
  BY <1>1, <1>2, EmptyList DEF DevicesInv, NoCounts

\* Every read, and the end of every device.
LEMMA DevicesKept ==
    ASSUME NEW specs, DevicesInv(specs), Iterations \in Nat, DeviceStep(specs, Iterations)
    PROVE  DevicesInv(specs)'
<1>0. /\ List(specs) /\ \A i \in 1 .. Len(specs) : Scheduled(specs[i])
      /\ device \in Nat \ {0} /\ attempt \in Nat /\ List(reports) /\ Len(reports) = device - 1
      /\ DOMAIN specs = 1 .. Len(specs) /\ Len(specs) \in Nat
  BY ListFacts DEF DevicesInv
<1>1. CASE DeviceInvalid(specs)
  BY <1>0, <1>1 DEF DeviceInvalid, DevicesInv
<1>2. CASE DeviceRead(specs, Iterations)
  <2> DEFINE spec == specs[device]
             n == attempt
  <2>1. /\ exercise \in {"idle", "running"} /\ device \in 1 .. Len(specs) /\ exercise' = "running"
        /\ attempt' = n + 1 /\ UNCHANGED <<device, reports>>
        /\ counts' = IF Gone(spec, n + 1) THEN [counts EXCEPT !.disconnected = counts.disconnected + 1]
                     ELSE IF Fails(spec, n + 1) THEN [counts EXCEPT !.errors = counts.errors + 1]
                     ELSE [counts EXCEPT !.reads = counts.reads + 1]
    BY <1>0, <1>2 DEF DeviceRead
  <2>2. /\ counts \in [reads : Nat, errors : Nat, disconnected : Nat]
        /\ counts.errors = ExpectedErrors(spec, n) /\ counts.disconnected = ExpectedDisconnected(spec, n)
    BY <2>1 DEF DevicesInv
  <2>3. Scheduled(spec) /\ n \in Nat
    BY <1>0, <2>1
  <2> HIDE DEF spec
  <2>4. /\ ExpectedDisconnected(spec, n + 1)
               = ExpectedDisconnected(spec, n) + (IF Gone(spec, n + 1) THEN 1 ELSE 0)
        /\ ExpectedErrors(spec, n + 1) = ExpectedErrors(spec, n)
               + (IF ~Gone(spec, n + 1) /\ Fails(spec, n + 1) THEN 1 ELSE 0)
        /\ ExpectedDisconnected(spec, n) \in Nat /\ ExpectedErrors(spec, n) \in Nat
    BY <2>3, ScheduleNext
  <2>5. /\ counts' \in [reads : Nat, errors : Nat, disconnected : Nat]
        /\ counts'.errors = ExpectedErrors(spec, n + 1)
        /\ counts'.disconnected = ExpectedDisconnected(spec, n + 1)
    BY <2>1, <2>2, <2>4
  <2>6. n + 1 # 0 /\ n + 1 \in Nat
    BY <2>3
  <2> QED
    BY <1>0, <2>1, <2>5, <2>6 DEF DevicesInv, spec
<1>3. CASE DeviceEnd(specs, Iterations)
  <2> DEFINE r == [counts |-> counts, passed |-> FaultTestPassed(specs[device], counts, Iterations)]
  <2>1. /\ exercise = "running" /\ device \in 1 .. Len(specs) /\ attempt = Iterations
        /\ reports' = Append(reports, r) /\ device' = device + 1 /\ attempt' = 0 /\ counts' = NoCounts
        /\ exercise' = exercise
    BY <1>0, <1>3 DEF DeviceEnd
  <2>2. r.passed
    BY <2>1 DEF FaultTestPassed, DevicesInv
  <2> HIDE DEF r
  <2>3. /\ List(reports') /\ Len(reports') = Len(reports) + 1 /\ reports'[Len(reports) + 1] = r
        /\ \A i \in 1 .. Len(reports) : reports'[i] = reports[i]
    BY <1>0, <2>1, AppendParts
  <2>4. Len(reports') = device' - 1 /\ device' \in Nat \ {0} /\ Len(reports) \in Nat
    BY <1>0, <2>1, <2>3
  <2>5. ASSUME NEW i \in 1 .. Len(reports') PROVE reports'[i].passed
    <3>1. i = Len(reports) + 1 \/ i \in 1 .. Len(reports)
      BY <2>3, <2>4
    <3> QED
      BY <2>2, <2>3, <3>1 DEF DevicesInv
  <2>6. device' \in 1 .. Len(specs) =>
           ExpectedErrors(specs[device'], 0) = 0 /\ ExpectedDisconnected(specs[device'], 0) = 0
    BY <1>0, ScheduleFirst
  <2>7. /\ counts' \in [reads : Nat, errors : Nat, disconnected : Nat]
        /\ counts'.errors = 0 /\ counts'.disconnected = 0
    BY <2>1 DEF NoCounts
  <2> QED
    BY <1>0, <2>1, <2>3, <2>4, <2>5, <2>6, <2>7 DEF DevicesInv
<1>4. CASE DevicesEnd(specs)
  BY <1>0, <1>4 DEF DevicesEnd, DevicesInv
<1> QED
  BY <1>1, <1>2, <1>3, <1>4 DEF DeviceStep

-----------------------------------------------------------------------------
(* The interruption points. *)

\* Points are counted by what they boot, and an update is done with the new image.
PointsInv ==
    /\ points \in [old : Nat, new : Nat, recovery : Nat]
    /\ update = "done" => points.new > 0

\* A point more.
LEMMA RecordTyped ==
    ASSUME NEW c \in [old : Nat, new : Nat, recovery : Nat], NEW f
    PROVE  Record(c, f) \in [old : Nat, new : Nat, recovery : Nat]
<1>1. Boots(f) \in {"old", "new", "recovery"}
  BY DEF Boots
<1> DEFINE b == Boots(f)
<1>2. Record(c, f) = [c EXCEPT ![b] = c[b] + 1]
  BY DEF Record
<1> HIDE DEF b
<1>3. CASE b = "old"
  BY <1>2, <1>3
<1>4. CASE b = "new"
  BY <1>2, <1>4
<1>5. CASE b = "recovery"
  BY <1>2, <1>5
<1> QED
  BY <1>1, <1>3, <1>4, <1>5 DEF b

\* Every step of the update.
LEMMA PointsKept == ASSUME PointsInv, UpdateNext PROVE PointsInv'
<1>1. CASE UpdateBegin
  <2>1. \/ points' = Record(points, Programmed(flash, Memory.slot_a.base, Original)) /\ update' = "running"
        \/ points' = points /\ update' = "failed"
    BY <1>1 DEF UpdateBegin
  <2> QED
    BY <2>1, RecordTyped DEF PointsInv
<1>2. CASE UpdateErase \/ UpdateProgram
  <2>1. points' = Record(points, flash') /\ update = "running" /\ update' = update
    BY <1>2 DEF UpdateErase, UpdateProgram
  <2> QED
    BY <2>1, RecordTyped DEF PointsInv
<1>3. CASE UpdateRefused
  BY <1>3 DEF UpdateRefused, PointsInv
<1>4. CASE UpdateEnd
  BY <1>4 DEF UpdateEnd, PointsInv
<1> QED
  BY <1>1, <1>2, <1>3, <1>4 DEF UpdateNext

\* Every name that stands for one of the three images is counted once.
LEMMA CountedAll ==
    ASSUME NEW names, NEW n \in Nat, DOMAIN names = 1 .. n,
           \A i \in 1 .. n : ImageOf(names[i]) \in BootImages
    PROVE  /\ Counted(names) \in [old : Nat, new : Nat, recovery : Nat]
           /\ n = Counted(names).old + Counted(names).new + Counted(names).recovery
<1> DEFINE img == [i \in 1 .. n |-> ImageOf(names[i])]
           O == {i \in 1 .. n : img[i] = "old"}
           N == {i \in 1 .. n : img[i] = "new"}
           R == {i \in 1 .. n : img[i] = "recovery"}
<1>1. \A i \in 1 .. n : img[i] \in {"old", "new", "recovery"}
  BY DEF BootImages
<1>2. Counted(names) = [image \in {"old", "new", "recovery"} |-> Cardinality({i \in 1 .. n : img[i] = image})]
  BY DEF Counted, BootImages
<1> HIDE DEF img
<1>3. IsFiniteSet(1 .. n) /\ Cardinality(1 .. n) = n
  BY FS_Interval
<1>4. IsFiniteSet(O) /\ IsFiniteSet(N) /\ IsFiniteSet(R)
  BY <1>3, FS_Subset
<1>5. Cardinality(O) \in Nat /\ Cardinality(N) \in Nat /\ Cardinality(R) \in Nat
  BY <1>4, FS_CardinalityType
<1>6. O \cup N \cup R = 1 .. n /\ O \cap N = {} /\ (O \cup N) \cap R = {}
  BY <1>1
<1>7. /\ Counted(names) = [old |-> Cardinality(O), new |-> Cardinality(N), recovery |-> Cardinality(R)]
  BY <1>2
<1> HIDE DEF O, N, R
<1>8. IsFiniteSet(O \cup N) /\ Cardinality(O \cup N) = Cardinality(O) + Cardinality(N) - Cardinality(O \cap N)
  BY <1>4, FS_Union
<1>9. Cardinality((O \cup N) \cup R) = Cardinality(O \cup N) + Cardinality(R) - Cardinality((O \cup N) \cap R)
  BY <1>4, <1>8, FS_Union
<1>10. Cardinality({}) = 0
  BY FS_EmptySet
<1>11. n = Cardinality(O) + Cardinality(N) + Cardinality(R)
  <2>1. Cardinality(O \cap N) = 0 /\ Cardinality((O \cup N) \cap R) = 0
    BY <1>6, <1>10
  <2>2. Cardinality((O \cup N) \cup R) = n
    BY <1>3, <1>6
  <2>3. Cardinality(O \cup N) = Cardinality(O) + Cardinality(N)
    BY ONLY <1>5, <1>8, <2>1
  <2> QED
    BY ONLY <1>5, <1>9, <2>1, <2>2, <2>3
<1> QED
  BY <1>5, <1>7, <1>11

-----------------------------------------------------------------------------
(* The outcome of the update that was not cut. *)

\* What the runner remembers of the first process while it cuts the others.
FinishedInv ==
    (job.firmware_driven /\ (runner \in {"next", "done"} \/ (runner \in Running /\ cut > 0)))
        => finished = guest.outcome

\* Every step of an execution.
LEMMA FinishedKept ==
    ASSUME ExecutionInv, FinishedInv, ExecutionStep \/ ExecutionBegin
    PROVE  FinishedInv'
<1>0. job' = job /\ guest' = guest
  BY SettingsRigid
<1>1. CASE Simulator \/ \E p \in Pipes : Reader(p)
  <2>1. UNCHANGED <<runner, cut, finished>>
    BY <1>1 DEF Simulator, Reader, CommandRuns, ScriptQuits, ChildEnds, RuntimeCrashes, CommandFails,
                ErrorLogged, RunnerUntouched, Forward, ReaderEnds
  <2> QED
    BY <1>0, <2>1 DEF FinishedInv
<1>2. CASE Receive \/ ReceiveTimeout \/ KillChild \/ Poll \/ Join
  <2>1. UNCHANGED <<cut, finished>> /\ runner \in Running /\ runner' \in Running
    BY <1>2 DEF Receive, ReceiveTimeout, KillChild, Poll, Join, ProcessUntouched, Running
  <2> QED
    BY <1>0, <2>1 DEF FinishedInv, Running
<1>3. CASE JudgeBaseline
  <2>1. /\ runner = "judge" /\ cut = 0 /\ cut' = cut
        /\ \/ BaselineAccepted /\ finished' = OutcomeOf(AfterTransfer)
           \/ runner' = "failed"
    BY <1>3 DEF JudgeBaseline, ProcessGone
  <2>2. CASE BaselineAccepted /\ finished' = OutcomeOf(AfterTransfer)
    <3>1. mishap = "none" /\ combined = Transcript(0)
      BY <2>1, <2>2, CleanComplete DEF BaselineAccepted, ExecutionInv
    <3>2. job.firmware_driven => OutcomeOf(AfterTransfer) = guest.outcome
      BY <3>1, FirstOutcome DEF AfterTransfer, ExecutionInv
    <3> QED
      BY <1>0, <2>2, <3>2 DEF FinishedInv
  <2>3. CASE runner' = "failed"
    BY <2>3 DEF FinishedInv, Running
  <2> QED
    BY <2>1, <2>2, <2>3
<1>4. CASE NextCut
  <2>1. runner = "next" /\ finished' = finished
    BY <1>4 DEF NextCut
  <2> QED
    BY <1>0, <2>1 DEF FinishedInv
<1>5. CASE JudgeCut
  <2>1. runner = "judge" /\ cut > 0 /\ finished' = finished
    BY <1>5 DEF JudgeCut
  <2> QED
    BY <1>0, <2>1 DEF FinishedInv, Running
<1>6. CASE ExecutionEnd
  <2>1. runner = "next" /\ finished' = finished
    BY <1>6 DEF ExecutionEnd
  <2> QED
    BY <1>0, <2>1 DEF FinishedInv
<1>7. CASE ExecutionBegin
  <2>1. (runner' = "receive" /\ cut' = 0) \/ runner' = "failed"
    BY <1>7 DEF ExecutionBegin, Launch
  <2> QED
    BY <2>1 DEF FinishedInv, Running
<1> QED
  BY <1>1, <1>2, <1>3, <1>4, <1>5, <1>6, <1>7 DEF ExecutionStep, Runner

-----------------------------------------------------------------------------
(* The report. *)

\* Reading a legacy layout keeps what the report is about.
LEMMA NormalizedAccountable ==
    ASSUME WellTyped(layout), Accountable(layout)
    PROVE  /\ Accountable(Normalized(layout)) /\ Normalized(layout).guest = layout.guest
           /\ WellTyped(Normalized(layout))
<1> DEFINE l == Normalized(layout)
           W(d) == WithConverter(d, layout.architecture)
<1>1. /\ DOMAIN l = DOMAIN layout /\ l.guest = layout.guest /\ l.outcomes = layout.outcomes
      /\ l.devices = [i \in DOMAIN layout.devices |-> W(layout.devices[i])]
  BY DEF Normalized, WellTyped, Accountable
<1>2. WellTyped(l)
  BY NormalizedTyped
<1>3. ASSUME NEW d, {"failure_every", "disconnect_after"} \subseteq DOMAIN d
      PROVE  /\ {"failure_every", "disconnect_after"} \subseteq DOMAIN W(d)
             /\ W(d).failure_every = d.failure_every /\ W(d).disconnect_after = d.disconnect_after
  BY <1>3 DEF WithConverter
<1>4. List(layout.devices) /\ DOMAIN layout.devices = 1 .. Len(layout.devices) /\ Len(layout.devices) \in Nat
  BY ListFacts DEF Accountable
<1> HIDE DEF l, W
<1>5. DOMAIN l.devices = 1 .. Len(layout.devices) /\ l.devices = [i \in 1 .. Len(layout.devices) |-> l.devices[i]]
  BY <1>1, <1>4
<1>6. List(l.devices)
  BY <1>4, <1>5, FunIsList
<1>7. \A i \in DOMAIN l.devices :
          /\ {"failure_every", "disconnect_after"} \subseteq DOMAIN l.devices[i]
          /\ {l.devices[i].failure_every, l.devices[i].disconnect_after} \subseteq Nat \cup {NoSchedule}
  <2> TAKE i \in DOMAIN l.devices
  <2>1. i \in DOMAIN layout.devices /\ l.devices[i] = W(layout.devices[i])
    BY <1>1, <1>4, <1>5
  <2>2. /\ {"failure_every", "disconnect_after"} \subseteq DOMAIN layout.devices[i]
        /\ {layout.devices[i].failure_every, layout.devices[i].disconnect_after} \subseteq Nat \cup {NoSchedule}
    BY <2>1 DEF Accountable
  <2> QED
    BY <1>3, <2>1, <2>2
<1>8. Accountable(l)
  BY <1>1, <1>6, <1>7 DEF Accountable
<1> QED
  BY <1>1, <1>2, <1>8 DEF l

\* What a report says adds up.
Reported ==
    /\ report.tested = report.boots.old + report.boots.new + report.boots.recovery
    /\ report.boots.new + report.boots.old + report.boots.recovery > 0

Exercised == {"traffic", "update", "prepare", "execution", "report", "done"}

\* A phase is reached only when the components before it are done.
PhaseInv ==
    /\ phase = "load" => DevicesIdle
    /\ phase \in Exercised => exercise = "done"
    /\ phase \in {"prepare", "execution", "report", "done"} => update = "done"
    /\ phase \in {"report", "done"} => runner = "done"
    /\ phase = "done" => Reported

\* The invariant of the report: what is known of each component, and that it is done.
AccountInv ==
    /\ WellTyped(layout) /\ Accountable(layout) /\ guest = layout.guest
    /\ ExecutionInv /\ FinishedInv
    /\ DevicesInv(layout.devices) /\ PointsInv
    /\ PhaseInv

\* The schedules of an accountable layout.
LEMMA Scheduling ==
    ASSUME NEW l, Accountable(l)
    PROVE  List(l.devices) /\ \A i \in 1 .. Len(l.devices) : Scheduled(l.devices[i])
BY ListFacts DEF Accountable, Scheduled

\* What the firmware reported stands for images.
LEMMA OutcomesNamed ==
    ASSUME AccountInv, runner = "done", PowerCutting
    PROVE  /\ DOMAIN CutOutcomes = 1 .. Len(results) + 1 /\ Len(results) \in Nat
           /\ \A i \in 1 .. Len(results) + 1 : ImageOf(CutOutcomes[i]) \in BootImages
<1> DEFINE Names == {o.name : o \in ToSet(layout.outcomes)}
           os == [i \in DOMAIN results |-> results[i].outcome]
<1>1. \A name \in Names : ImageOf(name) \in BootImages
  <2> TAKE name \in Names
  <2>1. \E o \in ToSet(layout.outcomes) : o.name = name
    OBVIOUS
  <2>2. (CHOOSE o \in ToSet(layout.outcomes) : o.name = name) \in ToSet(layout.outcomes)
    BY <2>1
  <2> QED
    BY <2>2 DEF ImageOf, AccountInv, Accountable
<1>2. /\ Described(job, guest) /\ Sound /\ Between(todo, results, Sel, guest.after_cut) /\ todo = <<>>
      /\ job.firmware_driven
  BY DEF AccountInv, ExecutionInv, VerdictInv, PowerCutting
<1>3. PICK k : BetweenAt(todo, results, Sel, guest.after_cut, k)
  BY <1>2 DEF Between
<1>4. /\ k \in 0 .. Len(Sel) /\ List(results) /\ Len(results) = k
      /\ \A i \in 1 .. k : results[i] = Entry(Sel[i], guest.after_cut) /\ guest.after_cut[Sel[i]] # None
  BY <1>3 DEF BetweenAt, ReportedTo
<1>5. Len(Sel) \in Nat /\ DOMAIN guest.trace = 1 .. Len(guest.trace)
      /\ \A i \in 1 .. Len(Sel) : Sel[i] \in 1 .. Len(guest.trace)
  BY <1>2, SelList, ListFacts DEF Described
<1>6. k \in Nat /\ DOMAIN results = 1 .. k
  BY <1>4, <1>5, ListFacts
<1>7. /\ finished = guest.outcome /\ guest.outcome # None
  BY <1>2 DEF AccountInv, FinishedInv, Sound
<1>8. {guest.outcome} \cup {guest.after_cut[n] : n \in DOMAIN guest.trace} \subseteq {None} \cup Names
  BY DEF AccountInv, Accountable
<1>9. finished \in Names
  BY <1>7, <1>8
<1>10. ASSUME NEW i \in 1 .. k PROVE os[i] \in Names
  <2>1. i \in 1 .. Len(Sel)
    BY <1>4, <1>5
  <2>2. Sel[i] \in DOMAIN guest.trace
    BY <1>5, <2>1
  <2>3. os[i] = guest.after_cut[Sel[i]] /\ guest.after_cut[Sel[i]] # None
    BY <1>4, <1>6 DEF Entry
  <2> QED
    BY <1>8, <2>2, <2>3
<1>11. List(os) /\ Len(os) = k
  <2>1. DOMAIN os = 1 .. k /\ os = [i \in 1 .. k |-> os[i]]
    BY <1>6
  <2> QED
    BY <1>6, <2>1, FunIsList
<1>12. CutOutcomes = Append(os, finished)
  BY DEF CutOutcomes
<1> HIDE DEF os, Names
<1>13. /\ List(CutOutcomes) /\ Len(CutOutcomes) = k + 1 /\ CutOutcomes[k + 1] = finished
       /\ \A i \in 1 .. k : CutOutcomes[i] = os[i]
  BY <1>11, <1>12, AppendParts
<1>14. DOMAIN CutOutcomes = 1 .. k + 1
  BY <1>13, ListFacts
<1>15. ASSUME NEW i \in 1 .. k + 1 PROVE CutOutcomes[i] \in Names
  <2>1. i = k + 1 \/ i \in 1 .. k
    BY <1>6
  <2> QED
    BY <1>9, <1>10, <1>13, <2>1
<1> QED
  BY <1>1, <1>4, <1>6, <1>14, <1>15

\* Every point of a report boots one of the three images.
LEMMA ReportCounts ==
    ASSUME AccountInv, runner = "done", update = "done"
    PROVE  /\ UpdateReport.tested = UpdateReport.boots.old + UpdateReport.boots.new + UpdateReport.boots.recovery
           /\ UpdateReport.boots.new + UpdateReport.boots.old + UpdateReport.boots.recovery > 0
<1>1. CASE PowerCutting
  <2> DEFINE n == Len(results) + 1
             c == Counted(CutOutcomes)
  <2>1. DOMAIN CutOutcomes = 1 .. n /\ n \in Nat /\ n > 0 /\ \A i \in 1 .. n : ImageOf(CutOutcomes[i]) \in BootImages
    BY <1>1, OutcomesNamed
  <2>2. UpdateReport.tested = n /\ UpdateReport.boots = c
    BY <1>1 DEF UpdateReport, ReportOf
  <2> HIDE DEF n
  <2>3. c \in [old : Nat, new : Nat, recovery : Nat] /\ n = c.old + c.new + c.recovery
    BY <2>1, CountedAll
  <2> HIDE DEF c
  <2> QED
    BY <2>1, <2>2, <2>3
<1>2. CASE ~PowerCutting
  <2>1. UpdateReport.tested = PointCount /\ UpdateReport.boots = points
    BY <1>2 DEF UpdateReport, ReportOf
  <2>2. points \in [old : Nat, new : Nat, recovery : Nat] /\ points.new > 0
    BY DEF AccountInv, PointsInv
  <2> QED
    BY <2>1, <2>2 DEF PointCount
<1> QED
  BY <1>1, <1>2

\* Loading.
LEMMA LoadAccounts == ASSUME AccountInv, Load PROVE AccountInv'
<1>1. /\ phase = "load" /\ phase' \in {"validate", "failed"}
      /\ UNCHANGED <<flash, plan, points, update>> /\ UNCHANGED deviceVars /\ UNCHANGED executionVars
      /\ layout' = layout \/ layout' = Normalized(layout)
  BY DEF Load, Stage, GoTo
<1>2. WellTyped(layout) /\ Accountable(layout) /\ guest = layout.guest /\ ExecutionInv /\ FinishedInv /\ DevicesIdle
  BY <1>1 DEF AccountInv, PhaseInv
<1>3. WellTyped(layout') /\ Accountable(layout') /\ layout'.guest = layout.guest
  BY <1>1, <1>2, NormalizedAccountable
<1>4. ExecutionInv'
  BY <1>1, <1>2, ExecutionStays
<1>5. FinishedInv' /\ guest' = layout'.guest
  BY <1>1, <1>2, <1>3 DEF FinishedInv, executionVars, procVars
<1>6. DevicesIdle'
  BY <1>1, <1>2 DEF DevicesIdle, deviceVars
<1>7. DevicesInv(layout.devices)'
  <2>1. List(layout'.devices) /\ \A i \in 1 .. Len(layout'.devices) : Scheduled(layout'.devices[i])
    BY <1>3, Scheduling
  <2>2. device' = 1 /\ attempt' = 0 /\ counts' = NoCounts /\ reports' = <<>> /\ exercise' = "idle"
    BY <1>6 DEF DevicesIdle
  <2>3. 1 \in 1 .. Len(layout'.devices) =>
          ExpectedErrors(layout'.devices[1], 0) = 0 /\ ExpectedDisconnected(layout'.devices[1], 0) = 0
    BY <2>1, ScheduleFirst
  <2> QED
    BY <2>1, <2>2, <2>3, EmptyList DEF DevicesInv, NoCounts
<1>8. PointsInv'
  BY <1>1 DEF AccountInv, PointsInv
<1>9. PhaseInv'
  BY <1>1 DEF PhaseInv, Exercised
<1> QED
  BY <1>3, <1>4, <1>5, <1>7, <1>8, <1>9 DEF AccountInv

\* A component works in its phase.
LEMMA OthersAccount ==
    ASSUME AccountInv, UNCHANGED <<layout, phase, report>>,
           UNCHANGED deviceVars \/ (DeviceStep(layout.devices, Iterations) /\ phase = "devices"),
           UNCHANGED <<points, update>> \/ (UpdateNext /\ phase = "update"),
           UNCHANGED executionVars \/ (ExecutionStep /\ phase = "execution")
    PROVE  AccountInv'
<1>0. /\ WellTyped(layout) /\ Accountable(layout) /\ guest = layout.guest /\ ExecutionInv /\ FinishedInv
      /\ DevicesInv(layout.devices) /\ PointsInv /\ PhaseInv
  BY DEF AccountInv
<1>1. ExecutionInv' /\ FinishedInv'
  <2>1. CASE UNCHANGED executionVars
    <3>1. ExecutionInv'
      BY <1>0, <2>1, ExecutionStays
    <3>2. FinishedInv'
      BY <1>0, <2>1 DEF FinishedInv, executionVars, procVars
    <3> QED
      BY <3>1, <3>2
  <2>2. CASE ExecutionStep
    BY <1>0, <2>2, ExecutionKept, FinishedKept
  <2> QED
    BY <2>1, <2>2
<1>2. guest' = guest
  BY SettingsRigid DEF executionVars
<1>3. DevicesInv(layout.devices)'
  <2>0. PICK specs : specs = layout.devices
    OBVIOUS
  <2>1. DevicesInv(specs)
    BY <1>0, <2>0
  <2>2. DevicesInv(specs)'
    <3>1. CASE UNCHANGED deviceVars
      BY <2>1, <3>1 DEF DevicesInv, deviceVars
    <3>2. CASE DeviceStep(layout.devices, Iterations)
      <4>1. DeviceStep(specs, Iterations)
        BY <2>0, <3>2
      <4> QED
        BY <2>1, <4>1, ReportAssumption, DevicesKept
    <3> QED
      BY <3>1, <3>2
  <2>3. layout'.devices = specs
    BY <2>0
  <2> QED
    BY <2>2, <2>3
<1>4. PointsInv'
  BY <1>0, PointsKept DEF PointsInv
<1>5. PhaseInv'
  <2>1. phase' = phase /\ report' = report
    OBVIOUS
  <2>2. phase = "load" => DevicesIdle'
    BY <1>0 DEF PhaseInv, DevicesIdle, deviceVars
  <2>3. phase \in Exercised => exercise' = "done"
    BY <1>0 DEF PhaseInv, Exercised, deviceVars
  <2>4. phase \in {"prepare", "execution", "report", "done"} => update' = "done"
    BY <1>0 DEF PhaseInv
  <2>5. phase \in {"report", "done"} => runner' = "done"
    BY <1>0 DEF PhaseInv, executionVars, procVars
  <2>6. phase = "done" => Reported'
    BY <1>0 DEF PhaseInv, Reported
  <2> QED
    BY <2>1, <2>2, <2>3, <2>4, <2>5, <2>6 DEF PhaseInv
<1> QED
  BY <1>0, <1>1, <1>2, <1>3, <1>4, <1>5 DEF AccountInv

\* The run goes from one phase to the next.
LEMMA PhaseAccounts ==
    ASSUME AccountInv, UNCHANGED layout, UNCHANGED deviceVars, UNCHANGED <<points, update>>,
           UNCHANGED executionVars \/ ExecutionBegin, PhaseInv'
    PROVE  AccountInv'
<1>0. /\ WellTyped(layout) /\ Accountable(layout) /\ guest = layout.guest /\ ExecutionInv /\ FinishedInv
      /\ DevicesInv(layout.devices) /\ PointsInv
  BY DEF AccountInv
<1>1. ExecutionInv' /\ FinishedInv' /\ guest' = guest
  <2>1. CASE UNCHANGED executionVars
    <3>1. ExecutionInv'
      BY <1>0, <2>1, ExecutionStays
    <3>2. FinishedInv' /\ guest' = guest
      BY <1>0, <2>1 DEF FinishedInv, executionVars, procVars
    <3> QED
      BY <3>1, <3>2
  <2>2. CASE ExecutionBegin
    BY <1>0, <2>2, ExecutionKept, FinishedKept, SettingsRigid
  <2> QED
    BY <2>1, <2>2
<1>2. DevicesInv(layout.devices)' /\ PointsInv'
  BY <1>0 DEF DevicesInv, deviceVars, PointsInv
<1> QED
  BY <1>0, <1>1, <1>2 DEF AccountInv

\* Every step of a run.
LEMMA AccountStep == ASSUME AccountInv, Next PROVE AccountInv'
<1>0. PhaseInv
  BY DEF AccountInv
<1>1. CASE Load
  BY <1>1, LoadAccounts
<1>2. CASE Validate
  <2>1. /\ phase = "validate" /\ phase' \in {"devices", "failed"} /\ OthersStay("none")
    BY <1>2 DEF Validate, Stage, GoTo
  <2>2. /\ UNCHANGED layout /\ UNCHANGED deviceVars /\ UNCHANGED <<points, update>> /\ UNCHANGED executionVars
    BY <2>1 DEF OthersStay, updateVars
  <2>3. PhaseInv'
    BY <2>1 DEF PhaseInv, Exercised
  <2> QED
    BY <2>2, <2>3, PhaseAccounts
<1>3. CASE Devices \/ TrafficPhase \/ UpdatePhase \/ ExecutionPhase
  <2>1. CASE Devices
    <3>1. /\ phase = "devices" /\ DeviceStep(layout.devices, Iterations) /\ UNCHANGED <<phase, report>>
          /\ UNCHANGED updateVars /\ UNCHANGED executionVars
      BY <2>1 DEF Devices, Within, Stage, OthersStay
    <3> QED
      BY <3>1, OthersAccount DEF updateVars
  <2>2. CASE TrafficPhase
    <3>1. UNCHANGED <<phase, report>> /\ UNCHANGED updateVars /\ UNCHANGED executionVars /\ UNCHANGED deviceVars
      BY <2>2 DEF TrafficPhase, Within, Stage, OthersStay
    <3> QED
      BY <3>1, OthersAccount DEF updateVars
  <2>3. CASE UpdatePhase
    <3>1. /\ phase = "update" /\ UpdateNext /\ UNCHANGED <<phase, report>>
          /\ UNCHANGED deviceVars /\ UNCHANGED executionVars
      BY <2>3 DEF UpdatePhase, Within, Stage, OthersStay
    <3>2. UNCHANGED layout
      BY <3>1 DEF UpdateNext, UpdateBegin, UpdateErase, UpdateProgram, UpdateRefused, UpdateEnd
    <3> QED
      BY <3>1, <3>2, OthersAccount
  <2>4. CASE ExecutionPhase
    <3>1. /\ phase = "execution" /\ ExecutionStep /\ UNCHANGED <<phase, report>>
          /\ UNCHANGED deviceVars /\ UNCHANGED updateVars
      BY <2>4 DEF ExecutionPhase, Within, Stage, OthersStay
    <3> QED
      BY <3>1, OthersAccount DEF updateVars
  <2> QED
    BY <1>3, <2>1, <2>2, <2>3, <2>4
<1>4. CASE Prepare
  <2>1. /\ phase = "prepare" /\ phase' \in {"execution", "failed"}
        /\ UNCHANGED updateVars /\ UNCHANGED deviceVars
        /\ UNCHANGED executionVars \/ ExecutionBegin
    BY <1>4 DEF Prepare, Stage, GoTo
  <2>2. exercise' = "done" /\ update' = "done"
    BY <1>0, <2>1 DEF PhaseInv, Exercised, updateVars, deviceVars
  <2>3. PhaseInv'
    BY <2>1, <2>2 DEF PhaseInv, Exercised
  <2> QED
    BY <2>1, <2>3, PhaseAccounts DEF updateVars
<1>5. CASE Leave
  <2>1. /\ phase \in {"devices", "traffic", "update", "execution"} /\ OthersStay("none")
        /\ Status[phase] \in {"done", "failed"}
        /\ phase' = IF Status[phase] = "done" THEN After[phase] ELSE "failed"
    BY <1>5 DEF Leave, GoTo, Status
  <2>2. /\ UNCHANGED layout /\ UNCHANGED deviceVars /\ UNCHANGED <<points, update>> /\ UNCHANGED executionVars
    BY <2>1 DEF OthersStay, updateVars
  <2>3. UNCHANGED <<exercise, update, runner>>
    BY <2>2 DEF deviceVars, executionVars
  <2>4. \/ phase' = "failed"
        \/ phase = "devices" /\ phase' = "traffic" /\ exercise = "done"
        \/ phase = "traffic" /\ phase' = "update"
        \/ phase = "update" /\ phase' = "prepare" /\ update = "done"
        \/ phase = "execution" /\ phase' = "report" /\ runner = "done"
    BY <2>1 DEF Status, After
  <2>5. PhaseInv'
    BY <1>0, <2>3, <2>4 DEF PhaseInv, Exercised
  <2> QED
    BY <2>2, <2>5, PhaseAccounts
<1>6. CASE Report
  <2>1. /\ phase = "report" /\ OthersStay("none")
        /\ (phase' = "done" /\ report' = UpdateReport) \/ phase' = "failed"
    BY <1>6 DEF Report, Stage
  <2>2. /\ UNCHANGED layout /\ UNCHANGED deviceVars /\ UNCHANGED <<points, update>> /\ UNCHANGED executionVars
    BY <2>1 DEF OthersStay, updateVars
  <2>3. UNCHANGED <<exercise, update, runner>>
    BY <2>2 DEF deviceVars, executionVars
  <2>4. runner = "done" /\ update = "done" /\ exercise = "done"
    BY <1>0, <2>1 DEF PhaseInv, Exercised
  <2>5. report' = UpdateReport => Reported'
    BY <2>4, ReportCounts DEF Reported
  <2>6. PhaseInv'
    BY <2>1, <2>3, <2>4, <2>5 DEF PhaseInv, Exercised
  <2> QED
    BY <2>2, <2>6, PhaseAccounts
<1> QED
  BY <1>1, <1>2, <1>3, <1>4, <1>5, <1>6 DEF Next

\* In every run every interruption point of a report boots one of the three images
\* and is counted once, whether the flash model or the real updater was cut, and
\* every device failed exactly as its fault schedule foretells (report.rs,
\* update.rs, models.rs).
THEOREM ReportHolds == Spec => []ReportAccounted
<1>1. Init => AccountInv
  <2> SUFFICES ASSUME Init PROVE AccountInv
    OBVIOUS
  <2>1. /\ layout \in Boards /\ job = layout.execution /\ guest = layout.guest
        /\ UpdateIdle /\ DevicesIdle /\ ExecutionIdle /\ phase = "load"
    BY DEF Init
  <2>2. WellTyped(layout) /\ Accountable(layout) /\ Described(layout.execution, layout.guest)
    BY <2>1, BoardsAssumption, ReportAssumption, GuestsAssumption
  <2>3. ExecutionInv
    <3>1. Described(job, guest)
      BY <2>1, <2>2
    <3> QED
      BY <2>1, <3>1, ExecutionBegins
  <2>4. FinishedInv
    BY <2>1 DEF ExecutionIdle, FinishedInv, Running
  <2>5. DevicesInv(layout.devices)
    <3>1. List(layout.devices) /\ \A i \in 1 .. Len(layout.devices) : Scheduled(layout.devices[i])
      BY <2>2, Scheduling
    <3> QED
      BY <2>1, <3>1, DevicesBegin
  <2>6. PointsInv
    BY <2>1 DEF UpdateIdle, PointsInv, NoPoints
  <2>7. PhaseInv
    BY <2>1 DEF PhaseInv, Exercised
  <2> QED
    BY <2>1, <2>2, <2>3, <2>4, <2>5, <2>6, <2>7 DEF AccountInv
<1>2. AccountInv /\ [Next]_vars => AccountInv'
  <2>1. ASSUME AccountInv, UNCHANGED vars PROVE AccountInv'
    <3>1. UNCHANGED <<layout, phase, report>> /\ UNCHANGED deviceVars /\ UNCHANGED <<points, update>>
          /\ UNCHANGED executionVars
      BY <2>1 DEF vars, updateVars
    <3> QED
      BY <2>1, <3>1, OthersAccount
  <2> QED
    BY <2>1, AccountStep
<1>3. AccountInv => ReportAccounted
  <2> SUFFICES ASSUME AccountInv, phase = "done"
               PROVE  /\ Reported
                      /\ Len(reports) = Len(layout.devices)
                      /\ \A i \in DOMAIN reports : reports[i].passed
    BY DEF ReportAccounted, Reported
  <2>1. Reported /\ exercise = "done" /\ DevicesInv(layout.devices)
    BY DEF AccountInv, PhaseInv, Exercised
  <2>2. List(reports) /\ Len(reports) = device - 1 /\ device = Len(layout.devices) + 1 /\ List(layout.devices)
        /\ \A i \in 1 .. Len(reports) : reports[i].passed
    BY <2>1 DEF DevicesInv
  <2>3. Len(layout.devices) \in Nat /\ DOMAIN reports = 1 .. Len(reports)
    BY <2>2, ListFacts
  <2> QED
    BY <2>1, <2>2, <2>3
<1> QED
  BY <1>1, <1>2, <1>3, PTL DEF Spec
===============================================================================
