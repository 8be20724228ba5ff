--------------------------- MODULE CanWireProofs ---------------------------
(* The transmit wire for any number of controllers, slots and headers, any    *)
(* choice of hosted controllers, and any bounds: types, wake-ups between      *)
(* Enqueue on the CPU threads and Tick on the time-source thread, the bound   *)
(* on the queue, arbitration, and, for hosted controllers, the order and the  *)
(* account of accepted frames.                                                *)
EXTENDS CanWire, FiniteSetTheorems, SequenceTheorems, WellFoundedInduction, TLAPS

\* What the argument needs besides NoLostWakeup: cpu stays a function of the
\* controllers, and the wire is free whenever Tick is stopping its timer.
IInv ==
    /\ cpu = [c \in Controllers |-> cpu[c]]
    /\ tick.pc \in {"disable", "recheck"} => active = Idle
    /\ NoLostWakeup

\* The initial state has nothing queued.
LEMMA InitIInv == Init => IInv
BY DEF Init, IInv, NoLostWakeup, AtRest, AtIdle

\* A step of a CPU other than the end of Enqueue leaves every thread that is
\* about to start the timer where it is.
LEMMA OthersStillEnable ==
    ASSUME IInv, NEW c \in Controllers, NEW to,
           cpu' = [cpu EXCEPT ![c] = to], cpu[c].pc # "enable",
           UNCHANGED <<wire, tick>>
    PROVE  IInv'
<1>1. cpu' = [d \in Controllers |-> cpu'[d]]
  BY DEF IInv
<1>2. \A d \in Controllers : cpu[d].pc = "enable" => cpu'[d].pc = "enable"
  BY DEF IInv
<1>3. QED
  BY <1>1, <1>2 DEF IInv, NoLostWakeup, wire

\* Neither does a step that touches no thread's counter and no wire state.
LEMMA Untouched ==
    ASSUME IInv, UNCHANGED <<cpu, wire, tick>>
    PROVE  IInv'
BY DEF IInv, NoLostWakeup, wire

\* The register writes of the firmware begin without the timer.
LEMMA FirmwareStep ==
    ASSUME IInv, NEW c \in Controllers, Firmware(c)
    PROVE  IInv'
<1>1. CASE \E value \in (SUBSET Slots) \ {{}}, h \in Headers[c] : Request(c, value, h)
  <2>1. PICK value \in (SUBSET Slots) \ {{}}, h \in Headers[c] : Request(c, value, h)
    BY <1>1
  <2>2. QED
    BY <2>1, OthersStillEnable DEF Request, Calls
<1>2. CASE \E value \in (SUBSET Slots) \ {{}} : Cancel(c, value)
  <2>1. PICK value \in (SUBSET Slots) \ {{}} : Cancel(c, value)
    BY <1>2
  <2>2. QED
    BY <2>1, OthersStillEnable DEF Cancel, Calls
<1>3. CASE Stop(c)
  BY <1>3, Untouched DEF Stop
<1>4. CASE Start(c)
  BY <1>4, Untouched DEF Start
<1>5. CASE Reset(c)
  BY <1>5, Untouched DEF Reset
<1>6. QED
  BY <1>1, <1>2, <1>3, <1>4, <1>5 DEF Firmware

\* Enqueue promises the start of the timer as it adds the request, and keeps the
\* promise in its next step.
LEMMA CpuStepStep ==
    ASSUME IInv, NEW c \in Controllers, CpuStep(c)
    PROVE  IInv'
<1>1. CASE AddCheck(c)
  BY <1>1, OthersStillEnable DEF AddCheck, Step
<1>2. CASE AddReserve(c)
  BY <1>2, OthersStillEnable DEF AddReserve, Step
<1>3. CASE AddEnqueue(c)
  <2>1. cpu' = [cpu EXCEPT ![c] = [pc |-> "enable", old |-> {}, todo |-> cpu[c].todo]]
    BY <1>3 DEF AddEnqueue, Step
  <2>2. UNCHANGED <<active, enabled, tick>>
    BY <1>3 DEF AddEnqueue
  <2>3. cpu' = [d \in Controllers |-> cpu'[d]]
    BY <2>1 DEF IInv
  <2>4. cpu'[c].pc = "enable"
    BY <2>1 DEF IInv
  <2>5. QED
    BY <2>2, <2>3, <2>4 DEF IInv, NoLostWakeup
<1>4. CASE AddEnable(c)
  <2>1. enabled' = TRUE /\ UNCHANGED <<active, tick>>
    BY <1>4 DEF AddEnable
  <2>2. cpu' = [d \in Controllers |-> cpu'[d]]
    BY <1>4 DEF AddEnable, Step, IInv
  <2>3. QED
    BY <2>1, <2>2 DEF IInv, NoLostWakeup
<1>5. CASE CancelStore(c)
  BY <1>5, OthersStillEnable DEF CancelStore, Step
<1>6. QED
  BY <1>1, <1>2, <1>3, <1>4, <1>5 DEF CpuStep

\* Tick stops the timer only with the wire free, and looks at the queue after
\* that: a request added before the look starts the timer again, one added after
\* it brings a thread that will.
LEMMA TickStepStep ==
    ASSUME IInv, TickNext
    PROVE  IInv'
<1>1. CASE Fire
  BY <1>1 DEF Fire, IInv, NoLostWakeup, wire
<1>2. CASE LoadPending
  BY <1>2 DEF LoadPending, TickStep, IInv, NoLostWakeup, wire
<1>3. CASE Release
  BY <1>3 DEF Release, TickStep, IInv, NoLostWakeup, wire
<1>4. CASE Complete
  BY <1>4 DEF Complete, TickStep, IInv, NoLostWakeup, wire
<1>5. CASE Select
  <2>1. tick.pc = "select" /\ UNCHANGED <<cpu, enabled>>
    BY <1>5 DEF Select
  <2>2. CASE queue = <<>> /\ active' = Idle /\ UNCHANGED queue
    BY <2>1, <2>2 DEF IInv, NoLostWakeup
  <2>3. CASE queue # <<>> /\ tick' = AtIdle
    BY <2>1, <2>3 DEF IInv, NoLostWakeup, AtIdle
  <2>4. Heads # {} => queue # <<>>
    BY DEF Heads
  <2>5. QED
    BY <1>5, <2>2, <2>3, <2>4 DEF Select
<1>6. CASE Disable
  BY <1>6 DEF Disable, TickStep, IInv, NoLostWakeup
<1>7. CASE Recheck
  <2>1. active = Idle
    BY <1>7 DEF Recheck, TickStep, IInv
  <2>2. QED
    BY <1>7, <2>1 DEF Recheck, TickStep, Rearm, AtIdle, IInv, NoLostWakeup
<1>8. QED
  BY <1>1, <1>2, <1>3, <1>4, <1>5, <1>6, <1>7 DEF TickNext

\* Every step of every thread preserves the invariant.
THEOREM WakeupInvariance == Spec => []IInv
<1>1. Init => IInv
  BY InitIInv
<1>2. IInv /\ [Next]_vars => IInv'
  <2>1. SUFFICES ASSUME IInv, [Next]_vars PROVE IInv'
    OBVIOUS
  <2>2. CASE Next
    BY <2>1, <2>2, FirmwareStep, CpuStepStep, TickStepStep DEF Next
  <2>3. CASE UNCHANGED vars
    BY <2>1, <2>3, Untouched DEF vars
  <2>4. QED
    BY <2>1, <2>2, <2>3
<1>3. QED
  BY <1>1, <1>2, PTL DEF Spec

\* NoLostWakeup (WireScheduler.Enqueue and Tick): a queued or active request never
\* waits behind a timer that nobody will start, with any interleaving of the
\* threads.
THEOREM WakeupKept == Spec => []NoLostWakeup
<1>1. IInv => NoLostWakeup
  BY DEF IInv
<1>2. QED
  BY WakeupInvariance, <1>1, PTL

-----------------------------------------------------------------------------
(* Positions, counts and thinned queues. *)

\* Every nonempty set of naturals has a least element.
LEMMA Smallest ==
    ASSUME NEW T, T \subseteq Nat, T # {}
    PROVE  \E x \in T : \A y \in T : x <= y
<1> DEFINE R == OpToRel(<, Nat)
<1>1. PICK x \in T : \A y \in T : ~(<<y, x>> \in R)
  <2> HIDE DEF R
  <2>1. IsWellFoundedOn(R, Nat)
    BY NatLessThanWellFounded DEF R
  <2> QED
    BY <2>1, WFMin, Zenon
<1>2. ASSUME NEW y \in T PROVE x <= y
  <2>1. ~(<<y, x>> \in R)
    BY <1>1
  <2>2. ~(y < x)
    BY <2>1 DEF OpToRel
  <2> QED
    BY <2>2
<1> QED
  BY <1>2

\* How many members of K are at most k.
UpTo(K, k) == Cardinality({j \in K : j <= k})

LEMMA Counts ==
    ASSUME NEW N \in Nat, NEW K \in SUBSET (0 .. N)
    PROVE  /\ IsFiniteSet(K) /\ Cardinality(K) \in Nat
           /\ \A k \in Int : /\ UpTo(K, k) \in Nat /\ UpTo(K, k) <= Cardinality(K)
                             /\ UpTo(K, k) = UpTo(K, k - 1) + IF k \in K THEN 1 ELSE 0
           /\ \A j, k \in Int : j <= k => UpTo(K, j) <= UpTo(K, k)
           /\ \A j \in Int, k \in K : j < k => UpTo(K, j) < UpTo(K, k)
           /\ UpTo(K, N) = Cardinality(K)
           /\ UpTo(K, 0 - 1) = 0
<1>0. \A j \in K : j \in Int /\ 0 <= j /\ j <= N
  OBVIOUS
<1>1. IsFiniteSet(K) /\ Cardinality(K) \in Nat
  <2>1. IsFiniteSet(0 .. N)
    BY FS_Interval
  <2> QED
    BY <2>1, FS_Subset, FS_CardinalityType
<1>2. ASSUME NEW k \in Int
      PROVE  IsFiniteSet({j \in K : j <= k}) /\ UpTo(K, k) \in Nat /\ UpTo(K, k) <= Cardinality(K)
  <2>1. {j \in K : j <= k} \in SUBSET K
    OBVIOUS
  <2> QED
    BY <1>1, <2>1, FS_Subset, FS_CardinalityType DEF UpTo
<1>3. ASSUME NEW k \in Int
      PROVE  UpTo(K, k) = UpTo(K, k - 1) + IF k \in K THEN 1 ELSE 0
  <2> DEFINE S == {j \in K : j <= k - 1}
  <2>0. k - 1 \in Int /\ ~(k <= k - 1) /\ \A j \in Int : j <= k <=> (j <= k - 1 \/ j = k)
    OBVIOUS
  <2>1. IsFiniteSet(S) /\ k \notin S
    BY <2>0, <1>2
  <2>2. CASE k \in K
    <3>1. {j \in K : j <= k} = S \cup {k}
      BY <2>0, <2>2, <1>0
    <3> QED
      BY <2>1, <2>2, <3>1, FS_AddElement DEF UpTo
  <2>3. CASE k \notin K
    <3>1. {j \in K : j <= k} = S
      BY <2>0, <2>3, <1>0
    <3> QED
      BY <2>0, <2>3, <3>1, <1>2 DEF UpTo
  <2> QED
    BY <2>2, <2>3
<1>4. ASSUME NEW j \in Int, NEW k \in Int, j <= k
      PROVE  UpTo(K, j) <= UpTo(K, k)
  <2>0. \A i \in Int : i <= j => i <= k
    BY <1>4
  <2>1. {i \in K : i <= j} \in SUBSET {i \in K : i <= k}
    BY <2>0, <1>0
  <2> QED
    BY <2>1, <1>2, FS_Subset DEF UpTo
<1>5. ASSUME NEW j \in Int, NEW k \in K, j < k
      PROVE  UpTo(K, j) < UpTo(K, k)
  <2>1. k \in Int /\ k - 1 \in Int /\ j <= k - 1
    BY <1>0, <1>5
  <2>2. UpTo(K, j) <= UpTo(K, k - 1) /\ UpTo(K, k) = UpTo(K, k - 1) + 1
    BY <2>1, <1>4, <1>3
  <2>3. UpTo(K, j) \in Nat /\ UpTo(K, k - 1) \in Nat
    BY <2>1, <1>2
  <2> QED
    BY <2>2, <2>3
<1>6. {j \in K : j <= N} = K
  BY <1>0
<1>7. {j \in K : j <= 0 - 1} = {}
  <2>1. ASSUME NEW j \in K, j <= 0 - 1 PROVE FALSE
    BY <1>0, <2>1
  <2> QED
    BY <2>1
<1>8. UpTo(K, N) = Cardinality(K)
  BY <1>6 DEF UpTo
<1>9. UpTo(K, 0 - 1) = 0
  BY <1>7, FS_EmptySet DEF UpTo
<1> QED
  BY <1>1, <1>2, <1>3, <1>4, <1>5, <1>8, <1>9

\* The i-th lowest position is in the set, and the positions rise with i.
LEMMA NthRises ==
    ASSUME NEW N \in Nat, NEW K \in SUBSET (1 .. N)
    PROVE  /\ \A i \in 1 .. Cardinality(K) : Nth(K, i) \in K /\ UpTo(K, Nth(K, i)) = i
           /\ \A i, j \in 1 .. Cardinality(K) : i < j => Nth(K, i) < Nth(K, j)
<1>0. /\ K \subseteq Int /\ Cardinality(K) \in Nat
      /\ \A k \in Int : /\ UpTo(K, k) \in Nat
                        /\ UpTo(K, k) = UpTo(K, k - 1) + IF k \in K THEN 1 ELSE 0
      /\ \A j, k \in Int : j <= k => UpTo(K, j) <= UpTo(K, k)
      /\ UpTo(K, N) = Cardinality(K) /\ UpTo(K, 0 - 1) = 0
  <2>1. K \in SUBSET (0 .. N) /\ K \subseteq Int
    OBVIOUS
  <2> QED
    BY <2>1, Counts
<1>1. ASSUME NEW i \in 1 .. Cardinality(K)
      PROVE  \E k \in K : UpTo(K, k) = i
  <2> DEFINE T == {k \in 0 .. N : i <= UpTo(K, k)}
  <2>1. N \in T /\ T \subseteq Nat
    BY <1>0
  <2>2. PICK k \in T : \A y \in T : k <= y
    <3> HIDE DEF T
    <3> QED
      BY <2>1, Smallest
  <2>3. k \in Int /\ k - 1 \in Int /\ i \in Int /\ UpTo(K, k) \in Nat /\ UpTo(K, k - 1) \in Nat
    BY <1>0
  <2>4. UpTo(K, k) = UpTo(K, k - 1) + IF k \in K THEN 1 ELSE 0
    BY <2>3, <1>0
  <2>5. UpTo(K, k - 1) < i
    <3>1. CASE k = 0
      BY <3>1, <1>0
    <3>2. CASE k # 0
      <4>1. k - 1 \in 0 .. N /\ ~(k <= k - 1)
        BY <3>2
      <4> QED
        BY <4>1, <2>2, <2>3
    <3> QED
      BY <3>1, <3>2
  <2> QED
    BY <2>2, <2>3, <2>4, <2>5
<1>2. ASSUME NEW i \in 1 .. Cardinality(K)
      PROVE  Nth(K, i) \in K /\ UpTo(K, Nth(K, i)) = i
  <2>1. Nth(K, i) = CHOOSE k \in K : UpTo(K, k) = i
    BY DEF Nth, UpTo
  <2> QED
    BY <2>1, <1>1
<1>3. ASSUME NEW i \in 1 .. Cardinality(K), NEW j \in 1 .. Cardinality(K), i < j
      PROVE  Nth(K, i) < Nth(K, j)
  <2>1. /\ Nth(K, i) \in Int /\ Nth(K, j) \in Int
        /\ UpTo(K, Nth(K, i)) = i /\ UpTo(K, Nth(K, j)) = j
    BY <1>0, <1>2
  <2>2. Nth(K, j) <= Nth(K, i) => j <= i
    BY <2>1, <1>0
  <2> QED
    BY <1>3, <2>1, <2>2
<1> QED
  BY <1>2, <1>3

\* r is q with elements left out.
Thins(r, q) ==
    /\ r \in Seq(WireRequest)
    /\ \A i \in 1 .. Len(r) : \E a \in 1 .. Len(q) : r[i] = q[a]
    /\ \A i, j \in 1 .. Len(r) : i < j =>
          \E a, b \in 1 .. Len(q) : a < b /\ r[i] = q[a] /\ r[j] = q[b]

\* Enqueue thins the queue before it appends.
LEMMA ReplacedThins ==
    ASSUME queue \in Seq(WireRequest), NEW c, NEW s
    PROVE  /\ Thins(Replaced(c, s), queue)
           /\ \A i \in 1 .. Len(Replaced(c, s)) :
                 Replaced(c, s)[i].owner # c \/ Replaced(c, s)[i].slot # s
<1> DEFINE K == Kept(c, s)
           M == Cardinality(K)
<1>1. Len(queue) \in Nat /\ K \in SUBSET (1 .. Len(queue)) /\ K \in SUBSET (0 .. Len(queue))
  BY DEF Kept
<1>2. M \in Nat
  BY <1>1, Counts
<1>3. /\ \A i \in 1 .. M : Nth(K, i) \in K
      /\ \A i, j \in 1 .. M : i < j => Nth(K, i) < Nth(K, j)
  BY <1>1, NthRises
<1>4. \A k \in K : /\ k \in 1 .. Len(queue) /\ queue[k] \in WireRequest
                   /\ queue[k].owner # c \/ queue[k].slot # s
  BY DEF Kept
<1> HIDE DEF K, M
<1>5. Replaced(c, s) = [i \in 1 .. M |-> queue[Nth(K, i)]]
  BY DEF Replaced, K, M
<1>6. \A i \in 1 .. M : queue[Nth(K, i)] \in WireRequest
  BY <1>3, <1>4
<1>7. Replaced(c, s) \in Seq(WireRequest) /\ Len(Replaced(c, s)) = M
  BY <1>2, <1>5, <1>6
<1>8. \A i \in 1 .. M : Replaced(c, s)[i] = queue[Nth(K, i)]
  BY <1>5
<1>9. \A i \in 1 .. M : Nth(K, i) \in 1 .. Len(queue)
  BY <1>3, <1>4
<1> QED
  BY <1>3, <1>4, <1>7, <1>8, <1>9 DEF Thins

\* Select thins it by the request it takes.
LEMMA RemovedThins ==
    ASSUME NEW q \in Seq(WireRequest), NEW k \in 1 .. Len(q)
    PROVE  /\ Thins(RemoveAt(q, k), q)
           /\ \A i \in 1 .. Len(RemoveAt(q, k)) : \E a \in 1 .. Len(q) : a # k /\ RemoveAt(q, k)[i] = q[a]
<1> DEFINE u == SubSeq(q, 1, k - 1)
           v == SubSeq(q, k + 1, Len(q))
           at(i) == IF i < k THEN i ELSE i + 1
<1>0. Len(q) \in Nat /\ k \in Int /\ \A i \in 1 .. Len(q) : q[i] \in WireRequest
  OBVIOUS
<1>1. u \in Seq(WireRequest) /\ Len(u) = k - 1 /\ \A i \in 1 .. k - 1 : u[i] = q[i]
  BY <1>0, SubSeqProperties
<1>2. /\ v \in Seq(WireRequest) /\ Len(v) = Len(q) - k
      /\ \A i \in 1 .. Len(q) - k : v[i] = q[k + i]
  <2>1. /\ v \in Seq(WireRequest)
        /\ Len(v) = IF k + 1 <= Len(q) THEN Len(q) - (k + 1) + 1 ELSE 0
        /\ \A i \in 1 .. Len(q) - (k + 1) + 1 : v[i] = q[(k + 1) + i - 1]
    BY <1>0, SubSeqProperties
  <2> QED
    BY <2>1, <1>0
<1>3. RemoveAt(q, k) = u \o v
  BY DEF RemoveAt
<1> HIDE DEF u, v
<1>4. RemoveAt(q, k) \in Seq(WireRequest) /\ Len(RemoveAt(q, k)) = Len(q) - 1
  <2>1. u \o v \in Seq(WireRequest) /\ Len(u \o v) = Len(u) + Len(v)
    BY <1>1, <1>2, ConcatProperties
  <2>2. Len(u) + Len(v) = Len(q) - 1
    BY <1>0, <1>1, <1>2
  <2> QED
    BY <2>1, <2>2, <1>3
<1>5. ASSUME NEW i \in 1 .. Len(q) - 1
      PROVE  RemoveAt(q, k)[i] = q[at(i)]
  <2>1. (u \o v)[i] = IF i <= Len(u) THEN u[i] ELSE v[i - Len(u)]
    BY <1>0, <1>1, <1>2, ConcatProperties
  <2>2. CASE i < k
    BY <2>1, <2>2, <1>0, <1>1, <1>3
  <2>3. CASE ~(i < k)
    <3>1. i - (k - 1) \in 1 .. Len(q) - k /\ k + (i - (k - 1)) = i + 1 /\ ~(i <= k - 1)
      BY <2>3, <1>0
    <3> QED
      BY <2>1, <2>3, <3>1, <1>0, <1>1, <1>2, <1>3
  <2> QED
    BY <2>2, <2>3
<1>6. /\ \A i \in 1 .. Len(q) - 1 : at(i) \in 1 .. Len(q) /\ at(i) # k
      /\ \A i, j \in 1 .. Len(q) - 1 : i < j => at(i) < at(j)
  BY <1>0
<1> HIDE DEF at
<1> QED
  BY <1>4, <1>5, <1>6 DEF Thins

-----------------------------------------------------------------------------
(* The types of the variables. *)

InLoop == {"add", "reserve", "enqueue", "enable"}
InTick == {"load", "release", "complete"}

\* Local states of the two threads.
CpuState == [pc : {"rest", "add", "reserve", "enqueue", "enable", "abort"},
             old : SUBSET Slots, todo : SUBSET Slots]
TickState == [pc : {"idle", "load", "release", "complete", "select", "disable", "recheck"},
              old : SUBSET Slots]

\* A loop over slots has one to do, and a closure has its request.
Shaped ==
    /\ \A c \in Controllers : cpu[c].pc \in InLoop => cpu[c].todo # {}
    /\ tick.pc \in InTick => active # Idle

TypeInv == TypeOK /\ Shaped

LEMMA SlotsNat == Slots \subseteq Nat /\ Slots = 0 .. NumSlots - 1 /\ NumSlots - 1 \in Nat /\ {} \in SUBSET Slots
BY ControllersAssumption DEF Slots

LEMMA SlotCounts ==
    ASSUME NEW K \in SUBSET Slots
    PROVE  /\ IsFiniteSet(K) /\ Cardinality(K) \in Nat
           /\ \A k \in Int : UpTo(K, k) \in Nat /\ UpTo(K, k) <= Cardinality(K)
           /\ \A j, k \in Int : j <= k => UpTo(K, j) <= UpTo(K, k)
           /\ \A j \in Int, k \in K : j < k => UpTo(K, j) < UpTo(K, k)
           /\ \A k \in K : 0 < UpTo(K, k)
<1> DEFINE N == NumSlots - 1
<1>1. N \in Nat /\ K \in SUBSET (0 .. N) /\ K \subseteq Nat
  BY SlotsNat
<1> HIDE DEF N
<1>2. /\ IsFiniteSet(K) /\ Cardinality(K) \in Nat
      /\ \A k \in Int : UpTo(K, k) \in Nat /\ UpTo(K, k) <= Cardinality(K)
      /\ \A j, k \in Int : j <= k => UpTo(K, j) <= UpTo(K, k)
      /\ \A j \in Int, k \in K : j < k => UpTo(K, j) < UpTo(K, k)
      /\ UpTo(K, 0 - 1) = 0
  BY <1>1, Counts
<1>3. \A k \in K : 0 - 1 \in Int /\ 0 - 1 < k
  BY <1>1
<1> QED
  BY <1>2, <1>3

LEMMA UsesTyped ==
    ASSUME uses \in [cancels : Nat, stops : Nat, resets : Nat]
    PROVE  /\ [uses EXCEPT !.cancels = @ + 1] \in [cancels : Nat, stops : Nat, resets : Nat]
           /\ [uses EXCEPT !.stops = @ + 1] \in [cancels : Nat, stops : Nat, resets : Nat]
           /\ [uses EXCEPT !.resets = @ + 1] \in [cancels : Nat, stops : Nat, resets : Nat]
<1>1. /\ [uses EXCEPT !.cancels = @ + 1] = [cancels |-> uses.cancels + 1, stops |-> uses.stops, resets |-> uses.resets]
      /\ [uses EXCEPT !.stops = @ + 1] = [cancels |-> uses.cancels, stops |-> uses.stops + 1, resets |-> uses.resets]
      /\ [uses EXCEPT !.resets = @ + 1] = [cancels |-> uses.cancels, stops |-> uses.stops, resets |-> uses.resets + 1]
  OBVIOUS
<1>2. /\ uses.cancels \in Nat /\ uses.stops \in Nat /\ uses.resets \in Nat
      /\ uses.cancels + 1 \in Nat /\ uses.stops + 1 \in Nat /\ uses.resets + 1 \in Nat
  OBVIOUS
<1> QED
  BY <1>1, <1>2

LEMMA SlotLowest ==
    ASSUME NEW c, cpu[c].todo \in SUBSET Slots, cpu[c].todo # {}
    PROVE  /\ Slot(c) \in Slots /\ Slot(c) \in Nat
           /\ Slot(c) \in cpu[c].todo /\ \A r \in cpu[c].todo : Slot(c) <= r
<1>1. cpu[c].todo \subseteq Nat
  BY SlotsNat
<1>2. \E s \in cpu[c].todo : \A r \in cpu[c].todo : s <= r
  BY <1>1, Smallest
<1> QED
  BY <1>1, <1>2 DEF Slot

LEMMA OnwardsTyped ==
    ASSUME NEW c, cpu[c].todo \in SUBSET Slots
    PROVE  /\ Onwards(c) \in CpuState
           /\ Onwards(c).pc \in {"rest", "add"}
           /\ Onwards(c).pc \in InLoop => Onwards(c).todo # {}
           /\ Onwards(c).todo \subseteq cpu[c].todo
BY DEF Onwards, AtRest, CpuState, InLoop

LEMMA InitTyped == Init => TypeInv
<1> SUFFICES ASSUME Init PROVE TypeInv
  OBVIOUS
<1>1. NoHeader \in Header
  <2> DEFINE A == 0 .. 2^11 - 1
             B == 0 .. 2^18 - 1
  <2>1. 0 \in 0 .. 1
    OBVIOUS
  <2>2. 0 \in A
    OBVIOUS
  <2>3. 0 \in B
    OBVIOUS
  <2>4. Header = [ide : 0 .. 1, rtr : 0 .. 1, base : A, ext : B]
    BY DEF Header
  <2> HIDE DEF A, B
  <2> QED
    BY <2>1, <2>2, <2>3, <2>4 DEF NoHeader
<1>2. /\ pending \in [Controllers -> SUBSET Slots] /\ completed \in [Controllers -> SUBSET Slots]
      /\ slotGen \in [Controllers -> [Slots -> Nat]] /\ resetGen \in [Controllers -> Nat]
      /\ init \in [Controllers -> BOOLEAN] /\ held \in [Controllers -> SUBSET Slots]
  BY DEF Init
<1>3. ram \in [Controllers -> [Slots -> [n : Nat, header : Header]]]
  BY <1>1 DEF Init
<1>4. cpu \in [Controllers -> CpuState] /\ tick \in TickState /\ Shaped
  BY DEF Init, AtRest, AtIdle, CpuState, TickState, Shaped, InLoop, InTick
<1>5. queue \in Seq(WireRequest) /\ active \in WireRequest \cup {Idle} /\ enabled \in BOOLEAN
  <2>1. queue = <<>> /\ active = Idle /\ enabled = FALSE
    BY DEF Init
  <2>2. <<>> \in Seq(WireRequest)
    BY EmptySeq
  <2> QED
    BY <2>1, <2>2
<1>6. /\ written \in [Controllers -> Nat] /\ accepted \in [Controllers -> Seq(Nat)]
      /\ sent \in [Controllers -> Seq(Nat)] /\ gone \in [Controllers -> SUBSET Nat]
      /\ stopped \in [Controllers -> BOOLEAN]
      /\ uses \in [cancels : Nat, stops : Nat, resets : Nat]
  <2>1. <<>> \in Seq(Nat) /\ {} \in SUBSET Nat /\ 0 \in Nat
    OBVIOUS
  <2> QED
    BY <2>1 DEF Init
<1> QED
  BY <1>2, <1>3, <1>4, <1>5, <1>6 DEF TypeInv, TypeOK, CpuState, TickState

\* The program counter of one CPU moves.
LEMMA ThreadTyped ==
    ASSUME TypeInv, NEW c \in Controllers, NEW to \in CpuState,
           to.pc \in InLoop => to.todo # {}, cpu' = [cpu EXCEPT ![c] = to],
           tick' = tick, active' = active
    PROVE  cpu' \in [Controllers -> CpuState] /\ tick' \in TickState /\ Shaped'
<1>1. cpu \in [Controllers -> CpuState] /\ tick \in TickState /\ Shaped
  BY DEF TypeInv, TypeOK, CpuState, TickState
<1>2. cpu' \in [Controllers -> CpuState]
  BY <1>1
<1>3. \A d \in Controllers : cpu'[d] = IF d = c THEN to ELSE cpu[d]
  BY <1>1
<1> QED
  BY <1>1, <1>2, <1>3 DEF Shaped

LEMMA RequestTyped ==
    ASSUME TypeInv, NEW c \in Controllers, NEW value \in (SUBSET Slots) \ {{}},
           NEW h \in Headers[c], Request(c, value, h)
    PROVE  TypeInv'
<1> DEFINE free == value \ pending[c]
           number(s) == written[c] + Cardinality({r \in free : r <= s})
           to == [pc |-> "add", old |-> {}, todo |-> value]
<1>0. TypeOK /\ Shaped /\ free \in SUBSET Slots /\ h \in Header
  BY ControllersAssumption DEF TypeInv
<1>1. Cardinality(free) \in Nat /\ \A k \in Int : UpTo(free, k) \in Nat
  <2> HIDE DEF free
  <2> QED
    BY <1>0, SlotCounts
<1>2. written[c] \in Nat
  BY <1>0 DEF TypeOK
<1>3. \A s \in Slots : number(s) \in Nat
  BY <1>1, <1>2, SlotsNat DEF UpTo
<1> HIDE DEF number
<1>4. written' \in [Controllers -> Nat]
  <2>1. written' = [written EXCEPT ![c] = @ + Cardinality(free)]
    BY DEF Request
  <2>2. written[c] + Cardinality(free) \in Nat
    BY <1>1, <1>2
  <2>3. written \in [Controllers -> Nat]
    BY <1>0 DEF TypeOK
  <2> HIDE DEF free
  <2> QED
    BY <2>1, <2>2, <2>3
<1>5. ram' \in [Controllers -> [Slots -> [n : Nat, header : Header]]]
  <2> DEFINE new == [s \in Slots |-> IF s \in free THEN [n |-> number(s), header |-> h] ELSE ram[c][s]]
  <2>1. ram' = [ram EXCEPT ![c] = new]
    BY DEF Request, number
  <2>2. new \in [Slots -> [n : Nat, header : Header]]
    BY <1>0, <1>3 DEF TypeOK
  <2> HIDE DEF new
  <2> QED
    BY <2>1, <2>2, <1>0 DEF TypeOK
<1>6. cpu' \in [Controllers -> CpuState] /\ tick' \in TickState /\ Shaped'
  <2>0. value \in SUBSET Slots /\ value # {} /\ {} \in SUBSET Slots
    OBVIOUS
  <2>1. to \in CpuState /\ to.todo # {}
    BY <2>0 DEF CpuState
  <2>2. cpu' = [cpu EXCEPT ![c] = to] /\ tick' = tick /\ active' = active
    BY DEF Request, wire
  <2> HIDE DEF to
  <2> QED
    BY <2>1, <2>2, ThreadTyped
<1>7. UNCHANGED <<pending, completed, slotGen, resetGen, init, held, queue, active, enabled,
                  accepted, sent, gone, stopped, uses>>
  BY DEF Request, wire
<1> QED
  BY <1>0, <1>4, <1>5, <1>6, <1>7 DEF TypeInv, TypeOK, CpuState, TickState

LEMMA CancelTyped ==
    ASSUME TypeInv, NEW c \in Controllers, NEW value \in (SUBSET Slots) \ {{}}, Cancel(c, value)
    PROVE  TypeInv'
<1> DEFINE to == [pc |-> "abort", old |-> pending[c], todo |-> value]
           new == [s \in Slots |-> slotGen[c][s] + IF s \in value THEN 1 ELSE 0]
<1>0. TypeOK
  BY DEF TypeInv
<1>1. slotGen' \in [Controllers -> [Slots -> Nat]]
  <2>1. slotGen' = [slotGen EXCEPT ![c] = new]
    BY DEF Cancel
  <2>2. slotGen[c] \in [Slots -> Nat]
    BY <1>0 DEF TypeOK
  <2>3. new \in [Slots -> Nat]
    BY <2>2
  <2> HIDE DEF new
  <2> QED
    BY <2>1, <2>3, <1>0 DEF TypeOK
<1>2. cpu' \in [Controllers -> CpuState] /\ tick' \in TickState /\ Shaped'
  <2>0. value \in SUBSET Slots /\ value # {} /\ pending[c] \in SUBSET Slots
    BY <1>0 DEF TypeOK
  <2>1. to \in CpuState /\ to.todo # {}
    BY <2>0 DEF CpuState
  <2>2. cpu' = [cpu EXCEPT ![c] = to] /\ tick' = tick /\ active' = active
    BY DEF Cancel, wire
  <2> HIDE DEF to
  <2> QED
    BY <2>1, <2>2, ThreadTyped
<1>3. gone' \in [Controllers -> SUBSET Nat]
  <2>1. gone' = [gone EXCEPT ![c] = @ \cup {ram[c][s].n : s \in value \cap pending[c]}]
    BY DEF Cancel
  <2>2. {ram[c][s].n : s \in value \cap pending[c]} \subseteq Nat
    BY <1>0 DEF TypeOK
  <2> QED
    BY <2>1, <2>2, <1>0 DEF TypeOK
<1>4. uses' \in [cancels : Nat, stops : Nat, resets : Nat]
  BY <1>0, UsesTyped DEF Cancel, TypeOK
<1>5. UNCHANGED <<pending, completed, resetGen, ram, init, held, queue, active, enabled,
                  written, accepted, sent, stopped>>
  BY DEF Cancel, wire
<1> QED
  BY <1>0, <1>1, <1>2, <1>3, <1>4, <1>5 DEF TypeInv, TypeOK, CpuState, TickState

LEMMA StopTyped ==
    ASSUME TypeInv, NEW c \in Controllers, Stop(c)
    PROVE  TypeInv'
<1>0. TypeOK
  BY DEF TypeInv
<1>1. uses' \in [cancels : Nat, stops : Nat, resets : Nat]
  BY <1>0, UsesTyped DEF Stop, TypeOK
<1>2. init' \in [Controllers -> BOOLEAN] /\ stopped' \in [Controllers -> BOOLEAN]
  BY <1>0 DEF Stop, TypeOK
<1>3. UNCHANGED <<pending, completed, slotGen, resetGen, ram, held, cpu, tick, queue, active,
                  enabled, written, accepted, sent, gone>>
  BY DEF Stop, wire
<1> QED
  BY <1>0, <1>1, <1>2, <1>3 DEF TypeInv, TypeOK, Shaped

LEMMA ResetTyped ==
    ASSUME TypeInv, NEW c \in Controllers, Reset(c)
    PROVE  TypeInv'
<1>0. TypeOK
  BY DEF TypeInv
<1>1. uses' \in [cancels : Nat, stops : Nat, resets : Nat]
  BY <1>0, UsesTyped DEF Reset, TypeOK
<1>2. /\ pending' \in [Controllers -> SUBSET Slots] /\ completed' \in [Controllers -> SUBSET Slots]
      /\ resetGen' \in [Controllers -> Nat]
      /\ held' \in [Controllers -> SUBSET Slots] /\ init' \in [Controllers -> BOOLEAN]
  BY <1>0 DEF Reset, TypeOK
<1>3. gone' \in [Controllers -> SUBSET Nat]
  <2>1. gone' = [gone EXCEPT ![c] = @ \cup {ram[c][s].n : s \in pending[c] \cup held[c]}]
    BY DEF Reset
  <2>2. {ram[c][s].n : s \in pending[c] \cup held[c]} \subseteq Nat
    BY <1>0 DEF TypeOK
  <2> QED
    BY <2>1, <2>2, <1>0 DEF TypeOK
<1>4. UNCHANGED <<slotGen, ram, cpu, tick, queue, active, enabled, written, accepted, sent, stopped>>
  BY DEF Reset, wire
<1> QED
  BY <1>0, <1>1, <1>2, <1>3, <1>4 DEF TypeInv, TypeOK, Shaped

\* A finite set of naturals as a sequence.
LEMMA SetSeqTyped ==
    ASSUME NEW S, IsFiniteSet(S), S \subseteq Nat
    PROVE  SetToSeq(S) \in Seq(Nat)
<1>1. Cardinality(S) \in Nat /\ \E f \in [1 .. Cardinality(S) -> S] : IsInjective(f)
  <2>1. Cardinality(S) \in Nat
    BY FS_CardinalityType
  <2>2. PICK f : f \in Bijection(1 .. Cardinality(S), S)
    BY FS_CardinalityType DEF ExistsBijection
  <2> QED
    BY <2>1, <2>2 DEF Bijection, Injection, IsInjective
<1>2. SetToSeq(S) \in [1 .. Cardinality(S) -> S]
  BY <1>1 DEF SetToSeq
<1>3. SetToSeq(S) \in [1 .. Cardinality(S) -> Nat]
  BY <1>2
<1> QED
  BY <1>1, <1>3

LEMMA StartTyped ==
    ASSUME TypeInv, NEW c \in Controllers, Start(c)
    PROVE  TypeInv'
<1> DEFINE S == {ram[c][s].n : s \in held[c]}
<1>0. TypeOK
  BY DEF TypeInv
<1>1. init' \in [Controllers -> BOOLEAN] /\ held' \in [Controllers -> SUBSET Slots]
  BY <1>0 DEF Start, TypeOK
<1>2. sent' \in [Controllers -> Seq(Nat)]
  <2>1. held[c] \in SUBSET Slots /\ S \subseteq Nat
    BY <1>0 DEF TypeOK
  <2>2. IsFiniteSet(held[c])
    BY <2>1, SlotCounts
  <2>3. IsFiniteSet(S)
    <3> DEFINE f == [s \in held[c] |-> ram[c][s].n]
    <3>1. f \in Surjection(held[c], S)
      BY DEF Surjection
    <3> HIDE DEF f
    <3> QED
      BY <2>2, <3>1, FS_Surjection
  <2> HIDE DEF S
  <2>4. SetToSeq(S) \in Seq(Nat)
    BY <2>1, <2>3, SetSeqTyped
  <2>5. sent[c] \in Seq(Nat)
    BY <1>0 DEF TypeOK
  <2>6. sent[c] \o SetToSeq(S) \in Seq(Nat)
    BY <2>4, <2>5
  <2>7. sent' = [sent EXCEPT ![c] = @ \o SetToSeq(S)]
    BY DEF Start, S
  <2> QED
    BY <2>6, <2>7, <1>0 DEF TypeOK
<1>3. UNCHANGED <<pending, completed, slotGen, resetGen, ram, cpu, tick, queue, active, enabled,
                  written, accepted, gone, stopped, uses>>
  BY DEF Start, wire
<1> QED
  BY <1>0, <1>1, <1>2, <1>3 DEF TypeInv, TypeOK, Shaped

LEMMA AddCheckTyped ==
    ASSUME TypeInv, NEW c \in Controllers, AddCheck(c)
    PROVE  TypeInv'
<1> DEFINE to == IF Slot(c) \in pending[c] THEN Onwards(c)
                 ELSE [pc |-> "reserve", old |-> pending[c], todo |-> cpu[c].todo]
<1>0. TypeOK /\ cpu[c].todo \in SUBSET Slots /\ pending[c] \in SUBSET Slots /\ cpu[c].todo # {}
  BY DEF TypeInv, TypeOK, AddCheck, Step, Shaped, InLoop
<1>1. to \in CpuState /\ (to.pc \in InLoop => to.todo # {})
  BY <1>0, OnwardsTyped DEF CpuState
<1>2. cpu' = [cpu EXCEPT ![c] = to] /\ UNCHANGED <<controller, wire, tick, history>>
  BY DEF AddCheck, Step
<1> HIDE DEF to
<1>3. cpu' \in [Controllers -> CpuState] /\ tick' \in TickState /\ Shaped'
  BY <1>1, <1>2, ThreadTyped DEF wire
<1> QED
  BY <1>0, <1>2, <1>3
  DEF TypeInv, TypeOK, CpuState, TickState, controller, wire, history

LEMMA AddReserveTyped ==
    ASSUME TypeInv, NEW c \in Controllers, AddReserve(c)
    PROVE  TypeInv'
<1> DEFINE to == [pc |-> "enqueue", old |-> completed[c], todo |-> cpu[c].todo]
<1>0. /\ TypeOK /\ cpu[c].todo \in SUBSET Slots /\ cpu[c].old \in SUBSET Slots
      /\ completed[c] \in SUBSET Slots /\ cpu[c].todo # {}
  BY DEF TypeInv, TypeOK, AddReserve, Step, Shaped, InLoop
<1>1. to \in CpuState /\ to.todo # {}
  BY <1>0 DEF CpuState
<1>2. /\ cpu' = [cpu EXCEPT ![c] = to]
      /\ pending' = [pending EXCEPT ![c] = cpu[c].old \cup {Slot(c)}]
      /\ UNCHANGED <<completed, slotGen, resetGen, ram, init, held, wire, tick, history>>
  BY DEF AddReserve, Step
<1> HIDE DEF to
<1>3. cpu' \in [Controllers -> CpuState] /\ tick' \in TickState /\ Shaped'
  BY <1>1, <1>2, ThreadTyped DEF wire
<1>4. pending' \in [Controllers -> SUBSET Slots]
  BY <1>0, <1>2, SlotLowest DEF TypeOK
<1> QED
  BY <1>0, <1>2, <1>3, <1>4
  DEF TypeInv, TypeOK, CpuState, TickState, wire, history

\* The request that Enqueue appends.
Asked(c) ==
    [owner |-> c, slot |-> Slot(c), header |-> ram[c][Slot(c)].header,
     token |-> slotGen[c][Slot(c)] + 1, generation |-> resetGen[c], n |-> ram[c][Slot(c)].n]

LEMMA EnqueueFacts ==
    ASSUME TypeInv, NEW c \in Controllers, AddEnqueue(c)
    PROVE  /\ Slot(c) \in Slots /\ Slot(c) \in cpu[c].todo /\ \A r \in cpu[c].todo : Slot(c) <= r
           /\ cpu[c].pc = "enqueue" /\ Asked(c) \in WireRequest
           /\ slotGen[c][Slot(c)] \in Nat
           /\ Thins(Replaced(c, Slot(c)), queue)
           /\ Len(Replaced(c, Slot(c))) \in Nat
           /\ queue' = Append(Replaced(c, Slot(c)), Asked(c)) /\ queue' \in Seq(WireRequest)
           /\ Len(queue') = Len(Replaced(c, Slot(c))) + 1
           /\ \A i \in 1 .. Len(Replaced(c, Slot(c))) : queue'[i] = Replaced(c, Slot(c))[i]
           /\ queue'[Len(Replaced(c, Slot(c))) + 1] = Asked(c)
<1> DEFINE s == Slot(c)
<1>0. TypeOK /\ cpu[c].todo \in SUBSET Slots /\ cpu[c].pc = "enqueue" /\ cpu[c].todo # {}
  BY DEF TypeInv, TypeOK, AddEnqueue, Step, Shaped, InLoop
<1>1. s \in Slots /\ Slot(c) \in cpu[c].todo /\ \A r \in cpu[c].todo : Slot(c) <= r
  BY <1>0, SlotLowest
<1>2. ram[c][s].header \in Header /\ ram[c][s].n \in Nat /\ slotGen[c][s] \in Nat /\ resetGen[c] \in Nat
  BY <1>0, <1>1 DEF TypeOK
<1>3. Asked(c) \in WireRequest
  <2>1. slotGen[c][s] + 1 \in Nat
    BY <1>2
  <2> QED
    BY <1>1, <1>2, <2>1 DEF Asked, WireRequest
<1>4. Thins(Replaced(c, s), queue) /\ Replaced(c, s) \in Seq(WireRequest)
  <2>1. Thins(Replaced(c, s), queue)
    BY <1>0, ReplacedThins DEF TypeOK
  <2> QED
    BY <2>1 DEF Thins
<1>5. queue' = Append(Replaced(c, s), Asked(c))
  BY DEF AddEnqueue, Asked
<1> HIDE DEF s
<1>6. Len(Replaced(c, s)) \in Nat
  BY <1>4
<1> QED
  BY <1>0, <1>1, <1>2, <1>3, <1>4, <1>5, <1>6, AppendProperties DEF s

LEMMA AddEnqueueTyped ==
    ASSUME TypeInv, NEW c \in Controllers, AddEnqueue(c)
    PROVE  TypeInv'
<1> DEFINE s == Slot(c)
           to == [pc |-> "enable", old |-> {}, todo |-> cpu[c].todo]
<1>0. /\ TypeOK /\ cpu[c].todo \in SUBSET Slots /\ cpu[c].todo # {} /\ cpu[c].old \in SUBSET Slots
      /\ s \in Slots /\ queue' \in Seq(WireRequest)
  BY EnqueueFacts DEF TypeInv, TypeOK
<1>1. to \in CpuState /\ to.todo # {}
  BY <1>0 DEF CpuState
<1>2. /\ cpu' = [cpu EXCEPT ![c] = to]
      /\ completed' = [completed EXCEPT ![c] = cpu[c].old \ {s}]
      /\ slotGen' = [slotGen EXCEPT ![c][s] = slotGen[c][s] + 1]
      /\ accepted' = [accepted EXCEPT ![c] = Append(@, ram[c][s].n)]
      /\ UNCHANGED <<pending, resetGen, ram, init, held, active, enabled, tick,
                     written, sent, gone, stopped, uses>>
  BY DEF AddEnqueue, Step
<1> HIDE DEF to, s
<1>3. cpu' \in [Controllers -> CpuState] /\ tick' \in TickState /\ Shaped'
  BY <1>1, <1>2, ThreadTyped
<1>4. completed' \in [Controllers -> SUBSET Slots]
  BY <1>0, <1>2 DEF TypeOK
<1>5. slotGen' \in [Controllers -> [Slots -> Nat]]
  <2>1. slotGen[c] \in [Slots -> Nat] /\ slotGen[c][s] + 1 \in Nat
    BY <1>0 DEF TypeOK
  <2>2. slotGen' = [slotGen EXCEPT ![c] = [slotGen[c] EXCEPT ![s] = slotGen[c][s] + 1]]
    BY <1>2
  <2> QED
    BY <2>1, <2>2, <1>0 DEF TypeOK
<1>6. accepted' \in [Controllers -> Seq(Nat)]
  <2>1. accepted[c] \in Seq(Nat) /\ ram[c][s].n \in Nat
    BY <1>0 DEF TypeOK
  <2>2. Append(accepted[c], ram[c][s].n) \in Seq(Nat)
    BY <2>1
  <2> QED
    BY <2>2, <1>0, <1>2 DEF TypeOK
<1> QED
  BY <1>0, <1>2, <1>3, <1>4, <1>5, <1>6 DEF TypeInv, TypeOK, CpuState, TickState

LEMMA AddEnableTyped ==
    ASSUME TypeInv, NEW c \in Controllers, AddEnable(c)
    PROVE  TypeInv'
<1>0. TypeOK /\ cpu[c].todo \in SUBSET Slots
  BY DEF TypeInv, TypeOK
<1>1. Onwards(c) \in CpuState /\ (Onwards(c).pc \in InLoop => Onwards(c).todo # {})
  BY <1>0, OnwardsTyped
<1>2. /\ cpu' = [cpu EXCEPT ![c] = Onwards(c)] /\ enabled' = TRUE
      /\ UNCHANGED <<controller, queue, active, tick, history>>
  BY DEF AddEnable, Step
<1>3. cpu' \in [Controllers -> CpuState] /\ tick' \in TickState /\ Shaped'
  BY <1>1, <1>2, ThreadTyped
<1> QED
  BY <1>0, <1>2, <1>3 DEF TypeInv, TypeOK, CpuState, TickState, controller, history

LEMMA CancelStoreTyped ==
    ASSUME TypeInv, NEW c \in Controllers, CancelStore(c)
    PROVE  TypeInv'
<1>0. TypeOK /\ cpu[c].old \in SUBSET Slots
  BY DEF TypeInv, TypeOK
<1>1. AtRest \in CpuState /\ AtRest.pc \notin InLoop
  BY DEF AtRest, CpuState, InLoop
<1>2. /\ cpu' = [cpu EXCEPT ![c] = AtRest]
      /\ pending' = [pending EXCEPT ![c] = cpu[c].old \ cpu[c].todo]
      /\ UNCHANGED <<completed, slotGen, resetGen, ram, init, held, wire, tick, history>>
  BY DEF CancelStore, Step, Unset
<1>3. cpu' \in [Controllers -> CpuState] /\ tick' \in TickState /\ Shaped'
  BY <1>1, <1>2, ThreadTyped DEF wire
<1>4. pending' \in [Controllers -> SUBSET Slots]
  BY <1>0, <1>2 DEF TypeOK
<1> QED
  BY <1>0, <1>2, <1>3, <1>4 DEF TypeInv, TypeOK, CpuState, TickState, wire, history

\* A closure's request is one.
LEMMA ActiveTyped ==
    ASSUME TypeInv, active # Idle
    PROVE  active \in WireRequest /\ active.owner \in Controllers /\ active.slot \in Slots /\ active.n \in Nat
BY DEF TypeInv, TypeOK, WireRequest

LEMMA TickTyped ==
    ASSUME TypeInv, TickNext
    PROVE  TypeInv'
<1>0. TypeOK /\ Shaped /\ tick \in TickState
  BY DEF TypeInv, TypeOK, TickState
<1>1. CASE Fire
  <2>1. UNCHANGED <<controller, wire, cpu, history>>
    BY <1>1 DEF Fire
  <2>2. tick' \in TickState /\ Shaped'
    BY <1>0, <1>1 DEF Fire, wire, Shaped, TickState, InTick, Valid
  <2> QED
    BY <1>0, <2>1, <2>2 DEF TypeInv, TypeOK, TickState, controller, wire, history
<1>2. CASE LoadPending
  <2>1. UNCHANGED <<controller, wire, cpu, history>>
    BY <1>2 DEF LoadPending
  <2>2. active # Idle
    BY <1>0, <1>2 DEF LoadPending, TickStep, Shaped, InTick
  <2>3. pending[active.owner] \in SUBSET Slots
    BY <1>0, <2>2, ActiveTyped DEF TypeOK
  <2>4. tick' \in TickState /\ Shaped'
    BY <1>0, <1>2, <2>2, <2>3 DEF LoadPending, TickStep, wire, Shaped, TickState, InTick
  <2> QED
    BY <1>0, <2>1, <2>4 DEF TypeInv, TypeOK, TickState, controller, wire, history
<1>3. CASE Release
  <2>1. UNCHANGED <<completed, slotGen, resetGen, ram, init, held, wire, cpu, history>>
    BY <1>3 DEF Release
  <2>2. active # Idle
    BY <1>0, <1>3 DEF Release, TickStep, Shaped, InTick
  <2>3. completed[active.owner] \in SUBSET Slots /\ tick.old \in SUBSET Slots
    BY <1>0, <2>2, ActiveTyped DEF TypeOK
  <2>4. tick' \in TickState /\ Shaped'
    BY <1>0, <1>3, <2>2, <2>3 DEF Release, TickStep, wire, Shaped, TickState, InTick
  <2>5. pending' \in [Controllers -> SUBSET Slots]
    BY <1>0, <1>3, <2>3 DEF Release, Unset, TypeOK
  <2> QED
    BY <1>0, <2>1, <2>4, <2>5 DEF TypeInv, TypeOK, TickState, wire, history
<1>4. CASE Complete
  <2> DEFINE c == active.owner
             s == active.slot
  <2>1. UNCHANGED <<pending, slotGen, resetGen, ram, init, wire, cpu,
                    written, accepted, gone, stopped, uses>>
    BY <1>4 DEF Complete
  <2>2. active # Idle
    BY <1>0, <1>4 DEF Complete, TickStep, Shaped, InTick
  <2>3. tick.old \in SUBSET Slots /\ c \in Controllers /\ s \in Slots /\ ram[c][s].n \in Nat
    BY <1>0, <2>2, ActiveTyped DEF TypeOK
  <2>4. tick' \in TickState /\ Shaped'
    BY <1>0, <1>4, <2>2 DEF Complete, TickStep, wire, Shaped, TickState, InTick
  <2>5. completed' \in [Controllers -> SUBSET Slots]
    BY <1>0, <1>4, <2>3 DEF Complete, TypeOK
  <2>6. held' \in [Controllers -> SUBSET Slots]
    <3>1. held \in [Controllers -> SUBSET Slots] /\ {s} \in SUBSET Slots
      BY <1>0, <2>3 DEF TypeOK
    <3>2. held' = held \/ held' = [held EXCEPT ![c] = {s}]
      BY <1>4 DEF Complete
    <3> HIDE DEF c, s
    <3> QED
      BY <3>1, <3>2
  <2>7. sent' \in [Controllers -> Seq(Nat)]
    <3>1. sent[c] \in Seq(Nat)
      BY <1>0, <2>3 DEF TypeOK
    <3>2. Append(sent[c], ram[c][s].n) \in Seq(Nat)
      BY <2>3, <3>1
    <3> QED
      BY <1>0, <1>4, <2>3, <3>2 DEF Complete, TypeOK
  <2> QED
    BY <1>0, <2>1, <2>4, <2>5, <2>6, <2>7 DEF TypeInv, TypeOK, TickState, wire
<1>5. CASE Select
  <2>1. UNCHANGED <<controller, enabled, cpu, history>>
    BY <1>5 DEF Select
  <2>2. ASSUME NEW k \in Heads, active' = queue[k], queue' = RemoveAt(queue, k), tick' = AtIdle
        PROVE  active' \in WireRequest /\ queue' \in Seq(WireRequest) /\ tick' \in TickState /\ Shaped'
    <3>1. k \in 1 .. Len(queue) /\ queue \in Seq(WireRequest)
      BY <1>0 DEF Heads, TypeOK
    <3>2. queue[k] \in WireRequest
      BY <3>1
    <3>3. Thins(RemoveAt(queue, k), queue)
      BY <3>1, RemovedThins
    <3> QED
      BY <1>0, <2>1, <2>2, <3>2, <3>3 DEF Thins, AtIdle, TickState, Shaped, InTick
  <2>3. ASSUME active' = Idle, tick' = [pc |-> "disable", old |-> {}], UNCHANGED queue
        PROVE  tick' \in TickState /\ Shaped'
    BY <1>0, <2>1, <2>3 DEF TickState, Shaped, InTick
  <2>4. /\ tick' \in TickState /\ Shaped' /\ queue' \in Seq(WireRequest)
        /\ active' \in WireRequest \cup {Idle}
    BY <1>0, <1>5, <2>2, <2>3 DEF Select, TypeOK
  <2> QED
    BY <1>0, <2>1, <2>4 DEF TypeInv, TypeOK, TickState, controller, history
<1>6. CASE Disable \/ Recheck
  <2>1. UNCHANGED <<controller, queue, active, cpu, history>>
    BY <1>6 DEF Disable, Recheck
  <2>2. tick' \in TickState /\ Shaped'
    BY <1>0, <1>6, <2>1 DEF Disable, Recheck, TickStep, AtIdle, TickState, Shaped, InTick
  <2>3. enabled' \in BOOLEAN
    BY <1>0, <1>6 DEF Disable, Recheck, Rearm, TypeOK
  <2> QED
    BY <1>0, <2>1, <2>2, <2>3 DEF TypeInv, TypeOK, TickState, controller, history
<1> QED
  BY <1>1, <1>2, <1>3, <1>4, <1>5, <1>6 DEF TickNext

\* TypeOK: the variables keep their types, for any controllers, slots, headers and
\* bounds; a loop of the CPU has a slot to do and a closure of the wire its request.
THEOREM TypeCorrect == Spec => []TypeInv
<1>1. TypeInv /\ [Next]_vars => TypeInv'
  <2> SUFFICES ASSUME TypeInv, [Next]_vars PROVE TypeInv'
    OBVIOUS
  <2>1. ASSUME NEW c \in Controllers, Firmware(c) PROVE TypeInv'
    BY <2>1, RequestTyped, CancelTyped, StopTyped, StartTyped, ResetTyped DEF Firmware
  <2>2. ASSUME NEW c \in Controllers, CpuStep(c) PROVE TypeInv'
    BY <2>2, AddCheckTyped, AddReserveTyped, AddEnqueueTyped, AddEnableTyped, CancelStoreTyped
    DEF CpuStep
  <2>3. CASE UNCHANGED vars
    BY <2>3 DEF vars, controller, wire, history, TypeInv, TypeOK, Shaped
  <2> QED
    BY <2>1, <2>2, <2>3, TickTyped DEF Next
<1> QED
  BY <1>1, InitTyped, PTL DEF Spec

-----------------------------------------------------------------------------
(* The queue has one request per slot, and the wire goes to the winner. *)

\* A step thins the queue, or is the end of Enqueue.
LEMMA QueueSteps ==
    ASSUME TypeInv, [Next]_vars
    PROVE  Thins(queue', queue) \/ \E c \in Controllers : AddEnqueue(c)
<1>1. queue \in Seq(WireRequest)
  BY DEF TypeInv, TypeOK
<1>2. Thins(queue, queue)
  BY <1>1 DEF Thins
<1>3. ASSUME queue' = queue PROVE Thins(queue', queue)
  BY <1>2, <1>3
<1>4. ASSUME NEW c \in Controllers, Firmware(c) PROVE queue' = queue
  BY <1>4 DEF Firmware, Request, Cancel, Stop, Start, Reset, wire
<1>5. ASSUME NEW c \in Controllers, CpuStep(c) PROVE queue' = queue \/ AddEnqueue(c)
  BY <1>5 DEF CpuStep, AddCheck, AddReserve, AddEnable, CancelStore, wire
<1>6. ASSUME TickNext PROVE queue' = queue \/ Select
  BY <1>6 DEF TickNext, Fire, LoadPending, Release, Complete, Disable, Recheck, wire
<1>7. ASSUME Select PROVE Thins(queue', queue)
  <2>1. CASE queue' = queue
    BY <2>1, <1>3
  <2>2. ASSUME NEW k \in Heads, queue' = RemoveAt(queue, k) PROVE Thins(queue', queue)
    BY <1>1, <2>2, RemovedThins DEF Heads
  <2> QED
    BY <1>7, <2>1, <2>2 DEF Select
<1>8. CASE UNCHANGED vars
  BY <1>3, <1>8 DEF vars, wire
<1> QED
  BY <1>3, <1>4, <1>5, <1>6, <1>7, <1>8 DEF Next

LEMMA ThinsKeepsOne ==
    ASSUME NEW q, NEW r, Thins(r, q),
           \A j, k \in 1 .. Len(q) : q[j].owner = q[k].owner /\ q[j].slot = q[k].slot => j = k
    PROVE  \A j, k \in 1 .. Len(r) : r[j].owner = r[k].owner /\ r[j].slot = r[k].slot => j = k
<1>0. Len(r) \in Nat
  BY DEF Thins
<1>1. ASSUME NEW j \in 1 .. Len(r), NEW k \in 1 .. Len(r), j < k,
             r[j].owner = r[k].owner, r[j].slot = r[k].slot
      PROVE  FALSE
  <2>1. PICK a, b \in 1 .. Len(q) : a < b /\ r[j] = q[a] /\ r[k] = q[b]
    BY <1>1 DEF Thins
  <2>2. a = b
    BY <1>1, <2>1
  <2> QED
    BY <2>1, <2>2
<1>2. \A j, k \in 1 .. Len(r) : j < k \/ k < j \/ j = k
  BY <1>0
<1> QED
  BY <1>1, <1>2

\* OneQueuedPerSlot (WireScheduler.Enqueue): the wire's queue is bounded by the
\* slots of its controllers, for any number of them and whatever is aborted or reset.
THEOREM QueueBounded == Spec => []OneQueuedPerSlot
<1>1. Init => OneQueuedPerSlot
  BY DEF Init, OneQueuedPerSlot
<1>2. TypeInv /\ OneQueuedPerSlot /\ [Next]_vars => OneQueuedPerSlot'
  <2> SUFFICES ASSUME TypeInv, OneQueuedPerSlot, [Next]_vars PROVE OneQueuedPerSlot'
    OBVIOUS
  <2>1. CASE Thins(queue', queue)
    BY <2>1, ThinsKeepsOne DEF OneQueuedPerSlot
  <2>2. ASSUME NEW c \in Controllers, AddEnqueue(c) PROVE OneQueuedPerSlot'
    <3> DEFINE r == Replaced(c, Slot(c))
               x == Asked(c)
    <3>1. /\ Thins(r, queue) /\ Len(r) \in Nat
          /\ Len(queue') = Len(r) + 1 /\ queue'[Len(r) + 1] = x
          /\ \A i \in 1 .. Len(r) : queue'[i] = r[i]
      BY <2>2, EnqueueFacts
    <3>2. \A j, k \in 1 .. Len(r) : r[j].owner = r[k].owner /\ r[j].slot = r[k].slot => j = k
      BY <3>1, ThinsKeepsOne DEF OneQueuedPerSlot
    <3>3. \A i \in 1 .. Len(r) : r[i].owner # x.owner \/ r[i].slot # x.slot
      <4>1. queue \in Seq(WireRequest) /\ x.owner = c /\ x.slot = Slot(c)
        BY DEF TypeInv, TypeOK, Asked
      <4> QED
        BY <4>1, ReplacedThins
    <3> HIDE DEF r, x
    <3>4. \A j \in 1 .. Len(queue') : j \in 1 .. Len(r) \/ j = Len(r) + 1
      BY <3>1
    <3> QED
      BY <3>1, <3>2, <3>3, <3>4 DEF OneQueuedPerSlot
  <2> QED
    BY <2>1, <2>2, QueueSteps
<1> QED
  BY <1>1, <1>2, TypeCorrect, PTL DEF Spec

LEMMA Scaled ==
    ASSUME NEW F \in Nat, NEW x \in Nat, NEW y \in Nat, NEW a \in Nat, NEW b \in Nat,
           a < F, x < y
    PROVE  x * F + a < y * F + b
<1>1. PICK d \in Nat : y = x + 1 + d
  <2>1. y - x - 1 \in Nat /\ y = x + 1 + (y - x - 1)
    OBVIOUS
  <2> QED
    BY <2>1
<1>2. (x + 1 + d) * F = x * F + F + d * F /\ d * F \in Nat /\ x * F \in Nat
  OBVIOUS
<1> QED
  BY <1>1, <1>2

\* The key orders headers as bitwise arbitration does.
LEMMA BeatsLower ==
    ASSUME NEW h \in Header, NEW k \in Header, Beats(h, k)
    PROVE  WireArbitrationKey(h) < WireArbitrationKey(k)
<1>1. /\ h.ide \in 0 .. 1 /\ h.rtr \in 0 .. 1 /\ h.base \in 0 .. 2^11 - 1 /\ h.ext \in 0 .. 2^18 - 1
      /\ k.ide \in 0 .. 1 /\ k.rtr \in 0 .. 1 /\ k.base \in 0 .. 2^11 - 1 /\ k.ext \in 0 .. 2^18 - 1
  BY DEF Header
<1> DEFINE E == 2^18
<1>2. E \in Nat /\ 0 < E /\ 2^19 = 2 * E /\ 2^20 = 4 * E /\ 2^21 = 8 * E /\ 2^11 \in Int
  OBVIOUS
<1> DEFINE f == ArbitrationField(h)
           g == ArbitrationField(k)
<1>3. /\ f[1] = h.base
      /\ f[2] = (IF h.ide = 0 THEN h.rtr ELSE 1) /\ f[3] = (IF h.ide = 0 THEN 0 ELSE 1)
      /\ f[4] = (IF h.ide = 0 THEN 0 ELSE h.ext) /\ f[5] = (IF h.ide = 0 THEN 0 ELSE h.rtr)
  BY DEF ArbitrationField
<1>4. /\ g[1] = k.base
      /\ g[2] = (IF k.ide = 0 THEN k.rtr ELSE 1) /\ g[3] = (IF k.ide = 0 THEN 0 ELSE 1)
      /\ g[4] = (IF k.ide = 0 THEN 0 ELSE k.ext) /\ g[5] = (IF k.ide = 0 THEN 0 ELSE k.rtr)
  BY DEF ArbitrationField
<1>5. PICK p \in 1 .. 5 : f[p] < g[p] /\ \A q \in 1 .. p - 1 : f[q] = g[q]
  BY DEF Beats
<1> HIDE DEF f, g
<1>6. \/ f[1] < g[1]
      \/ f[1] = g[1] /\ f[2] < g[2]
      \/ f[1] = g[1] /\ f[2] = g[2] /\ f[3] < g[3]
      \/ f[1] = g[1] /\ f[2] = g[2] /\ f[3] = g[3] /\ f[4] < g[4]
      \/ f[1] = g[1] /\ f[2] = g[2] /\ f[3] = g[3] /\ f[4] = g[4] /\ f[5] < g[5]
  <2>1. CASE p = 1
    BY <1>5, <2>1
  <2>2. CASE p = 2
    <3>1. 1 \in 1 .. p - 1
      BY <2>2
    <3> QED
      BY <1>5, <2>2, <3>1
  <2>3. CASE p = 3
    <3>1. 1 \in 1 .. p - 1 /\ 2 \in 1 .. p - 1
      BY <2>3
    <3> QED
      BY <1>5, <2>3, <3>1
  <2>4. CASE p = 4
    <3>1. 1 \in 1 .. p - 1 /\ 2 \in 1 .. p - 1 /\ 3 \in 1 .. p - 1
      BY <2>4
    <3> QED
      BY <1>5, <2>4, <3>1
  <2>5. CASE p = 5
    <3>1. 1 \in 1 .. p - 1 /\ 2 \in 1 .. p - 1 /\ 3 \in 1 .. p - 1 /\ 4 \in 1 .. p - 1
      BY <2>5
    <3> QED
      BY <1>5, <2>5, <3>1
  <2> QED
    BY <2>1, <2>2, <2>3, <2>4, <2>5
<1> DEFINE rest(x) == IF x.ide = 0 THEN x.rtr * (4 * E) ELSE 4 * E + 2 * E + x.ext * 2 + x.rtr
<1>7. /\ WireArbitrationKey(h) = h.base * (8 * E) + rest(h)
      /\ WireArbitrationKey(k) = k.base * (8 * E) + rest(k)
  <2>1. /\ WireArbitrationKey(h) = IF h.ide = 0 THEN h.base * (8 * E) + h.rtr * (4 * E)
                                  ELSE h.base * (8 * E) + 4 * E + 2 * E + h.ext * 2 + h.rtr
        /\ WireArbitrationKey(k) = IF k.ide = 0 THEN k.base * (8 * E) + k.rtr * (4 * E)
                                  ELSE k.base * (8 * E) + 4 * E + 2 * E + k.ext * 2 + k.rtr
    BY <1>2 DEF WireArbitrationKey
  <2>2. /\ h.base \in Nat /\ h.rtr \in Nat /\ h.ext \in Nat
        /\ k.base \in Nat /\ k.rtr \in Nat /\ k.ext \in Nat
    BY <1>1, <1>2
  <2> HIDE DEF E
  <2>3. /\ h.base * (8 * E) \in Nat /\ k.base * (8 * E) \in Nat
        /\ h.rtr * (4 * E) \in Nat /\ k.rtr * (4 * E) \in Nat
    BY <1>2, <2>2
  <2> QED
    BY <1>2, <2>1, <2>2, <2>3
<1>8. /\ h.base \in Nat /\ h.rtr \in {0, 1} /\ h.ext \in Nat /\ h.ext < E
      /\ k.base \in Nat /\ k.rtr \in {0, 1} /\ k.ext \in Nat /\ k.ext < E
      /\ h.ide \in {0, 1} /\ k.ide \in {0, 1}
  BY <1>1, <1>2
<1> HIDE DEF E
<1>9. /\ rest(h) = (IF h.ide = 0 THEN (IF h.rtr = 0 THEN 0 ELSE 4 * E) ELSE 6 * E + h.ext * 2 + h.rtr)
      /\ rest(k) = (IF k.ide = 0 THEN (IF k.rtr = 0 THEN 0 ELSE 4 * E) ELSE 6 * E + k.ext * 2 + k.rtr)
  BY <1>2, <1>8
<1> HIDE DEF rest
<1>10. rest(h) \in Nat /\ rest(k) \in Nat /\ rest(h) < 8 * E /\ 8 * E \in Nat
  BY <1>2, <1>8, <1>9
<1>11. CASE h.base < k.base
  BY <1>7, <1>8, <1>10, <1>11, Scaled
<1>12. CASE h.base = k.base /\ rest(h) < rest(k)
  <2>1. k.base * (8 * E) \in Nat
    BY <1>8, <1>10
  <2> QED
    BY <1>7, <1>10, <1>12, <2>1
<1>13. h.base < k.base \/ (h.base = k.base /\ rest(h) < rest(k))
  BY <1>2, <1>3, <1>4, <1>6, <1>8, <1>9
<1> QED
  BY <1>11, <1>12, <1>13

\* ArbitrationWinner (WireScheduler.Tick and WireArbitrationKey): the wire never goes
\* past a head request with a dominant identifier, nor past an older request of its
\* controller, for every 11-bit and 29-bit identifier.
THEOREM WinnerTaken == Spec => ArbitrationWinner
<1> DEFINE A == active' # active /\ active' # Idle =>
          /\ \A k \in Heads : ~Beats(queue[k].header, active'.header)
          /\ \A k \in 1 .. Len(queue) :
                queue[k].owner = active'.owner => queue[k] = active' \/
                    \E j \in 1 .. k - 1 : queue[j] = active'
<1>1. TypeInv /\ [Next]_vars => [A]_vars
  <2> SUFFICES ASSUME TypeInv, [Next]_vars PROVE A
    OBVIOUS
  <2>1. active' = active \/ Select
    <3>1. ASSUME NEW c \in Controllers, Firmware(c) PROVE active' = active
      BY <3>1 DEF Firmware, Request, Cancel, Stop, Start, Reset, wire
    <3>2. ASSUME NEW c \in Controllers, CpuStep(c) PROVE active' = active
      BY <3>2 DEF CpuStep, AddCheck, AddReserve, AddEnqueue, AddEnable, CancelStore, wire
    <3>3. ASSUME TickNext PROVE active' = active \/ Select
      BY <3>3 DEF TickNext, Fire, LoadPending, Release, Complete, Disable, Recheck, wire
    <3>4. CASE UNCHANGED vars
      BY <3>4 DEF vars, wire
    <3> QED
      BY <3>1, <3>2, <3>3, <3>4 DEF Next
  <2>2. ASSUME NEW w \in Heads, active' = queue[w],
               \A j \in Heads : Key(w) < Key(j) \/ (Key(w) = Key(j) /\ w <= j)
        PROVE  A
    <3>0. queue \in Seq(WireRequest) /\ Len(queue) \in Nat /\ w \in 1 .. Len(queue) /\ IsHead(w)
      BY DEF TypeInv, TypeOK, Heads
    <3>1. ASSUME NEW k \in Heads, Beats(queue[k].header, queue[w].header) PROVE FALSE
      <4>1. k \in 1 .. Len(queue) /\ queue[k] \in WireRequest /\ queue[w] \in WireRequest
        BY <3>0 DEF Heads
      <4>2. queue[k].header \in Header /\ queue[w].header \in Header
        BY <4>1 DEF WireRequest
      <4>3. Key(k) < Key(w)
        BY <3>1, <4>2, BeatsLower DEF Key
      <4>4. Key(k) \in Int /\ Key(w) \in Int
        <5>1. \A h \in Header : WireArbitrationKey(h) \in Int
          <6>1. SUFFICES ASSUME NEW h \in Header PROVE WireArbitrationKey(h) \in Int
            OBVIOUS
          <6>2. h.base \in 0 .. 2^11 - 1 /\ h.rtr \in 0 .. 1 /\ h.ext \in 0 .. 2^18 - 1
            BY DEF Header
          <6> DEFINE B == 2^18
          <6>3. h.base \in Int /\ h.rtr \in Int /\ h.ext \in Int
            BY <6>2
          <6>4. B \in Int /\ 2^21 = 8 * B /\ 2^20 = 4 * B /\ 2^19 = 2 * B
            OBVIOUS
          <6> HIDE DEF B
          <6>5. h.base * (8 * B) \in Int /\ h.rtr * (4 * B) \in Int /\ h.ext * 2 \in Int
            BY <6>3, <6>4
          <6> QED
            BY <6>3, <6>4, <6>5 DEF WireArbitrationKey
        <5> QED
          BY <4>2, <5>1 DEF Key
      <4> QED
        BY <2>2, <4>3, <4>4
    <3>2. ASSUME NEW k \in 1 .. Len(queue), queue[k].owner = queue[w].owner
          PROVE  queue[k] = queue[w] \/ \E j \in 1 .. k - 1 : queue[j] = queue[w]
      <4>1. CASE k < w
        <5>1. k \in 1 .. w - 1
          BY <3>0, <4>1
        <5> QED
          BY <3>0, <3>2, <5>1 DEF IsHead
      <4>2. CASE k = w
        BY <4>2
      <4>3. CASE w < k
        <5>1. w \in 1 .. k - 1
          BY <3>0, <4>3
        <5> QED
          BY <5>1
      <4> QED
        BY <3>0, <4>1, <4>2, <4>3
    <3> QED
      BY <2>2, <3>1, <3>2
  <2> QED
    BY <2>1, <2>2 DEF Select
<1>2. Spec => [][A]_vars
  BY <1>1, TypeCorrect, PTL DEF Spec
<1> QED
  BY <1>2 DEF ArbitrationWinner

-----------------------------------------------------------------------------
(* A hosted controller: its own CPU stands still while the wire's clock      *)
(* fires, so that no mask it loaded is stale when it stores it.              *)

Number(c, s) == ram[c][s].n

\* Slots whose frame the firmware wrote, and whose request is still to be made.
Fresh(c) ==
    IF cpu[c].pc \in InLoop
    THEN (cpu[c].todo \ pending[c]) \cup (IF cpu[c].pc = "enqueue" THEN {Slot(c)} ELSE {})
    ELSE {}

\* Slots whose request is being aborted, and the slot whose frame is being sent.
Cancelled(c) == IF cpu[c].pc = "abort" THEN cpu[c].todo ELSE {}
Leaving(c) == IF InClosure(c) /\ tick.pc = "complete" THEN {active.slot} ELSE {}

Waits(c) == (pending[c] \ Cancelled(c)) \cup Leaving(c)

\* The requests that may still send a frame: the queued, and the active one
\* until its closure has ended.
OnWire(c) == active # Idle /\ active.owner = c /\ tick.pc \in {"idle"} \cup InTick
Requests(c) ==
    {queue[i] : i \in {k \in 1 .. Len(queue) : queue[k].owner = c}}
        \cup (IF OnWire(c) THEN {active} ELSE {})

Current(c, r) == r.generation = resetGen[c] /\ r.token = slotGen[c][r.slot]

\* What each thread holds while it is inside a register write or a closure.
Threads(c) ==
    /\ cpu[c].pc # "rest" => tick.pc = "idle"
    /\ cpu[c].pc = "reserve" => cpu[c].old = pending[c] /\ Slot(c) \notin pending[c]
    /\ cpu[c].pc = "enqueue" => cpu[c].old = completed[c] /\ Slot(c) \in pending[c]
    /\ cpu[c].pc = "enable" => Slot(c) \in pending[c]
    /\ cpu[c].pc = "abort" => cpu[c].old = pending[c]

Closing(c) ==
    InClosure(c) =>
        /\ Current(c, active)
        /\ tick.pc = "release" => tick.old = pending[c]
        /\ tick.pc = "complete" => tick.old = completed[c] /\ active.slot \notin pending[c]

\* A request that will pass its closure's checks is for the frame its slot holds.
Claims(c) ==
    \A r \in Requests(c) :
        /\ r.token <= slotGen[c][r.slot] /\ r.generation <= resetGen[c]
        /\ r.n \in Range(accepted[c])
        /\ Current(c, r) => Number(c, r.slot) = r.n /\ r.slot \in Waits(c)

Rising(q) == \A j, k \in 1 .. Len(q) : j < k => q[j] < q[k]

\* Frames are numbered in the order of their requests.
Numbered(c) ==
    /\ Rising(accepted[c])
    /\ \A n \in Range(accepted[c]) : n <= written[c]
    /\ \A s \in Fresh(c) : /\ \A n \in Range(accepted[c]) : n < Number(c, s)
                           /\ Number(c, s) <= written[c]
                           /\ \A t \in Fresh(c) : s < t => Number(c, s) < Number(c, t)

\* The queue keeps that order behind the active request.
Lined(c) ==
    \A j \in 1 .. Len(queue) : queue[j].owner = c =>
        /\ OnWire(c) => active.n < queue[j].n
        /\ \A i \in 1 .. j - 1 : queue[i].owner = c => queue[i].n < queue[j].n

\* What was sent, or is held until INIT is left, came before all that.
Passed(c) ==
    /\ Rising(sent[c]) /\ Range(sent[c]) \subseteq Range(accepted[c])
    /\ held[c] # {} => init[c]
    /\ \A s, t \in held[c] : s = t
    /\ \A s \in held[c] : /\ Number(c, s) \in Range(accepted[c])
                          /\ \A n \in Range(sent[c]) : n < Number(c, s)
    /\ \A r \in Requests(c) : /\ \A n \in Range(sent[c]) : n < r.n
                              /\ \A s \in held[c] : Number(c, s) < r.n

Ordered(c) == Threads(c) /\ Closing(c) /\ Claims(c) /\ Numbered(c) /\ Lined(c) /\ Passed(c)

HostedInv == \A c \in Hosted : Ordered(c)

LEMMA TypedAt ==
    ASSUME TypeInv, NEW c \in Controllers
    PROVE  /\ pending[c] \in SUBSET Slots /\ completed[c] \in SUBSET Slots /\ held[c] \in SUBSET Slots
           /\ slotGen[c] \in [Slots -> Nat] /\ resetGen[c] \in Nat /\ init[c] \in BOOLEAN
           /\ ram[c] \in [Slots -> [n : Nat, header : Header]]
           /\ \A s \in Slots : Number(c, s) \in Nat
           /\ cpu[c] \in CpuState /\ (cpu[c].pc \in InLoop => cpu[c].todo # {})
           /\ cpu[c].old \in SUBSET Slots /\ cpu[c].todo \in SUBSET Slots
           /\ written[c] \in Nat /\ accepted[c] \in Seq(Nat) /\ sent[c] \in Seq(Nat)
           /\ Range(accepted[c]) \subseteq Nat /\ Range(sent[c]) \subseteq Nat
           /\ gone[c] \in SUBSET Nat
           /\ queue \in Seq(WireRequest) /\ \A i \in 1 .. Len(queue) : queue[i].n \in Nat
           /\ \A r \in Requests(c) : /\ r \in WireRequest /\ r.owner = c /\ r.slot \in Slots /\ r.n \in Nat
                                     /\ r.token \in Nat /\ r.generation \in Nat
           /\ Fresh(c) \subseteq Slots
<1>0. TypeOK /\ Shaped
  BY DEF TypeInv
<1>1. /\ pending[c] \in SUBSET Slots /\ completed[c] \in SUBSET Slots /\ held[c] \in SUBSET Slots
      /\ slotGen[c] \in [Slots -> Nat] /\ resetGen[c] \in Nat /\ init[c] \in BOOLEAN
      /\ ram[c] \in [Slots -> [n : Nat, header : Header]]
      /\ written[c] \in Nat /\ accepted[c] \in Seq(Nat) /\ sent[c] \in Seq(Nat)
      /\ gone[c] \in SUBSET Nat /\ queue \in Seq(WireRequest)
  BY <1>0 DEF TypeOK
<1>2. \A s \in Slots : Number(c, s) \in Nat
  BY <1>1 DEF Number
<1>3. /\ cpu[c] \in CpuState /\ (cpu[c].pc \in InLoop => cpu[c].todo # {})
      /\ cpu[c].old \in SUBSET Slots /\ cpu[c].todo \in SUBSET Slots
  BY <1>0 DEF TypeOK, Shaped, CpuState
<1>4. Range(accepted[c]) \subseteq Nat /\ Range(sent[c]) \subseteq Nat
  BY <1>1, RangeOfSeq
<1>5. \A i \in 1 .. Len(queue) : queue[i] \in WireRequest
  BY <1>1
<1>6. \A r \in WireRequest : r.slot \in Slots /\ r.n \in Nat /\ r.token \in Nat /\ r.generation \in Nat
  BY DEF WireRequest
<1>7. \A r \in Requests(c) : r \in WireRequest /\ r.owner = c
  BY <1>0, <1>5 DEF Requests, OnWire, TypeOK
<1>8. Fresh(c) \subseteq Slots
  <2>1. CASE cpu[c].pc \in InLoop
    BY <1>3, <2>1, SlotLowest DEF Fresh
  <2>2. CASE cpu[c].pc \notin InLoop
    BY <2>2 DEF Fresh
  <2> QED
    BY <2>1, <2>2
<1> QED
  BY <1>1, <1>2, <1>3, <1>4, <1>5, <1>6, <1>7, <1>8

LEMMA SameSlot ==
    ASSUME NEW c, cpu'[c].todo = cpu[c].todo
    PROVE  Slot(c)' = Slot(c)
BY DEF Slot

\* A step that writes no frame, makes no request and sends nothing.
LEMMA Keeps ==
    ASSUME NEW c \in Hosted, Ordered(c),
           UNCHANGED <<slotGen[c], resetGen[c], ram[c], init[c], held[c], written[c],
                       accepted[c], sent[c]>>,
           Fresh(c)' \subseteq Fresh(c), Waits(c) \subseteq Waits(c)',
           Requests(c)' \subseteq Requests(c), Threads(c)', Closing(c)', Lined(c)'
    PROVE  Ordered(c)'
<1>1. \A s : Number(c, s)' = Number(c, s)
  BY DEF Number
<1>2. \A r : Current(c, r)' = Current(c, r)
  BY DEF Current
<1>3. Claims(c)'
  BY <1>1, <1>2 DEF Ordered, Claims
<1>4. Numbered(c)'
  BY <1>1 DEF Ordered, Numbered
<1>5. Passed(c)'
  BY <1>1 DEF Ordered, Passed
<1> QED
  BY <1>3, <1>4, <1>5 DEF Ordered

\* While c's own CPU moves, the wire is between two of its ticks.
LEMMA AtIdleTick ==
    ASSUME NEW c \in Hosted, tick.pc = "idle", UNCHANGED <<tick, active, queue>>
    PROVE  /\ ~InClosure(c) /\ ~InClosure(c)' /\ Closing(c)'
           /\ Leaving(c) = {} /\ Leaving(c)' = {}
           /\ Requests(c)' = Requests(c)
           /\ Lined(c) => Lined(c)'
BY DEF InClosure, Closing, Leaving, Requests, OnWire, Lined

LEMMA RequestOrdered ==
    ASSUME TypeInv, NEW c \in Hosted, Ordered(c), NEW value \in SUBSET Slots, NEW h,
           Request(c, value, h)
    PROVE  Ordered(c)'
<1> DEFINE free == value \ pending[c]
<1>0. c \in Controllers
  BY ControllersAssumption
<1>1. /\ tick.pc = "idle" /\ cpu[c].pc = "rest" /\ ~init[c]
      /\ UNCHANGED <<tick, active, queue, pending, completed, slotGen, resetGen, init, held,
                     accepted, sent>>
  BY DEF Request, Calls, Runs, wire
<1>2. /\ cpu'[c] = [pc |-> "add", old |-> {}, todo |-> value]
      /\ written'[c] = written[c] + Cardinality(free)
      /\ \A s \in Slots : Number(c, s)' = IF s \in free THEN written[c] + UpTo(free, s) ELSE Number(c, s)
  <2>1. cpu \in [Controllers -> CpuState] /\ written \in [Controllers -> Nat]
        /\ ram \in [Controllers -> [Slots -> [n : Nat, header : Header]]]
    BY DEF TypeInv, TypeOK, CpuState
  <2>2. cpu' = [cpu EXCEPT ![c] = [pc |-> "add", old |-> {}, todo |-> value]]
    BY DEF Request
  <2>3. written' = [written EXCEPT ![c] = @ + Cardinality(free)]
    BY DEF Request
  <2>4. ram' = [ram EXCEPT ![c] = [s \in Slots |->
                   IF s \in free THEN [n |-> written[c] + UpTo(free, s), header |-> h] ELSE ram[c][s]]]
    BY DEF Request, UpTo
  <2> HIDE DEF free
  <2>5. ram'[c] = [s \in Slots |->
                   IF s \in free THEN [n |-> written[c] + UpTo(free, s), header |-> h] ELSE ram[c][s]]
    BY <1>0, <2>1, <2>4
  <2>6. \A s \in Slots : ram'[c][s].n = IF s \in free THEN written[c] + UpTo(free, s) ELSE ram[c][s].n
    BY <2>5
  <2> QED
    BY <1>0, <2>1, <2>2, <2>3, <2>6 DEF Number
<1>3. free \in SUBSET Slots /\ free \subseteq Nat
  BY SlotsNat
<1>4. /\ Cardinality(free) \in Nat
      /\ \A k \in Int : UpTo(free, k) \in Nat /\ UpTo(free, k) <= Cardinality(free)
      /\ \A j \in Int, k \in free : j < k => UpTo(free, j) < UpTo(free, k)
      /\ \A k \in free : 0 < UpTo(free, k)
  <2> HIDE DEF free
  <2> QED
    BY <1>3, SlotCounts
<1>5. Fresh(c) = {} /\ Fresh(c)' = free
  BY <1>1, <1>2 DEF Fresh, InLoop
<1>6. /\ Closing(c)' /\ Requests(c)' = Requests(c) /\ Lined(c)' /\ Waits(c) = pending[c]
      /\ Waits(c)' = pending[c]
  BY <1>1, <1>2, AtIdleTick DEF Waits, Cancelled, Ordered
<1>7. Threads(c)'
  BY <1>1, <1>2 DEF Threads
<1>8. Claims(c)'
  BY <1>0, <1>1, <1>2, <1>6, TypedAt DEF Ordered, Claims, Current
<1> DEFINE acc == Range(accepted[c])
           w == written[c]
<1>9. Numbered(c)'
  <2> HIDE DEF free
  <2>1. Rising(accepted[c]) /\ acc \subseteq Nat /\ w \in Nat /\ \A n \in acc : n <= w
    BY <1>0, TypedAt DEF Ordered, Numbered
  <2>2. ASSUME NEW n \in acc PROVE n <= written'[c]
    BY <1>2, <1>4, <2>1
  <2>3. ASSUME NEW s \in free
        PROVE  /\ \A n \in acc : n < Number(c, s)'
               /\ Number(c, s)' <= written'[c]
               /\ \A t \in free : s < t => Number(c, s)' < Number(c, t)'
    <3>1. s \in Int /\ s \in Slots /\ Number(c, s)' = w + UpTo(free, s)
      BY <1>2, <1>3
    <3>2. UpTo(free, s) \in Nat /\ 0 < UpTo(free, s) /\ UpTo(free, s) <= Cardinality(free)
      BY <1>4, <3>1
    <3>3. ASSUME NEW t \in free, s < t PROVE Number(c, s)' < Number(c, t)'
      <4>1. Number(c, t)' = w + UpTo(free, t) /\ UpTo(free, t) \in Nat /\ UpTo(free, s) < UpTo(free, t)
        BY <1>2, <1>3, <1>4, <3>1, <3>3
      <4> QED
        BY <2>1, <3>1, <3>2, <4>1
    <3> QED
      BY <1>2, <1>4, <2>1, <3>1, <3>2, <3>3
  <2> QED
    BY <1>1, <1>5, <2>1, <2>2, <2>3 DEF Numbered
<1>10. Passed(c)'
  BY <1>1, <1>6 DEF Ordered, Passed
<1> QED
  BY <1>6, <1>7, <1>8, <1>9, <1>10 DEF Ordered

\* A step of c's CPU that makes no request and writes no frame.
LEMMA CpuKeeps ==
    ASSUME NEW c \in Hosted, Ordered(c), tick.pc = "idle",
           UNCHANGED <<tick, active, queue, slotGen[c], resetGen[c], ram[c], init[c], held[c],
                       written[c], accepted[c], sent[c]>>,
           Fresh(c)' \subseteq Fresh(c), Waits(c) \subseteq Waits(c)', Threads(c)'
    PROVE  Ordered(c)'
<1>1. Closing(c)' /\ Requests(c)' = Requests(c) /\ Lined(c)'
  BY AtIdleTick DEF Ordered
<1> QED
  BY <1>1, Keeps

LEMMA CancelOrdered ==
    ASSUME TypeInv, NEW c \in Hosted, Ordered(c), NEW value \in SUBSET Slots, Cancel(c, value)
    PROVE  Ordered(c)'
<1>0. c \in Controllers
  BY ControllersAssumption
<1>1. /\ tick.pc = "idle" /\ cpu[c].pc = "rest"
      /\ UNCHANGED <<tick, active, queue, pending, completed, resetGen, ram, init, held,
                     written, accepted, sent>>
  BY DEF Cancel, Calls, Runs, wire
<1>2. /\ cpu'[c] = [pc |-> "abort", old |-> pending[c], todo |-> value]
      /\ \A s \in Slots : slotGen'[c][s] = slotGen[c][s] + IF s \in value THEN 1 ELSE 0
  BY <1>0 DEF Cancel, TypeInv, TypeOK
<1>3. Fresh(c)' = {} /\ Waits(c) = pending[c] /\ Waits(c)' = pending[c] \ value
  BY <1>1, <1>2, AtIdleTick DEF Fresh, Waits, Cancelled, InLoop
<1>4. Closing(c)' /\ Requests(c)' = Requests(c) /\ Lined(c)'
  BY <1>1, AtIdleTick DEF Ordered
<1>5. Threads(c)'
  BY <1>1, <1>2 DEF Threads
<1>6. \A s : Number(c, s)' = Number(c, s)
  BY <1>1 DEF Number
<1>7. Claims(c)'
  <2> SUFFICES ASSUME NEW r \in Requests(c)
               PROVE  /\ r.token <= slotGen'[c][r.slot] /\ r.generation <= resetGen'[c]
                      /\ r.n \in Range(accepted[c])'
                      /\ Current(c, r)' => Number(c, r.slot)' = r.n /\ r.slot \in Waits(c)'
    BY <1>4 DEF Claims
  <2>1. /\ r.slot \in Slots /\ r.token \in Nat /\ slotGen[c][r.slot] \in Nat
        /\ r.token <= slotGen[c][r.slot] /\ r.generation <= resetGen[c]
        /\ r.n \in Range(accepted[c])
        /\ Current(c, r) => Number(c, r.slot) = r.n /\ r.slot \in Waits(c)
    BY <1>0, TypedAt DEF Ordered, Claims
  <2>2. r.token <= slotGen'[c][r.slot]
    BY <1>2, <2>1
  <2>3. Current(c, r)' => Current(c, r) /\ r.slot \notin value
    BY <1>1, <1>2, <2>1 DEF Current
  <2> QED
    BY <1>1, <1>3, <1>6, <2>1, <2>2, <2>3
<1>8. Numbered(c)'
  BY <1>1, <1>3 DEF Ordered, Numbered
<1>9. Passed(c)'
  BY <1>1, <1>4, <1>6 DEF Ordered, Passed
<1> QED
  BY <1>4, <1>5, <1>7, <1>8, <1>9 DEF Ordered

LEMMA StopOrdered ==
    ASSUME TypeInv, NEW c \in Hosted, Ordered(c), Stop(c)
    PROVE  Ordered(c)'
<1>0. c \in Controllers
  BY ControllersAssumption
<1>1. /\ tick.pc = "idle" /\ cpu[c].pc = "rest" /\ init'[c] = TRUE
      /\ UNCHANGED <<tick, active, queue, pending, completed, slotGen, resetGen, ram, held, cpu,
                     written, accepted, sent>>
  BY <1>0 DEF Stop, Calls, Runs, wire, TypeInv, TypeOK
<1>2. Closing(c)' /\ Requests(c)' = Requests(c) /\ Lined(c)'
  BY <1>1, AtIdleTick DEF Ordered
<1>3. Fresh(c)' = Fresh(c) /\ Waits(c)' = Waits(c) /\ \A s : Number(c, s)' = Number(c, s)
  BY <1>1 DEF Fresh, InLoop, Waits, Cancelled, Leaving, InClosure, Number
<1>4. Threads(c)'
  BY <1>1 DEF Threads
<1>5. Claims(c)' /\ Numbered(c)'
  BY <1>1, <1>2, <1>3 DEF Ordered, Claims, Numbered, Current
<1>6. Passed(c)'
  BY <1>1, <1>2, <1>3 DEF Ordered, Passed
<1> QED
  BY <1>2, <1>4, <1>5, <1>6 DEF Ordered

LEMMA ResetOrdered ==
    ASSUME TypeInv, NEW c \in Hosted, Ordered(c), Reset(c)
    PROVE  Ordered(c)'
<1>0. c \in Controllers
  BY ControllersAssumption
<1>1. /\ tick.pc = "idle" /\ cpu[c].pc = "rest"
      /\ UNCHANGED <<tick, active, queue, slotGen, ram, cpu, written, accepted, sent>>
      /\ pending'[c] = {} /\ held'[c] = {} /\ resetGen'[c] = resetGen[c] + 1
  BY <1>0 DEF Reset, Calls, Runs, wire, TypeInv, TypeOK
<1>2. Closing(c)' /\ Requests(c)' = Requests(c) /\ Lined(c)'
  BY <1>1, AtIdleTick DEF Ordered
<1>3. Fresh(c)' = {}
  BY <1>1 DEF Fresh, InLoop
<1>4. Threads(c)'
  BY <1>1 DEF Threads
<1>5. Claims(c)'
  <2> SUFFICES ASSUME NEW r \in Requests(c)
               PROVE  /\ r.token <= slotGen'[c][r.slot] /\ r.generation <= resetGen'[c]
                      /\ r.n \in Range(accepted[c])'
                      /\ ~Current(c, r)'
    BY <1>2 DEF Claims
  <2>1. /\ r.generation \in Nat /\ resetGen[c] \in Nat
        /\ r.token <= slotGen[c][r.slot] /\ r.generation <= resetGen[c]
        /\ r.n \in Range(accepted[c])
    BY <1>0, TypedAt DEF Ordered, Claims
  <2> QED
    BY <1>1, <2>1 DEF Current
<1>6. Numbered(c)'
  BY <1>1, <1>3 DEF Ordered, Numbered
<1>7. Passed(c)'
  BY <1>1, <1>2 DEF Ordered, Passed
<1> QED
  BY <1>2, <1>4, <1>5, <1>6, <1>7 DEF Ordered

\* A longer rising sequence.
LEMMA AppendRises ==
    ASSUME NEW q \in Seq(Nat), NEW n \in Nat
    PROVE  /\ Append(q, n) \in Seq(Nat) /\ Range(Append(q, n)) = Range(q) \cup {n}
           /\ Rising(q) /\ (\A m \in Range(q) : m < n) => Rising(Append(q, n))
<1> DEFINE p == Append(q, n)
<1>1. /\ p \in Seq(Nat) /\ Len(q) \in Nat /\ Len(p) = Len(q) + 1
      /\ \A i \in 1 .. Len(q) : p[i] = q[i]
      /\ p[Len(q) + 1] = n
  BY AppendProperties
<1>2. DOMAIN q = 1 .. Len(q) /\ DOMAIN p = 1 .. Len(p) /\ Range(q) \subseteq Nat
  BY <1>1, RangeOfSeq
<1> HIDE DEF p
<1>3. \A i \in 1 .. Len(p) : i \in 1 .. Len(q) \/ i = Len(q) + 1
  BY <1>1
<1>4. \A i \in 1 .. Len(q) : q[i] \in Range(q)
  BY <1>2 DEF Range
<1>5. Range(p) = Range(q) \cup {n}
  <2>1. Range(p) \subseteq Range(q) \cup {n}
    BY <1>1, <1>2, <1>3 DEF Range
  <2>2. Range(q) \cup {n} \subseteq Range(p)
    <3>1. Len(q) + 1 \in 1 .. Len(p) /\ \A i \in 1 .. Len(q) : i \in 1 .. Len(p)
      BY <1>1
    <3> QED
      BY <1>1, <1>2, <3>1 DEF Range
  <2> QED
    BY <2>1, <2>2
<1>6. ASSUME Rising(q), \A m \in Range(q) : m < n
      PROVE  Rising(p)
  <2> SUFFICES ASSUME NEW j \in 1 .. Len(p), NEW k \in 1 .. Len(p), j < k
               PROVE  p[j] < p[k]
    BY DEF Rising
  <2>1. j \in 1 .. Len(q)
    BY <1>1
  <2>2. CASE k \in 1 .. Len(q)
    BY <1>1, <1>6, <2>1, <2>2 DEF Rising
  <2>3. CASE k = Len(q) + 1
    BY <1>1, <1>4, <1>6, <2>1, <2>3
  <2> QED
    BY <1>3, <2>2, <2>3
<1> QED
  BY <1>1, <1>5, <1>6 DEF p

\* What the inner controller held is nothing, or one frame.
LEMMA SetSeqSmall ==
    /\ SetToSeq({}) = <<>>
    /\ \A x : SetToSeq({x}) = <<x>>
<1>1. SetToSeq({}) = <<>>
  <2>1. Cardinality({}) = 0
    BY FS_EmptySet
  <2>2. <<>> \in [1 .. 0 -> {}] /\ IsInjective(<<>>) /\ \A f \in [1 .. 0 -> {}] : f = <<>>
    BY DEF IsInjective
  <2> QED
    BY <2>1, <2>2 DEF SetToSeq
<1>2. ASSUME NEW x PROVE SetToSeq({x}) = <<x>>
  <2>1. Cardinality({x}) = 1
    BY FS_Singleton
  <2>2. <<x>> \in [1 .. 1 -> {x}] /\ IsInjective(<<x>>)
    BY DEF IsInjective
  <2>3. \A f \in [1 .. 1 -> {x}] : f = <<x>>
    OBVIOUS
  <2> QED
    BY <2>1, <2>2, <2>3 DEF SetToSeq
<1> QED
  BY <1>1, <1>2

LEMMA StartOrdered ==
    ASSUME TypeInv, NEW c \in Hosted, Ordered(c), Start(c)
    PROVE  Ordered(c)'
<1> DEFINE S == {ram[c][s].n : s \in held[c]}
<1>0. c \in Controllers
  BY ControllersAssumption
<1>1. /\ tick.pc = "idle" /\ cpu[c].pc = "rest" /\ init'[c] = FALSE
      /\ UNCHANGED <<tick, active, queue, pending, completed, slotGen, resetGen, ram, cpu,
                     written, accepted>>
      /\ held'[c] = {}
      /\ sent'[c] = sent[c] \o SetToSeq(S)
  BY <1>0 DEF Start, Calls, Runs, wire, TypeInv, TypeOK
<1>2. Closing(c)' /\ Requests(c)' = Requests(c) /\ Lined(c)'
  BY <1>1, AtIdleTick DEF Ordered
<1>3. Fresh(c)' = Fresh(c) /\ Waits(c)' = Waits(c) /\ \A s : Number(c, s)' = Number(c, s)
  BY <1>1 DEF Fresh, InLoop, Waits, Cancelled, Leaving, InClosure, Number
<1>4. Threads(c)'
  BY <1>1 DEF Threads
<1>5. Claims(c)' /\ Numbered(c)'
  BY <1>1, <1>2, <1>3 DEF Ordered, Claims, Numbered, Current
<1>6. Passed(c)'
  <2>1. /\ sent[c] \in Seq(Nat) /\ held[c] \in SUBSET Slots /\ \A s \in Slots : Number(c, s) \in Nat
    BY <1>0, TypedAt
  <2>2. CASE held[c] = {}
    <3>1. S = {}
      BY <2>2
    <3>2. sent'[c] = sent[c]
      <4> HIDE DEF S
      <4>1. sent'[c] = sent[c] \o <<>>
        BY <1>1, <3>1, SetSeqSmall
      <4> QED
        BY <2>1, <4>1, ConcatEmptySeq
    <3> QED
      BY <1>1, <1>2, <3>2 DEF Ordered, Passed
  <2>3. CASE held[c] # {}
    <3>1. PICK s \in held[c] : TRUE
      BY <2>3
    <3> DEFINE n == Number(c, s)
    <3>2. n \in Nat /\ \A t \in held[c] : t = s
      BY <2>1, <3>1 DEF Ordered, Passed
    <3>3. S = {n}
      BY <3>1, <3>2 DEF Number
    <3>4. sent'[c] = Append(sent[c], n)
      <4> HIDE DEF n, S
      <4>1. sent'[c] = sent[c] \o <<n>>
        BY <1>1, <3>3, SetSeqSmall
      <4> QED
        BY <2>1, <3>2, <4>1, AppendIsConcat
    <3>5. /\ Rising(sent[c]) /\ n \in Range(accepted[c]) /\ \A m \in Range(sent[c]) : m < n
          /\ Range(sent[c]) \subseteq Range(accepted[c])
          /\ \A r \in Requests(c) : n < r.n /\ \A m \in Range(sent[c]) : m < r.n
      BY <3>1 DEF Ordered, Passed
    <3> HIDE DEF n, S
    <3>6. Range(sent'[c]) = Range(sent[c]) \cup {n} /\ Rising(sent'[c])
      BY <2>1, <3>2, <3>4, <3>5, AppendRises
    <3>7. Range(sent[c])' = Range(sent'[c]) /\ Rising(sent[c])' = Rising(sent'[c])
      BY DEF Range, Rising
    <3> QED
      BY <1>1, <1>2, <3>5, <3>6, <3>7 DEF Passed
  <2> QED
    BY <2>2, <2>3
<1> QED
  BY <1>2, <1>4, <1>5, <1>6 DEF Ordered

\* The loop goes on: the slot it leaves is pending, so no fresh slot is forgotten
\* or added.
LEMMA OnwardsKeeps ==
    ASSUME TypeInv, NEW c \in Hosted, Ordered(c), tick.pc = "idle",
           cpu[c].pc \in InLoop, cpu[c].pc # "enqueue", Slot(c) \in pending[c],
           cpu'[c] = Onwards(c),
           UNCHANGED <<tick, active, queue, pending[c], slotGen[c], resetGen[c], ram[c], init[c],
                       held[c], written[c], accepted[c], sent[c]>>
    PROVE  Ordered(c)' /\ Fresh(c)' = Fresh(c) /\ Waits(c)' = Waits(c)
<1> DEFINE left == cpu[c].todo \ {Slot(c)}
<1>1. Fresh(c) = left \ pending[c]
  BY DEF Fresh
<1>2. Waits(c) = pending[c]
  BY AtIdleTick DEF Waits, Cancelled, InLoop
<1>3. CASE left = {}
  <2>1. cpu'[c] = AtRest
    BY <1>3 DEF Onwards
  <2>2. Fresh(c)' = {} /\ Waits(c)' = pending[c] /\ Threads(c)'
    BY <2>1, AtIdleTick DEF Fresh, Waits, Cancelled, Threads, AtRest, InLoop
  <2> QED
    BY <1>1, <1>2, <1>3, <2>2, CpuKeeps
<1>4. CASE left # {}
  <2>1. cpu'[c] = [pc |-> "add", old |-> {}, todo |-> left]
    BY <1>4 DEF Onwards
  <2> HIDE DEF left
  <2>2. Fresh(c)' = left \ pending[c] /\ Waits(c)' = pending[c] /\ Threads(c)'
    BY <2>1, AtIdleTick DEF Fresh, Waits, Cancelled, Threads, InLoop
  <2> QED
    BY <1>1, <1>2, <2>2, CpuKeeps
<1> QED
  BY <1>3, <1>4

LEMMA AddCheckOrdered ==
    ASSUME TypeInv, NEW c \in Hosted, Ordered(c), AddCheck(c)
    PROVE  Ordered(c)' /\ Fresh(c)' = Fresh(c) /\ Waits(c)' = Waits(c)
<1>0. c \in Controllers
  BY ControllersAssumption
<1>1. /\ tick.pc = "idle" /\ cpu[c].pc = "add"
      /\ cpu'[c] = (IF Slot(c) \in pending[c] THEN Onwards(c)
                    ELSE [pc |-> "reserve", old |-> pending[c], todo |-> cpu[c].todo])
      /\ UNCHANGED <<controller, wire, tick, history>>
  BY <1>0 DEF AddCheck, Step, Runs, TypeInv, TypeOK
<1>2. UNCHANGED <<tick, active, queue, pending, slotGen, resetGen, ram, init, held, written,
                  accepted, sent>>
  BY <1>1 DEF controller, wire, history
<1>3. CASE Slot(c) \in pending[c]
  BY <1>1, <1>2, <1>3, OnwardsKeeps DEF InLoop
<1>4. CASE Slot(c) \notin pending[c]
  <2>1. cpu'[c] = [pc |-> "reserve", old |-> pending[c], todo |-> cpu[c].todo]
    BY <1>1, <1>4
  <2>2. Slot(c)' = Slot(c)
    BY <2>1, SameSlot
  <2>3. Fresh(c)' = Fresh(c) /\ Waits(c)' = Waits(c) /\ Threads(c)'
    BY <1>1, <1>2, <1>4, <2>1, <2>2, AtIdleTick DEF Fresh, Waits, Cancelled, Threads, InLoop
  <2> QED
    BY <1>1, <1>2, <2>3, CpuKeeps
<1> QED
  BY <1>3, <1>4

LEMMA AddReserveOrdered ==
    ASSUME TypeInv, NEW c \in Hosted, Ordered(c), AddReserve(c)
    PROVE  /\ Ordered(c)' /\ Fresh(c)' = Fresh(c) /\ Waits(c)' = Waits(c) \cup {Slot(c)}
           /\ Slot(c) \in Fresh(c) /\ Slot(c) \notin Waits(c)
<1>0. c \in Controllers
  BY ControllersAssumption
<1>1. /\ tick.pc = "idle" /\ cpu[c].pc = "reserve"
      /\ cpu'[c] = [pc |-> "enqueue", old |-> completed[c], todo |-> cpu[c].todo]
      /\ pending'[c] = cpu[c].old \cup {Slot(c)}
      /\ UNCHANGED <<completed, slotGen, resetGen, ram, init, held, wire, tick, history>>
  BY <1>0 DEF AddReserve, Step, Runs, TypeInv, TypeOK
<1>2. UNCHANGED <<tick, active, queue, completed, slotGen, resetGen, ram, init, held, written,
                  accepted, sent>>
  BY <1>1 DEF wire, history
<1>3. Slot(c)' = Slot(c) /\ Slot(c) \in cpu[c].todo
  BY <1>0, <1>1, SameSlot, TypedAt, SlotLowest DEF InLoop
<1>4. cpu[c].old = pending[c] /\ Slot(c) \notin pending[c]
  BY <1>1 DEF Ordered, Threads
<1>5. /\ Waits(c) = pending[c] /\ Waits(c)' = pending[c] \cup {Slot(c)}
      /\ Fresh(c) = cpu[c].todo \ pending[c]
  BY <1>1, <1>2, <1>4, AtIdleTick DEF Fresh, Waits, Cancelled, InLoop
<1>6. Fresh(c)' = (cpu[c].todo \ (pending[c] \cup {Slot(c)})) \cup {Slot(c)}
  BY <1>1, <1>3, <1>4 DEF Fresh, InLoop
<1>7. Fresh(c)' = Fresh(c)
  BY <1>3, <1>4, <1>5, <1>6
<1>8. Threads(c)'
  BY <1>1, <1>2, <1>3 DEF Threads
<1> QED
  BY <1>1, <1>2, <1>3, <1>4, <1>5, <1>7, <1>8, CpuKeeps

LEMMA AddEnableOrdered ==
    ASSUME TypeInv, NEW c \in Hosted, Ordered(c), AddEnable(c)
    PROVE  Ordered(c)' /\ Fresh(c)' = Fresh(c) /\ Waits(c)' = Waits(c)
<1>0. c \in Controllers
  BY ControllersAssumption
<1>1. /\ tick.pc = "idle" /\ cpu[c].pc = "enable" /\ cpu'[c] = Onwards(c)
      /\ UNCHANGED <<controller, queue, active, tick, history>>
  BY <1>0 DEF AddEnable, Step, Runs, TypeInv, TypeOK
<1>2. UNCHANGED <<tick, active, queue, pending, slotGen, resetGen, ram, init, held, written,
                  accepted, sent>>
  BY <1>1 DEF controller, history
<1>3. Slot(c) \in pending[c]
  BY <1>1 DEF Ordered, Threads
<1> QED
  BY <1>1, <1>2, <1>3, OnwardsKeeps DEF InLoop

LEMMA CancelStoreOrdered ==
    ASSUME TypeInv, NEW c \in Hosted, Ordered(c), CancelStore(c)
    PROVE  Ordered(c)' /\ Fresh(c)' = {} /\ Fresh(c) = {} /\ Waits(c)' = Waits(c)
<1>0. c \in Controllers
  BY ControllersAssumption
<1>1. /\ tick.pc = "idle" /\ cpu[c].pc = "abort" /\ cpu'[c] = AtRest
      /\ pending'[c] = cpu[c].old \ cpu[c].todo
      /\ UNCHANGED <<completed, slotGen, resetGen, ram, init, held, wire, tick, history>>
  BY <1>0 DEF CancelStore, Step, Runs, Unset, TypeInv, TypeOK
<1>2. UNCHANGED <<tick, active, queue, slotGen, resetGen, ram, init, held, written,
                  accepted, sent>>
  BY <1>1 DEF wire, history
<1>3. cpu[c].old = pending[c]
  BY <1>1 DEF Ordered, Threads
<1>4. /\ Waits(c) = pending[c] \ cpu[c].todo /\ Waits(c)' = pending[c] \ cpu[c].todo
      /\ Fresh(c) = {} /\ Fresh(c)' = {} /\ Threads(c)'
  BY <1>1, <1>2, <1>3, AtIdleTick DEF Fresh, Waits, Cancelled, Threads, InLoop, AtRest
<1> QED
  BY <1>1, <1>2, <1>4, CpuKeeps

\* A thinned queue is lined up as before.
LEMMA ThinsLined ==
    ASSUME NEW c, Lined(c), NEW r, Thins(r, queue)
    PROVE  \A j \in 1 .. Len(r) : r[j].owner = c =>
              /\ OnWire(c) => active.n < r[j].n
              /\ \A i \in 1 .. j - 1 : r[i].owner = c => r[i].n < r[j].n
<1> SUFFICES ASSUME NEW j \in 1 .. Len(r), r[j].owner = c
             PROVE  /\ OnWire(c) => active.n < r[j].n
                    /\ \A i \in 1 .. j - 1 : r[i].owner = c => r[i].n < r[j].n
  OBVIOUS
<1>0. Len(r) \in Nat
  BY DEF Thins
<1>1. OnWire(c) => active.n < r[j].n
  <2>1. PICK a \in 1 .. Len(queue) : r[j] = queue[a]
    BY DEF Thins
  <2> QED
    BY <2>1 DEF Lined
<1>2. ASSUME NEW i \in 1 .. j - 1, r[i].owner = c PROVE r[i].n < r[j].n
  <2>1. i \in 1 .. Len(r) /\ i < j
    BY <1>0
  <2>2. PICK a, b \in 1 .. Len(queue) : a < b /\ r[i] = queue[a] /\ r[j] = queue[b]
    BY <2>1 DEF Thins
  <2>3. a \in 1 .. b - 1
    BY <2>2
  <2> QED
    BY <1>2, <2>2, <2>3 DEF Lined
<1> QED
  BY <1>1, <1>2

LEMMA ThinsRequests ==
    ASSUME NEW c, NEW r, Thins(r, queue), NEW i \in 1 .. Len(r), r[i].owner = c
    PROVE  r[i] \in Requests(c)
<1>1. PICK a \in 1 .. Len(queue) : r[i] = queue[a]
  BY DEF Thins
<1> QED
  BY <1>1 DEF Requests

LEMMA AddEnqueueOrdered ==
    ASSUME TypeInv, NEW c \in Hosted, Ordered(c), AddEnqueue(c)
    PROVE  /\ Ordered(c)' /\ Fresh(c)' = Fresh(c) \ {Slot(c)} /\ Waits(c)' = Waits(c)
           /\ Slot(c) \in Fresh(c) /\ Slot(c) \in Waits(c)
           /\ accepted'[c] = Append(accepted[c], Number(c, Slot(c)))
           /\ completed'[c] = completed[c] \ {Slot(c)}
<1> DEFINE s == Slot(c)
           n == Number(c, s)
           x == Asked(c)
           r == Replaced(c, s)
<1>0. c \in Controllers
  BY ControllersAssumption
<1>1. /\ tick.pc = "idle" /\ cpu[c].pc = "enqueue"
      /\ cpu'[c] = [pc |-> "enable", old |-> {}, todo |-> cpu[c].todo]
      /\ completed'[c] = cpu[c].old \ {s}
      /\ accepted'[c] = Append(accepted[c], n)
      /\ UNCHANGED <<pending, resetGen, ram, init, held, active, tick, written, sent>>
  BY <1>0 DEF AddEnqueue, Step, Runs, TypeInv, TypeOK, Number
<1>2. /\ s \in Slots /\ s \in cpu[c].todo /\ \A t \in cpu[c].todo : s <= t
      /\ Thins(r, queue) /\ Len(r) \in Nat
      /\ Len(queue') = Len(r) + 1
      /\ \A i \in 1 .. Len(r) : queue'[i] = r[i]
      /\ queue'[Len(r) + 1] = x
  BY <1>0, EnqueueFacts
<1>3. /\ slotGen'[c][s] = slotGen[c][s] + 1
      /\ \A t \in Slots : t # s => slotGen'[c][t] = slotGen[c][t]
  <2>1. slotGen' = [slotGen EXCEPT ![c][s] = slotGen[c][s] + 1]
    BY DEF AddEnqueue
  <2>2. slotGen \in [Controllers -> [Slots -> Nat]]
    BY DEF TypeInv, TypeOK
  <2> HIDE DEF s
  <2> QED
    BY <1>0, <1>2, <2>1, <2>2
<1>4. cpu[c].old = completed[c] /\ s \in pending[c]
  BY <1>1 DEF Ordered, Threads
<1>5. Slot(c)' = s
  BY <1>1, SameSlot
<1>6. /\ Fresh(c) = (cpu[c].todo \ pending[c]) \cup {s} /\ Fresh(c)' = cpu[c].todo \ pending[c]
      /\ Waits(c) = pending[c] /\ Waits(c)' = pending[c] /\ Leaving(c) = {} /\ Leaving(c)' = {}
  BY <1>1 DEF Fresh, Waits, Cancelled, Leaving, InClosure, InLoop
<1>7. Fresh(c)' = Fresh(c) \ {s} /\ s \in Fresh(c)
  BY <1>4, <1>6
<1>8. x.owner = c /\ x.slot = s /\ x.n = n /\ x.token = slotGen[c][s] + 1 /\ x.generation = resetGen[c]
  BY DEF Asked, Number
<1> DEFINE acc == Range(accepted[c])
<1>9. /\ \A m \in acc : m < n
      /\ n <= written[c] /\ n \in Nat /\ acc \subseteq Nat /\ accepted[c] \in Seq(Nat)
      /\ \A t \in Fresh(c) : s < t => n < Number(c, t)
      /\ slotGen[c][s] \in Nat /\ resetGen[c] \in Nat
  BY <1>0, <1>2, <1>7, TypedAt DEF Ordered, Numbered
<1> HIDE DEF s, n, x, r
<1>10. Range(accepted[c])' = acc \cup {n} /\ Rising(accepted[c])'
  <2>1. Range(Append(accepted[c], n)) = acc \cup {n} /\ Rising(Append(accepted[c], n))
    BY <1>9, AppendRises DEF Ordered, Numbered
  <2> QED
    BY <1>1, <2>1 DEF Range, Rising
<1>11. \A t \in Slots : Number(c, t)' = Number(c, t)
  BY <1>1 DEF Number
<1>12. Requests(c)' \subseteq Requests(c) \cup {x}
  <2>1. OnWire(c)' = OnWire(c)
    BY <1>1 DEF OnWire
  <2>2. ASSUME NEW i \in 1 .. Len(queue'), queue'[i].owner = c
        PROVE  queue'[i] \in Requests(c) \cup {x}
    <3>1. CASE i \in 1 .. Len(r)
      BY <1>2, <2>2, <3>1, ThinsRequests
    <3>2. CASE i = Len(r) + 1
      BY <1>2, <3>2
    <3> QED
      BY <1>2, <3>1, <3>2
  <2> QED
    BY <1>1, <2>1, <2>2 DEF Requests
<1>13. Threads(c)'
  BY <1>1, <1>4, <1>5 DEF Threads
<1>14. Closing(c)'
  BY <1>1 DEF Closing, InClosure
<1>15. \A q \in Requests(c) : /\ q.slot \in Slots /\ q.token \in Nat /\ q.n \in acc
                              /\ q.token <= slotGen[c][q.slot] /\ q.generation <= resetGen[c]
                              /\ Current(c, q) => Number(c, q.slot) = q.n /\ q.slot \in Waits(c)
  BY <1>0, TypedAt DEF Ordered, Claims
<1>16. Claims(c)'
  <2>1. ASSUME NEW q \in Requests(c)
        PROVE  /\ q.token <= slotGen'[c][q.slot] /\ q.generation <= resetGen'[c]
               /\ q.n \in Range(accepted[c])'
               /\ Current(c, q)' => Number(c, q.slot)' = q.n /\ q.slot \in Waits(c)'
    <3>1. CASE q.slot = s
      <4>1. /\ q.token < slotGen'[c][q.slot] /\ q.token \in Nat
            /\ slotGen'[c][q.slot] \in Nat
        BY <1>3, <1>9, <1>15, <3>1
      <4>2. ~Current(c, q)'
        BY <4>1 DEF Current
      <4> QED
        BY <1>1, <1>10, <1>15, <4>1, <4>2
    <3>2. CASE q.slot # s
      <4>1. slotGen'[c][q.slot] = slotGen[c][q.slot]
        BY <1>3, <1>15, <3>2
      <4>2. Current(c, q)' = Current(c, q)
        BY <1>1, <4>1 DEF Current
      <4> QED
        BY <1>1, <1>6, <1>10, <1>11, <1>15, <4>1, <4>2
    <3> QED
      BY <3>1, <3>2
  <2>2. ASSUME NEW q, q = x
        PROVE  /\ q.token <= slotGen'[c][q.slot] /\ q.generation <= resetGen'[c]
               /\ q.n \in Range(accepted[c])'
               /\ Number(c, q.slot)' = q.n /\ q.slot \in Waits(c)'
    <3>0. q.slot = s /\ q.n = n /\ q.token = slotGen[c][s] + 1 /\ q.generation = resetGen[c]
      BY <1>8, <2>2
    <3>1. slotGen'[c][q.slot] = q.token /\ q.token \in Nat /\ resetGen'[c] = q.generation /\ q.generation \in Nat
      BY <1>1, <1>3, <1>9, <3>0
    <3>2. Number(c, q.slot)' = q.n
      BY <1>2, <1>11, <3>0 DEF n
    <3> QED
      BY <1>4, <1>6, <1>10, <3>0, <3>1, <3>2
  <2> QED
    BY <1>12, <2>1, <2>2 DEF Claims
<1>17. Numbered(c)'
  <2>1. ASSUME NEW t \in Fresh(c)'
        PROVE  /\ \A m \in Range(accepted[c])' : m < Number(c, t)'
               /\ Number(c, t)' <= written'[c]
               /\ \A u \in Fresh(c)' : t < u => Number(c, t)' < Number(c, u)'
    <3>1. t \in Fresh(c) /\ t # s /\ t \in cpu[c].todo /\ t \in Slots /\ t \in Nat /\ s \in Nat
          /\ \A u \in Fresh(c) : u \in Slots
      BY <1>0, <1>2, <1>6, <1>7, TypedAt, SlotsNat
    <3>2. s < t
      BY <1>2, <3>1
    <3>3. /\ n < Number(c, t) /\ \A m \in acc : m < Number(c, t)
          /\ Number(c, t) <= written[c]
          /\ \A u \in Fresh(c) : t < u => Number(c, t) < Number(c, u)
      BY <1>9, <3>1, <3>2 DEF Ordered, Numbered
    <3> QED
      BY <1>1, <1>7, <1>10, <1>11, <3>1, <3>3
  <2>2. \A m \in Range(accepted[c])' : m <= written'[c]
    BY <1>1, <1>9, <1>10 DEF Ordered, Numbered
  <2> QED
    BY <1>10, <2>1, <2>2 DEF Numbered
<1>18. Lined(c)'
  <2>0. OnWire(c)' = OnWire(c) /\ active' = active
    BY <1>1 DEF OnWire
  <2>1. \A j \in 1 .. Len(r) : r[j].owner = c =>
           /\ OnWire(c) => active.n < r[j].n
           /\ \A i \in 1 .. j - 1 : r[i].owner = c => r[i].n < r[j].n
    BY <1>2, ThinsLined DEF Ordered
  <2>2. \A i \in 1 .. Len(r) : r[i].owner = c => r[i].n < n
    BY <1>2, <1>9, <1>15, ThinsRequests
  <2>3. OnWire(c) => active.n < n
    BY <1>9, <1>15 DEF Requests
  <2>4. ASSUME NEW j \in 1 .. Len(queue'), queue'[j].owner = c
        PROVE  /\ OnWire(c) => active.n < queue'[j].n
               /\ \A i \in 1 .. j - 1 : queue'[i].owner = c => queue'[i].n < queue'[j].n
    <3>1. \A i \in 1 .. j - 1 : i \in 1 .. Len(r) /\ queue'[i] = r[i]
      BY <1>2
    <3>2. CASE j \in 1 .. Len(r)
      BY <1>2, <2>1, <2>4, <3>1, <3>2
    <3>3. CASE j = Len(r) + 1
      BY <1>2, <1>8, <2>2, <2>3, <3>1, <3>3
    <3> QED
      BY <1>2, <3>2, <3>3
  <2> QED
    BY <2>0, <2>4 DEF Lined
<1>19. Passed(c)'
  <2>1. \A t \in held[c] : t \in Slots
    BY <1>0, TypedAt
  <2>2. /\ \A m \in Range(sent[c]) : m < n
        /\ \A t \in held[c] : Number(c, t) < n
    BY <1>9 DEF Ordered, Passed
  <2> QED
    BY <1>1, <1>8, <1>10, <1>11, <1>12, <2>1, <2>2 DEF Ordered, Passed
<1> QED
  BY <1>1, <1>4, <1>6, <1>7, <1>13, <1>14, <1>16, <1>17, <1>18, <1>19 DEF Ordered, s, n

\* Another controller's firmware leaves c's state alone, and its requests only
\* join and thin the queue.
LEMMA OtherSteps ==
    ASSUME TypeInv, NEW c \in Controllers, NEW d \in Controllers, d # c,
           Firmware(d) \/ CpuStep(d)
    PROVE  /\ UNCHANGED <<pending[c], completed[c], slotGen[c], resetGen[c], ram[c], init[c],
                          held[c], cpu[c], written[c], accepted[c], sent[c], gone[c], stopped[c]>>
           /\ UNCHANGED <<tick, active>>
           /\ queue' = queue \/ AddEnqueue(d)
<1>0. TypeOK
  BY DEF TypeInv
<1>1. ASSUME NEW value \in (SUBSET Slots) \ {{}}, NEW h \in Headers[d], Request(d, value, h)
      PROVE  /\ UNCHANGED <<pending[c], completed[c], slotGen[c], resetGen[c], ram[c], init[c],
                            held[c], cpu[c], written[c], accepted[c], sent[c], gone[c], stopped[c]>>
             /\ UNCHANGED <<tick, active, queue>>
  BY <1>0, <1>1 DEF Request, wire, TypeOK
<1>2. ASSUME NEW value \in (SUBSET Slots) \ {{}}, Cancel(d, value)
      PROVE  /\ UNCHANGED <<pending[c], completed[c], slotGen[c], resetGen[c], ram[c], init[c],
                            held[c], cpu[c], written[c], accepted[c], sent[c], gone[c], stopped[c]>>
             /\ UNCHANGED <<tick, active, queue>>
  BY <1>0, <1>2 DEF Cancel, wire, TypeOK
<1>3. ASSUME Stop(d) \/ Reset(d)
      PROVE  /\ UNCHANGED <<pending[c], completed[c], slotGen[c], resetGen[c], ram[c], init[c],
                            held[c], cpu[c], written[c], accepted[c], sent[c], gone[c], stopped[c]>>
             /\ UNCHANGED <<tick, active, queue>>
  BY <1>0, <1>3 DEF Stop, Reset, wire, TypeOK
<1>4. ASSUME Start(d)
      PROVE  /\ UNCHANGED <<pending[c], completed[c], slotGen[c], resetGen[c], ram[c], init[c],
                            held[c], cpu[c], written[c], accepted[c], sent[c], gone[c], stopped[c]>>
             /\ UNCHANGED <<tick, active, queue>>
  BY <1>0, <1>4 DEF Start, wire, TypeOK
<1>5. ASSUME AddCheck(d) \/ AddReserve(d) \/ AddEnable(d) \/ CancelStore(d)
      PROVE  /\ UNCHANGED <<pending[c], completed[c], slotGen[c], resetGen[c], ram[c], init[c],
                            held[c], cpu[c], written[c], accepted[c], sent[c], gone[c], stopped[c]>>
             /\ UNCHANGED <<tick, active, queue>>
  BY <1>0, <1>5 DEF AddCheck, AddReserve, AddEnable, CancelStore, Step, controller, wire, history, TypeOK
<1>6. ASSUME AddEnqueue(d)
      PROVE  /\ UNCHANGED <<pending[c], completed[c], slotGen[c], resetGen[c], ram[c], init[c],
                            held[c], cpu[c], written[c], accepted[c], sent[c], gone[c], stopped[c]>>
             /\ UNCHANGED <<tick, active>>
  BY <1>0, <1>6 DEF AddEnqueue, Step, TypeOK
<1> QED
  BY <1>1, <1>2, <1>3, <1>4, <1>5, <1>6 DEF Firmware, CpuStep

LEMMA OtherOrdered ==
    ASSUME TypeInv, NEW c \in Hosted, Ordered(c), NEW d \in Controllers, d # c,
           Firmware(d) \/ CpuStep(d)
    PROVE  Ordered(c)' /\ Fresh(c)' = Fresh(c) /\ Waits(c)' = Waits(c)
<1>0. c \in Controllers
  BY ControllersAssumption
<1>1. /\ UNCHANGED <<pending[c], completed[c], slotGen[c], resetGen[c], ram[c], init[c],
                     held[c], cpu[c], written[c], accepted[c], sent[c]>>
      /\ UNCHANGED <<tick, active>>
      /\ queue' = queue \/ AddEnqueue(d)
  BY <1>0, OtherSteps
<1>2. Slot(c)' = Slot(c)
  BY <1>1, SameSlot
<1>3. /\ Fresh(c)' = Fresh(c) /\ Waits(c)' = Waits(c) /\ OnWire(c)' = OnWire(c)
      /\ Threads(c)' /\ Closing(c)'
  BY <1>1, <1>2 DEF Fresh, Waits, Cancelled, Leaving, InClosure, OnWire, Ordered, Threads,
     Closing, Current
<1>4. Requests(c)' \subseteq Requests(c) /\ Lined(c)'
  <2>1. CASE queue' = queue
    BY <1>1, <1>3, <2>1 DEF Requests, Lined, Ordered
  <2>2. CASE AddEnqueue(d)
    <3> DEFINE r == Replaced(d, Slot(d))
               x == Asked(d)
    <3>1. /\ Thins(r, queue) /\ Len(r) \in Nat
          /\ Len(queue') = Len(r) + 1 /\ queue'[Len(r) + 1] = x
          /\ \A i \in 1 .. Len(r) : queue'[i] = r[i]
      BY <2>2, EnqueueFacts
    <3>2. x.owner # c
      BY DEF Asked
    <3> HIDE DEF r, x
    <3>3. \A j \in 1 .. Len(queue') : queue'[j].owner = c => j \in 1 .. Len(r) /\ queue'[j] = r[j]
      BY <3>1, <3>2
    <3>4. \A j \in 1 .. Len(r) : \A i \in 1 .. j - 1 : i \in 1 .. Len(r) /\ queue'[i] = r[i]
      BY <3>1
    <3>5. \A j \in 1 .. Len(r) : r[j].owner = c =>
             /\ OnWire(c) => active.n < r[j].n
             /\ \A i \in 1 .. j - 1 : r[i].owner = c => r[i].n < r[j].n
      BY <3>1, ThinsLined DEF Ordered
    <3>6. Lined(c)'
      BY <1>1, <1>3, <3>3, <3>4, <3>5 DEF Lined
    <3>7. \A j \in 1 .. Len(r) : r[j].owner = c => r[j] \in Requests(c)
      BY <3>1, ThinsRequests
    <3>8. Requests(c)' \subseteq Requests(c)
      <4>1. ASSUME NEW q \in Requests(c)' PROVE q \in Requests(c)
        <5>1. (\E j \in 1 .. Len(queue') : queue'[j].owner = c /\ q = queue'[j]) \/ (OnWire(c)' /\ q = active')
          BY DEF Requests
        <5>2. OnWire(c) /\ q = active => q \in Requests(c)
          BY DEF Requests
        <5> QED
          BY <1>1, <1>3, <3>3, <3>7, <5>1, <5>2
      <4> QED
        BY <4>1
    <3> QED
      BY <3>6, <3>8
  <2> QED
    BY <1>1, <2>1, <2>2
<1> QED
  BY <1>1, <1>3, <1>4, Keeps

\* A tick that only moves its program counter, while c's CPU stands still.
LEMMA TickKeeps ==
    ASSUME NEW c \in Hosted, Ordered(c), cpu[c].pc = "rest",
           UNCHANGED <<cpu[c], slotGen[c], resetGen[c], ram[c], init[c], held[c],
                       written[c], accepted[c], sent[c], queue, active>>,
           OnWire(c)' => OnWire(c),
           Waits(c) \subseteq Waits(c)', Closing(c)'
    PROVE  Ordered(c)'
<1>1. Fresh(c)' = {}
  BY DEF Fresh, InLoop
<1>2. Threads(c)'
  BY DEF Threads
<1>3. Requests(c)' \subseteq Requests(c)
  BY DEF Requests
<1>4. Lined(c)'
  BY DEF Ordered, Lined
<1> QED
  BY <1>1, <1>2, <1>3, <1>4, Keeps

LEMMA FireOrdered ==
    ASSUME TypeInv, NEW c \in Hosted, Ordered(c), Fire
    PROVE  Ordered(c)' /\ Waits(c)' = Waits(c)
<1>1. /\ tick.pc = "idle" /\ cpu[c].pc = "rest" /\ tick'.pc \in {"load", "select"}
      /\ tick'.pc = "load" => active # Idle /\ Valid(active)
      /\ UNCHANGED <<controller, wire, cpu, history>>
  BY DEF Fire, TypeInv, TypeOK
<1>2. UNCHANGED <<cpu, pending, slotGen, resetGen, ram, init, held, written, accepted, sent, queue, active>>
  BY <1>1 DEF controller, wire, history
<1>3. Closing(c)'
  BY <1>1, <1>2 DEF Closing, InClosure, Valid, Current
<1>4. Waits(c)' = Waits(c)
  BY <1>1, <1>2 DEF Waits, Cancelled, Leaving, InClosure
<1>5. OnWire(c)' => OnWire(c)
  BY <1>1, <1>2 DEF OnWire, InTick
<1> QED
  BY <1>1, <1>2, <1>3, <1>4, <1>5, TickKeeps

LEMMA LoadOrdered ==
    ASSUME TypeInv, NEW c \in Hosted, Ordered(c), LoadPending
    PROVE  Ordered(c)' /\ Waits(c)' = Waits(c)
<1>1. /\ tick.pc = "load" /\ tick' = [pc |-> "release", old |-> pending[active.owner]]
      /\ UNCHANGED <<controller, wire, cpu, history>>
  BY DEF LoadPending, TickStep
<1>2. UNCHANGED <<cpu, pending, slotGen, resetGen, ram, init, held, written, accepted, sent, queue, active>>
  BY <1>1 DEF controller, wire, history
<1>3. cpu[c].pc = "rest"
  BY <1>1 DEF Ordered, Threads
<1>4. Closing(c)'
  BY <1>1, <1>2 DEF Ordered, Closing, InClosure, Current
<1>5. Waits(c)' = Waits(c)
  BY <1>1, <1>2 DEF Waits, Cancelled, Leaving, InClosure
<1>6. OnWire(c)' => OnWire(c)
  BY <1>1, <1>2 DEF OnWire, InTick
<1> QED
  BY <1>2, <1>3, <1>4, <1>5, <1>6, TickKeeps

LEMMA ReleaseOrdered ==
    ASSUME TypeInv, NEW c \in Hosted, Ordered(c), Release
    PROVE  Ordered(c)' /\ Waits(c)' = Waits(c) /\ UNCHANGED <<completed, cpu>>
<1>0. c \in Controllers
  BY ControllersAssumption
<1>1. /\ tick.pc = "release" /\ tick' = [pc |-> "complete", old |-> completed[active.owner]]
      /\ pending' = [pending EXCEPT ![active.owner] = tick.old \ {active.slot}]
      /\ UNCHANGED <<completed, slotGen, resetGen, ram, init, held, wire, cpu, history>>
  BY DEF Release, TickStep, Unset
<1>2. UNCHANGED <<cpu, completed, slotGen, resetGen, ram, init, held, written, accepted, sent, queue, active>>
  BY <1>1 DEF wire, history
<1>3. cpu[c].pc = "rest" /\ active # Idle
  BY <1>1 DEF Ordered, Threads, TypeInv, Shaped, InTick
<1>4. OnWire(c)' => OnWire(c)
  BY <1>1, <1>2 DEF OnWire, InTick
<1>5. CASE active.owner = c
  <2>1. InClosure(c) /\ InClosure(c)' /\ active \in Requests(c)
    BY <1>1, <1>2, <1>3, <1>5 DEF InClosure, Requests, OnWire, InTick
  <2>2. Current(c, active) /\ tick.old = pending[c] /\ active.slot \in Waits(c)
    BY <1>1, <2>1 DEF Ordered, Closing, Claims
  <2>3. pending'[c] = pending[c] \ {active.slot}
    BY <1>0, <1>1, <1>5, <2>2 DEF TypeInv, TypeOK
  <2>4. Waits(c) = pending[c] /\ Waits(c)' = pending'[c] \cup {active.slot}
    BY <1>1, <1>2, <1>3, <2>1 DEF Waits, Cancelled, Leaving
  <2>5. Closing(c)'
    BY <1>1, <1>2, <1>5, <2>2, <2>3 DEF Closing, Current
  <2>6. Waits(c)' = Waits(c)
    BY <2>2, <2>3, <2>4
  <2> QED
    BY <1>2, <1>3, <1>4, <2>5, <2>6, TickKeeps
<1>6. CASE active.owner # c
  <2>1. pending'[c] = pending[c]
    BY <1>0, <1>1, <1>6 DEF TypeInv, TypeOK
  <2>2. Closing(c)' /\ Waits(c)' = Waits(c)
    BY <1>2, <1>6, <2>1 DEF Closing, Waits, Cancelled, Leaving, InClosure
  <2> QED
    BY <1>2, <1>3, <1>4, <2>2, TickKeeps
<1> QED
  BY <1>5, <1>6

LEMMA StopTimerOrdered ==
    ASSUME IInv, NEW c \in Hosted, Ordered(c), Disable \/ Recheck
    PROVE  Ordered(c)' /\ Waits(c)' = Waits(c)
<1>1. /\ tick.pc \in {"disable", "recheck"} /\ tick'.pc \in {"idle", "recheck"}
      /\ UNCHANGED <<controller, queue, active, cpu, history>>
  BY DEF Disable, Recheck, TickStep, AtIdle
<1>2. UNCHANGED <<cpu, pending, slotGen, resetGen, ram, init, held, written, accepted, sent, queue, active>>
  BY <1>1 DEF controller, history
<1>3. cpu[c].pc = "rest" /\ active = Idle
  BY <1>1 DEF Ordered, Threads, IInv
<1>4. Closing(c)' /\ Waits(c)' = Waits(c) /\ (OnWire(c)' => OnWire(c))
  BY <1>1, <1>2, <1>3 DEF Closing, Waits, Cancelled, Leaving, InClosure, OnWire
<1> QED
  BY <1>2, <1>3, <1>4, TickKeeps

LEMMA SelectOrdered ==
    ASSUME TypeInv, NEW c \in Hosted, Ordered(c), Select
    PROVE  Ordered(c)' /\ Waits(c)' = Waits(c)
<1>1. /\ tick.pc = "select" /\ tick'.pc \in {"idle", "disable"}
      /\ UNCHANGED <<controller, enabled, cpu, history>>
  BY DEF Select, AtIdle
<1>2. UNCHANGED <<cpu, pending, slotGen, resetGen, ram, init, held, written, accepted, sent>>
  BY <1>1 DEF controller, history
<1>3. cpu[c].pc = "rest"
  BY <1>1 DEF Ordered, Threads
<1>4. Closing(c)' /\ Waits(c)' = Waits(c) /\ Threads(c)' /\ Fresh(c)' = {}
  BY <1>1, <1>2, <1>3 DEF Closing, Waits, Cancelled, Leaving, InClosure, Threads, Fresh, InLoop
<1>5. Requests(c)' \subseteq Requests(c) /\ Lined(c)'
  <2>1. CASE active' = Idle /\ UNCHANGED queue
    BY <2>1 DEF Requests, OnWire, Ordered, Lined
  <2>2. ASSUME NEW k \in Heads, active' = queue[k], queue' = RemoveAt(queue, k)
        PROVE  Requests(c)' \subseteq Requests(c) /\ Lined(c)'
    <3> DEFINE r == RemoveAt(queue, k)
    <3>1. queue \in Seq(WireRequest) /\ Len(queue) \in Nat /\ k \in 1 .. Len(queue) /\ IsHead(k)
      BY DEF TypeInv, TypeOK, Heads
    <3>2. Thins(r, queue) /\ \A i \in 1 .. Len(r) : \E a \in 1 .. Len(queue) : a # k /\ r[i] = queue[a]
      BY <3>1, RemovedThins
    <3> HIDE DEF r
    <3>3. queue' = r
      BY <2>2 DEF r
    <3>4. \A j \in 1 .. Len(r) : r[j].owner = c => r[j] \in Requests(c)
      BY <3>2, ThinsRequests
    <3>5. queue[k].owner = c => queue[k] \in Requests(c)
      BY <3>1 DEF Requests
    <3>6. Requests(c)' \subseteq Requests(c)
      BY <2>2, <3>3, <3>4, <3>5 DEF Requests, OnWire
    <3>7. ASSUME NEW j \in 1 .. Len(r), r[j].owner = c, queue[k].owner = c
          PROVE  queue[k].n < r[j].n
      <4>1. PICK a \in 1 .. Len(queue) : a # k /\ r[j] = queue[a]
        BY <3>2
      <4>2. ~(a < k)
        <5>1. a < k => a \in 1 .. k - 1
          BY <3>1
        <5> QED
          BY <3>1, <3>7, <4>1, <5>1 DEF IsHead
      <4>3. k \in 1 .. a - 1
        BY <3>1, <4>1, <4>2
      <4> QED
        BY <3>7, <4>1, <4>3 DEF Ordered, Lined
    <3>8. \A j \in 1 .. Len(r) : r[j].owner = c =>
             \A i \in 1 .. j - 1 : r[i].owner = c => r[i].n < r[j].n
      BY <3>2, ThinsLined DEF Ordered
    <3>9. Lined(c)'
      BY <2>2, <3>3, <3>7, <3>8 DEF Lined, OnWire
    <3> QED
      BY <3>6, <3>9
  <2> QED
    BY <2>1, <2>2 DEF Select
<1> QED
  BY <1>2, <1>4, <1>5, Keeps

LEMMA CompleteOwn ==
    ASSUME TypeInv, NEW c \in Hosted, Ordered(c), Complete, active.owner = c
    PROVE  /\ active.slot \in Waits(c) /\ Number(c, active.slot) = active.n
           /\ Waits(c)' = Waits(c) \ {active.slot} /\ Waits(c)' = pending[c]
           /\ cpu[c].pc = "rest" /\ InClosure(c)
           /\ completed'[c] = completed[c] \cup {active.slot}
           /\ init[c] => held'[c] = {active.slot} /\ sent'[c] = sent[c]
           /\ ~init[c] => held'[c] = held[c] /\ sent'[c] = Append(sent[c], active.n)
           /\ tick'.pc = "select" /\ active.slot \in Slots /\ active.n \in Nat
           /\ active \in Requests(c)
<1>0. c \in Controllers
  BY ControllersAssumption
<1>1. /\ tick.pc = "complete" /\ tick'.pc = "select" /\ UNCHANGED <<pending, ram, init, wire, cpu>>
      /\ completed' = [completed EXCEPT ![c] = tick.old \cup {active.slot}]
      /\ init[c] => held' = [held EXCEPT ![c] = {active.slot}] /\ UNCHANGED sent
      /\ ~init[c] => sent' = [sent EXCEPT ![c] = Append(@, ram[c][active.slot].n)] /\ UNCHANGED held
  BY DEF Complete, TickStep
<1>2. cpu[c].pc = "rest" /\ active # Idle
  BY <1>1 DEF Ordered, Threads, TypeInv, Shaped, InTick
<1>3. InClosure(c) /\ active \in Requests(c) /\ active.slot \in Slots /\ active.n \in Nat
  <2>1. InClosure(c) /\ active \in Requests(c)
    BY <1>1, <1>2 DEF InClosure, Requests, OnWire, InTick
  <2> QED
    BY <1>0, <2>1, TypedAt
<1>4. /\ active.slot \in Waits(c) /\ Number(c, active.slot) = active.n
      /\ tick.old = completed[c] /\ active.slot \notin pending[c]
  BY <1>1, <1>3 DEF Ordered, Closing, Claims
<1>5. Waits(c) = pending[c] \cup {active.slot} /\ Waits(c)' = pending[c]
  BY <1>1, <1>2, <1>3 DEF Waits, Cancelled, Leaving, InClosure
<1>6. completed'[c] = completed[c] \cup {active.slot}
  BY <1>0, <1>1, <1>4 DEF TypeInv, TypeOK
<1>7. init[c] => held'[c] = {active.slot} /\ sent'[c] = sent[c]
  BY <1>0, <1>1 DEF TypeInv, TypeOK
<1>8. ~init[c] => held'[c] = held[c] /\ sent'[c] = Append(sent[c], active.n)
  BY <1>0, <1>1, <1>4 DEF TypeInv, TypeOK, Number
<1> QED
  BY <1>1, <1>2, <1>3, <1>4, <1>5, <1>6, <1>7, <1>8

LEMMA CompleteOther ==
    ASSUME TypeInv, NEW c \in Controllers, Complete, active.owner # c
    PROVE  UNCHANGED <<completed[c], held[c], sent[c]>> /\ ~InClosure(c) /\ ~InClosure(c)'
<1>1. /\ tick'.pc = "select"
      /\ \E S : completed' = [completed EXCEPT ![active.owner] = S]
      /\ held' = held \/ held' = [held EXCEPT ![active.owner] = {active.slot}]
      /\ sent' = sent \/ sent' = [sent EXCEPT ![active.owner] = Append(@, ram[active.owner][active.slot].n)]
  BY DEF Complete, TickStep
<1> QED
  BY <1>1 DEF TypeInv, TypeOK, InClosure

LEMMA CompleteOrdered ==
    ASSUME TypeInv, NEW c \in Hosted, Ordered(c), Complete
    PROVE  Ordered(c)'
<1>0. c \in Controllers
  BY ControllersAssumption
<1>1. /\ tick.pc = "complete" /\ tick'.pc = "select"
      /\ UNCHANGED <<pending, slotGen, resetGen, ram, init, queue, active, cpu, written, accepted>>
  BY DEF Complete, TickStep, wire
<1>2. cpu[c].pc = "rest"
  BY <1>1 DEF Ordered, Threads
<1>3. Closing(c)' /\ ~OnWire(c)' /\ Threads(c)' /\ Fresh(c) = {} /\ Fresh(c)' = {}
  BY <1>1, <1>2 DEF Closing, InClosure, OnWire, InTick, Threads, Fresh, InLoop
<1>4. Lined(c)'
  BY <1>1, <1>3 DEF Ordered, Lined
<1>5. Requests(c)' \subseteq Requests(c)
  BY <1>1, <1>3 DEF Requests
<1>6. CASE active.owner # c
  <2>1. Waits(c)' = Waits(c)
    BY <1>0, <1>1, <1>6, CompleteOther DEF Waits, Cancelled, Leaving
  <2> QED
    BY <1>0, <1>1, <1>3, <1>4, <1>5, <1>6, <2>1, CompleteOther, Keeps
<1>7. CASE active.owner = c
  <2> DEFINE s == active.slot
  <2>1. /\ s \in Waits(c) /\ Number(c, s) = active.n /\ Waits(c)' = Waits(c) \ {s}
        /\ init[c] => held'[c] = {s} /\ sent'[c] = sent[c]
        /\ ~init[c] => held'[c] = held[c] /\ sent'[c] = Append(sent[c], active.n)
        /\ s \in Slots /\ active.n \in Nat /\ active \in Requests(c) /\ InClosure(c)
    BY <1>7, CompleteOwn
  <2>2. \A t : Number(c, t)' = Number(c, t)
    BY <1>1 DEF Number
  <2>3. ASSUME NEW q \in Requests(c)' PROVE q \in Requests(c) /\ active.n < q.n /\ q.n \in Nat
    <3>1. PICK j \in 1 .. Len(queue) : queue[j].owner = c /\ q = queue[j]
      BY <1>1, <1>3, <2>3 DEF Requests
    <3>2. OnWire(c)
      BY <1>1, <2>1 DEF InClosure, OnWire, InTick, TypeInv, Shaped
    <3> QED
      BY <1>0, <1>5, <2>3, <3>1, <3>2, TypedAt DEF Ordered, Lined
  <2>4. Claims(c)'
    <3> SUFFICES ASSUME NEW q \in Requests(c)'
                 PROVE  /\ q.token <= slotGen'[c][q.slot] /\ q.generation <= resetGen'[c]
                        /\ q.n \in Range(accepted[c])'
                        /\ Current(c, q)' => Number(c, q.slot)' = q.n /\ q.slot \in Waits(c)'
      BY DEF Claims
    <3>1. /\ q.token <= slotGen[c][q.slot] /\ q.generation <= resetGen[c]
          /\ q.n \in Range(accepted[c])
          /\ Current(c, q) => Number(c, q.slot) = q.n /\ q.slot \in Waits(c)
      BY <2>3 DEF Ordered, Claims
    <3>2. Current(c, q)' = Current(c, q)
      BY <1>1 DEF Current
    <3>3. Current(c, q) => q.slot # s
      BY <2>1, <2>3, <3>1
    <3> QED
      BY <1>1, <2>1, <2>2, <3>1, <3>2, <3>3
  <2>5. Numbered(c)'
    BY <1>1, <1>3 DEF Ordered, Numbered
  <2> DEFINE out == Range(sent[c])
             acc == Range(accepted[c])
  <2>6. /\ \A n \in out : n < active.n
        /\ active.n \in acc /\ out \subseteq acc /\ Rising(sent[c])
        /\ held[c] # {} => init[c]
        /\ sent[c] \in Seq(Nat) /\ out \subseteq Nat
    BY <1>0, <2>1, TypedAt DEF Ordered, Passed, Claims
  <2>7. Passed(c)'
    <3>1. CASE init[c]
      <4>1. /\ Rising(sent[c])' /\ Range(sent[c])' = out
            /\ \A t \in held'[c] : t = s
        BY <2>1, <2>6, <3>1 DEF Rising, Range
      <4>2. Number(c, s) = active.n
        BY <2>1
      <4>3. \A t \in held'[c] : Number(c, t)' = active.n
        BY <2>2, <4>1, <4>2
      <4>4. \A q \in Requests(c)' : \A n \in out : n < q.n
        BY <2>3 DEF Ordered, Passed
      <4> QED
        BY <1>1, <2>3, <2>6, <3>1, <4>1, <4>3, <4>4 DEF Passed
    <3>2. CASE ~init[c]
      <4>1. Rising(Append(sent[c], active.n)) /\ Range(Append(sent[c], active.n)) = out \cup {active.n}
        BY <2>1, <2>6, AppendRises
      <4>2. Rising(sent[c])' /\ Range(sent[c])' = out \cup {active.n} /\ held'[c] = {}
        BY <2>1, <2>6, <3>2, <4>1 DEF Rising, Range
      <4>3. \A q \in Requests(c)' : \A n \in out : n < q.n
        BY <2>3 DEF Ordered, Passed
      <4> QED
        BY <1>1, <2>3, <2>6, <4>2, <4>3 DEF Passed
    <3> QED
      BY <3>1, <3>2
  <2> QED
    BY <1>3, <1>4, <2>4, <2>5, <2>7 DEF Ordered
<1> QED
  BY <1>6, <1>7

LEMMA InitOrdered == Init => HostedInv
<1> SUFFICES ASSUME Init, NEW c \in Hosted PROVE Ordered(c)
  BY DEF HostedInv
<1>0. c \in Controllers
  BY ControllersAssumption
<1>1. /\ cpu[c].pc = "rest" /\ tick.pc = "idle" /\ queue = <<>> /\ active = Idle
      /\ held[c] = {} /\ init[c] /\ accepted[c] = <<>> /\ sent[c] = <<>> /\ written[c] = 0
  BY <1>0 DEF Init, AtRest, AtIdle
<1>2. Len(<<>>) = 0 /\ Range(<<>>) = {}
  BY DEF Range
<1>3. Requests(c) = {} /\ Fresh(c) = {} /\ Threads(c) /\ Closing(c) /\ Lined(c)
  BY <1>1, <1>2 DEF Requests, OnWire, Fresh, InLoop, Threads, Closing, InClosure, Lined
<1>4. Claims(c) /\ Numbered(c) /\ Passed(c)
  BY <1>1, <1>2, <1>3 DEF Claims, Numbered, Passed, Rising
<1> QED
  BY <1>3, <1>4 DEF Ordered

\* HostedInv: however the threads of the link interleave, what a hosted controller's
\* firmware and the wire's clock hold in their hands is never stale for it, and its
\* requests stay numbered in the order of its frames.
THEOREM HostedInvariance == Spec => []HostedInv
<1>1. TypeInv /\ IInv /\ HostedInv /\ [Next]_vars => HostedInv'
  <2> SUFFICES ASSUME TypeInv, IInv, HostedInv, [Next]_vars, NEW c \in Hosted PROVE Ordered(c)'
    BY DEF HostedInv
  <2>1. Ordered(c) /\ c \in Controllers
    BY ControllersAssumption DEF HostedInv
  <2>2. ASSUME NEW d \in Controllers, Firmware(d) \/ CpuStep(d), d # c PROVE Ordered(c)'
    BY <2>1, <2>2, OtherOrdered
  <2>3. CASE Firmware(c)
    <3>1. ASSUME NEW value \in (SUBSET Slots) \ {{}}, NEW h \in Headers[c], Request(c, value, h)
          PROVE  Ordered(c)'
      BY <2>1, <3>1, RequestOrdered
    <3>2. ASSUME NEW value \in (SUBSET Slots) \ {{}}, Cancel(c, value) PROVE Ordered(c)'
      BY <2>1, <3>2, CancelOrdered
    <3> QED
      BY <2>1, <2>3, <3>1, <3>2, StopOrdered, StartOrdered, ResetOrdered DEF Firmware
  <2>4. CASE CpuStep(c)
    BY <2>1, <2>4, AddCheckOrdered, AddReserveOrdered, AddEnqueueOrdered, AddEnableOrdered,
       CancelStoreOrdered DEF CpuStep
  <2>5. CASE TickNext
    BY <2>1, <2>5, FireOrdered, LoadOrdered, ReleaseOrdered, CompleteOrdered, SelectOrdered,
       StopTimerOrdered DEF TickNext
  <2>6. CASE UNCHANGED vars
    <3>1. UNCHANGED <<pending, completed, slotGen, resetGen, ram, init, held, cpu, written, accepted,
                      sent, tick, active, queue>>
      BY <2>6 DEF vars, controller, wire, history
    <3>2. Slot(c)' = Slot(c)
      BY <3>1, SameSlot
    <3>3. /\ Fresh(c)' = Fresh(c) /\ Waits(c)' = Waits(c) /\ Requests(c)' = Requests(c)
          /\ Threads(c)' /\ Closing(c)' /\ Lined(c)'
      BY <2>1, <3>1, <3>2 DEF Fresh, Waits, Cancelled, Leaving, InClosure, OnWire, Requests,
         Ordered, Threads, Closing, Current, Lined
    <3> QED
      BY <2>1, <3>1, <3>3, Keeps
  <2> QED
    BY <2>2, <2>3, <2>4, <2>5, <2>6 DEF Next
<1> QED
  BY <1>1, InitOrdered, TypeCorrect, WakeupInvariance, PTL DEF Spec

\* SentInAcceptedOrder (SedsFixedFdcan on the wire's own machine): what it puts on
\* the wire is what it accepted, in that order and at most once, for any number of
\* controllers, slots, aborts, stops and resets.
THEOREM AcceptedOrderKept == Spec => []SentInAcceptedOrder
<1>1. TypeInv /\ HostedInv => SentInAcceptedOrder
  <2> SUFFICES ASSUME TypeInv, HostedInv, NEW c \in Hosted
               PROVE  /\ Range(sent[c]) \subseteq Range(accepted[c])
                      /\ \A j, k \in DOMAIN sent[c] : j < k =>
                            sent[c][j] # sent[c][k] /\ Before(accepted[c], sent[c][j], sent[c][k])
    BY DEF SentInAcceptedOrder
  <2>1. c \in Controllers
    BY ControllersAssumption
  <2> DEFINE a == accepted[c]
             t == sent[c]
  <2>2. /\ a \in Seq(Nat) /\ t \in Seq(Nat)
        /\ Rising(a) /\ Rising(t) /\ Range(t) \subseteq Range(a)
    BY <2>1, TypedAt DEF HostedInv, Ordered, Numbered, Passed
  <2> HIDE DEF a, t
  <2>3. /\ DOMAIN a = 1 .. Len(a) /\ DOMAIN t = 1 .. Len(t)
        /\ \A i \in 1 .. Len(a) : a[i] \in Nat
        /\ \A i \in 1 .. Len(t) : t[i] \in Nat
        /\ Len(a) \in Nat
    BY <2>2
  <2>4. ASSUME NEW j \in 1 .. Len(t), NEW k \in 1 .. Len(t), j < k
        PROVE  t[j] # t[k] /\ Before(a, t[j], t[k])
    <3>1. t[j] < t[k] /\ t[j] \in Nat /\ t[k] \in Nat
      BY <2>2, <2>3, <2>4 DEF Rising
    <3>2. t[j] \in Range(a) /\ t[k] \in Range(a)
      BY <2>2, <2>3 DEF Range
    <3>3. PICK m, n \in DOMAIN a : a[m] = t[j] /\ a[n] = t[k]
      BY <3>2 DEF Range
    <3>4. m < n
      <4>1. CASE n < m
        <5>1. a[n] < a[m]
          BY <2>2, <2>3, <3>3, <4>1 DEF Rising
        <5> QED
          BY <3>1, <3>3, <5>1
      <4>2. CASE n = m
        BY <3>1, <3>3, <4>2
      <4> QED
        BY <2>3, <3>3, <4>1, <4>2
    <3> QED
      BY <3>1, <3>3, <3>4 DEF Before
  <2> QED
    BY <2>2, <2>3, <2>4 DEF a, t
<1> QED
  BY <1>1, TypeCorrect, HostedInvariance, PTL

-----------------------------------------------------------------------------
(* Every accepted frame is accounted for. *)

\* Slots whose accepted frame is not yet sent, aborted or reset away.
Unsent(c) == Waits(c) \ Fresh(c)
Waiting(c) == {Number(c, s) : s \in Unsent(c)}

\* In INIT nothing is under way.
Quiet(c) ==
    init[c] => /\ pending[c] = {} /\ held[c] = {}
               /\ ~InClosure(c) /\ cpu[c].pc \notin InLoop

\* Each accepted frame is in one place, each waiting slot has its own, and what is
\* shown transmitted was sent.
Accounted(c) ==
    /\ Range(accepted[c]) = Range(sent[c]) \cup Waiting(c) \cup gone[c]
    /\ Range(sent[c]) \cap Waiting(c) = {}
    /\ Range(sent[c]) \cap gone[c] = {}
    /\ Waiting(c) \cap gone[c] = {}
    /\ \A s, t \in Unsent(c) : Number(c, s) = Number(c, t) => s = t
    /\ \A s \in completed[c] \ Fresh(c) : Number(c, s) \in Range(sent[c])

Settled(c) == ~stopped[c] => Quiet(c) /\ Accounted(c)

AccountInv == \A c \in Hosted : Settled(c)

\* A step that moves no frame of c.
LEMMA AccountKeeps ==
    ASSUME NEW c, Accounted(c), UNCHANGED <<accepted[c], sent[c], gone[c]>>,
           Unsent(c)' = Unsent(c),
           completed'[c] \ Fresh(c)' \subseteq completed[c] \ Fresh(c),
           \A s \in Unsent(c) \cup (completed[c] \ Fresh(c)) : Number(c, s)' = Number(c, s)
    PROVE  Accounted(c)'
<1>1. Waiting(c)' = Waiting(c)
  BY DEF Waiting
<1>2. /\ Range(accepted[c])' = Range(accepted[c]) /\ Range(sent[c])' = Range(sent[c])
      /\ gone'[c] = gone[c]
  BY DEF Range
<1>3. \A s, t \in Unsent(c)' : Number(c, s)' = Number(c, t)' => s = t
  BY DEF Accounted
<1>4. \A s \in completed'[c] \ Fresh(c)' : Number(c, s)' \in Range(sent[c])
  BY DEF Accounted
<1> QED
  BY <1>1, <1>2, <1>3, <1>4 DEF Accounted

LEMMA RequestSettled ==
    ASSUME TypeInv, NEW c \in Hosted, Ordered(c), Settled(c), NEW value \in SUBSET Slots, NEW h,
           Request(c, value, h)
    PROVE  Settled(c)'
<1>0. c \in Controllers
  BY ControllersAssumption
<1>1. /\ tick.pc = "idle" /\ cpu[c].pc = "rest" /\ ~init[c]
      /\ UNCHANGED <<tick, active, queue, pending, completed, slotGen, resetGen, init, held,
                     accepted, sent, gone, stopped>>
      /\ cpu' = [cpu EXCEPT ![c] = [pc |-> "add", old |-> {}, todo |-> value]]
      /\ \E f : ram' = [ram EXCEPT ![c] = [s \in Slots |-> IF s \in value \ pending[c] THEN f[s] ELSE ram[c][s]]]
  <2> DEFINE f == [s \in Slots |-> [n |-> written[c] + Cardinality({r \in value \ pending[c] : r <= s}),
                                    header |-> h]]
             new == [s \in Slots |-> IF s \in value \ pending[c] THEN f[s] ELSE ram[c][s]]
  <2>1. ram' = [ram EXCEPT ![c] = [s \in Slots |->
                  IF s \in value \ pending[c]
                  THEN [n |-> written[c] + Cardinality({r \in value \ pending[c] : r <= s}), header |-> h]
                  ELSE ram[c][s]]]
    BY DEF Request
  <2>2. ram' = [ram EXCEPT ![c] = new]
    BY <2>1
  <2> HIDE DEF f
  <2> QED
    BY <2>2 DEF Request, Calls, Runs, wire
<1>2. cpu'[c] = [pc |-> "add", old |-> {}, todo |-> value] /\ pending[c] \in SUBSET Slots /\ completed[c] \in SUBSET Slots
  BY <1>0, <1>1 DEF TypeInv, TypeOK
<1>3. Fresh(c) = {} /\ Fresh(c)' = value \ pending[c] /\ Waits(c) = pending[c] /\ Waits(c)' = pending[c]
  BY <1>1, <1>2, AtIdleTick DEF Fresh, Waits, Cancelled, InLoop
<1>4. \A s \in Slots \ (value \ pending[c]) : Number(c, s)' = Number(c, s)
  BY <1>0, <1>1 DEF Number, TypeInv, TypeOK
<1>5. Accounted(c) => Accounted(c)'
  <2>1. Unsent(c) = pending[c] /\ Unsent(c)' = pending[c]
    BY <1>3 DEF Unsent
  <2>2. \A s \in pending[c] : Number(c, s)' = Number(c, s)
    BY <1>2, <1>4
  <2> SUFFICES ASSUME Accounted(c) PROVE Accounted(c)'
    OBVIOUS
  <2>3. Waiting(c)' = Waiting(c)
    BY <2>1, <2>2 DEF Waiting
  <2>4. \A s \in completed[c] \ (value \ pending[c]) : Number(c, s)' \in Range(sent[c])
    BY <1>2, <1>3, <1>4 DEF Accounted
  <2>5. /\ Range(accepted[c])' = Range(accepted[c]) /\ Range(sent[c])' = Range(sent[c])
        /\ gone'[c] = gone[c] /\ completed'[c] = completed[c]
    BY <1>1
  <2> QED
    BY <1>3, <2>1, <2>2, <2>3, <2>4, <2>5 DEF Accounted
<1> QED
  BY <1>1, <1>5 DEF Settled, Quiet

LEMMA CancelSettled ==
    ASSUME TypeInv, NEW c \in Hosted, Ordered(c), Settled(c), NEW value \in SUBSET Slots, Cancel(c, value)
    PROVE  Settled(c)'
<1> DEFINE G == {Number(c, s) : s \in value \cap pending[c]}
<1>0. c \in Controllers
  BY ControllersAssumption
<1>1. /\ tick.pc = "idle" /\ cpu[c].pc = "rest"
      /\ UNCHANGED <<tick, active, queue, pending, completed, ram, init, held, accepted, sent, stopped>>
      /\ cpu'[c] = [pc |-> "abort", old |-> pending[c], todo |-> value]
      /\ gone'[c] = gone[c] \cup G
  BY <1>0 DEF Cancel, Calls, Runs, wire, TypeInv, TypeOK, Number
<1>2. Fresh(c) = {} /\ Fresh(c)' = {} /\ Waits(c) = pending[c] /\ Waits(c)' = pending[c] \ value
  BY <1>1, AtIdleTick DEF Fresh, Waits, Cancelled, InLoop
<1>3. Unsent(c) = pending[c] /\ Unsent(c)' = pending[c] \ value /\ \A s : Number(c, s)' = Number(c, s)
  BY <1>1, <1>2 DEF Unsent, Number
<1>4. ASSUME Accounted(c) PROVE Accounted(c)'
  <2>1. \A s, t \in pending[c] : Number(c, s) = Number(c, t) => s = t
    BY <1>3, <1>4 DEF Accounted
  <2>2. Waiting(c)' = {Number(c, s) : s \in pending[c] \ value} /\ Waiting(c) = {Number(c, s) : s \in pending[c]}
    BY <1>3 DEF Waiting
  <2>3. Waiting(c) = Waiting(c)' \cup G /\ Waiting(c)' \cap G = {}
    BY <2>1, <2>2
  <2> HIDE DEF G
  <2>4. /\ Range(accepted[c])' = Range(accepted[c]) /\ Range(sent[c])' = Range(sent[c])
    BY <1>1
  <2> QED
    BY <1>1, <1>2, <1>3, <1>4, <2>1, <2>3, <2>4 DEF Accounted
<1>5. Quiet(c) => Quiet(c)'
  BY <1>1 DEF Quiet, InClosure, InLoop
<1> QED
  BY <1>1, <1>4, <1>5 DEF Settled

LEMMA StopSettled ==
    ASSUME TypeInv, NEW c \in Hosted, Ordered(c), Settled(c), Stop(c)
    PROVE  Settled(c)'
<1>0. c \in Controllers
  BY ControllersAssumption
<1>1. /\ tick.pc = "idle" /\ cpu[c].pc = "rest" /\ ~init[c]
      /\ stopped'[c] = (stopped[c] \/ pending[c] # {})
      /\ UNCHANGED <<tick, active, queue, pending, completed, ram, held, cpu, accepted, sent, gone>>
  BY <1>0 DEF Stop, Calls, Runs, wire, TypeInv, TypeOK
<1>2. Fresh(c)' = Fresh(c) /\ Waits(c)' = Waits(c) /\ \A s : Number(c, s)' = Number(c, s)
  BY <1>1 DEF Fresh, InLoop, Waits, Cancelled, Leaving, InClosure, Number
<1>3. ASSUME Accounted(c) PROVE Accounted(c)'
  BY <1>1, <1>2, <1>3, AccountKeeps DEF Unsent
<1>4. held[c] = {}
  BY <1>1 DEF Ordered, Passed
<1>5. ~stopped'[c] => Quiet(c)'
  BY <1>1, <1>4 DEF Quiet, InClosure, InLoop
<1> QED
  BY <1>1, <1>3, <1>5 DEF Settled

LEMMA StartSettled ==
    ASSUME TypeInv, NEW c \in Hosted, Ordered(c), Settled(c), Start(c)
    PROVE  Settled(c)'
<1>0. c \in Controllers
  BY ControllersAssumption
<1>1. /\ tick.pc = "idle" /\ cpu[c].pc = "rest" /\ init[c] /\ init'[c] = FALSE
      /\ UNCHANGED <<tick, active, queue, pending, completed, ram, cpu, accepted, gone, stopped>>
      /\ sent'[c] = sent[c] \o SetToSeq({ram[c][s].n : s \in held[c]})
      /\ sent[c] \in Seq(Nat)
  BY <1>0 DEF Start, Calls, Runs, wire, TypeInv, TypeOK
<1>2. Fresh(c)' = Fresh(c) /\ Waits(c)' = Waits(c) /\ \A s : Number(c, s)' = Number(c, s)
  BY <1>1 DEF Fresh, InLoop, Waits, Cancelled, Leaving, InClosure, Number
<1>3. ASSUME Quiet(c), Accounted(c) PROVE Accounted(c)'
  <2>1. {ram[c][s].n : s \in held[c]} = {}
    BY <1>1, <1>3 DEF Quiet
  <2>2. sent'[c] = sent[c] \o <<>>
    BY <1>1, <2>1, SetSeqSmall
  <2>3. sent'[c] = sent[c]
    BY <1>1, <2>2, ConcatEmptySeq
  <2> QED
    BY <1>1, <1>2, <1>3, <2>3, AccountKeeps DEF Unsent
<1> QED
  BY <1>1, <1>3 DEF Settled, Quiet

LEMMA ResetSettled ==
    ASSUME TypeInv, NEW c \in Hosted, Ordered(c), Settled(c), Reset(c)
    PROVE  Settled(c)'
<1> DEFINE G == {Number(c, s) : s \in pending[c] \cup held[c]}
<1>0. c \in Controllers
  BY ControllersAssumption
<1>1. /\ tick.pc = "idle" /\ cpu[c].pc = "rest"
      /\ UNCHANGED <<tick, active, queue, ram, cpu, accepted, sent, stopped>>
      /\ pending'[c] = {} /\ held'[c] = {} /\ completed'[c] = {} /\ gone'[c] = gone[c] \cup G
  BY <1>0 DEF Reset, Calls, Runs, wire, TypeInv, TypeOK, Number
<1>2. Fresh(c) = {} /\ Fresh(c)' = {} /\ Waits(c) = pending[c] /\ Waits(c)' = {}
  BY <1>1, AtIdleTick DEF Fresh, Waits, Cancelled, InLoop
<1>3. ASSUME Quiet(c), Accounted(c) PROVE Accounted(c)'
  <2>1. held[c] = {}
    BY <1>3 DEF Ordered, Passed, Quiet
  <2>2. Waiting(c)' = {} /\ Waiting(c) = G /\ Unsent(c)' = {}
    BY <1>2, <2>1 DEF Waiting, Unsent
  <2> HIDE DEF G
  <2>3. /\ Range(accepted[c])' = Range(accepted[c]) /\ Range(sent[c])' = Range(sent[c])
    BY <1>1
  <2> QED
    BY <1>1, <1>3, <2>2, <2>3 DEF Accounted
<1>4. Quiet(c)'
  BY <1>1 DEF Quiet, InClosure, InLoop
<1> QED
  BY <1>1, <1>3, <1>4 DEF Settled

LEMMA LoopSettled ==
    ASSUME TypeInv, NEW c \in Hosted, Ordered(c), Settled(c),
           AddCheck(c) \/ AddReserve(c) \/ AddEnable(c) \/ CancelStore(c)
    PROVE  Settled(c)'
<1>0. c \in Controllers
  BY ControllersAssumption
<1>1. /\ tick.pc = "idle" /\ UNCHANGED <<tick, active, completed, ram, init, held, accepted, sent, gone, stopped>>
      /\ cpu[c].pc \in {"add", "reserve", "enable", "abort"}
  BY DEF AddCheck, AddReserve, AddEnable, CancelStore, Step, Runs, controller, wire, history
<1>2. Unsent(c)' = Unsent(c) /\ Fresh(c)' = Fresh(c)
  BY AddCheckOrdered, AddReserveOrdered, AddEnableOrdered, CancelStoreOrdered DEF Unsent
<1>3. \A s : Number(c, s)' = Number(c, s)
  BY <1>1 DEF Number
<1>4. ASSUME Accounted(c) PROVE Accounted(c)'
  BY <1>1, <1>2, <1>3, <1>4, AccountKeeps
<1>5. ASSUME Quiet(c) PROVE Quiet(c)'
  <2>1. CASE ~init[c]
    BY <1>1, <2>1 DEF Quiet
  <2>2. CASE init[c]
    <3>1. cpu[c].pc = "abort" /\ pending[c] = {} /\ held[c] = {}
      BY <1>1, <1>5, <2>2 DEF Quiet, InLoop
    <3>2. CancelStore(c) /\ cpu[c].old = {}
      BY <3>1 DEF AddCheck, AddReserve, AddEnable, Step, Ordered, Threads
    <3>3. pending'[c] = {} /\ cpu'[c] = AtRest
      BY <1>0, <3>2 DEF CancelStore, Step, Unset, TypeInv, TypeOK
    <3> QED
      BY <1>1, <3>1, <3>3 DEF Quiet, InClosure, AtRest, InLoop
  <2> QED
    BY <1>0, <2>1, <2>2 DEF TypeInv, TypeOK
<1> QED
  BY <1>1, <1>4, <1>5 DEF Settled

LEMMA EnqueueSettled ==
    ASSUME TypeInv, NEW c \in Hosted, Ordered(c), Settled(c), AddEnqueue(c)
    PROVE  Settled(c)'
<1> DEFINE s == Slot(c)
           n == Number(c, s)
           acc == Range(accepted[c])
<1>0. c \in Controllers
  BY ControllersAssumption
<1>1. /\ cpu[c].pc = "enqueue" /\ UNCHANGED <<ram, init, sent, gone, stopped>>
  BY DEF AddEnqueue, Step
<1>2. /\ Fresh(c)' = Fresh(c) \ {s} /\ Waits(c)' = Waits(c) /\ s \in Fresh(c) /\ s \in Waits(c)
      /\ accepted'[c] = Append(accepted[c], n) /\ completed'[c] = completed[c] \ {s}
  BY AddEnqueueOrdered
<1>3. n \in Nat /\ accepted[c] \in Seq(Nat) /\ acc \subseteq Nat /\ \A m \in acc : m < n
  BY <1>0, <1>2, TypedAt DEF Ordered, Numbered
<1> HIDE DEF s, n
<1>4. \A t : Number(c, t)' = Number(c, t)
  BY <1>1 DEF Number
<1>5. ASSUME Accounted(c) PROVE Accounted(c)'
  <2>1. Unsent(c)' = Unsent(c) \cup {s} /\ s \notin Unsent(c)
    BY <1>2 DEF Unsent
  <2>2. Waiting(c)' = Waiting(c) \cup {n}
    BY <1>4, <2>1 DEF Waiting, n
  <2>3. Range(accepted[c])' = acc \cup {n}
    <3>1. Range(Append(accepted[c], n)) = acc \cup {n}
      BY <1>3, AppendRises
    <3> QED
      BY <1>2, <3>1 DEF Range
  <2>4. n \notin Range(sent[c]) /\ n \notin Waiting(c) /\ n \notin gone[c]
    BY <1>3, <1>5 DEF Accounted
  <2>5. \A t \in Unsent(c) : Number(c, t) # n
    BY <2>4 DEF Waiting
  <2>6. \A t, u \in Unsent(c)' : Number(c, t)' = Number(c, u)' => t = u
    BY <1>4, <1>5, <2>1, <2>5 DEF Accounted, n
  <2>7. \A t \in completed'[c] \ Fresh(c)' : Number(c, t)' \in Range(sent[c])
    BY <1>2, <1>4, <1>5 DEF Accounted
  <2>8. Range(sent[c])' = Range(sent[c]) /\ gone'[c] = gone[c]
    BY <1>1
  <2> QED
    BY <1>5, <2>2, <2>3, <2>4, <2>6, <2>7, <2>8 DEF Accounted
<1>6. Quiet(c) => Quiet(c)'
  BY <1>1 DEF Quiet, InLoop
<1> QED
  BY <1>1, <1>5, <1>6 DEF Settled

LEMMA OtherSettled ==
    ASSUME TypeInv, NEW c \in Hosted, Ordered(c), Settled(c), NEW d \in Controllers, d # c,
           Firmware(d) \/ CpuStep(d)
    PROVE  Settled(c)'
<1>0. c \in Controllers
  BY ControllersAssumption
<1>1. /\ UNCHANGED <<pending[c], completed[c], ram[c], init[c], held[c], cpu[c], accepted[c],
                     sent[c], gone[c], stopped[c]>>
      /\ UNCHANGED <<tick, active>>
  BY <1>0, OtherSteps
<1>2. Unsent(c)' = Unsent(c) /\ Fresh(c)' = Fresh(c) /\ \A s : Number(c, s)' = Number(c, s)
  BY <1>1, OtherOrdered DEF Unsent, Number
<1>3. ASSUME Accounted(c) PROVE Accounted(c)'
  BY <1>1, <1>2, <1>3, AccountKeeps
<1>4. Quiet(c) => Quiet(c)'
  BY <1>1 DEF Quiet, InClosure
<1> QED
  BY <1>1, <1>3, <1>4 DEF Settled

\* A tick that sends nothing.
LEMMA TickSettled ==
    ASSUME TypeInv, IInv, NEW c \in Hosted, Ordered(c), Settled(c),
           Fire \/ LoadPending \/ Release \/ Select \/ Disable \/ Recheck
    PROVE  Settled(c)'
<1>0. c \in Controllers
  BY ControllersAssumption
<1>1. UNCHANGED <<cpu, completed, ram, init, held, accepted, sent, gone, stopped>>
  BY DEF Fire, LoadPending, Release, Select, Disable, Recheck, controller, history
<1>2. cpu[c].pc = "rest"
  BY DEF Fire, LoadPending, Release, Select, Disable, Recheck, TickStep, Ordered, Threads
<1>3. Fresh(c) = {} /\ Fresh(c)' = {} /\ Waits(c)' = Waits(c)
  BY <1>1, <1>2, FireOrdered, LoadOrdered, ReleaseOrdered, SelectOrdered, StopTimerOrdered
  DEF Fresh, InLoop
<1>4. Unsent(c)' = Unsent(c) /\ \A s : Number(c, s)' = Number(c, s)
  BY <1>1, <1>3 DEF Unsent, Number
<1>5. ASSUME Accounted(c) PROVE Accounted(c)'
  BY <1>1, <1>3, <1>4, <1>5, AccountKeeps
<1>6. ASSUME Quiet(c) PROVE Quiet(c)'
  <2>1. ASSUME init[c], pending[c] = {}, ~InClosure(c)
        PROVE  pending'[c] = {} /\ ~InClosure(c)'
    <3>1. CASE Fire
      BY <2>1, <3>1 DEF Fire, controller, wire, InClosure, Valid, TypeInv, TypeOK
    <3>2. CASE LoadPending
      BY <2>1, <3>2 DEF LoadPending, TickStep, controller, wire, InClosure
    <3>3. CASE Release
      <4>1. active.owner # c
        BY <2>1, <3>3 DEF Release, TickStep, InClosure
      <4>2. pending' = [pending EXCEPT ![active.owner] = Unset(tick.old, {active.slot})] /\ UNCHANGED wire
        BY <3>3 DEF Release
      <4> QED
        BY <1>0, <2>1, <4>1, <4>2 DEF wire, InClosure, TypeInv, TypeOK
    <3>4. CASE Select \/ Disable \/ Recheck
      BY <2>1, <3>4 DEF Select, Disable, Recheck, TickStep, AtIdle, controller, InClosure
    <3> QED
      BY <3>1, <3>2, <3>3, <3>4
  <2> QED
    BY <1>1, <1>6, <2>1 DEF Quiet
<1> QED
  BY <1>1, <1>5, <1>6 DEF Settled

LEMMA CompleteSettled ==
    ASSUME TypeInv, NEW c \in Hosted, Ordered(c), Settled(c), Complete
    PROVE  Settled(c)'
<1>0. c \in Controllers
  BY ControllersAssumption
<1>1. /\ tick.pc = "complete" /\ tick'.pc = "select"
      /\ UNCHANGED <<pending, ram, init, active, cpu, accepted, gone, stopped>>
  BY DEF Complete, TickStep, wire
<1>2. cpu[c].pc = "rest"
  BY <1>1 DEF Ordered, Threads
<1>3. Fresh(c) = {} /\ Fresh(c)' = {} /\ ~InClosure(c)' /\ \A s : Number(c, s)' = Number(c, s)
  BY <1>1, <1>2 DEF Fresh, InLoop, InClosure, Number
<1>4. CASE active.owner # c
  <2>1. UNCHANGED <<completed[c], held[c], sent[c]>> /\ ~InClosure(c)
    BY <1>0, <1>4, CompleteOther
  <2>2. Waits(c)' = Waits(c)
    BY <1>1, <1>3, <2>1 DEF Waits, Cancelled, Leaving
  <2>3. ASSUME Accounted(c) PROVE Accounted(c)'
    BY <1>1, <1>3, <2>1, <2>2, <2>3, AccountKeeps DEF Unsent
  <2>4. Quiet(c) => Quiet(c)'
    BY <1>1, <1>3, <2>1 DEF Quiet
  <2> QED
    BY <1>1, <2>3, <2>4 DEF Settled
<1>5. CASE active.owner = c
  <2> DEFINE s == active.slot
             n == active.n
             out == Range(sent[c])
  <2>1. /\ s \in Waits(c) /\ Number(c, s) = n /\ Waits(c)' = Waits(c) \ {s}
        /\ completed'[c] = completed[c] \cup {s}
        /\ ~init[c] => sent'[c] = Append(sent[c], n)
        /\ n \in Nat /\ InClosure(c) /\ sent[c] \in Seq(Nat)
    BY <1>0, <1>5, CompleteOwn, TypedAt
  <2> HIDE DEF s, n
  <2>2. ASSUME Quiet(c), Accounted(c) PROVE Quiet(c)' /\ Accounted(c)'
    <3>1. ~init[c]
      BY <2>1, <2>2 DEF Quiet
    <3>2. Range(sent[c])' = out \cup {n}
      <4>1. Range(Append(sent[c], n)) = out \cup {n}
        BY <2>1, AppendRises
      <4> QED
        BY <2>1, <3>1, <4>1 DEF Range
    <3>3. Unsent(c) = Waits(c) /\ Unsent(c)' = Waits(c) \ {s}
      BY <1>3, <2>1 DEF Unsent
    <3>4. \A t \in Waits(c) : Number(c, t) = n => t = s
      BY <2>1, <2>2, <3>3 DEF Accounted
    <3>5. Waiting(c) = {Number(c, t) : t \in Waits(c)} /\ Waiting(c)' = {Number(c, t) : t \in Waits(c) \ {s}}
      BY <1>3, <3>3 DEF Waiting
    <3>6. n \in Waiting(c) /\ Waiting(c)' = Waiting(c) \ {n}
      BY <2>1, <3>4, <3>5
    <3>7. \A t \in completed'[c] : Number(c, t)' \in out \cup {n}
      BY <1>3, <2>1, <2>2 DEF Accounted
    <3>8. \A t, u \in Unsent(c)' : Number(c, t)' = Number(c, u)' => t = u
      BY <1>3, <2>2, <3>3 DEF Accounted
    <3>9. Range(accepted[c])' = Range(accepted[c]) /\ gone'[c] = gone[c]
      BY <1>1
    <3>10. Accounted(c)'
      BY <1>3, <2>2, <3>2, <3>6, <3>7, <3>8, <3>9 DEF Accounted
    <3>11. Quiet(c)'
      BY <1>1, <3>1 DEF Quiet
    <3> QED
      BY <3>10, <3>11
  <2> QED
    BY <1>1, <2>2 DEF Settled
<1> QED
  BY <1>4, <1>5

LEMMA InitSettled == Init => AccountInv
<1> SUFFICES ASSUME Init, NEW c \in Hosted PROVE Settled(c)
  BY DEF AccountInv
<1>0. c \in Controllers
  BY ControllersAssumption
<1>1. /\ cpu[c].pc = "rest" /\ tick.pc = "idle" /\ pending[c] = {} /\ completed[c] = {}
      /\ held[c] = {} /\ accepted[c] = <<>> /\ sent[c] = <<>> /\ gone[c] = {}
  BY <1>0 DEF Init, AtRest, AtIdle
<1>2. Range(<<>>) = {}
  BY DEF Range
<1>3. Unsent(c) = {} /\ Waiting(c) = {} /\ Quiet(c)
  BY <1>1 DEF Unsent, Waiting, Waits, Leaving, InClosure, Quiet, InLoop
<1>4. Accounted(c)
  BY <1>1, <1>2, <1>3 DEF Accounted
<1> QED
  BY <1>3, <1>4 DEF Settled

\* The strengthening of AcceptedAccounted that also speaks of the states inside a
\* register write and inside a closure.
THEOREM AccountInvariance == Spec => []AccountInv
<1>1. TypeInv /\ IInv /\ HostedInv /\ AccountInv /\ [Next]_vars => AccountInv'
  <2> SUFFICES ASSUME TypeInv, IInv, HostedInv, AccountInv, [Next]_vars, NEW c \in Hosted
               PROVE  Settled(c)'
    BY DEF AccountInv
  <2>1. Ordered(c) /\ Settled(c) /\ c \in Controllers
    BY ControllersAssumption DEF HostedInv, AccountInv
  <2>2. ASSUME NEW d \in Controllers, Firmware(d) \/ CpuStep(d), d # c PROVE Settled(c)'
    BY <2>1, <2>2, OtherSettled
  <2>3. CASE Firmware(c)
    <3>1. ASSUME NEW value \in (SUBSET Slots) \ {{}}, NEW h \in Headers[c], Request(c, value, h)
          PROVE  Settled(c)'
      BY <2>1, <3>1, RequestSettled
    <3>2. ASSUME NEW value \in (SUBSET Slots) \ {{}}, Cancel(c, value) PROVE Settled(c)'
      BY <2>1, <3>2, CancelSettled
    <3> QED
      BY <2>1, <2>3, <3>1, <3>2, StopSettled, StartSettled, ResetSettled DEF Firmware
  <2>4. CASE CpuStep(c)
    BY <2>1, <2>4, LoopSettled, EnqueueSettled DEF CpuStep
  <2>5. CASE TickNext
    BY <2>1, <2>5, TickSettled, CompleteSettled DEF TickNext
  <2>6. CASE UNCHANGED vars
    <3>1. UNCHANGED <<pending, completed, ram, init, held, cpu, accepted, sent, gone, stopped, tick, active>>
      BY <2>6 DEF vars, controller, wire, history
    <3>2. Slot(c)' = Slot(c)
      BY <3>1, SameSlot
    <3>3. /\ Fresh(c)' = Fresh(c) /\ Unsent(c)' = Unsent(c) /\ Quiet(c)' = Quiet(c)
          /\ \A s : Number(c, s)' = Number(c, s)
      BY <3>1, <3>2 DEF Fresh, Unsent, Waits, Cancelled, Leaving, InClosure, Quiet, Number
    <3>4. ASSUME Accounted(c) PROVE Accounted(c)'
      BY <3>1, <3>3, <3>4, AccountKeeps
    <3> QED
      BY <2>1, <3>1, <3>3, <3>4 DEF Settled
  <2> QED
    BY <2>2, <2>3, <2>4, <2>5, <2>6 DEF Next
<1> QED
  BY <1>1, InitSettled, TypeCorrect, WakeupInvariance, HostedInvariance, PTL DEF Spec

\* AcceptedAccounted (TXBRP, TXBTO and the wire of a hosted controller): every frame
\* it accepted is pending, sent, or aborted or reset away, and only one of these, and
\* a slot shown transmitted was sent, for any number of controllers and slots.
THEOREM AccountKept == Spec => []AcceptedAccounted
<1>1. HostedInv /\ AccountInv => AcceptedAccounted
  <2> SUFFICES ASSUME HostedInv, AccountInv, NEW c \in Hosted,
                      ~stopped[c], cpu[c].pc = "rest", ~InClosure(c)
               PROVE  /\ Range(accepted[c]) = Range(sent[c]) \cup {ram[c][s].n : s \in pending[c]} \cup gone[c]
                      /\ Range(sent[c]) \cap {ram[c][s].n : s \in pending[c]} = {}
                      /\ Range(sent[c]) \cap gone[c] = {}
                      /\ {ram[c][s].n : s \in pending[c]} \cap gone[c] = {}
                      /\ \A s \in completed[c] : ram[c][s].n \in Range(sent[c])
    BY DEF AcceptedAccounted
  <2>1. Accounted(c)
    BY DEF AccountInv, Settled
  <2>2. Fresh(c) = {} /\ Unsent(c) = pending[c]
    BY DEF Fresh, InLoop, Unsent, Waits, Cancelled, Leaving
  <2>3. Waiting(c) = {ram[c][s].n : s \in pending[c]}
    BY <2>2 DEF Waiting, Number
  <2> QED
    BY <2>1, <2>2, <2>3 DEF Accounted, Number
<1> QED
  BY <1>1, HostedInvariance, AccountInvariance, PTL

=============================================================================
