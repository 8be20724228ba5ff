---------------------------- MODULE RadioMedium ----------------------------
(***************************************************************************)
(* The shared half-duplex radio of SedsRadioMedium.cs.  Up to MaxNodes     *)
(* station indexes hold an attachment each (a Node object, known here by   *)
(* its identity).  A UART character is accepted into the station's TX FIFO *)
(* and sealed into idle-delimited packets; a 100 us timer completes the    *)
(* burst on the air, releases due RX characters and starts the next burst  *)
(* round robin.  Every method body below runs under the lock `sync', so it *)
(* is one action; what the code does outside the lock (reading the clock   *)
(* before it, running the deferred deliveries after it) is a step of its   *)
(* own, and can be overtaken by a detach and a re-attach.                  *)
(***************************************************************************)
EXTENDS Integers, Sequences, FiniteSets, FiniteSetsExt, SequencesExt

CONSTANTS
    MaxNodes,      \* station indexes (16 in the code)
    MaxUarts,      \* the UARTs and host ports that may be attached are 1 .. MaxUarts
    TxFifo,        \* bytes a station may have accepted and not yet aired
    RxFifo,        \* bytes received from the air and not yet released
    MaxBurst,      \* bytes of one burst
    IdleUs,        \* an idle gap this long seals a packet
    TurnUs,        \* turn-around time after a completed burst
    OverheadBits,  \* bits added to every burst
    AirRate,       \* bits per Second
    UartBaud,      \* bits per Second on the UART side, ten per byte
    Second,        \* clock units in a second (1000000 in the code)
    QuantumUs,     \* period of the medium's timer
    NoBurst        \* `active' is null

CONSTANTS          \* bounds of the instance
    MaxAttachments,  \* Attach calls
    MaxOffers,       \* characters each attachment's UART writes
    OfferUntil,      \* no character is written after this time
    Horizon,         \* last timer tick
    MaxSkew,         \* time a callback may wait for the lock
    Fading           \* directed pairs of indexes whose link changes

Stations == 0 .. MaxNodes - 1
Uarts    == 1 .. MaxUarts
Ids      == 1 .. MaxAttachments     \* identities of Node objects; 0 is null
Byte     == [src : Ids, seq : Nat \ {0}]
TimedByte == [value : Byte, readyUs : Nat]
TxPacket == [count : Nat \ {0}, lastReadyUs : Nat]
Counter  == [refused : Nat, dropped : Nat, lost : Nat, aired : Nat, delivered : Nat]
Burst    == [sender : Stations, bytes : Seq(Byte), endUs : Nat,
             recipients : [Stations -> Ids \cup {0}]]

\* The constructor's bounds (txFifo and rxFifo hold at least one burst).
ASSUME ProfileAssumption ==
    /\ MaxNodes \in Nat \ {0}
    /\ MaxBurst \in Nat \ {0}
    /\ TxFifo \in Nat /\ TxFifo >= MaxBurst
    /\ RxFifo \in Nat /\ RxFifo >= MaxBurst
    /\ IdleUs \in Nat \ {0}
    /\ TurnUs \in Nat /\ OverheadBits \in Nat
    /\ AirRate \in Nat \ {0} /\ UartBaud \in Nat \ {0}
    /\ Second \in Nat \ {0} /\ QuantumUs \in Nat \ {0}
    /\ NoBurst \notin Burst

\* A null burst is not a burst, nor what RadioBroadcast sees of one.
ASSUME NullAssumption ==
    NoBurst \notin [src : Ids, len : 1 .. MaxBurst, audience : SUBSET Ids]

ASSUME BoundAssumption ==
    /\ MaxUarts \in Nat /\ MaxAttachments \in Nat /\ MaxOffers \in Nat
    /\ OfferUntil \in Nat /\ Horizon \in Nat /\ MaxSkew \in Nat
    /\ Fading \subseteq Stations \X Stations

VARIABLES
    clock,        \* virtual time
    att,          \* nodes[i]: identity of the attachment at index i, 0 for null
    uart,         \* the UART of each identity, 0 before it exists
    home,         \* the index captured by the callbacks of each identity
    nextId,       \* the next Node object
    links,        \* links[i,j]: j hears i
    tx,           \* Tx of the node at each index
    packets,      \* Packets of the node at each index; PacketTail is its last
    pendingTx,    \* PendingTx
    inputReady,   \* InputReady
    rx,           \* Rx
    outputReady,  \* OutputReady
    counter,      \* the monotonic counters of the node
    active,       \* the burst on the air
    cursor,       \* where the round robin resumes
    availableUs,  \* the air may be taken from this time
    airBits,      \* completedAirBits
    calls,        \* Input callbacks that read the clock and wait for the lock
    deferred      \* deliveries handed to the target machine, not yet run

VARIABLES         \* history: what the UARTs saw
    offered,      \* characters written by each identity's UART
    heard,        \* characters the UART of each identity was given
    due           \* characters of completed bursts that identity was present for

station == <<att, uart, home, nextId>>
ingress == <<tx, packets, pendingTx, inputReady>>
egress  == <<rx, outputReady>>
air     == <<active, cursor, availableUs, airBits>>
vars == <<clock, station, links, ingress, egress, counter, air, calls, deferred,
          offered, heard, due>>

-----------------------------------------------------------------------------
UartByteUs == (10 * Second + UartBaud - 1) \div UartBaud
AirBits(n) == 8 * n + OverheadBits
\* Mutant of AirUs: the rate applied to bytes instead of bits.
AirUsOfBytes(n) == (n * Second + AirRate - 1) \div AirRate

AirUs(n)   == (AirBits(n) * Second + AirRate - 1) \div AirRate
Later(a, b) == IF a >= b THEN a ELSE b
Lesser(a, b) == IF a <= b THEN a ELSE b
ZeroCounter == [refused |-> 0, dropped |-> 0, lost |-> 0, aired |-> 0, delivered |-> 0]

\* A fresh node at every index (or none: the fields are the same).
InitNodes ==
    /\ tx = [i \in Stations |-> <<>>]
    /\ packets = [i \in Stations |-> <<>>]
    /\ pendingTx = [i \in Stations |-> 0]
    /\ inputReady = [i \in Stations |-> 0]
    /\ rx = [i \in Stations |-> <<>>]
    /\ outputReady = [i \in Stations |-> 0]
    /\ counter = [i \in Stations |-> ZeroCounter]

InitAir == active = NoBurst /\ cursor = 0 /\ availableUs = 0 /\ airBits = 0

InitCallbacks ==
    /\ calls = {}
    /\ deferred = [a \in Ids |-> <<>>]
    /\ offered = [a \in Ids |-> 0]
    /\ heard = [a \in Ids |-> <<>>]
    /\ due = [a \in Ids |-> <<>>]

Init ==
    /\ clock = 0
    /\ att = [i \in Stations |-> 0]
    /\ uart = [a \in Ids |-> 0] /\ home = [a \in Ids |-> 0]
    /\ nextId = 1
    /\ links = [p \in Stations \X Stations |-> p[1] # p[2]]
    /\ InitNodes /\ InitAir /\ InitCallbacks

-----------------------------------------------------------------------------
(* Station management: Attach, DetachFrom, SetLink. *)

\* The fields of an index without a node are those a fresh node will have.
FreshNode(i) ==
    /\ tx' = [tx EXCEPT ![i] = <<>>]
    /\ packets' = [packets EXCEPT ![i] = <<>>]
    /\ pendingTx' = [pendingTx EXCEPT ![i] = 0]
    /\ inputReady' = [inputReady EXCEPT ![i] = 0]
    /\ rx' = [rx EXCEPT ![i] = <<>>]
    /\ outputReady' = [outputReady EXCEPT ![i] = 0]
    /\ counter' = [counter EXCEPT ![i] = ZeroCounter]

\* An occupied index and a UART attached elsewhere are refused.
Attach(i, u) ==
    /\ att[i] = 0
    /\ \A j \in Stations : att[j] # 0 => uart[att[j]] # u
    /\ nextId \in Ids
    /\ att' = [att EXCEPT ![i] = nextId]
    /\ uart' = [uart EXCEPT ![nextId] = u]
    /\ home' = [home EXCEPT ![nextId] = i]
    /\ nextId' = nextId + 1
    /\ FreshNode(i)
    /\ UNCHANGED <<clock, links, air, calls, deferred, offered, heard, due>>

\* Mutant of Aborts: the burst of a detached sender stays on the air.
NeverAborts(i) == FALSE

\* The sender's burst dies with it; availableUs keeps its old value.
Aborts(i) == active # NoBurst /\ active.sender = i

DetachFrom(i) ==
    /\ att[i] # 0
    /\ active' = IF Aborts(i) THEN NoBurst ELSE active
    /\ att' = [att EXCEPT ![i] = 0]
    /\ FreshNode(i)
    /\ UNCHANGED <<clock, uart, home, nextId, links, cursor, availableUs, airBits,
                   calls, deferred, offered, heard, due>>

SetLink(p) ==
    /\ p[1] # p[2]
    /\ links' = [links EXCEPT ![p] = ~@]
    /\ UNCHANGED <<clock, station, ingress, egress, counter, air, calls, deferred,
                   offered, heard, due>>

-----------------------------------------------------------------------------
(* The Input callback of an attachment: Enqueue reads the clock, then takes *)
(* the lock.                                                                 *)

\* The UART raises CharReceived: one call of a UART is in progress at a time.
Offer(a) ==
    /\ att[home[a]] = a
    /\ \A c \in calls : c.id # a
    /\ offered[a] < MaxOffers /\ clock <= OfferUntil
    /\ offered' = [offered EXCEPT ![a] = @ + 1]
    /\ calls' = calls \cup {[id |-> a, seq |-> offered[a] + 1, now |-> clock]}
    /\ UNCHANGED <<clock, station, links, ingress, egress, counter, air, deferred, heard, due>>

\* Mutant of Current: an occupied index instead of the same attachment.
Occupied(a) == att[home[a]] # 0

\* nodes[index] is still the attachment the callback belongs to.
Current(a) == att[home[a]] = a

InputStart(i, now) == Later(now, inputReady[i])

\* Mutant of NeedsPacket: a waiting packet absorbs later bytes whatever the gap.
FullOnly(i, now) == packets[i] = <<>> \/ Last(packets[i]).count = MaxBurst

NeedsPacket(i, now) ==
    \/ packets[i] = <<>>
    \/ Last(packets[i]).count = MaxBurst
    \/ InputStart(i, now) >= Last(packets[i]).lastReadyUs + IdleUs

\* Mutant of Describe: an extended packet keeps its first ready time.
KeepsReady(i, now) ==
    IF NeedsPacket(i, now)
    THEN Append(packets[i], [count |-> 1, lastReadyUs |-> InputStart(i, now) + UartByteUs])
    ELSE [packets[i] EXCEPT ![Len(packets[i])].count = @ + 1]

\* The descriptors after a byte that becomes ready at ready.
Describe(i, now) ==
    LET ready == InputStart(i, now) + UartByteUs
    IN  IF NeedsPacket(i, now)
        THEN Append(packets[i], [count |-> 1, lastReadyUs |-> ready])
        ELSE [packets[i] EXCEPT ![Len(packets[i])] =
                 [count |-> @.count + 1, lastReadyUs |-> ready]]

Refuses(i) == pendingTx[i] >= TxFifo

Accept(c, i) ==
    LET ready == InputStart(i, c.now) + UartByteUs IN
    /\ inputReady' = [inputReady EXCEPT ![i] = ready]
    /\ packets' = [packets EXCEPT ![i] = Describe(i, c.now)]
    /\ tx' = [tx EXCEPT ![i] =
                 Append(@, [value |-> [src |-> c.id, seq |-> c.seq], readyUs |-> ready])]
    /\ pendingTx' = [pendingTx EXCEPT ![i] = @ + 1]

Enqueue(c) ==
    /\ calls' = calls \ {c}
    /\ \/ /\ ~Current(c.id)
          /\ UNCHANGED <<ingress, counter>>
       \/ /\ Current(c.id) /\ Refuses(home[c.id])
          /\ counter' = [counter EXCEPT ![home[c.id]].refused = @ + 1]
          /\ UNCHANGED ingress
       \/ /\ Current(c.id) /\ ~Refuses(home[c.id])
          /\ Accept(c, home[c.id])
          /\ UNCHANGED counter
    /\ UNCHANGED <<clock, station, links, egress, air, deferred, offered, heard, due>>

-----------------------------------------------------------------------------
(* Tick: complete the burst on the air, release due RX bytes, start a burst. *)

Completes(now) == active # NoBurst /\ now >= active.endUs

\* Mutant of Hears: whoever is attached at the end of the burst.
HearsNow(i) == att[i] # 0 /\ i # active.sender

\* Only the attachment that was there when the burst began can hear its end.
Hears(i) == att[i] # 0 /\ att[i] = active.recipients[i] /\ i # active.sender

Heard(i, now) == Completes(now) /\ Hears(i) /\ links[<<active.sender, i>>]
Missed(i, now) == Completes(now) /\ Hears(i) /\ ~links[<<active.sender, i>>]

\* Mutant of Fits: the room left in the FIFO is not looked at.
FitsEmpty(i) == Lesser(Len(active.bytes), RxFifo)

\* How many bytes of the burst fit: the rest is dropped.
Fits(i) == Lesser(Len(active.bytes), RxFifo - Len(rx[i]))

ReadyAt(i, k) == Later(active.endUs, outputReady[i]) + k * UartByteUs

RxFilled(i, now) ==
    IF Heard(i, now)
    THEN rx[i] \o [k \in 1 .. Fits(i) |->
                      [value |-> active.bytes[k], readyUs |-> ReadyAt(i, k)]]
    ELSE rx[i]

\* The leading bytes of a FIFO that are due are released.
DueCount(q, now) ==
    Cardinality({k \in 1 .. Len(q) : \A j \in 1 .. k : q[j].readyUs <= now})

Values(q) == [k \in 1 .. Len(q) |-> q[k].value]

Completed(i, now) ==
    [counter[i] EXCEPT
        !.aired   = @ + IF Completes(now) /\ active.sender = i THEN Len(active.bytes) ELSE 0,
        !.lost    = @ + IF Missed(i, now) THEN Len(active.bytes) ELSE 0,
        !.dropped = @ + IF Heard(i, now) THEN Len(active.bytes) - Fits(i) ELSE 0]

\* History: who was present when the burst began.
Audience == {active.recipients[i] : i \in Stations \ {active.sender}} \ {0}

Receive(now) ==
    /\ counter' = [i \in Stations |-> Completed(i, now)]
    /\ airBits' = airBits + IF Completes(now) THEN AirBits(Len(active.bytes)) ELSE 0
    /\ outputReady' = [i \in Stations |->
           IF Heard(i, now) /\ Fits(i) > 0 THEN ReadyAt(i, Fits(i)) ELSE outputReady[i]]
    /\ rx' = [i \in Stations |->
           LET q == RxFilled(i, now) IN SubSeq(q, DueCount(q, now) + 1, Len(q))]
    /\ deferred' = [a \in Ids |->
           IF Current(a)
           THEN LET q == RxFilled(home[a], now)
                IN  deferred[a] \o Values(SubSeq(q, 1, DueCount(q, now)))
           ELSE deferred[a]]
    /\ due' = [a \in Ids |->
           IF Completes(now) /\ a \in Audience THEN due[a] \o active.bytes ELSE due[a]]

\* Mutant of Ready: only full packets are sent.
ReadyFull(i, now) ==
    /\ att[i] # 0
    /\ packets[i] # <<>>
    /\ now >= Head(packets[i]).lastReadyUs /\ Head(packets[i]).count = MaxBurst

\* A head packet is full or has been followed by an idle gap.
Ready(i, now) ==
    /\ att[i] # 0
    /\ packets[i] # <<>>
    /\ LET p == Head(packets[i])
       IN  /\ now >= p.lastReadyUs
           /\ p.count = MaxBurst \/ now >= p.lastReadyUs + IdleUs

AvailableFrom(now) == IF Completes(now) THEN active.endUs + TurnUs ELSE availableUs
AirFree(now) == (active = NoBurst \/ Completes(now)) /\ now >= AvailableFrom(now)

Turn(step) == (cursor + step) % MaxNodes

\* Mutant of NextCursor: the round robin resumes at the station just served.
SameCursor(i) == i

NextCursor(i) == (i + 1) % MaxNodes

\* The first ready station in round robin order sends its head packet.
StartBurst(step, now) ==
    LET i == Turn(step)
        n == Head(packets[i]).count
    IN  /\ Ready(i, now)
        /\ \A s \in 0 .. step - 1 : ~Ready(Turn(s), now)
        /\ active' = [sender |-> i, bytes |-> Values(SubSeq(tx[i], 1, n)),
                      endUs |-> now + AirUs(n), recipients |-> att]
        /\ packets' = [packets EXCEPT ![i] = Tail(@)]
        /\ tx' = [tx EXCEPT ![i] = SubSeq(@, n + 1, Len(@))]
        /\ cursor' = NextCursor(i)

NoStart(now) ==
    /\ ~AirFree(now) \/ \A i \in Stations : ~Ready(i, now)
    /\ active' = IF Completes(now) THEN NoBurst ELSE active
    /\ UNCHANGED <<packets, tx, cursor>>

Tick ==
    LET now == clock + QuantumUs IN
    /\ now <= Horizon /\ \A c \in calls : now <= c.now + MaxSkew
    /\ clock' = now
    /\ pendingTx' = [i \in Stations |-> pendingTx[i] -
           IF Completes(now) /\ active.sender = i THEN Len(active.bytes) ELSE 0]
    /\ Receive(now)
    /\ availableUs' = AvailableFrom(now)
    /\ \/ AirFree(now) /\ \E step \in 0 .. MaxNodes - 1 : StartBurst(step, now)
       \/ NoStart(now)
    /\ UNCHANGED <<station, links, inputReady, calls, offered, heard>>

\* HandleTimeDomainEvent runs the deliveries of one machine in order, later.
Deliver(a) ==
    /\ deferred[a] # <<>>
    /\ deferred' = [deferred EXCEPT ![a] = Tail(@)]
    /\ \/ /\ Current(a)
          /\ counter' = [counter EXCEPT ![home[a]].delivered = @ + 1]
          /\ heard' = [heard EXCEPT ![a] = Append(@, Head(deferred[a]))]
       \/ ~Current(a) /\ UNCHANGED <<counter, heard>>
    /\ UNCHANGED <<clock, station, links, ingress, egress, air, calls, offered, due>>

-----------------------------------------------------------------------------
Next ==
    \/ \E i \in Stations, u \in Uarts : Attach(i, u)
    \/ \E i \in Stations : DetachFrom(i)
    \/ \E p \in Fading : SetLink(p)
    \/ \E a \in Ids : Offer(a)
    \/ \E c \in calls : Enqueue(c)
    \/ Tick
    \/ \E a \in Ids : Deliver(a)

Spec == Init /\ [][Next]_vars

\* The timer keeps firing, a callback that waits for the lock gets it, and the
\* target machine runs its deferred events.
FairSpec ==
    /\ Spec
    /\ WF_vars(Tick)
    /\ WF_vars(\E c \in calls : Enqueue(c))
    /\ \A a \in Ids : WF_vars(Deliver(a))

-----------------------------------------------------------------------------
(* Properties. *)

\* The types of all variables; identities at the indexes are issued and know
\* their index, and the TX depth is within the modem's FIFO.
TypeOK ==
    /\ clock \in Nat
    /\ att \in [Stations -> Ids \cup {0}]
    /\ uart \in [Ids -> Uarts \cup {0}] /\ home \in [Ids -> Stations]
    /\ nextId \in 1 .. MaxAttachments + 1
    /\ links \in [Stations \X Stations -> BOOLEAN]
    /\ tx \in [Stations -> Seq(TimedByte)]
    /\ packets \in [Stations -> Seq(TxPacket)]
    /\ pendingTx \in [Stations -> Int]
    /\ inputReady \in [Stations -> Nat]
    /\ rx \in [Stations -> Seq(TimedByte)]
    /\ outputReady \in [Stations -> Nat]
    /\ counter \in [Stations -> Counter]
    /\ active \in Burst \cup {NoBurst}
    /\ cursor \in Stations
    /\ availableUs \in Nat /\ airBits \in Nat
    /\ calls \subseteq [id : Ids, seq : Nat \ {0}, now : Nat]
    /\ deferred \in [Ids -> Seq(Byte)]
    /\ offered \in [Ids -> Nat]
    /\ heard \in [Ids -> Seq(Byte)] /\ due \in [Ids -> Seq(Byte)]

\* Bytes of the burst on the air that station i still owns.
Airborne(i) == IF active # NoBurst /\ active.sender = i THEN Len(active.bytes) ELSE 0

\* FIFO ownership includes the active air burst (tests/radio-medium): the
\* admission count of Enqueue is exactly the queued bytes plus the bytes on the
\* air, so the FIFO can neither leak room across Tick, DetachFrom and Attach nor
\* be overcommitted while the burst is being sent.
TxOwnership ==
    \A i \in Stations :
        /\ pendingTx[i] = Len(tx[i]) + Airborne(i)
        /\ pendingTx[i] \in 0 .. TxFifo

\* f[k] is the number of bytes of the FIFO q owned by the first k descriptors p.
Cuts(p, q, f) ==
    /\ f[0] = 0 /\ f[Len(p)] = Len(q)
    /\ \A k \in 1 .. Len(p) :
         /\ p[k].count <= MaxBurst
         /\ f[k] = f[k-1] + p[k].count
         /\ p[k].lastReadyUs = q[f[k]].readyUs

\* Every descriptor Enqueue makes and Tick takes is owned by accepted bytes: the
\* descriptors cut the TX FIFO into consecutive runs of one burst at most, each
\* stamped with the ready time of its last byte, so a burst never dequeues past
\* its packet and the metadata is bounded by the FIFO.
DescriptorsOwnBytes ==
    \A i \in Stations :
        /\ Len(packets[i]) <= Len(tx[i])
        /\ \E f \in [0 .. Len(packets[i]) -> 0 .. TxFifo] : Cuts(packets[i], tx[i], f)

\* The idle gap between consecutive accepted bytes.
Gap(i, k) == tx[i][k+1].readyUs - UartByteUs - tx[i][k].readyUs

\* A completed idle gap seals the packet for ever, however late the station gets
\* the air (Enqueue): two neighbouring bytes share a packet only if they are less
\* than the idle cut-off apart, and are in different packets only if an idle gap
\* lies between them or the first packet is full.
IdleGapSeals ==
    \A i \in Stations :
        \A f \in [0 .. Len(packets[i]) -> 0 .. TxFifo] : Cuts(packets[i], tx[i], f) =>
            \A k \in 1 .. Len(tx[i]) - 1 :
                LET ends == \E m \in 1 .. Len(packets[i]) : f[m] = k
                    full == \E m \in 1 .. Len(packets[i]) :
                                f[m] = k /\ packets[i][m].count = MaxBurst
                IN  IF ends THEN full \/ Gap(i, k) >= IdleUs ELSE Gap(i, k) < IdleUs

\* Characters identity a was given, will be given, or has queued for it.
Got(a) == heard[a] \o deferred[a] \o IF att[home[a]] = a THEN Values(rx[home[a]]) ELSE <<>>

\* x is before y in q.
Before(q, x, y) == \E m, n \in DOMAIN q : m < n /\ q[m] = x /\ q[n] = y

\* What a UART receives of the air is what completed while it was present from
\* the start of the burst: in air order, nothing twice, no local echo, nothing of
\* a burst that began before its attachment, nothing meant for another node at
\* its index (Tick, Deliver).
HeardInAirOrder ==
    \A a \in Ids :
        LET got == Got(a)
        IN  /\ \A b \in Range(due[a]) : b.src # a /\ ~Before(due[a], b, b)
            /\ Range(got) \subseteq Range(due[a])
            /\ \A j, k \in DOMAIN got : j < k => Before(due[a], got[j], got[k])

\* No byte is lost silently: a byte aired to a station is either counted (lost
\* link, RX overflow), queued, in flight to the machine, or delivered, and the
\* delivered counter is what the UART really got.
ReceptionAccounted ==
    \A a \in Ids : (att[home[a]] = a) =>
        LET n == counter[home[a]]
        IN  /\ Len(due[a]) = Len(Got(a)) + n.lost + n.dropped
            /\ n.delivered = Len(heard[a])
            /\ Len(rx[home[a]]) <= RxFifo

\* Every character a station's UART wrote is refused, pending, on the air, aired
\* or still waiting for the lock; a callback that outlives its attachment adds
\* nothing to the station that replaced it (Enqueue's identity test).
OffersAccounted ==
    \A a \in Ids : (att[home[a]] = a) =>
        LET i == home[a]
            waiting == {c \in calls : c.id = a}
        IN  offered[a] = counter[i].refused + pendingTx[i] + counter[i].aired
                         + Cardinality(waiting)

\* The medium never carries more than its air rate: the bits of completed bursts
\* fit in the time that has passed, whatever is detached while on the air.
AirCapacity == airBits * Second <= clock * AirRate

\* A late callback changes nothing: only the node now attached at its index
\* hears, and what the replaced UART heard stays as it was (Deliver).
OnlyAttachedHear ==
    [][\A a \in Ids : heard'[a] # heard[a] => att[home[a]] = a /\ att' = att]_vars

\* Every accepted byte leaves its station: it goes on the air or its station is
\* detached, and nobody starves behind other senders.  When the UARTs have written
\* all they have, the FIFOs of all stations drain (Tick under its timer).
Backlog == \E i \in Stations : pendingTx[i] # 0
TxDrains == Backlog ~> ~Backlog

-----------------------------------------------------------------------------
(* Refinement: RadioBroadcast is what all of this amounts to. *)

Attached == {att[i] : i \in Stations} \ {0}

Unsent(a) ==
    IF ~ att[home[a]] = a THEN <<>>
    ELSE (IF active # NoBurst /\ active.sender = home[a] THEN active.bytes ELSE <<>>)
         \o Values(tx[home[a]])

Inbox(a) == IF att[home[a]] = a THEN deferred[a] \o Values(rx[home[a]]) ELSE <<>>

OnAir ==
    IF active = NoBurst THEN NoBurst
    ELSE [src |-> active.recipients[active.sender], len |-> Len(active.bytes),
          audience |-> {active.recipients[i] : i \in Stations}
                           \ {0, active.recipients[active.sender]}]

Abstract == INSTANCE RadioBroadcast WITH
    Byte <- [src : Ids, seq : 1 .. MaxOffers], Silence <- NoBurst,
    ever <- 1 .. nextId - 1, present <- Attached,
    unsent <- [a \in Ids |-> Unsent(a)], inbox <- [a \in Ids |-> Inbox(a)],
    onAir <- OnAir

\* The medium's operations are those of a lossy ordered broadcast among the
\* attachments present: no step of Attach, DetachFrom, Enqueue, Tick or a
\* deferred delivery does anything else.
ImplementsBroadcast == [][Abstract!Next]_(Abstract!abstractVars)

=============================================================================
