-------------------------------- MODULE Uart --------------------------------
(***************************************************************************)
(* SedsStm32Uart.cs.  Three threads share it without a lock: the CPU reads *)
(* and writes registers, the host's input calls WriteChar, and the clock   *)
(* runs the callbacks of the three LimitTimers, one at a time.  The queues *)
(* are concurrent: one call is one step.  A handler is cut where another   *)
(* thread could get between two accesses: between a queue and a timer's    *)
(* Enabled, and between the value of the interrupt line and its setting.   *)
(***************************************************************************)
EXTENDS Integers, Sequences, SequencesExt

CONSTANTS
    Depth,        \* FIFO mode capacity (8 in the code); 1 without FIFO mode
    CharTicks,    \* duration of a character on the wire
    Configs       \* control registers the firmware writes

CONSTANTS         \* bounds of the instance
    MaxBytes,     \* bytes the host writes
    MaxWrites,    \* writes of the transmit data register
    MaxResets

Sources == {"rxne", "txe", "tc", "idle", "ore"}

\* CR1, CR3 and BRR: receiver and transmitter enabled with a baud rate, FIFO
\* mode, overrun detection disabled, and the interrupt enables.
Control == [rx : BOOLEAN, tx : BOOLEAN, deep : BOOLEAN, ovrdis : BOOLEAN,
            ie : SUBSET Sources]

ASSUME UartAssumption ==
    /\ Depth \in Nat \ {0} /\ CharTicks \in Nat \ {0}
    /\ Configs \subseteq Control
    /\ MaxBytes \in Nat /\ MaxWrites \in Nat /\ MaxResets \in Nat

VARIABLES
    ctl,
    transmitFifo, receiveWire, receiveFifo,
    idle, overrun,
    txOn, rxOn, idleOn,   \* Enabled of the three timers
    rxLeft, idleLeft,     \* time until the receive and the idle timer fire
    irq,
    cpu, host, clk        \* the threads: pc, and a byte or an interrupt level

VARIABLES         \* history
    written,      \* bytes WriteChar took
    queued,       \* bytes the transmit data register took
    sent,         \* bytes on the transmit wire
    read,         \* bytes firmware read
    gone,         \* bytes lost to a full FIFO, flushed, reset or not received
    more,         \* when the last byte was received another one was on the wire
    raced,        \* a reset and a WriteChar overlapped
    resets

queues == <<transmitFifo, receiveWire, receiveFifo>>
flags == <<idle, overrun>>
timers == <<txOn, rxOn, idleOn, rxLeft, idleLeft>>
history == <<written, queued, sent, read, gone, more, raced, resets>>
vars == <<ctl, queues, flags, timers, irq, cpu, host, clk, history>>

Off == [rx |-> FALSE, tx |-> FALSE, deep |-> FALSE, ovrdis |-> FALSE, ie |-> {}]

At(pc) == [pc |-> pc, byte |-> 0, level |-> FALSE]

Init ==
    /\ ctl = Off
    /\ transmitFifo = <<>> /\ receiveWire = <<>> /\ receiveFifo = <<>>
    /\ idle = FALSE /\ overrun = FALSE
    /\ txOn = FALSE /\ rxOn = FALSE /\ idleOn = FALSE
    /\ rxLeft = 0 /\ idleLeft = 0
    /\ irq = FALSE
    /\ cpu = At("rest") /\ host = At("rest") /\ clk = At("rest")
    /\ written = 0 /\ queued = 0 /\ sent = <<>> /\ read = <<>> /\ gone = {}
    /\ more = FALSE /\ raced = FALSE /\ resets = 0

-----------------------------------------------------------------------------
Capacity == IF ctl.deep THEN Depth ELSE 1

TxAvailable == Len(transmitFifo) < Capacity

\* UpdateInterrupt: the level the line should have.
Level ==
    \/ "rxne" \in ctl.ie /\ receiveFifo # <<>>
    \/ "txe" \in ctl.ie /\ TxAvailable
    \/ "tc" \in ctl.ie /\ transmitFifo = <<>>
    \/ "idle" \in ctl.ie /\ idle
    \/ "ore" \in ctl.ie /\ overrun

\* The next place of a thread in its handler.
CpuGoes(from, to) == cpu.pc = from /\ cpu' = At(to)
HostGoes(from, to) == host.pc = from /\ host' = At(to)
ClkGoes(from, to) == clk.pc = from /\ clk' = At(to)

-----------------------------------------------------------------------------
(* The CPU. *)

Configure(c) ==
    /\ CpuGoes("rest", "update") /\ ctl' = c
    /\ UNCHANGED <<queues, flags, timers, irq, host, clk, history>>

\* A write of the data register is ignored unless it fits.
WriteData ==
    /\ ctl.tx /\ TxAvailable /\ queued < MaxWrites
    /\ CpuGoes("rest", "check")
    /\ queued' = queued + 1
    /\ transmitFifo' = Append(transmitFifo, queued')
    /\ UNCHANGED <<ctl, receiveWire, receiveFifo, flags, timers, irq, host, clk,
                   written, sent, read, gone, more, raced, resets>>

CheckTx ==
    /\ CpuGoes("check", IF txOn THEN "update" ELSE "start")
    /\ UNCHANGED <<ctl, queues, flags, timers, irq, host, clk, history>>

StartTx ==
    /\ CpuGoes("start", "update") /\ txOn' = TRUE
    /\ UNCHANGED <<ctl, queues, flags, rxOn, idleOn, rxLeft, idleLeft, irq, host, clk,
                   history>>

\* An empty FIFO reads as zero and changes nothing.
ReadData ==
    /\ receiveFifo # <<>>
    /\ CpuGoes("rest", "update")
    /\ read' = Append(read, Head(receiveFifo))
    /\ receiveFifo' = Tail(receiveFifo)
    /\ UNCHANGED <<ctl, transmitFifo, receiveWire, flags, timers, irq, host, clk,
                   written, queued, sent, gone, more, raced, resets>>

\* ICR: the flags written are cleared.
ClearFlags(value) ==
    /\ ("idle" \in value /\ idle) \/ ("ore" \in value /\ overrun)
    /\ CpuGoes("rest", "update")
    /\ idle' = (idle /\ "idle" \notin value) /\ overrun' = (overrun /\ "ore" \notin value)
    /\ UNCHANGED <<ctl, queues, timers, irq, host, clk, history>>

\* RQR: RXFRQ empties the receive FIFO.
Flush ==
    /\ receiveFifo # <<>>
    /\ CpuGoes("rest", "update")
    /\ receiveFifo' = <<>>
    /\ gone' = gone \cup Range(receiveFifo)
    /\ UNCHANGED <<ctl, transmitFifo, receiveWire, flags, timers, irq, host, clk,
                   written, queued, sent, read, more, raced, resets>>

\* The level is computed in one step and set in another.
CpuUpdate ==
    /\ cpu.pc = "update" /\ cpu' = [pc |-> "set", byte |-> 0, level |-> Level]
    /\ UNCHANGED <<ctl, queues, flags, timers, irq, host, clk, history>>

CpuSet ==
    /\ irq' = cpu.level /\ CpuGoes("set", "rest")
    /\ UNCHANGED <<ctl, queues, flags, timers, host, clk, history>>

\* A machine is reset with its CPU and its clock stopped; the host is not.
ResetQueues ==
    /\ resets < MaxResets /\ clk.pc = "rest"
    /\ CpuGoes("rest", "resetTimers")
    /\ transmitFifo' = <<>> /\ receiveWire' = <<>> /\ receiveFifo' = <<>>
    /\ gone' = gone \cup Range(receiveWire) \cup Range(receiveFifo)
    /\ raced' = (raced \/ host.pc # "rest")
    /\ resets' = resets + 1
    /\ UNCHANGED <<ctl, flags, timers, irq, host, clk, written, queued, sent, read, more>>

ResetTimers ==
    /\ CpuGoes("resetTimers", "resetControl")
    /\ txOn' = FALSE /\ rxOn' = FALSE /\ idleOn' = FALSE
    /\ idle' = FALSE /\ overrun' = FALSE
    /\ UNCHANGED <<ctl, queues, rxLeft, idleLeft, irq, host, clk, history>>

ResetControl ==
    /\ CpuGoes("resetControl", "rest")
    /\ ctl' = Off /\ irq' = FALSE
    /\ UNCHANGED <<queues, flags, timers, host, clk, history>>

Resetting == cpu.pc \in {"resetTimers", "resetControl"}

-----------------------------------------------------------------------------
(* The host: WriteChar. *)

Offer ==
    /\ ctl.rx /\ written < MaxBytes
    /\ host.pc = "rest"
    /\ host' = [pc |-> "put", byte |-> written + 1, level |-> FALSE]
    /\ written' = written + 1
    /\ raced' = (raced \/ Resetting)
    /\ UNCHANGED <<ctl, queues, flags, timers, irq, cpu, clk,
                   queued, sent, read, gone, more, resets>>

Put ==
    /\ HostGoes("put", "check")
    /\ receiveWire' = Append(receiveWire, host.byte)
    /\ UNCHANGED <<ctl, transmitFifo, receiveFifo, flags, timers, irq, cpu, clk, history>>

CheckRx ==
    /\ HostGoes("check", IF rxOn THEN "rest" ELSE "start")
    /\ UNCHANGED <<ctl, queues, flags, timers, irq, cpu, clk, history>>

StartRx ==
    /\ HostGoes("start", "rest")
    /\ rxOn' = TRUE /\ rxLeft' = CharTicks
    /\ UNCHANGED <<ctl, queues, flags, txOn, idleOn, idleLeft, irq, cpu, clk, history>>

-----------------------------------------------------------------------------
(* The clock: time passes while no callback is due, and one callback at a    *)
(* time runs.  The duration of a transmitted character is left open.         *)

RxDue == rxOn /\ rxLeft = 0
IdleDue == idleOn /\ idleLeft = 0

Pass ==
    /\ clk.pc = "rest" /\ ~Resetting
    /\ (rxOn \/ idleOn) /\ ~RxDue /\ ~IdleDue
    /\ rxLeft' = IF rxOn THEN rxLeft - 1 ELSE rxLeft
    /\ idleLeft' = IF idleOn THEN idleLeft - 1 ELSE idleLeft
    /\ UNCHANGED <<ctl, queues, flags, txOn, rxOn, idleOn, irq, cpu, host, clk, history>>

FireTx ==
    /\ txOn /\ ~Resetting
    /\ ClkGoes("rest", "txEmpty")
    /\ IF transmitFifo = <<>>
       THEN UNCHANGED <<transmitFifo, sent>>
       ELSE /\ transmitFifo' = Tail(transmitFifo)
            /\ sent' = Append(sent, Head(transmitFifo))
    /\ UNCHANGED <<ctl, receiveWire, receiveFifo, flags, timers, irq, cpu, host,
                   written, queued, read, gone, more, raced, resets>>

TxEmpty ==
    /\ ClkGoes("txEmpty", IF transmitFifo = <<>> THEN "txStop" ELSE "update")
    /\ UNCHANGED <<ctl, queues, flags, timers, irq, cpu, host, history>>

TxStop ==
    /\ ClkGoes("txStop", "txRecheck") /\ txOn' = FALSE
    /\ UNCHANGED <<ctl, queues, flags, rxOn, idleOn, rxLeft, idleLeft, irq, cpu, host,
                   history>>

\* Mutant of Rearmed: the queue is not looked at again.
StaysStopped(on, queue) == on

\* A byte that was queued before the timer stopped starts it again.
Rearmed(on, queue) == on \/ queue # <<>>

TxRecheck ==
    /\ ClkGoes("txRecheck", "update") /\ txOn' = Rearmed(txOn, transmitFifo)
    /\ UNCHANGED <<ctl, queues, flags, rxOn, idleOn, rxLeft, idleLeft, irq, cpu, host,
                   history>>

ClkUpdate ==
    /\ clk.pc = "update" /\ clk' = [pc |-> "set", byte |-> 0, level |-> Level]
    /\ UNCHANGED <<ctl, queues, flags, timers, irq, cpu, host, history>>

ClkSet ==
    /\ irq' = clk.level /\ ClkGoes("set", "rest")
    /\ UNCHANGED <<ctl, queues, flags, timers, cpu, host, history>>

\* A byte leaves the wire; it is received if the receiver is (still) enabled.
FireRx ==
    /\ RxDue /\ ~Resetting
    /\ clk.pc = "rest"
    /\ rxLeft' = CharTicks
    /\ \/ /\ receiveWire = <<>>
          /\ clk' = At("rxEmpty")
          /\ UNCHANGED <<receiveWire, gone, more>>
       \/ /\ receiveWire # <<>> /\ ~ctl.rx
          /\ clk' = At("rxEmpty")
          /\ receiveWire' = Tail(receiveWire)
          /\ gone' = gone \cup {Head(receiveWire)} /\ more' = FALSE
       \/ /\ receiveWire # <<>> /\ ctl.rx
          /\ clk' = [pc |-> "rxStore", byte |-> Head(receiveWire), level |-> FALSE]
          /\ receiveWire' = Tail(receiveWire)
          /\ UNCHANGED <<gone, more>>
    /\ UNCHANGED <<ctl, transmitFifo, receiveFifo, flags, txOn, rxOn, idleOn, idleLeft,
                   irq, cpu, host, written, queued, sent, read, raced, resets>>

\* Mutant of Room: one byte more than the FIFO holds.
RoomForOneMore == Len(receiveFifo) <= Capacity

Room == Len(receiveFifo) < Capacity

IdleTicks == CharTicks + 1

RxStore ==
    /\ ClkGoes("rxStore", "rxUpdate")
    /\ IF Room
       THEN receiveFifo' = Append(receiveFifo, clk.byte) /\ UNCHANGED <<overrun, gone>>
       ELSE /\ overrun' = (overrun \/ ~ctl.ovrdis)
            /\ gone' = gone \cup {clk.byte}
            /\ UNCHANGED receiveFifo
    /\ idleOn' = TRUE /\ idleLeft' = IdleTicks
    /\ more' = (receiveWire # <<>>)
    /\ UNCHANGED <<ctl, transmitFifo, receiveWire, idle, txOn, rxOn, rxLeft, irq, cpu, host,
                   written, queued, sent, read, raced, resets>>

RxUpdate ==
    /\ clk.pc = "rxUpdate" /\ clk' = [pc |-> "rxSet", byte |-> 0, level |-> Level]
    /\ UNCHANGED <<ctl, queues, flags, timers, irq, cpu, host, history>>

RxSet ==
    /\ irq' = clk.level /\ ClkGoes("rxSet", "rxEmpty")
    /\ UNCHANGED <<ctl, queues, flags, timers, cpu, host, history>>

RxEmpty ==
    /\ ClkGoes("rxEmpty", IF receiveWire = <<>> THEN "rxStop" ELSE "rest")
    /\ UNCHANGED <<ctl, queues, flags, timers, irq, cpu, host, history>>

RxStop ==
    /\ ClkGoes("rxStop", "rxRecheck") /\ rxOn' = FALSE
    /\ UNCHANGED <<ctl, queues, flags, txOn, idleOn, rxLeft, idleLeft, irq, cpu, host,
                   history>>

RxRecheck ==
    /\ ClkGoes("rxRecheck", "rest") /\ rxOn' = Rearmed(rxOn, receiveWire)
    /\ UNCHANGED <<ctl, queues, flags, txOn, idleOn, rxLeft, idleLeft, irq, cpu, host,
                   history>>

FireIdle ==
    /\ IdleDue /\ ~Resetting
    /\ ClkGoes("rest", "update")
    /\ idleOn' = FALSE /\ idle' = TRUE
    /\ UNCHANGED <<ctl, queues, overrun, txOn, rxOn, rxLeft, idleLeft, irq, cpu, host,
                   history>>

-----------------------------------------------------------------------------
Firmware ==
    \/ \E c \in Configs : Configure(c)
    \/ \E value \in SUBSET {"idle", "ore"} : ClearFlags(value)
    \/ WriteData \/ ReadData \/ Flush \/ ResetQueues

CpuStep ==
    \/ CheckTx \/ StartTx \/ CpuUpdate \/ CpuSet \/ ResetTimers \/ ResetControl

HostStep == Put \/ CheckRx \/ StartRx

ClkStep ==
    \/ FireTx \/ TxEmpty \/ TxStop \/ TxRecheck \/ ClkUpdate \/ ClkSet
    \/ FireRx \/ RxStore \/ RxUpdate \/ RxSet \/ RxEmpty \/ RxStop \/ RxRecheck
    \/ FireIdle

Next == Firmware \/ CpuStep \/ Offer \/ HostStep \/ Pass \/ ClkStep

Spec == Init /\ [][Next]_vars

\* A thread finishes the call it is in, virtual time passes, and timers that
\* are due fire.
FairSpec ==
    /\ Spec
    /\ WF_vars(CpuStep) /\ WF_vars(HostStep) /\ WF_vars(Pass) /\ WF_vars(ClkStep)

-----------------------------------------------------------------------------
(* Properties. *)

Thread == [pc : {"rest", "check", "start", "update", "set", "resetTimers", "resetControl",
                 "put", "txEmpty", "txStop", "txRecheck", "rxStore", "rxUpdate", "rxSet",
                 "rxEmpty", "rxStop", "rxRecheck"},
           byte : Nat, level : BOOLEAN]

\* The types of all variables.
TypeOK ==
    /\ ctl \in Control
    /\ transmitFifo \in Seq(Nat) /\ receiveWire \in Seq(Nat) /\ receiveFifo \in Seq(Nat)
    /\ idle \in BOOLEAN /\ overrun \in BOOLEAN
    /\ txOn \in BOOLEAN /\ rxOn \in BOOLEAN /\ idleOn \in BOOLEAN
    /\ rxLeft \in Nat /\ idleLeft \in Nat
    /\ irq \in BOOLEAN
    /\ cpu \in Thread /\ host \in Thread /\ clk \in Thread
    /\ written \in Nat /\ queued \in Nat
    /\ sent \in Seq(Nat) /\ read \in Seq(Nat) /\ gone \in SUBSET Nat
    /\ more \in BOOLEAN /\ raced \in BOOLEAN /\ resets \in Nat

\* The wake-up of a byte that is queued while a callback stops its timer is not
\* lost (the comment in the transmit callback): a byte waits only behind a timer
\* that runs or that some thread is about to start.  A WriteChar that overlaps a
\* reset is exempt.
NoLostWakeup ==
    /\ transmitFifo # <<>> =>
          \/ txOn
          \/ clk.pc = "txRecheck"
          \/ cpu.pc \in {"check", "start"}
    /\ receiveWire # <<>> /\ ~raced =>
          \/ rxOn
          \/ clk.pc = "rxRecheck"
          \/ host.pc \in {"check", "start"}
          \/ Resetting

\* A byte that left the wire and is not in the FIFO yet; one not on the wire yet.
InHand == IF clk.pc = "rxStore" THEN <<clk.byte>> ELSE <<>>
Coming == IF host.pc = "put" THEN <<host.byte>> ELSE <<>>

\* The FIFOs are thread-safe (docs/hardware-fidelity.md): what the firmware has
\* read, then the receive FIFO, then the wire are in the order the host wrote
\* them, nothing twice, nothing missing that was not dropped by a full FIFO, a
\* disabled receiver, a flush or a reset, and no FIFO exceeds its depth.
ReceivedInOrder ==
    LET line == read \o receiveFifo \o InHand \o receiveWire \o Coming
    IN  /\ \A j, k \in 1 .. Len(line) : j < k => line[j] < line[k]
        /\ Range(line) \cup gone = 1 .. written /\ Range(line) \cap gone = {}
        /\ Len(receiveFifo) <= Depth /\ Len(transmitFifo) <= Depth

\* "The extra tick prevents an IDLE edge between contiguous bytes": IDLE is not
\* raised between two received bytes if the second was on the wire when the first
\* was received, however long the threads take.
NoIdleInsideBurst == [][idle' /\ ~idle => ~more]_vars

\* Bytes do not stay behind a stopped timer: both wires are drained, even when
\* the receiver is turned off meanwhile.
Drains ==
    /\ transmitFifo # <<>> ~> transmitFifo = <<>>
    /\ receiveWire # <<>> ~> (receiveWire = <<>> \/ raced)

=============================================================================
