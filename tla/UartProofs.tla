----------------------------- MODULE UartProofs -----------------------------
(* No byte is left behind a stopped timer, for every FIFO depth, character   *)
(* time and set of configurations, with a host that writes during a reset    *)
(* exempt.                                                                    *)
EXTENDS Uart, SequenceTheorems, TLAPS

\* While the machine is reset its queues are empty and its clock is at rest;
\* the host is at rest too unless the reset is a raced one.
ResetQuiet ==
    Resetting =>
        /\ transmitFifo = <<>> /\ clk.pc = "rest"
        /\ raced \/ (receiveWire = <<>> /\ host.pc = "rest")

IInv == NoLostWakeup /\ ResetQuiet

\* Nothing is queued at first.
LEMMA InitIInv == Init => IInv
BY DEF Init, At, IInv, NoLostWakeup, ResetQuiet, Resetting

\* A register write or the start of a reset.
LEMMA FirmwareStep ==
    ASSUME IInv, Firmware
    PROVE  IInv'
<1> USE DEF IInv, NoLostWakeup, ResetQuiet, Resetting, CpuGoes, At
<1>1. CASE \E c \in Configs : Configure(c)
  BY <1>1 DEF Configure, queues, timers, history
<1>2. CASE \E value \in SUBSET {"idle", "ore"} : ClearFlags(value)
  BY <1>2 DEF ClearFlags, queues, timers, history
<1>3. CASE WriteData
  BY <1>3 DEF WriteData, timers
<1>4. CASE ReadData
  BY <1>4 DEF ReadData, timers
<1>5. CASE Flush
  BY <1>5 DEF Flush, timers
<1>6. CASE ResetQueues
  BY <1>6 DEF ResetQueues, timers
<1>7. QED
  BY <1>1, <1>2, <1>3, <1>4, <1>5, <1>6 DEF Firmware

\* The CPU goes on in a register write, or the reset in the peripheral.
LEMMA CpuStepStep ==
    ASSUME IInv, CpuStep
    PROVE  IInv'
<1> USE DEF IInv, NoLostWakeup, ResetQuiet, Resetting, CpuGoes, At
<1>1. CASE CheckTx
  BY <1>1 DEF CheckTx, queues, timers, history
<1>2. CASE StartTx
  BY <1>2 DEF StartTx, queues, history
<1>3. CASE CpuUpdate
  BY <1>3 DEF CpuUpdate, queues, timers, history
<1>4. CASE CpuSet
  BY <1>4 DEF CpuSet, queues, timers, history
<1>5. CASE ResetTimers
  BY <1>5 DEF ResetTimers, queues, history
<1>6. CASE ResetControl
  BY <1>6 DEF ResetControl, queues, timers, history
<1>7. QED
  BY <1>1, <1>2, <1>3, <1>4, <1>5, <1>6 DEF CpuStep

\* The host puts a byte on the wire and then looks at the timer.
LEMMA HostStepStep ==
    ASSUME IInv, Offer \/ HostStep
    PROVE  IInv'
<1> USE DEF IInv, NoLostWakeup, ResetQuiet, Resetting, HostGoes, At
<1>1. CASE Offer
  BY <1>1 DEF Offer, queues, timers
<1>2. CASE Put
  BY <1>2 DEF Put, timers, history
<1>3. CASE CheckRx
  BY <1>3 DEF CheckRx, queues, timers, history
<1>4. CASE StartRx
  BY <1>4 DEF StartRx, queues, history
<1>5. QED
  BY <1>1, <1>2, <1>3, <1>4 DEF HostStep

\* A callback stops its timer before it looks at the queue for the last time.
LEMMA ClockStep ==
    ASSUME IInv, Pass \/ ClkStep
    PROVE  IInv'
<1> USE DEF IInv, NoLostWakeup, ResetQuiet, Resetting, ClkGoes, At
<1>1. CASE Pass
  BY <1>1 DEF Pass, queues, history
<1>2. CASE FireTx
  BY <1>2 DEF FireTx, timers
<1>3. CASE TxEmpty
  BY <1>3 DEF TxEmpty, queues, timers, history
<1>4. CASE TxStop
  BY <1>4 DEF TxStop, queues, history
<1>5. CASE TxRecheck
  BY <1>5 DEF TxRecheck, Rearmed, queues, history
<1>6. CASE ClkUpdate
  BY <1>6 DEF ClkUpdate, queues, timers, history
<1>7. CASE ClkSet
  BY <1>7 DEF ClkSet, queues, timers, history
<1>8. CASE FireRx
  BY <1>8 DEF FireRx, RxDue
<1>9. CASE RxStore
  BY <1>9 DEF RxStore
<1>10. CASE RxUpdate
  BY <1>10 DEF RxUpdate, queues, timers, history
<1>11. CASE RxSet
  BY <1>11 DEF RxSet, queues, timers, history
<1>12. CASE RxEmpty
  BY <1>12 DEF RxEmpty, queues, timers, history
<1>13. CASE RxStop
  BY <1>13 DEF RxStop, queues, history
<1>14. CASE RxRecheck
  BY <1>14 DEF RxRecheck, Rearmed, queues, history
<1>15. CASE FireIdle
  BY <1>15 DEF FireIdle, queues, history
<1>16. QED
  BY <1>1, <1>2, <1>3, <1>4, <1>5, <1>6, <1>7, <1>8, <1>9, <1>10, <1>11, <1>12,
     <1>13, <1>14, <1>15 DEF ClkStep

\* Every step of every thread preserves the invariant.
THEOREM UartInvariance == Spec => []IInv
<1>1. Init => IInv
  BY InitIInv
<1>2. IInv /\ [Next]_vars => IInv'
  <2>1. SUFFICES ASSUME IInv, [Next]_vars PROVE IInv'
    OBVIOUS
  <2>2. CASE Next
    BY <2>1, <2>2, FirmwareStep, CpuStepStep, HostStepStep, ClockStep DEF Next
  <2>3. CASE UNCHANGED vars
    BY <2>1, <2>3
       DEF vars, queues, timers, history, IInv, NoLostWakeup, ResetQuiet, Resetting
  <2>4. QED
    BY <2>1, <2>2, <2>3
<1>3. QED
  BY <1>1, <1>2, PTL DEF Spec

\* NoLostWakeup (the transmit callback, WriteDoubleWord, WriteChar and
\* ReceiveWireByte): a queued byte waits only behind a timer that runs or that a
\* thread is about to start.
THEOREM UartWakeupKept == Spec => []NoLostWakeup
<1>1. IInv => NoLostWakeup
  BY DEF IInv
<1>2. QED
  BY UartInvariance, <1>1, PTL

-----------------------------------------------------------------------------
(* Types. *)

\* A thread that goes to one of its places is a thread.
LEMMA ThreadAt ==
    ASSUME NEW pc \in {"rest", "check", "start", "update", "set", "resetTimers", "resetControl",
                       "put", "txEmpty", "txStop", "txRecheck", "rxStore", "rxUpdate", "rxSet",
                       "rxEmpty", "rxStop", "rxRecheck"},
           NEW byte \in Nat, NEW level \in BOOLEAN
    PROVE  [pc |-> pc, byte |-> byte, level |-> level] \in Thread
BY DEF Thread

\* The bytes of a queue are bytes.
LEMMA RangeTyped == \A s \in Seq(Nat) : Range(s) \subseteq Nat
BY DEF Range

LEMMA FirmwareTyped ==
    ASSUME TypeOK, Firmware
    PROVE  TypeOK'
<1> USE DEF CpuGoes, At, TypeOK
<1>1. CASE \E c \in Configs : Configure(c)
  BY <1>1, ThreadAt, UartAssumption DEF Configure, queues, flags, timers, history
<1>2. CASE \E value \in SUBSET {"idle", "ore"} : ClearFlags(value)
  BY <1>2, ThreadAt DEF ClearFlags, queues, timers, history
<1>3. CASE WriteData
  <2>1. queued' \in Nat
    BY <1>3 DEF WriteData
  <2>2. transmitFifo' \in Seq(Nat)
    BY <1>3, <2>1 DEF WriteData
  <2>3. cpu' \in Thread
    BY <1>3, ThreadAt DEF WriteData
  <2> QED
    BY <1>3, <2>1, <2>2, <2>3 DEF WriteData, flags, timers
<1>4. CASE ReadData
  <2>1. Head(receiveFifo) \in Nat /\ Tail(receiveFifo) \in Seq(Nat)
    BY <1>4, HeadTailProperties DEF ReadData
  <2>2. read' \in Seq(Nat) /\ receiveFifo' \in Seq(Nat)
    BY <1>4, <2>1 DEF ReadData
  <2>3. cpu' \in Thread
    BY <1>4, ThreadAt DEF ReadData
  <2> QED
    BY <1>4, <2>2, <2>3 DEF ReadData, flags, timers
<1>5. CASE Flush
  <2>1. gone' \in SUBSET Nat
    BY <1>5, RangeTyped DEF Flush
  <2>2. receiveFifo' \in Seq(Nat)
    BY <1>5 DEF Flush
  <2>3. cpu' \in Thread
    BY <1>5, ThreadAt DEF Flush
  <2> QED
    BY <1>5, <2>1, <2>2, <2>3 DEF Flush, flags, timers
<1>6. CASE ResetQueues
  <2>1. gone' \in SUBSET Nat
    BY <1>6, RangeTyped DEF ResetQueues
  <2>4. resets' \in Nat
    BY <1>6 DEF ResetQueues
  <2>5. cpu' \in Thread
    BY <1>6, ThreadAt DEF ResetQueues
  <2>2. transmitFifo' \in Seq(Nat) /\ receiveWire' \in Seq(Nat) /\ receiveFifo' \in Seq(Nat)
    BY <1>6 DEF ResetQueues
  <2>3. raced' \in BOOLEAN
    BY <1>6 DEF ResetQueues
  <2> QED
    BY <1>6, <2>1, <2>2, <2>3, <2>4, <2>5 DEF ResetQueues, flags, timers
<1>7. QED
  BY <1>1, <1>2, <1>3, <1>4, <1>5, <1>6 DEF Firmware

LEMMA LevelTyped == Level \in BOOLEAN
BY DEF Level

LEMMA CpuTyped ==
    ASSUME TypeOK, CpuStep
    PROVE  TypeOK'
<1> USE DEF CpuGoes, At, TypeOK
<1>1. CASE CheckTx
  BY <1>1, ThreadAt DEF CheckTx, queues, flags, timers, history
<1>2. CASE StartTx
  BY <1>2, ThreadAt DEF StartTx, queues, flags, history
<1>3. CASE CpuUpdate
  BY <1>3, ThreadAt, LevelTyped DEF CpuUpdate, queues, flags, timers, history
<1>4. CASE CpuSet
  BY <1>4, ThreadAt DEF CpuSet, queues, flags, timers, history, Thread
<1>5. CASE ResetTimers
  BY <1>5, ThreadAt DEF ResetTimers, queues, history
<1>6. CASE ResetControl
  BY <1>6, ThreadAt DEF ResetControl, queues, flags, timers, history, Off, Control
<1>7. QED
  BY <1>1, <1>2, <1>3, <1>4, <1>5, <1>6 DEF CpuStep

LEMMA HostTyped ==
    ASSUME TypeOK, Offer \/ HostStep
    PROVE  TypeOK'
<1> USE DEF HostGoes, At, TypeOK
<1>1. CASE Offer
  <2>1. written' \in Nat
    BY <1>1 DEF Offer
  <2>3. host' \in Thread
    BY <1>1, <2>1, ThreadAt DEF Offer
  <2>2. raced' \in BOOLEAN
    BY <1>1 DEF Offer
  <2> QED
    BY <1>1, <2>1, <2>2, <2>3 DEF Offer, queues, flags, timers
<1>2. CASE Put
  BY <1>2, ThreadAt DEF Put, flags, timers, history, Thread
<1>3. CASE CheckRx
  BY <1>3, ThreadAt DEF CheckRx, queues, flags, timers, history
<1>4. CASE StartRx
  BY <1>4, ThreadAt, UartAssumption DEF StartRx, queues, flags, history
<1>5. QED
  BY <1>1, <1>2, <1>3, <1>4 DEF HostStep

\* Time passes only while no timer has run down, so none goes below zero.
LEMMA ClockTyped ==
    ASSUME TypeOK, Pass \/ ClkStep
    PROVE  TypeOK'
<1> USE DEF ClkGoes, At, TypeOK
<1>1. CASE Pass
  BY <1>1 DEF Pass, RxDue, IdleDue, queues, flags, history
<1>2. CASE FireTx
  <2>1. transmitFifo # <<>> => Head(transmitFifo) \in Nat /\ Tail(transmitFifo) \in Seq(Nat)
    BY HeadTailProperties
  <2>2. transmitFifo' \in Seq(Nat) /\ sent' \in Seq(Nat)
    <3>1. CASE transmitFifo = <<>>
      BY <1>2, <3>1 DEF FireTx
    <3>2. CASE transmitFifo # <<>>
      <4>1. transmitFifo' = Tail(transmitFifo) /\ sent' = Append(sent, Head(transmitFifo))
        BY <1>2, <3>2 DEF FireTx
      <4> QED
        BY <2>1, <3>2, <4>1, AppendProperties
    <3> QED
      BY <3>1, <3>2
  <2>3. clk' \in Thread
    BY <1>2, ThreadAt DEF FireTx
  <2> QED
    BY <1>2, <2>2, <2>3 DEF FireTx, flags, timers
<1>3. CASE TxEmpty
  BY <1>3, ThreadAt DEF TxEmpty, queues, flags, timers, history
<1>4. CASE TxStop
  BY <1>4, ThreadAt DEF TxStop, queues, flags, history
<1>5. CASE TxRecheck
  BY <1>5, ThreadAt DEF TxRecheck, Rearmed, queues, flags, history
<1>6. CASE ClkUpdate
  BY <1>6, ThreadAt, LevelTyped DEF ClkUpdate, queues, flags, timers, history
<1>7. CASE ClkSet
  BY <1>7, ThreadAt DEF ClkSet, queues, flags, timers, history, Thread
<1>8. CASE FireRx
  <2>1. receiveWire # <<>> => Head(receiveWire) \in Nat /\ Tail(receiveWire) \in Seq(Nat)
    BY HeadTailProperties
  <2> QED
    BY <1>8, <2>1, ThreadAt, UartAssumption DEF FireRx, flags
<1>9. CASE RxStore
  <2>1. clk.byte \in Nat /\ clk' \in Thread /\ idleLeft' \in Nat
    BY <1>9, ThreadAt, UartAssumption DEF RxStore, IdleTicks, Thread
  <2>2. receiveFifo' \in Seq(Nat) /\ gone' \in SUBSET Nat
    <3>1. CASE Room
      <4>1. receiveFifo' = Append(receiveFifo, clk.byte) /\ gone' = gone
        BY <1>9, <3>1 DEF RxStore
      <4> QED
        BY <2>1, <4>1, AppendProperties
    <3>2. CASE ~Room
      BY <1>9, <2>1, <3>2 DEF RxStore
    <3> QED
      BY <3>1, <3>2
  <2>3. overrun' \in BOOLEAN /\ more' \in BOOLEAN /\ idleOn' \in BOOLEAN
    BY <1>9 DEF RxStore
  <2> QED
    BY <1>9, <2>1, <2>2, <2>3 DEF RxStore
<1>10. CASE RxUpdate
  BY <1>10, ThreadAt, LevelTyped DEF RxUpdate, queues, flags, timers, history
<1>11. CASE RxSet
  BY <1>11, ThreadAt DEF RxSet, queues, flags, timers, history, Thread
<1>12. CASE RxEmpty
  BY <1>12, ThreadAt DEF RxEmpty, queues, flags, timers, history
<1>13. CASE RxStop
  BY <1>13, ThreadAt DEF RxStop, queues, flags, history
<1>14. CASE RxRecheck
  BY <1>14, ThreadAt DEF RxRecheck, Rearmed, queues, flags, history
<1>15. CASE FireIdle
  BY <1>15, ThreadAt DEF FireIdle, queues, flags, history
<1>16. QED
  BY <1>1, <1>2, <1>3, <1>4, <1>5, <1>6, <1>7, <1>8, <1>9, <1>10, <1>11, <1>12,
     <1>13, <1>14, <1>15 DEF ClkStep

\* All variables keep their types; timers never run below zero.
THEOREM UartTypeCorrect == Spec => []TypeOK
<1>1. Init => TypeOK
  <2>1. Init => ctl \in Control
    BY DEF Init, Off, Control
  <2>2. Init => cpu \in Thread /\ host \in Thread /\ clk \in Thread
    BY ThreadAt DEF Init, At
  <2>3. Init => /\ transmitFifo \in Seq(Nat) /\ receiveWire \in Seq(Nat) /\ receiveFifo \in Seq(Nat)
                /\ sent \in Seq(Nat) /\ read \in Seq(Nat)
    BY DEF Init
  <2>4. Init => /\ {idle, overrun, txOn, rxOn, idleOn, irq, more, raced} \subseteq BOOLEAN
    BY DEF Init
  <2>5. Init => /\ {rxLeft, idleLeft, written, queued, resets} \subseteq Nat /\ gone \subseteq Nat
    BY DEF Init
  <2> QED
    BY <2>1, <2>2, <2>3, <2>4, <2>5 DEF TypeOK
<1>2. TypeOK /\ [Next]_vars => TypeOK'
  <2>1. TypeOK /\ UNCHANGED vars => TypeOK'
    BY DEF vars, queues, flags, timers, history, TypeOK
  <2> QED
    BY <2>1, FirmwareTyped, CpuTyped, HostTyped, ClockTyped DEF Next
<1>3. QED
  BY <1>1, <1>2, PTL DEF Spec

-----------------------------------------------------------------------------
(* Bytes arrive in order. *)

Rise(s) == \A j, k \in DOMAIN s : j < k => s[j] < s[k]
Below(S, T) == \A x \in S, y \in T : x < y

LEMMA RangeEmpty == Range(<<>>) = {} /\ Rise(<<>>)
BY DEF Range, Rise

LEMMA RangeAppend ==
    ASSUME NEW s \in Seq(Nat), NEW x \in Nat
    PROVE  /\ Range(Append(s, x)) = Range(s) \cup {x}
           /\ Rise(s) /\ Below(Range(s), {x}) => Rise(Append(s, x))
<1>1. /\ Append(s, x) \in Seq(Nat)
      /\ Len(Append(s, x)) = Len(s) + 1
      /\ \A i \in 1 .. Len(s) : Append(s, x)[i] = s[i]
      /\ Append(s, x)[Len(s) + 1] = x
  BY AppendProperties
<1>2. DOMAIN s = 1 .. Len(s) /\ DOMAIN Append(s, x) = 1 .. Len(s) + 1 /\ Len(s) \in Nat
  BY <1>1
<1>3. Range(Append(s, x)) = Range(s) \cup {x}
  BY <1>1, <1>2 DEF Range
<1>4. ASSUME Rise(s), Below(Range(s), {x}) PROVE Rise(Append(s, x))
  <2>1. \A i \in DOMAIN s : s[i] < x
    BY <1>4 DEF Below, Range
  <2> QED
    BY <1>1, <1>2, <1>4, <2>1 DEF Rise
<1> QED
  BY <1>3, <1>4

LEMMA RangeTail ==
    ASSUME NEW s \in Seq(Nat), s # <<>>
    PROVE  /\ Head(s) \in Nat /\ Tail(s) \in Seq(Nat)
           /\ Range(s) = {Head(s)} \cup Range(Tail(s))
           /\ Rise(s) => Rise(Tail(s)) /\ Below({Head(s)}, Range(Tail(s)))
<1>1. /\ Head(s) \in Nat /\ Tail(s) \in Seq(Nat)
      /\ Len(Tail(s)) = Len(s) - 1
      /\ \A i \in 1 .. Len(Tail(s)) : Tail(s)[i] = s[i + 1]
  BY HeadTailProperties
<1>2. Head(s) = s[1] /\ Len(s) \in Nat \ {0}
  BY EmptySeq
<1>3. DOMAIN s = 1 .. Len(s) /\ DOMAIN Tail(s) = 1 .. Len(s) - 1
  BY <1>1, <1>2
<1>4. Range(s) = {Head(s)} \cup Range(Tail(s))
  <2>1. \A i \in DOMAIN s : i = 1 \/ (i - 1 \in DOMAIN Tail(s) /\ s[i] = Tail(s)[i - 1])
    BY <1>1, <1>2, <1>3
  <2>2. \A i \in DOMAIN Tail(s) : i + 1 \in DOMAIN s /\ s[i + 1] = Tail(s)[i]
    BY <1>1, <1>2, <1>3
  <2>3. 1 \in DOMAIN s
    BY <1>2, <1>3
  <2>4. \A x : x \in Range(s) => x \in {Head(s)} \cup Range(Tail(s))
    BY <1>2, <2>1 DEF Range
  <2>5. \A x : x \in {Head(s)} \cup Range(Tail(s)) => x \in Range(s)
    BY <1>2, <2>2, <2>3 DEF Range
  <2> QED
    BY <2>4, <2>5
<1>5. ASSUME Rise(s) PROVE Rise(Tail(s)) /\ Below({Head(s)}, Range(Tail(s)))
  <2>1. \A i \in DOMAIN Tail(s) :
            i \in Nat /\ i > 0 /\ i + 1 \in DOMAIN s /\ Tail(s)[i] = s[i + 1]
    BY <1>1, <1>2, <1>3
  <2>2. Rise(Tail(s))
    <3> SUFFICES ASSUME NEW j \in DOMAIN Tail(s), NEW k \in DOMAIN Tail(s), j < k
                 PROVE  Tail(s)[j] < Tail(s)[k]
      BY DEF Rise
    <3>1. j + 1 < k + 1
      BY <2>1
    <3> QED
      BY <1>5, <2>1, <3>1 DEF Rise
  <2>3. \A i \in DOMAIN Tail(s) : s[1] < Tail(s)[i]
    <3>1. 1 \in DOMAIN s
      BY <1>2, <1>3
    <3> SUFFICES ASSUME NEW i \in DOMAIN Tail(s) PROVE s[1] < s[i + 1]
      BY <2>1
    <3>2. 1 < i + 1
      BY <2>1
    <3> QED
      BY <1>5, <2>1, <3>1, <3>2 DEF Rise
  <2> QED
    BY <1>2, <2>2, <2>3 DEF Below, Range
<1> QED
  BY <1>1, <1>4, <1>5

LEMMA RangeConcat ==
    ASSUME NEW s \in Seq(Nat), NEW t \in Seq(Nat)
    PROVE  /\ s \o t \in Seq(Nat)
           /\ Range(s \o t) = Range(s) \cup Range(t)
           /\ Rise(s) /\ Rise(t) /\ Below(Range(s), Range(t)) => Rise(s \o t)
<1>1. /\ s \o t \in Seq(Nat)
      /\ Len(s \o t) = Len(s) + Len(t)
      /\ \A i \in 1 .. Len(s) + Len(t) :
            (s \o t)[i] = IF i <= Len(s) THEN s[i] ELSE t[i - Len(s)]
  BY ConcatProperties
<1>2. /\ DOMAIN s = 1 .. Len(s) /\ DOMAIN t = 1 .. Len(t)
      /\ DOMAIN (s \o t) = 1 .. Len(s) + Len(t) /\ Len(s) \in Nat /\ Len(t) \in Nat
  BY <1>1
<1> DEFINE c == s \o t
<1>3. /\ \A i \in DOMAIN s : i \in DOMAIN c /\ c[i] = s[i]
      /\ \A i \in DOMAIN t : Len(s) + i \in DOMAIN c /\ c[Len(s) + i] = t[i]
      /\ \A i \in DOMAIN c : \/ i \in DOMAIN s /\ c[i] = s[i]
                             \/ i > Len(s) /\ i - Len(s) \in DOMAIN t /\ c[i] = t[i - Len(s)]
  BY <1>1, <1>2
<1> HIDE DEF c
<1>4. Range(c) = Range(s) \cup Range(t)
  BY <1>3 DEF Range
<1>5. ASSUME Rise(s), Rise(t), Below(Range(s), Range(t)) PROVE Rise(c)
  <2>1. \A i \in DOMAIN s, j \in DOMAIN t : s[i] < t[j]
    BY <1>5 DEF Below, Range
  <2>2. DOMAIN c \subseteq Nat /\ DOMAIN s \subseteq 1 .. Len(s)
    BY <1>2 DEF c
  <2> SUFFICES ASSUME NEW j \in DOMAIN c, NEW k \in DOMAIN c, j < k PROVE c[j] < c[k]
    BY DEF Rise
  <2>3. CASE k \in DOMAIN s /\ c[k] = s[k]
    <3>1. j \in DOMAIN s /\ c[j] = s[j]
      BY <1>2, <1>3, <2>2, <2>3
    <3> QED
      BY <1>5, <2>3, <3>1 DEF Rise
  <2>4. CASE k > Len(s) /\ k - Len(s) \in DOMAIN t /\ c[k] = t[k - Len(s)]
    <3>1. CASE j \in DOMAIN s /\ c[j] = s[j]
      BY <2>1, <2>4, <3>1
    <3>2. CASE j > Len(s) /\ j - Len(s) \in DOMAIN t /\ c[j] = t[j - Len(s)]
      <4>1. j - Len(s) < k - Len(s)
        BY <1>2, <2>2
      <4> QED
        BY <1>5, <2>4, <3>2, <4>1 DEF Rise
    <3> QED
      BY <1>3, <3>1, <3>2
  <2> QED
    BY <1>3, <2>3, <2>4
<1> QED
  BY <1>1, <1>4, <1>5 DEF c

\* The bytes of a line in five stretches and those that are gone.
Lined(r, f, h, w, c, lost, n) ==
    /\ Below(r, f \cup h \cup w \cup c) /\ Below(f, h \cup w \cup c)
    /\ Below(h, w \cup c) /\ Below(w, c)
    /\ (r \cup f \cup h \cup w \cup c) \cup lost = 1 .. n
    /\ (r \cup f \cup h \cup w \cup c) \cap lost = {}

Hand == IF clk.pc = "rxStore" THEN {clk.byte} ELSE {}
Held == IF host.pc = "put" THEN {host.byte} ELSE {}

\* Each of read, FIFO, hand, wire and host rises, and each is before the next.
InLine ==
    /\ Rise(read) /\ Rise(receiveFifo) /\ Rise(receiveWire)
    /\ Lined(Range(read), Range(receiveFifo), Hand, Range(receiveWire), Held, gone, written)
    /\ Len(receiveFifo) <= Depth /\ Len(transmitFifo) <= Depth

LEMMA CapacityBound == Capacity \in Nat /\ Capacity <= Depth
BY UartAssumption DEF Capacity

\* A step that moves no received byte.
LEMMA Unmoved ==
    ASSUME InLine,
           UNCHANGED <<read, receiveFifo, receiveWire, gone, written, transmitFifo, Hand, Held>>
    PROVE  InLine'
BY DEF InLine

LEMMA InLineInit == Init => InLine
<1> SUFFICES ASSUME Init PROVE InLine
  OBVIOUS
<1>1. Hand = {} /\ Held = {} /\ gone = {} /\ written = 0
  BY DEF Init, At, Hand, Held
<1>2. /\ read = <<>> /\ receiveFifo = <<>> /\ receiveWire = <<>>
      /\ Len(receiveFifo) = 0 /\ Len(transmitFifo) = 0
  BY DEF Init
<1>3. Lined({}, {}, {}, {}, {}, {}, 0)
  BY DEF Lined, Below
<1> QED
  BY <1>1, <1>2, <1>3, RangeEmpty, UartAssumption DEF InLine

LEMMA FirmwareLined ==
    ASSUME TypeOK, InLine, Firmware
    PROVE  InLine'
<1>1. CASE \E c \in Configs : Configure(c)
  BY <1>1, Unmoved DEF Configure, queues, timers, history, Hand, Held
<1>2. CASE \E value \in SUBSET {"idle", "ore"} : ClearFlags(value)
  BY <1>2, Unmoved DEF ClearFlags, queues, timers, history, Hand, Held
<1>3. CASE WriteData
  <2>1. Len(transmitFifo') = Len(transmitFifo) + 1 /\ Len(transmitFifo) \in Nat
    BY <1>3, AppendProperties DEF WriteData, TypeOK
  <2>2. Len(transmitFifo') <= Depth
    BY <1>3, <2>1, CapacityBound, UartAssumption DEF WriteData, TxAvailable
  <2>3. UNCHANGED <<read, receiveFifo, receiveWire, gone, written, Hand, Held>>
    BY <1>3 DEF WriteData, Hand, Held
  <2> QED
    BY <2>2, <2>3 DEF InLine
<1>4. CASE ReadData
  <2> DEFINE x == Head(receiveFifo)
  <2>1. /\ read' = Append(read, x) /\ receiveFifo' = Tail(receiveFifo) /\ receiveFifo # <<>>
        /\ UNCHANGED <<receiveWire, gone, written, transmitFifo, Hand, Held>>
    BY <1>4 DEF ReadData, Hand, Held
  <2>2. /\ x \in Nat /\ Tail(receiveFifo) \in Seq(Nat)
        /\ Range(receiveFifo) = {x} \cup Range(receiveFifo')
        /\ Rise(receiveFifo') /\ Below({x}, Range(receiveFifo'))
    BY <2>1, RangeTail DEF InLine, TypeOK
  <2>3. Len(receiveFifo') <= Depth
    BY <2>1, HeadTailProperties, UartAssumption DEF InLine, TypeOK
  <2> HIDE DEF x
  <2>4. Below(Range(read), {x})
    BY <2>2 DEF InLine, Lined, Below
  <2>5. Range(read') = Range(read) \cup {x} /\ Rise(read')
    BY <2>1, <2>2, <2>4, RangeAppend DEF InLine, TypeOK
  <2>6. ASSUME NEW r, NEW f, NEW h, NEW w, NEW c, NEW l, NEW n,
               Lined(r, {x} \cup f, h, w, c, l, n), Below({x}, f)
        PROVE  Lined(r \cup {x}, f, h, w, c, l, n)
    <3>1. (r \cup {x}) \cup f \cup h \cup w \cup c = r \cup ({x} \cup f) \cup h \cup w \cup c
      OBVIOUS
    <3>2. Below(r \cup {x}, f \cup h \cup w \cup c) /\ Below(f, h \cup w \cup c)
      BY <2>6 DEF Lined, Below
    <3> QED
      BY <2>6, <3>1, <3>2 DEF Lined
  <2>7. Lined(Range(read), {x} \cup Range(receiveFifo'), Hand, Range(receiveWire), Held,
              gone, written)
    BY <2>2 DEF InLine
  <2>8. Lined(Range(read) \cup {x}, Range(receiveFifo'), Hand, Range(receiveWire), Held,
              gone, written)
    BY <2>2, <2>6, <2>7
  <2>9. Lined(Range(read'), Range(receiveFifo'), Hand', Range(receiveWire'), Held', gone', written')
    BY <2>1, <2>5, <2>8
  <2> QED
    BY <2>1, <2>2, <2>3, <2>5, <2>9 DEF InLine
<1>5. CASE Flush
  <2>1. /\ receiveFifo' = <<>> /\ gone' = gone \cup Range(receiveFifo)
        /\ UNCHANGED <<read, receiveWire, written, transmitFifo, Hand, Held>>
    BY <1>5 DEF Flush, Hand, Held
  <2>2. ASSUME NEW r, NEW f, NEW h, NEW w, NEW c, NEW l, NEW n,
               Lined(r, f, h, w, c, l, n)
        PROVE  Lined(r, {}, h, w, c, l \cup f, n)
    <3>1. r \cap f = {} /\ h \cap f = {} /\ w \cap f = {} /\ c \cap f = {}
      <4>1. r \cup f \cup h \cup w \cup c \subseteq Nat
        BY <2>2 DEF Lined
      <4>2. \A y \in Nat : ~(y < y)
        OBVIOUS
      <4> QED
        BY <2>2, <4>1, <4>2 DEF Lined, Below
    <3> QED
      BY <2>2, <3>1 DEF Lined, Below
  <2>3. Range(receiveFifo') = {} /\ Rise(receiveFifo') /\ Len(receiveFifo') = 0
    BY <2>1, RangeEmpty
  <2>4. Lined(Range(read), {}, Hand, Range(receiveWire), Held,
              gone \cup Range(receiveFifo), written)
    BY <2>2 DEF InLine
  <2>5. Lined(Range(read'), Range(receiveFifo'), Hand', Range(receiveWire'), Held', gone', written')
    BY <2>1, <2>3, <2>4
  <2> QED
    BY <2>1, <2>3, <2>5, UartAssumption DEF InLine
<1>6. CASE ResetQueues
  <2>1. /\ receiveFifo' = <<>> /\ receiveWire' = <<>> /\ transmitFifo' = <<>>
        /\ gone' = (gone \cup Range(receiveWire)) \cup Range(receiveFifo)
        /\ UNCHANGED <<read, written, Hand, Held>>
    BY <1>6 DEF ResetQueues, Hand, Held
  <2>2. ASSUME NEW r, NEW f, NEW h, NEW w, NEW c, NEW l, NEW n,
               Lined(r, f, h, w, c, l, n)
        PROVE  Lined(r, {}, h, {}, c, (l \cup w) \cup f, n)
    <3>1. /\ r \cap f = {} /\ h \cap f = {} /\ w \cap f = {} /\ c \cap f = {}
          /\ r \cap w = {} /\ h \cap w = {} /\ c \cap w = {}
      <4>1. r \cup f \cup h \cup w \cup c \subseteq Nat
        BY <2>2 DEF Lined
      <4>2. \A y \in Nat : ~(y < y)
        OBVIOUS
      <4> QED
        BY <2>2, <4>1, <4>2 DEF Lined, Below
    <3> QED
      BY <2>2, <3>1 DEF Lined, Below
  <2>3. /\ Range(receiveFifo') = {} /\ Rise(receiveFifo') /\ Len(receiveFifo') = 0
        /\ Range(receiveWire') = {} /\ Rise(receiveWire') /\ Len(transmitFifo') = 0
    BY <2>1, RangeEmpty
  <2>4. Lined(Range(read), {}, Hand, {}, Held,
              (gone \cup Range(receiveWire)) \cup Range(receiveFifo), written)
    BY <2>2 DEF InLine
  <2>5. Lined(Range(read'), Range(receiveFifo'), Hand', Range(receiveWire'), Held', gone', written')
    BY <2>1, <2>3, <2>4
  <2> QED
    BY <2>1, <2>3, <2>5, UartAssumption DEF InLine
<1>7. QED
  BY <1>1, <1>2, <1>3, <1>4, <1>5, <1>6 DEF Firmware

LEMMA CpuLined ==
    ASSUME TypeOK, InLine, CpuStep
    PROVE  InLine'
<1> USE DEF CpuGoes, At, Hand, Held
<1>1. CASE CheckTx
  BY <1>1, Unmoved DEF CheckTx, queues, timers, history
<1>2. CASE StartTx
  BY <1>2, Unmoved DEF StartTx, queues, history
<1>3. CASE CpuUpdate
  BY <1>3, Unmoved DEF CpuUpdate, queues, timers, history
<1>4. CASE CpuSet
  BY <1>4, Unmoved DEF CpuSet, queues, timers, history
<1>5. CASE ResetTimers
  BY <1>5, Unmoved DEF ResetTimers, queues, history
<1>6. CASE ResetControl
  BY <1>6, Unmoved DEF ResetControl, queues, timers, history
<1>7. QED
  BY <1>1, <1>2, <1>3, <1>4, <1>5, <1>6 DEF CpuStep

LEMMA HostLined ==
    ASSUME TypeOK, InLine, Offer \/ HostStep
    PROVE  InLine'
<1>1. CASE Offer
  <2>1. /\ written' = written + 1 /\ Held = {} /\ Held' = {written + 1}
        /\ UNCHANGED <<read, receiveFifo, receiveWire, gone, transmitFifo, Hand>>
    BY <1>1 DEF Offer, queues, Hand, Held
  <2>2. ASSUME NEW r, NEW f, NEW h, NEW w, NEW l, NEW n \in Nat,
               Lined(r, f, h, w, {}, l, n)
        PROVE  Lined(r, f, h, w, {n + 1}, l, n + 1)
    <3>1. (r \cup f \cup h \cup w) \cup l = 1 .. n
      BY <2>2 DEF Lined
    <3>2. 1 .. n + 1 = 1 .. n \cup {n + 1} /\ Below(1 .. n, {n + 1}) /\ n + 1 \notin 1 .. n
      BY DEF Below
    <3>3. Below(r, {n + 1}) /\ Below(f, {n + 1}) /\ Below(h, {n + 1}) /\ Below(w, {n + 1})
      BY <3>1, <3>2 DEF Below
    <3>4. n + 1 \notin l
      BY <3>1, <3>2
    <3> QED
      BY <2>2, <3>1, <3>2, <3>3, <3>4 DEF Lined, Below
  <2> QED
    BY <2>1, <2>2 DEF InLine, TypeOK
<1>2. CASE Put
  <2> DEFINE x == host.byte
  <2>1. /\ receiveWire' = Append(receiveWire, x) /\ Held = {x} /\ Held' = {} /\ x \in Nat
        /\ UNCHANGED <<read, receiveFifo, gone, written, transmitFifo, Hand>>
    BY <1>2 DEF Put, HostGoes, At, history, Hand, Held, TypeOK, Thread
  <2> HIDE DEF x
  <2>2. Below(Range(receiveWire), {x})
    BY <2>1 DEF InLine, Lined
  <2>3. Range(receiveWire') = Range(receiveWire) \cup {x} /\ Rise(receiveWire')
    BY <2>1, <2>2, RangeAppend DEF InLine, TypeOK
  <2>4. ASSUME NEW r, NEW f, NEW h, NEW w, NEW l, NEW n,
               Lined(r, f, h, w, {x}, l, n)
        PROVE  Lined(r, f, h, w \cup {x}, {}, l, n)
    BY <2>4 DEF Lined, Below
  <2>5. Lined(Range(read), Range(receiveFifo), Hand, Range(receiveWire), {x}, gone, written)
    BY <2>1 DEF InLine
  <2>6. Lined(Range(read), Range(receiveFifo), Hand, Range(receiveWire) \cup {x}, {},
              gone, written)
    BY <2>4, <2>5
  <2>7. Lined(Range(read'), Range(receiveFifo'), Hand', Range(receiveWire'), Held', gone', written')
    BY <2>1, <2>3, <2>6
  <2> QED
    BY <2>1, <2>3, <2>7 DEF InLine
<1>3. CASE CheckRx
  BY <1>3, Unmoved DEF CheckRx, HostGoes, At, queues, timers, history, Hand, Held
<1>4. CASE StartRx
  BY <1>4, Unmoved DEF StartRx, HostGoes, At, queues, history, Hand, Held
<1>5. QED
  BY <1>1, <1>2, <1>3, <1>4 DEF HostStep

LEMMA ClockLined ==
    ASSUME TypeOK, InLine, Pass \/ ClkStep
    PROVE  InLine'
<1>1. CASE Pass
  BY <1>1, Unmoved DEF Pass, queues, history, Hand, Held
<1>2. CASE FireTx
  <2>1. UNCHANGED <<read, receiveFifo, receiveWire, gone, written, Hand, Held>>
    BY <1>2 DEF FireTx, ClkGoes, At, Hand, Held
  <2>2. Len(transmitFifo') <= Depth
    BY <1>2, HeadTailProperties, UartAssumption DEF FireTx, InLine, TypeOK
  <2> QED
    BY <2>1, <2>2 DEF InLine
<1>8. CASE FireRx
  <2>1. Hand = {} /\ UNCHANGED <<read, receiveFifo, written, transmitFifo, Held>>
    BY <1>8 DEF FireRx, Hand, Held
  <2>2. CASE receiveWire = <<>>
    BY <1>8, <2>1, <2>2, Unmoved DEF FireRx, At, Hand
  <2>3. CASE receiveWire # <<>>
    <3> DEFINE x == Head(receiveWire)
    <3>1. /\ x \in Nat /\ Range(receiveWire) = {x} \cup Range(Tail(receiveWire))
          /\ Rise(Tail(receiveWire)) /\ Below({x}, Range(Tail(receiveWire)))
      BY <2>3, RangeTail DEF InLine, TypeOK
    <3>2. receiveWire' = Tail(receiveWire)
      BY <1>8, <2>3 DEF FireRx
    <3>3. \/ Hand' = {} /\ gone' = gone \cup {x}
          \/ Hand' = {x} /\ gone' = gone
      BY <1>8, <2>3 DEF FireRx, At, Hand
    <3> HIDE DEF x
    <3>4. ASSUME NEW r, NEW f, NEW w, NEW c, NEW l, NEW n,
                 Lined(r, f, {}, {x} \cup w, c, l, n), Below({x}, w)
          PROVE  Lined(r, f, {}, w, c, l \cup {x}, n) /\ Lined(r, f, {x}, w, c, l, n)
      <4>1. Lined(r, f, {x}, w, c, l, n)
        BY <3>4 DEF Lined, Below
      <4>2. x \notin r /\ x \notin f /\ x \notin w /\ x \notin c
        <5>1. ~(x < x)
          BY <3>1
        <5> QED
          BY <4>1, <5>1 DEF Lined, Below
      <4> QED
        BY <4>1, <4>2 DEF Lined, Below
    <3>5. Lined(Range(read), Range(receiveFifo), {}, {x} \cup Range(receiveWire'), Held,
                gone, written)
      BY <2>1, <3>1, <3>2 DEF InLine
    <3>6. /\ Lined(Range(read), Range(receiveFifo), {}, Range(receiveWire'), Held,
                   gone \cup {x}, written)
          /\ Lined(Range(read), Range(receiveFifo), {x}, Range(receiveWire'), Held,
                   gone, written)
      BY <3>1, <3>2, <3>4, <3>5
    <3>7. Lined(Range(read'), Range(receiveFifo'), Hand', Range(receiveWire'), Held', gone', written')
      BY <2>1, <3>3, <3>6
    <3> QED
      BY <2>1, <3>1, <3>2, <3>7 DEF InLine
  <2> QED
    BY <2>2, <2>3
<1>9. CASE RxStore
  <2> DEFINE x == clk.byte
  <2>1. /\ Hand = {x} /\ Hand' = {} /\ x \in Nat
        /\ UNCHANGED <<read, receiveWire, written, transmitFifo, Held>>
    BY <1>9 DEF RxStore, ClkGoes, At, Hand, Held, TypeOK, Thread
  <2>2. CASE Room
    <3>1. receiveFifo' = Append(receiveFifo, x) /\ gone' = gone
      BY <1>9, <2>2 DEF RxStore
    <3> HIDE DEF x
    <3>2. Below(Range(receiveFifo), {x})
      BY <2>1 DEF InLine, Lined, Below
    <3>3. Range(receiveFifo') = Range(receiveFifo) \cup {x} /\ Rise(receiveFifo')
      BY <2>1, <3>1, <3>2, RangeAppend DEF InLine, TypeOK
    <3>4. Len(receiveFifo') <= Depth
      <4>1. Len(receiveFifo') = Len(receiveFifo) + 1 /\ Len(receiveFifo) \in Nat
        BY <2>1, <3>1, AppendProperties DEF TypeOK
      <4> QED
        BY <2>2, <4>1, CapacityBound, UartAssumption DEF Room
    <3>5. ASSUME NEW r, NEW f, NEW w, NEW c, NEW l, NEW n, Lined(r, f, {x}, w, c, l, n)
          PROVE  Lined(r, f \cup {x}, {}, w, c, l, n)
      BY <3>5 DEF Lined, Below
    <3>6. Lined(Range(read), Range(receiveFifo), {x}, Range(receiveWire), Held, gone, written)
      BY <2>1 DEF InLine
    <3>7. Lined(Range(read), Range(receiveFifo) \cup {x}, {}, Range(receiveWire), Held,
                gone, written)
      BY <3>5, <3>6
    <3>8. Lined(Range(read'), Range(receiveFifo'), Hand', Range(receiveWire'), Held', gone', written')
      BY <2>1, <3>1, <3>3, <3>7
    <3> QED
      BY <2>1, <3>1, <3>3, <3>4, <3>8 DEF InLine
  <2>3. CASE ~Room
    <3>1. receiveFifo' = receiveFifo /\ gone' = gone \cup {x}
      BY <1>9, <2>3 DEF RxStore
    <3> HIDE DEF x
    <3>2. ASSUME NEW r, NEW f, NEW w, NEW c, NEW l, NEW n, Lined(r, f, {x}, w, c, l, n)
          PROVE  Lined(r, f, {}, w, c, l \cup {x}, n)
      <4>1. x \notin r /\ x \notin f /\ x \notin w /\ x \notin c
        <5>1. ~(x < x)
          BY <2>1
        <5> QED
          BY <3>2, <5>1 DEF Lined, Below
      <4> QED
        BY <3>2, <4>1 DEF Lined, Below
    <3> QED
      BY <2>1, <3>1, <3>2 DEF InLine
  <2> QED
    BY <2>2, <2>3
<1>10. CASE \/ TxEmpty \/ TxStop \/ TxRecheck \/ ClkUpdate \/ ClkSet \/ RxUpdate \/ RxSet
            \/ RxEmpty \/ RxStop \/ RxRecheck \/ FireIdle
  <2>1. /\ UNCHANGED <<queues, history, host>>
        /\ clk.pc # "rxStore" /\ clk'.pc # "rxStore"
    <3> USE DEF ClkGoes, At
    <3>1. CASE TxEmpty \/ TxStop \/ TxRecheck \/ ClkUpdate \/ ClkSet
      BY <3>1 DEF TxEmpty, TxStop, TxRecheck, ClkUpdate, ClkSet, queues
    <3>2. CASE RxUpdate \/ RxSet \/ RxEmpty \/ RxStop
      BY <3>2 DEF RxUpdate, RxSet, RxEmpty, RxStop, queues
    <3>3. CASE RxRecheck \/ FireIdle
      BY <3>3 DEF RxRecheck, FireIdle, queues
    <3> QED
      BY <1>10, <3>1, <3>2, <3>3
  <2>2. UNCHANGED <<Hand, Held>>
    BY <2>1 DEF Hand, Held
  <2> QED
    BY <2>1, <2>2, Unmoved DEF queues, history
<1>16. QED
  BY <1>1, <1>2, <1>8, <1>9, <1>10 DEF ClkStep

\* What the five stretches say of the line as a whole.
LEMMA LineRises == TypeOK /\ InLine => ReceivedInOrder
<1> SUFFICES ASSUME TypeOK, InLine PROVE ReceivedInOrder
  OBVIOUS
<1> DEFINE l1 == read \o receiveFifo
           l2 == l1 \o InHand
           l3 == l2 \o receiveWire
           l4 == l3 \o Coming
<1>1. ASSUME NEW x \in Nat
      PROVE  <<x>> \in Seq(Nat) /\ Range(<<x>>) = {x} /\ Rise(<<x>>)
  BY DEF Range, Rise
<1>2. InHand \in Seq(Nat) /\ Range(InHand) = Hand /\ Rise(InHand)
  <2>1. clk.byte \in Nat
    BY DEF TypeOK, Thread
  <2>2. CASE clk.pc = "rxStore"
    <3>1. InHand = <<clk.byte>> /\ Hand = {clk.byte}
      BY <2>2 DEF InHand, Hand
    <3> QED
      BY <1>1, <2>1, <3>1
  <2>3. CASE clk.pc # "rxStore"
    BY <2>3, RangeEmpty DEF InHand, Hand
  <2> QED
    BY <2>2, <2>3
<1>3. Coming \in Seq(Nat) /\ Range(Coming) = Held /\ Rise(Coming)
  <2>1. host.byte \in Nat
    BY DEF TypeOK, Thread
  <2>2. CASE host.pc = "put"
    <3>1. Coming = <<host.byte>> /\ Held = {host.byte}
      BY <2>2 DEF Coming, Held
    <3> QED
      BY <1>1, <2>1, <3>1
  <2>3. CASE host.pc # "put"
    BY <2>3, RangeEmpty DEF Coming, Held
  <2> QED
    BY <2>2, <2>3
<1> DEFINE r == Range(read)
           f == Range(receiveFifo)
           w == Range(receiveWire)
<1>4. Lined(r, f, Hand, w, Held, gone, written)
  BY DEF InLine
<1>5. l1 \in Seq(Nat) /\ Range(l1) = r \cup f /\ Rise(l1)
  <2>1. Below(r, f)
    BY <1>4 DEF Lined, Below
  <2> QED
    BY <2>1, RangeConcat DEF InLine, TypeOK
<1> HIDE DEF l1
<1>6. l2 \in Seq(Nat) /\ Range(l2) = (r \cup f) \cup Hand /\ Rise(l2)
  <2>1. Below(r \cup f, Hand)
    BY <1>4 DEF Lined, Below
  <2> QED
    BY <1>2, <1>5, <2>1, RangeConcat
<1> HIDE DEF l2
<1>7. l3 \in Seq(Nat) /\ Range(l3) = ((r \cup f) \cup Hand) \cup w /\ Rise(l3)
  <2>1. Below((r \cup f) \cup Hand, w)
    BY <1>4 DEF Lined, Below
  <2> QED
    <3>1. receiveWire \in Seq(Nat) /\ Rise(receiveWire)
      BY DEF InLine, TypeOK
    <3> QED
      BY <1>6, <2>1, <3>1, RangeConcat
<1> HIDE DEF l3
<1>8. l4 \in Seq(Nat) /\ Range(l4) = (((r \cup f) \cup Hand) \cup w) \cup Held /\ Rise(l4)
  <2>1. Below(((r \cup f) \cup Hand) \cup w, Held)
    BY <1>4 DEF Lined, Below
  <2> QED
    BY <1>3, <1>7, <2>1, RangeConcat
<1>9. l4 = read \o receiveFifo \o InHand \o receiveWire \o Coming
  BY DEF l1, l2, l3
<1> HIDE DEF l4
<1>10. Range(l4) \cup gone = 1 .. written /\ Range(l4) \cap gone = {}
  BY <1>4, <1>8 DEF Lined
<1>11. \A j, k \in 1 .. Len(l4) : j < k => l4[j] < l4[k]
  BY <1>8 DEF Rise
<1> QED
  BY <1>9, <1>10, <1>11 DEF ReceivedInOrder, InLine

\* ReceivedInOrder (WriteChar, ReceiveWireByte, the data register, RXFRQ and
\* Reset): whatever order the threads take, the host's bytes reach the firmware
\* in the order they were written, each at most once, and only a full FIFO, a
\* disabled receiver, a flush or a reset loses one.
THEOREM UartOrderKept == Spec => []ReceivedInOrder
<1>1. Init => InLine
  BY InLineInit
<1>2. TypeOK /\ InLine /\ [Next]_vars => InLine'
  <2>1. InLine /\ UNCHANGED vars => InLine'
    BY Unmoved DEF vars, queues, history, Hand, Held
  <2> QED
    BY <2>1, FirmwareLined, CpuLined, HostLined, ClockLined DEF Next
<1>3. Spec => []InLine
  BY <1>1, <1>2, UartTypeCorrect, PTL DEF Spec
<1> QED
  BY <1>3, UartTypeCorrect, LineRises, PTL

=============================================================================
