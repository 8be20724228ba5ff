----------------------------- MODULE PicoBridge -----------------------------
(***************************************************************************)
(* PicoBridgeState in bay.rs as the Ethernet bridge uses it: the framing   *)
(* of the bytes the gateway writes to its UART, the bounded mailboxes of   *)
(* both directions, and the writer of the UART.  One thread runs read,     *)
(* drain and serve in turn; serving the host is in PicoEthernet.  Frames   *)
(* are sequences of bytes.                                                 *)
(***************************************************************************)
EXTENDS Integers, Sequences, SequencesExt

CONSTANTS
    UartDepth, UartBytes,    \* limits of the mailbox to the UART
    HostDepth, HostBytes,    \* limits of the mailbox to the host
    UartMaxFrame

CONSTANTS                    \* bounds of the instance
    Units,                   \* kinds of things the gateway writes
    MaxUnits,
    Chunks                   \* sizes of a transfer that is cut short

ASSUME PicoAssumption ==
    /\ {UartDepth, UartBytes, HostDepth, HostBytes} \subseteq Nat \ {0}
    /\ UartMaxFrame \in Nat /\ UartMaxFrame >= 6 /\ UartMaxFrame <= 65538   \* less than a length can be
    /\ Units \subseteq {"data", "long", "empty", "command", "oversize", "noise"}
    /\ MaxUnits \in Nat /\ Chunks \subseteq Nat

VARIABLES
    uart_rx,
    host_packets, host_packet_bytes,
    uart_tx_packets, uart_tx_bytes,
    uart_tx_active, uart_tx_offset,
    ethernet_connected,
    at                       \* place in the loop: read, drain or serve

VARIABLES                    \* the gateway and its UART
    left,                    \* bytes of the unit it is writing
    pty,                     \* bytes not read by the bridge yet
    wire                     \* bytes the bridge wrote

VARIABLES                    \* history
    units,
    uplink,                  \* DATA frames the gateway began to write
    parsed,                  \* DATA frames the bridge recognised
    admitted                 \* frames admitted to the mailbox to the UART

rx == <<uart_rx, left, pty, units, uplink, parsed>>
mailbox == <<host_packets, host_packet_bytes>>
tx == <<uart_tx_packets, uart_tx_bytes, admitted>>
txWriter == <<uart_tx_active, uart_tx_offset, wire>>
bridge == <<rx, mailbox, tx, txWriter, ethernet_connected, at>>

BridgeInit ==
    /\ uart_rx = <<>>
    /\ host_packets = <<>> /\ host_packet_bytes = 0
    /\ uart_tx_packets = <<>> /\ uart_tx_bytes = 0
    /\ uart_tx_active = <<>> /\ uart_tx_offset = 0
    /\ ethernet_connected = FALSE
    /\ at = "read"
    /\ left = <<>> /\ pty = <<>> /\ wire = <<>>
    /\ units = 0 /\ uplink = <<>> /\ parsed = <<>> /\ admitted = <<>>

-----------------------------------------------------------------------------
(* Framing: two sync bytes in either order, a little-endian length, payload. *)

DataSync == {<<165, 90>>, <<90, 165>>}
CommandSync == {<<166, 91>>, <<91, 166>>, <<167, 122>>}
Sync == DataSync \cup CommandSync

SyncAt(bytes) == {i \in 1 .. Len(bytes) - 1 : SubSeq(bytes, i, i + 1) \in Sync}

Drop(bytes, n) == SubSeq(bytes, n + 1, Len(bytes))

\* Mutant of Trailing: the first half of a split sync pair is dropped.
NoTrailing(bytes) == <<>>

\* What is kept of bytes without a sync pair: a byte that may begin one.
Trailing(bytes) ==
    IF bytes # <<>> /\ Last(bytes) \in {pair[1] : pair \in Sync}
    THEN <<Last(bytes)>> ELSE <<>>

FirstSync(bytes) == CHOOSE i \in SyncAt(bytes) : \A j \in SyncAt(bytes) : i <= j

\* The bytes from the first sync pair on.
Synced(bytes) ==
    IF SyncAt(bytes) = {} THEN Trailing(bytes) ELSE Drop(bytes, FirstSync(bytes) - 1)

FrameLength(bytes) == 4 + bytes[3] + 256 * bytes[4]

\* gateway_uart_to_i2c_response: commands stay on the UART side of the link.
Response(frame) == IF SubSeq(frame, 1, 2) \in DataSync THEN <<frame>> ELSE <<>>

\* process_gateway_uart_rx: complete frames are taken off, an oversized header is
\* skipped, and the bytes of an incomplete frame wait for the next read.
Parse[bytes \in Seq(Nat)] ==
    LET rest   == Synced(bytes)
        length == FrameLength(rest)
    IN  IF Len(rest) < 4 THEN [rest |-> rest, frames |-> <<>>]
        ELSE IF length > UartMaxFrame THEN Parse[Drop(rest, 4)]
        ELSE IF Len(rest) < length THEN [rest |-> rest, frames |-> <<>>]
        ELSE LET more == Parse[Drop(rest, length)]
             IN  [more EXCEPT !.frames = Response(SubSeq(rest, 1, length)) \o @]

-----------------------------------------------------------------------------
(* Mailboxes. *)

\* The kind and the payload, without the envelope.
PacketCost(frame) == Len(frame) - 3

\* That of each frame, together.
Cost(frames) == Len(FlattenSeq(frames)) - 3 * Len(frames)

\* enqueue_host_packet: at saturation the newest frame is refused.
HostRefuses(box, frame, connected) ==
    \/ ~connected
    \/ Len(box.packets) >= HostDepth
    \/ PacketCost(frame) > HostBytes - box.bytes

\* Mutant of EnqueueHost: pressure overwrites the oldest frame.
OverwriteHost(box, frame, connected) ==
    IF ~HostRefuses(box, frame, connected)
    THEN [packets |-> Append(box.packets, frame), bytes |-> box.bytes + PacketCost(frame)]
    ELSE IF box.packets = <<>> THEN box
    ELSE [packets |-> Append(Tail(box.packets), frame),
          bytes   |-> box.bytes - PacketCost(Head(box.packets)) + PacketCost(frame)]

EnqueueHost(box, frame, connected) ==
    IF HostRefuses(box, frame, connected) THEN box
    ELSE [packets |-> Append(box.packets, frame), bytes |-> box.bytes + PacketCost(frame)]

\* One frame after the other.
EnqueueEach(box, frames, connected) ==
    LET after[n \in 0 .. Len(frames)] ==
            IF n = 0 THEN box ELSE EnqueueHost(after[n - 1], frames[n], connected)
    IN  after[Len(frames)]

\* Mutant of UartHasRoom: one frame more than the depth.
UartRoomForOneMore(frame) ==
    /\ Len(frame) <= UartMaxFrame
    /\ Len(uart_tx_packets) <= UartDepth
    /\ PacketCost(frame) <= UartBytes - uart_tx_bytes

UartHasRoom(frame) ==
    /\ Len(frame) <= UartMaxFrame
    /\ Len(uart_tx_packets) < UartDepth
    /\ PacketCost(frame) <= UartBytes - uart_tx_bytes

\* enqueue_gateway_uart_packet, when there is room.
EnqueueUart(frame) ==
    /\ uart_tx_packets' = Append(uart_tx_packets, frame)
    /\ uart_tx_bytes' = uart_tx_bytes + PacketCost(frame)
    /\ admitted' = Append(admitted, frame)

-----------------------------------------------------------------------------
(* The loop. *)

\* clear_disconnected_upload.
Cleared == [packets |-> <<>>, bytes |-> 0]

\* The top of the loop and read_gateway_uart: everything that arrived is parsed.
ReadGateway(connected) ==
    /\ at = "read" /\ at' = "drain"
    /\ ethernet_connected' = connected
    /\ pty' = <<>>
    /\ LET got  == Parse[uart_rx \o pty]
           kept == IF ~connected THEN Cleared
                   ELSE [packets |-> host_packets, bytes |-> host_packet_bytes]
           box  == EnqueueEach(kept, got.frames, connected)
       IN  /\ uart_rx' = got.rest
           /\ parsed' = parsed \o got.frames
           /\ host_packets' = box.packets /\ host_packet_bytes' = box.bytes
    /\ UNCHANGED <<left, units, uplink, tx, txWriter>>

\* A transfer of some bytes: all of them, or fewer.
Transfers(size) == {size} \cup {n \in Chunks : n < size}

\* Mutant of Write: a resumed write starts at the beginning of the frame.
WriteAgain(frame, count) ==
    /\ count \in Transfers(Len(frame) - uart_tx_offset) \cup {0}
    /\ wire' = wire \o SubSeq(frame, 1, count)

\* Write count bytes of the frame in flight; a blocked UART takes none.
Write(frame, count) ==
    /\ count \in Transfers(Len(frame) - uart_tx_offset) \cup {0}
    /\ wire' = wire \o SubSeq(frame, uart_tx_offset + 1, uart_tx_offset + count)

\* step_gateway_uart_tx: the writer owns the frame in flight, whose credit went
\* back to the mailbox when it was taken.
DrainGateway(count) ==
    LET frame == IF uart_tx_active = <<>> /\ uart_tx_packets # <<>>
                 THEN Head(uart_tx_packets) ELSE uart_tx_active
        done  == uart_tx_offset + count = Len(frame)
    IN  /\ at = "drain" /\ at' = "serve"
        /\ Write(frame, count)
        /\ IF uart_tx_active = <<>> /\ frame # <<>>
           THEN /\ uart_tx_packets' = Tail(uart_tx_packets)
                /\ uart_tx_bytes' = uart_tx_bytes - PacketCost(frame)
           ELSE UNCHANGED <<uart_tx_packets, uart_tx_bytes>>
        /\ uart_tx_active' = IF done THEN <<>> ELSE frame
        /\ uart_tx_offset' = IF done THEN 0 ELSE uart_tx_offset + count
        /\ UNCHANGED <<rx, mailbox, ethernet_connected, admitted>>

-----------------------------------------------------------------------------
(* The gateway.  What it writes while the bridge is elsewhere in its loop is  *)
(* seen by the next read, so it writes before a read.                         *)

UnitBytes(kind, n) ==
    CASE kind = "data"     -> <<165, 90, 1, 0, n>>
      [] kind = "long"     -> <<90, 165, 2, 0, n, n>>
      [] kind = "empty"    -> <<165, 90, 0, 0>>
      [] kind = "command"  -> <<166, 91, 1, 0, n>>
      [] kind = "oversize" -> <<165, 90, 255, 255>>
      [] kind = "noise"    -> <<166>>

GatewayBegins(kind) ==
    /\ at = "read" /\ left = <<>> /\ units < MaxUnits
    /\ units' = units + 1
    /\ left' = UnitBytes(kind, units')
    /\ uplink' = IF kind \in {"data", "long", "empty"} THEN Append(uplink, left') ELSE uplink
    /\ UNCHANGED <<uart_rx, pty, parsed, mailbox, tx, txWriter, ethernet_connected, at>>

GatewayWrites(count) ==
    /\ at = "read" /\ left # <<>>
    /\ pty' = pty \o SubSeq(left, 1, count)
    /\ left' = Drop(left, count)
    /\ UNCHANGED <<uart_rx, units, uplink, parsed, mailbox, tx, txWriter,
                   ethernet_connected, at>>

Gateway ==
    \/ \E kind \in Units : GatewayBegins(kind)
    \/ \E count \in Transfers(Len(left)) : GatewayWrites(count)

-----------------------------------------------------------------------------
(* Properties. *)

\* process_gateway_uart_rx ("split sync bytes survive nonblocking reads",
\* docs/hardware-fidelity.md): wherever reads cut the stream, between
\* oversized headers, commands and stray bytes that look like half a sync pair,
\* the bridge recognises the DATA frames the gateway wrote, all of them, in order.
FramesSurviveCuts ==
    /\ IsPrefix(parsed, uplink)
    /\ (left = <<>> /\ pty = <<>>) => parsed = uplink

\* Bytes of the mailbox to the UART that were not written yet.
Unwritten == Drop(uart_tx_active, uart_tx_offset) \o FlattenSeq(uart_tx_packets)

\* step_gateway_uart_tx: through partial and blocked writes the gateway receives
\* the admitted frames whole and in order, one after the other; queue pressure
\* never evicts or interleaves one.
WireWhole == wire \o Unwritten = FlattenSeq(admitted)

\* The byte counts of both mailboxes are what their frames cost, and neither
\* exceeds its limits.
Accounted ==
    /\ uart_tx_bytes = Cost(uart_tx_packets) /\ uart_tx_bytes <= UartBytes
    /\ host_packet_bytes = Cost(host_packets) /\ host_packet_bytes <= HostBytes
    /\ Len(uart_tx_packets) <= UartDepth /\ Len(host_packets) <= HostDepth
=============================================================================
