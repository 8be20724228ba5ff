---------------------------- MODULE PicoEthernet ----------------------------
(***************************************************************************)
(* picofi_tcp_bridge.rs: the Pico-Fi bridge with one TCP session at a      *)
(* time, a handshake, frames in both directions and two timeouts.  The     *)
(* peer (GroundStation) is external: it connects or answers a connection,  *)
(* writes what it likes, stalls, and closes.  TCP delivers its stream in   *)
(* pieces; a frame is read as a header and a body.                         *)
(***************************************************************************)
EXTENDS PicoBridge

CONSTANTS
    Timeout,     \* time units of the handshake and writer timeouts (500 ms)
    Roles        \* whether the bridge is the TCP client: discovered or accepted peers

CONSTANTS        \* bounds of the instance
    MaxSessions,
    MaxDown,     \* frames the peer sends
    MaxTraffic   \* those and what the gateway writes together

ASSUME EthernetAssumption ==
    /\ Timeout \in Nat \ {0} /\ Roles \subseteq BOOLEAN
    /\ {MaxSessions, MaxDown, MaxTraffic} \subseteq Nat

VARIABLES
    session,     \* the Session, with the time since write_started
    peer         \* the peer's end: up, the pieces it wrote, connections to come

VARIABLES        \* history
    down,        \* frames the peer wrote completely in this session
    taken,       \* those of them admitted to the UART
    kept,        \* frames accepted for the peer in this session
    uploaded     \* frames written to the peer in this session

link == <<session, peer>>
history == <<down, taken, kept, uploaded>>
vars == <<bridge, link, history>>

\* "PICOFI1", and the pieces of the peer's stream.
Hello == <<80>>
Piece(part, frame) == [part |-> part, frame |-> frame]
Greeting == Piece("hello", Hello)
Bad == Piece("bad", <<>>)

Closed ==
    [open |-> FALSE, client |-> FALSE, hello |-> FALSE, incoming |-> <<>>,
     outgoing |-> <<>>, age |-> 0]

Fresh(client) ==
    [Closed EXCEPT !.open = TRUE, !.client = client,
                   !.outgoing = IF client THEN Hello ELSE <<>>]

NoPeer == [up |-> FALSE, stream |-> <<>>, greeted |-> FALSE, head |-> FALSE,
           waiting |-> FALSE, sessions |-> 0, frames |-> 0]

Init ==
    /\ BridgeInit
    /\ session = Closed
    /\ peer = NoPeer
    /\ down = <<>> /\ taken = <<>> /\ kept = <<>> /\ uploaded = <<>>

-----------------------------------------------------------------------------
(* The peer.  What it does while the bridge is elsewhere in its loop is seen  *)
(* when the session is served, so it acts before that.                        *)

\* Frames of the peer, as the gateway will receive them.
DownFrame(n) ==
    IF n % 2 = 1 THEN <<165, 90, 1, 0, 100 + n>> ELSE <<165, 90, 2, 0, 100 + n, 100 + n>>

PeerUp == session.open /\ peer.up

PeerComes ==
    /\ ~peer.up /\ ~peer.waiting /\ peer.sessions < MaxSessions
    /\ peer' = [peer EXCEPT !.waiting = TRUE, !.sessions = @ + 1]
    /\ UNCHANGED <<bridge, session, history>>

PeerGreets(hello) ==
    /\ PeerUp /\ ~peer.greeted
    /\ peer' = [peer EXCEPT !.greeted = TRUE, !.stream = Append(@, hello)]
    /\ UNCHANGED <<bridge, session, history>>

\* A header with a wrong sync or length.
PeerGarbles ==
    /\ PeerUp /\ peer.greeted /\ ~peer.head /\ Bad \notin ToSet(peer.stream)
    /\ peer' = [peer EXCEPT !.stream = Append(@, Bad)]
    /\ UNCHANGED <<bridge, session, history>>

PeerSendsHead ==
    /\ PeerUp /\ peer.greeted /\ ~peer.head
    /\ peer.frames < MaxDown /\ units + peer.frames < MaxTraffic
    /\ peer' = [peer EXCEPT !.head = TRUE, !.frames = @ + 1,
                            !.stream = Append(@, Piece("head", DownFrame(peer.frames + 1)))]
    /\ UNCHANGED <<bridge, session, history>>

PeerSendsBody ==
    /\ PeerUp /\ peer.head
    /\ peer' = [peer EXCEPT !.head = FALSE,
                            !.stream = Append(@, Piece("body", DownFrame(peer.frames)))]
    /\ down' = Append(down, DownFrame(peer.frames))
    /\ UNCHANGED <<bridge, session, taken, kept, uploaded>>

PeerCloses ==
    /\ PeerUp
    /\ peer' = [peer EXCEPT !.up = FALSE]
    /\ UNCHANGED <<bridge, session, history>>

PeerStep ==
    /\ at = "serve"
    /\ \/ PeerComes \/ \E hello \in {Greeting, Bad} : PeerGreets(hello)
       \/ PeerGarbles \/ PeerSendsHead \/ PeerSendsBody \/ PeerCloses

-----------------------------------------------------------------------------
(* The session. *)

Read ==
    /\ ReadGateway(session.hello)
    /\ kept' = IF session.hello
               THEN kept \o Drop(host_packets', Len(host_packets)) ELSE <<>>
    /\ UNCHANGED <<link, down, taken, uploaded>>

Drain(count) ==
    /\ DrainGateway(count)
    /\ UNCHANGED <<link, history>>

\* Nobody to accept.
Idle ==
    /\ at = "serve" /\ at' = "read"
    /\ ~session.open /\ ~peer.waiting
    /\ UNCHANGED <<rx, mailbox, tx, txWriter, ethernet_connected, link, history>>

Accept(client) ==
    /\ at = "serve"
    /\ ~session.open /\ peer.waiting
    /\ session' = Fresh(client)
    /\ peer' = [peer EXCEPT !.up = TRUE, !.waiting = FALSE, !.stream = <<>>,
                            !.greeted = FALSE, !.head = FALSE]
    /\ UNCHANGED <<bridge, history>>

\* One read gets at most one piece, and none when a complete frame is retained.
Complete == Len(session.incoming) = 2
Reads == ~Complete /\ peer.stream # <<>>
Arrived == IF Reads THEN Append(session.incoming, Head(peer.stream)) ELSE session.incoming

\* What ends the session before anything was exchanged.
HandshakeLate == ~session.hello /\ session.age >= Timeout
EndOfStream == ~Complete /\ peer.stream = <<>> /\ ~peer.up
WrongHello == ~session.hello /\ Arrived # <<>> /\ Arrived # <<Greeting>>
WrongHeader == session.incoming = <<Bad>>
Ends == HandshakeLate \/ WrongHeader \/ EndOfStream \/ WrongHello

Greeted == ~session.hello /\ Arrived = <<Greeting>>

\* A complete frame is admitted when the mailbox has room and retained otherwise.
Admits == session.hello /\ Len(Arrived) = 2 /\ UartHasRoom(Arrived[2].frame)

\* Mutant of Emptied: a complete frame is forgotten when there is no room.
EmptiedFull == Greeted \/ Len(Arrived) = 2

\* Whether what was read has been acted on.
Emptied == Greeted \/ Admits

Replying == IF Greeted /\ ~session.client THEN Hello ELSE session.outgoing

\* A frame for the peer leaves the mailbox when the writer is idle.
Pops == (session.hello \/ Greeted) /\ Replying = <<>> /\ host_packets # <<>>
Outgoing == IF Pops THEN Head(host_packets) ELSE Replying

\* Mutant of Age: a frame for a peer that was idle is late from the start.
AgeOfSession == IF Greeted THEN 0 ELSE session.age

\* write_started is set anew by the handshake and by each frame taken.
Age == IF Greeted \/ Pops THEN 0 ELSE session.age

UnfitUpload == Pops /\ ~(Len(Outgoing) \in 5 .. UartMaxFrame)

WriterStalled == Outgoing # <<>> /\ Age >= Timeout

Peerless == [peer EXCEPT !.up = FALSE, !.stream = <<>>, !.head = FALSE]

Forgotten ==
    /\ session' = Closed /\ peer' = Peerless
    /\ down' = <<>> /\ taken' = <<>> /\ uploaded' = <<>> /\ UNCHANGED kept

\* service fails before it changes anything else.
Refuse ==
    /\ at = "serve" /\ at' = "read" /\ session.open
    /\ Ends
    /\ Forgotten
    /\ UNCHANGED <<rx, mailbox, tx, txWriter, ethernet_connected>>

\* service goes on; a blocked or partial write keeps the rest of the frame.
Exchanged(whole) ==
    /\ whole => Outgoing # <<>>
    /\ session' = [session EXCEPT
                      !.hello = @ \/ Greeted,
                      !.incoming = IF Emptied THEN <<>> ELSE Arrived,
                      !.outgoing = IF whole THEN <<>> ELSE Outgoing,
                      !.age = Age]
    /\ peer' = [peer EXCEPT !.stream = IF Reads THEN Tail(@) ELSE @]
    /\ taken' = IF Admits THEN Append(taken, Arrived[2].frame) ELSE taken
    /\ uploaded' = IF whole /\ Outgoing # Hello THEN Append(uploaded, Outgoing)
                   ELSE uploaded
    /\ UNCHANGED <<down, kept>>

\* service: read, act on what is complete, take the next frame, write.  What was
\* read and taken stays so when the write fails.
Serve(whole) ==
    /\ at = "serve" /\ at' = "read" /\ session.open
    /\ ~Ends
    /\ ethernet_connected' = (ethernet_connected \/ Greeted)
    /\ IF Admits THEN EnqueueUart(Arrived[2].frame) ELSE UNCHANGED tx
    /\ IF Pops
       THEN /\ host_packets' = Tail(host_packets)
            /\ host_packet_bytes' = host_packet_bytes - PacketCost(Outgoing)
       ELSE UNCHANGED mailbox
    /\ \/ /\ UnfitUpload \/ WriterStalled \/ (~peer.up /\ Outgoing # <<>>)
          /\ ~whole
          /\ Forgotten
       \/ /\ ~UnfitUpload /\ ~WriterStalled
          /\ Exchanged(whole)
    /\ UNCHANGED <<rx, txWriter>>

\* write_started.elapsed() grows in every session, an idle one too.
Tick ==
    /\ session.open /\ session.age < Timeout
    /\ session' = [session EXCEPT !.age = @ + 1]
    /\ UNCHANGED <<bridge, peer, history>>

Bridge ==
    \/ Read
    \/ \E count \in 0 .. UartMaxFrame : Drain(count)
    \/ Idle
    \/ \E client \in Roles : Accept(client)
    \/ Refuse
    \/ \E whole \in BOOLEAN : Serve(whole)

Next ==
    \/ Bridge \/ Tick
    \/ Gateway /\ units' + peer.frames <= MaxTraffic /\ UNCHANGED <<link, history>>
    \/ PeerStep

Spec == Init /\ [][Next]_vars

-----------------------------------------------------------------------------
(* Properties. *)

\* Frames whose bodies are retained by the session or still in the stream.
BodyOf(piece) == IF piece.part = "body" THEN <<piece.frame>> ELSE <<>>
BodiesIn(pieces) == FlattenSeq([i \in 1 .. Len(pieces) |-> BodyOf(pieces[i])])

\* "Downlink applies backpressure" (docs/hardware-fidelity.md): while a session
\* lives, every frame the peer completed is admitted to the UART in order, or
\* still retained by the session, or still in the stream; none is dropped.
Backpressure ==
    session.open => down = taken \o BodiesIn(session.incoming) \o BodiesIn(peer.stream)

\* "Full uplink mailboxes reject new whole frames, never accepted" ones: what was
\* accepted for the peer in this session is uploaded in order, being written, or
\* in the mailbox; and nothing in the mailbox or the writer is from before it.
UploadsKept ==
    /\ session.hello =>
          kept = uploaded
                 \o (IF session.outgoing \in {<<>>, Hello} THEN <<>> ELSE <<session.outgoing>>)
                 \o host_packets
    /\ ~session.hello /\ at # "read" => host_packets = <<>>

\* What a peer does, or does not do in time, that ends its session.
SlowPeer == session.age >= Timeout /\ (~session.hello \/ session.outgoing # <<>>)
PeersDoing ==
    ~peer.up \/ SlowPeer \/ Bad \in ToSet(session.incoming \o peer.stream)

\* The frame next for the peer has no payload.
EmptyUpload == host_packets # <<>> /\ Len(Head(host_packets)) = 4

SessionEnds == session.open /\ ~session'.open

\* Session::service: a session ends because its peer closed, greeted or framed
\* wrongly, or left the handshake or a begun write waiting for the timeout, or
\* because a frame without payload was taken for it; never because a frame comes
\* after a time in which there was none, nor because of anything else on the UART.
EndsForCause == [][SessionEnds => PeersDoing \/ EmptyUpload]_vars

\* "A malformed UART frame is not a reason to kill either independent Pico or
\* their link" (process_gateway_uart_rx): a session ends by its peer's doing only.
LinkSurvivesUart == [][SessionEnds => PeersDoing]_vars
=============================================================================
