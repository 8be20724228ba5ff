----------------------------- MODULE MCCanWire -----------------------------
(* Two controllers on one wire: the first is on the machine that owns the    *)
(* wire's timer, the second is on a machine that runs in parallel with it.   *)
EXTENDS CanWire

CONSTANTS local, remote

\* The bases are equal: only the bits behind them decide.
StandardRemote == [ide |-> 0, rtr |-> 1, base |-> 1, ext |-> 0]
Extended       == [ide |-> 1, rtr |-> 0, base |-> 1, ext |-> 1]

FirmwareHeaders == local :> {StandardRemote} @@ remote :> {StandardRemote, Extended}

\* The remote controller competes for the wire.
RemoteBusy == local :> 1 @@ remote :> 2

\* The local controller has a frame more than slots; the remote one interferes.
LocalBusy == local :> 3 @@ remote :> 1

MostFrames == local :> 3 @@ remote :> 2

\* What firmware does in one behaviour: many frames of one identifier, of which one
\* is cancelled while a controller may be reset, or a wire contended by two kinds of
\* identifiers while a controller goes through INIT.
Loads ==
    {[frames |-> LocalBusy, headers |-> [c \in Controllers |-> {StandardRemote}],
      uses |-> [cancels |-> 1, stops |-> 0, resets |-> 1]],
     [frames |-> RemoteBusy, headers |-> FirmwareHeaders,
      uses |-> [cancels |-> 0, stops |-> 1, resets |-> 0]]}

InLoad ==
    \E load \in Loads :
        /\ \A c \in Controllers : written[c] <= load.frames[c]
        /\ \A c \in Controllers, s \in Slots :
              ram[c][s].n > 0 => ram[c][s].header \in load.headers[c]
        /\ \A u \in DOMAIN uses : uses[u] <= load.uses[u]

MCNext ==
    \/ \E c \in Controllers : Firmware(c) /\ InLoad'
    \/ \E c \in Controllers : CpuStep(c)
    \/ TickNext

MCSpec ==
    /\ Init /\ [][MCNext]_vars
    /\ \A c \in Controllers : WF_vars(CpuStep(c))
    /\ WF_vars(TickNext)
=============================================================================
