------------------------------- MODULE MCUart -------------------------------
(* A firmware that receives by interrupt, transmits, turns the receiver off  *)
(* and on again, and leaves FIFO mode, which holds two bytes, at any moment.  *)
EXTENDS Uart

Both == [rx |-> TRUE, tx |-> TRUE, deep |-> TRUE, ovrdis |-> FALSE, ie |-> {"rxne", "idle"}]

\* Nothing observes the line in the runs of both directions.
Polled == [Both EXCEPT !.ie = {}]
TransmitOnly == [Both EXCEPT !.rx = FALSE, !.ie = {}]

Receiving == {Both}
Shallow == [Polled EXCEPT !.tx = FALSE, !.deep = FALSE]
Polling == {Polled, TransmitOnly, Shallow}

\* A third byte, for which FIFO mode has no room, comes to a firmware that only reads.
InLoad == written <= 2 \/ (queued = 0 /\ resets = 0)

MCNext ==
    \/ (Firmware \/ Offer) /\ InLoad'
    \/ CpuStep \/ HostStep \/ Pass \/ ClkStep

MCSpec ==
    /\ Init /\ [][MCNext]_vars
    /\ WF_vars(CpuStep) /\ WF_vars(HostStep) /\ WF_vars(Pass) /\ WF_vars(ClkStep)
=============================================================================
