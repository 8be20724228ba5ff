--------------------------- MODULE MCPicoEthernet ---------------------------
(* Frames are five or six bytes and cost two or three; one without payload is *)
(* four bytes.                                                                *)
EXTENDS PicoEthernet

Kinds == {"long", "oversize", "command", "noise", "empty"}
EmptyFrames == {"data", "empty"}
=============================================================================
