---------------------------- MODULE MCPicoDiscovery ---------------------------
EXTENDS PicoDiscovery
===============================================================================
