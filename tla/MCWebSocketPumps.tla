-------------------------- MODULE MCWebSocketPumps --------------------------
EXTENDS WebSocketPumps
=============================================================================
