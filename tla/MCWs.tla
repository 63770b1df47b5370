------------------------------- MODULE MCWs -------------------------------
(* Model checking WsHub: two connections, two callers of Stop, queues and    *)
(* buffers of one entry, so that they fill up.                               *)
EXTENDS WsHub
=============================================================================
