------------------------------- MODULE MCApp -------------------------------
(* Model checking AppLifecycle: Run on one goroutine, two that call Init,    *)
(* Shutdown and Go at any time.                                              *)
EXTENDS AppLifecycle

MCParts == {"trace", "logger", "db"}
=============================================================================
