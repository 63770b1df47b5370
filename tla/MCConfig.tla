------------------------------ MODULE MCConfig ------------------------------
(* Model checking ConfigManager: two callers, two managers to be created     *)
(* beside the blank one, and a file that changes twice.                      *)
EXTENDS ConfigManager
=============================================================================
