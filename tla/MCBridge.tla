------------------------------ MODULE MCBridge ------------------------------
(* Small instances of Bridge for TLC: see README.md, "Runs".               *)
EXTENDS Bridge

CONSTANTS app, ok, data
=============================================================================
