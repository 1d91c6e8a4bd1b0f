--------------------------- MODULE MCBridgeLedger ---------------------------
(* A small instance of BridgeLedger for TLC: see README.md, "Runs".        *)
EXTENDS BridgeLedger

\* ok passes the filter, denied does not.
CONSTANTS app, ok, denied, data
=============================================================================
