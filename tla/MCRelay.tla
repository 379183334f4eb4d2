------------------------------ MODULE MCRelay -------------------------------
(* Small instances of Relay: see the configurations.                         *)
EXTENDS Relay
=============================================================================
