---------------------------- MODULE MCAggregator ----------------------------
(***************************************************************************)
(* Aggregator for TLC: the configuration gives Clients two model values    *)
(* and the lag a value below the inactivity window. No symmetry: it is not *)
(* sound for the liveness property.                                        *)
(***************************************************************************)
EXTENDS Aggregator

=============================================================================
