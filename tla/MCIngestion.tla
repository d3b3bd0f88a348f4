---------------------------- MODULE MCIngestion ----------------------------
(***************************************************************************)
(* Ingestion for TLC: one client writes three messages, the other one; two *)
(* of the four come in one webhook body.                                   *)
(***************************************************************************)
EXTENDS Ingestion, TLC

CONSTANTS c1, c2, m1, m2, m3, m4

MCsender == [m \in Messages |-> IF m = m2 THEN c2 ELSE c1]

MCBodies == {<<m1>>, <<m2, m3>>, <<m4>>}

=============================================================================
