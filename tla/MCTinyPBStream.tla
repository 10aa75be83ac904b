---------------------------- MODULE MCTinyPBStream ----------------------------
(***************************************************************************)
(* Messages for TinyPBStream: short ones, and one that looks like a frame  *)
(* to a scan that has to go on behind its start.                           *)
(***************************************************************************)
EXTENDS TinyPBStream

Plain == {<<7>>, <<8, 3>>}
Enclosing == <<2, 0, 0, 0, 7, 9, 3>>
MCFields == Plain \cup {Enclosing}
=============================================================================
