-------------------------- MODULE MCDemotionQueue --------------------------
(***************************************************************************)
(* The ring for TLC, with four-bit sizes and positions.                    *)
(***************************************************************************)
EXTENDS DemotionQueue

\* The state without the number of dropped items, on which no step depends.
NoDrops == <<ring, buffer, write_pos, read_pos, io>>
=============================================================================
