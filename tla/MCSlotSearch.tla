---------------------------- MODULE MCSlotSearch ----------------------------
(* SlotSearch on every array of up to seven slots.                         *)
EXTENDS SlotSearch

MCSizes == 1 .. 7
MCCounts == 1 .. 4
=============================================================================
