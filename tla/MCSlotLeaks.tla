---------------------------- MODULE MCSlotLeaks -----------------------------
(***************************************************************************)
(* The instances of MCServer, with the clock of SlotLeaks.                 *)
(***************************************************************************)
EXTENDS MCServer, SlotLeaks
=============================================================================
