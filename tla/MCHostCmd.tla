----------------------------- MODULE MCHostCmd -----------------------------
(* A small instance of the emulator's half of HostCmd, with any guest. *)
EXTENDS HostCmd, TLC
CONSTANTS x1, x2, i1, c1, c2
MCBlocks == {<<x1, x1, x1>>}
=============================================================================
