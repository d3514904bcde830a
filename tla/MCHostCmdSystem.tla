-------------------------- MODULE MCHostCmdSystem --------------------------
(* Small instances of the HostCmd channel. *)
EXTENDS HostCmdSystem
CONSTANTS x1, x2, x3, i1, i2, c1, c2
MCBlocks == {}
=============================================================================
