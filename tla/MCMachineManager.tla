--------------------------- MODULE MCMachineManager ---------------------------
(* Two process ids, so that each comes round again, and machines of each kind. *)
EXTENDS MachineManager, TLC

CONSTANTS p1, p2, m1, m2

MCPid == {p1, p2}
MCMachine == {m1, m2}
Sym == Permutations(MCPid)
=============================================================================
