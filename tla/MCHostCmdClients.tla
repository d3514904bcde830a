-------------------------- MODULE MCHostCmdClients --------------------------
(* Two small instances of the HostCmd channel in one run: two socket clients *)
(* that hang up and send blank lines, and a caller inside the emulator next  *)
(* to one client, with a clock that may run at any time.  case says which of *)
(* them a behaviour is of.                                                   *)
EXTENDS MCHostCmdSystem

VARIABLE case

TwoClients == INSTANCE HostCmdSystem WITH
    Cmd <- {x1, x2}, InternalCmd <- {}, RingSize <- 9, GuestQuiet <- 2,
    MaxPrint <- 1, Upsets <- {"hangup", "blank"}

InternalCaller == INSTANCE HostCmdSystem WITH
    Cmd <- {x1, i1, i2}, InternalCmd <- {i1, i2}, RingSize <- 6, GuestQuiet <- 1,
    MaxPrint <- 0, Upsets <- {"clock"}

CasesInit ==
    \/ case = "clients" /\ TwoClients!Init
    \/ case = "internal" /\ InternalCaller!Init

CasesNext ==
    /\ \/ case = "clients" /\ TwoClients!Next
       \/ case = "internal" /\ InternalCaller!Next /\ peer'[c2] = "absent"
    /\ UNCHANGED case

CasesSpec == CasesInit /\ [][CasesNext]_<<vars, case>>
=============================================================================
