----------------------------- MODULE MCProcesses -----------------------------
(* Small instances of a machine's process, the Manager and what passes        *)
(* between them and their threads: the Manager and the machines it starts,    *)
(* the emulator's start, commands and end, the Manager's connection, the      *)
(* framebuffer they share, the Manager's panel, and the wire between several  *)
(* emulators.  They share no state in the model, so a behaviour is of one of  *)
(* them: part says which, and the others keep their first state.              *)
EXTENDS MCMachineManager, EmulatorHost, MachineIpc, SharedFramebuffer, RemotePanel, NetSwitch

VARIABLE part

managerVars == vars
allVars == <<part, managerVars, emuVars, ipcVars, fbVars, panelVars, wireVars>>

(* Two values that can be exchanged: process ids, Managers, what a row of    *)
(* pixels shows, the sizes of a panel's screen, emulators on the wire.       *)
Two == MCPid

(* A screen that a slot cannot hold whole, and one that it can. *)
MCGuestSize == {[w |-> 2, h |-> 2], [w |-> 1, h |-> 1]}
MCDirtyRange == {<<0, 0>>, <<0, 1>>, <<1, 3>>}

MCReportedRows == {<<0, 0>>, <<0, 1>>, <<1, 2>>}

ProcessesInit ==
    /\ part \in {"manager", "host", "ipc", "framebuffer", "panel", "wire"}
    /\ Init /\ EmuHostInit /\ IpcInit /\ FbInit /\ PanelInit /\ WireInit
    /\ part # "panel" => acceleration

Manage ==
    /\ part = "manager" /\ Next
    /\ UNCHANGED <<part, emuVars, ipcVars, fbVars, panelVars, wireVars>>

Host ==
    /\ part = "host" /\ HostNext
    /\ UNCHANGED <<part, managerVars, ipcVars, fbVars, panelVars, wireVars>>

Ipc ==
    /\ part = "ipc" /\ IpcNext
    /\ UNCHANGED <<part, managerVars, emuVars, fbVars, panelVars, wireVars>>

Share ==
    /\ part = "framebuffer" /\ FbNext
    /\ UNCHANGED <<part, managerVars, emuVars, ipcVars, panelVars, wireVars>>

Panel ==
    /\ part = "panel" /\ PanelNext
    /\ UNCHANGED <<part, managerVars, emuVars, ipcVars, fbVars, wireVars>>

Wire ==
    /\ part = "wire" /\ WireNext
    /\ UNCHANGED <<part, managerVars, emuVars, ipcVars, fbVars, panelVars>>

(* A process that ends, a machine that stops and Managers that have all been *)
(* and gone leave nothing more to do; the others go on.                      *)
Over == part \in {"host", "ipc", "panel"} /\ UNCHANGED allVars

ProcessesNext == Manage \/ Host \/ Ipc \/ Share \/ Panel \/ Wire \/ Over

ProcessesSpec == ProcessesInit /\ [][ProcessesNext]_allVars
=============================================================================
