---------------------------- MODULE MachineManager ----------------------------
(***************************************************************************)
(* The Manager (manager_frame.cpp) beside the emulator processes of        *)
(* MachineLock: it starts machines as children, finds the ones that        *)
(* already run from their lock files, and shows them through a panel.      *)
(* Its window has one thread, but a poll reads a lock file twice, first    *)
(* for the owner and then for the endpoint, and other processes run in     *)
(* between.                                                                *)
(***************************************************************************)
EXTENDS MachineLock

Entry(m) == manager.running[m]

\* Between two events of the window.
Idle == manager.up /\ manager.reading = None /\ manager.todo = {} /\ manager.scan = {}

SetEntry(mgr, m, e) == [mgr EXCEPT !.running[m] = e]

ManagerOpens ==
    /\ ~ manager.up
    /\ manager' = [ManagerClosed EXCEPT !.up = TRUE, !.todo = Machine]
    /\ UNCHANGED <<proc, flock, file, sock, shm>>

\* Closed or killed.  The machines go on; the children belong to nobody now.
ManagerCloses ==
    /\ "reopen" \in Upsets
    /\ manager.up
    /\ manager' = ManagerClosed
    /\ proc' = [p \in Pid |-> IF At(p, "zombie") THEN NoProcess
                              ELSE [proc[p] EXCEPT !.child = FALSE]]
    /\ flock' = Dropped(flock, Manager)
    /\ UNCHANGED <<file, sock, shm>>

\* machine_lock_owner_alive: kill(pid, 0), which a child not yet reaped passes.
machine_lock_owner_alive(p) == IF p = Manager THEN manager.up ELSE ~ At(p, "gone")

\* machine_lock_read_owner, and the check that the owner is still there.
Owned(m) == file[m] # Blank /\ machine_lock_owner_alive(file[m].pid)

\* The first half of DiscoverAlreadyRunningMachines for one machine, and of
\* OnPollTimer for one that is starting.
ReadOwner(m) ==
    /\ manager.up /\ manager.reading = None /\ manager.scan = {}
    /\ \/ m \in manager.todo
       \/ manager.todo = {} /\ Entry(m).st = "starting"
    /\ manager' = [manager EXCEPT
           !.todo = @ \ {m},
           !.reading = IF Owned(m)
                       THEN [machine |-> m, pid |-> file[m].pid, fresh |-> m \notin manager.todo]
                       ELSE None]
    /\ UNCHANGED <<proc, flock, file, sock, shm>>

\* RemoteEmulatorPanel: the framebuffer named after the pid, and the socket.
IsLive(m, p) == <<m, p>> \in shm /\ sock[m] # None

\* The second half: machine_lock_read_ipc_endpoint, then AttachPanelFor.  A
\* machine that could not be attached stays as it was: starting if it was
\* started here, and without an entry if it was discovered.
AttachPanelFor(m) ==
    LET r == manager.reading
        shown == [Entry(m) EXCEPT !.st = "shown", !.link = sock[m]]
        done == [manager EXCEPT !.reading = None] IN
    /\ r # None /\ r.machine = m
    /\ manager' = IF file[m] # Blank /\ file[m].ipc /\ IsLive(m, r.pid)
                  THEN SetEntry(done, m, shown)
                  ELSE done
    /\ UNCHANGED <<proc, flock, file, sock, shm>>

StartMachine(m, p) ==
    /\ Idle
    /\ Entry(m).st = "none"
    /\ At(p, "gone")
    /\ proc' = [proc EXCEPT ![p] = Launched(m, TRUE, TRUE)]
    /\ manager' = SetEntry(manager, m, [st |-> "starting", child |-> p, link |-> None])
    /\ UNCHANGED <<flock, file, sock, shm>>

\* RemoveRunningEntry also forgets the child, whose end is then no event.
RemoveRunningEntry(m) == SetEntry(manager, m, NoEntry)

\* OnPollTimer past kStartupTimeoutMs.
Deadline(m) ==
    /\ Idle
    /\ Entry(m).st = "starting"
    /\ manager' = RemoveRunningEntry(m)
    /\ UNCHANGED <<proc, flock, file, sock, shm>>

\* The panel's connection has gone: GoneCallback.
PanelGone(m) ==
    /\ Idle
    /\ Entry(m).link = Lost
    /\ manager' = RemoveRunningEntry(m)
    /\ UNCHANGED <<proc, flock, file, sock, shm>>

\* wx reaps a child; OnTerminate calls OnChildProcessEnded unless forgotten.
OnChildProcessEnded(p) ==
    LET mine == {m \in Machine : Entry(m).child = p} IN
    /\ Idle
    /\ At(p, "zombie")
    /\ proc' = [proc EXCEPT ![p] = NoProcess]
    /\ manager' = [manager EXCEPT !.running =
           [m \in Machine |-> IF m \in mine THEN NoEntry ELSE @[m]]]
    /\ UNCHANGED <<flock, file, sock, shm>>

\* OnDataFolder, refused by name while the Manager shows a machine.
OnDataFolder ==
    /\ "ask" \in Upsets
    /\ Idle
    /\ \A m \in Machine : Entry(m).st = "none"
    /\ manager' = [manager EXCEPT !.scan = Machine]
    /\ UNCHANGED <<proc, flock, file, sock, shm>>

\* machine_lock_release in the Manager: of the lock lock_fd stands for, if any.
ManagerReleases ==
    flock' = [m \in Machine |-> IF m = manager.lock_fd THEN None ELSE flock[m]]

\* One turn of AnyMachineInUse.  Acquiring succeeds on a machine that is free,
\* and success is the answer "in use": the loop returns with the lock held.
\* lock_fd has room for one lock, and an older one stays held with no way to
\* give it back.
AnyMachineInUse(m) ==
    /\ manager.up /\ m \in manager.scan
    /\ \/ /\ m \in ReadOnly
          /\ manager' = [manager EXCEPT !.scan = {}]
          /\ UNCHANGED <<flock, file>>
       \/ /\ m \notin ReadOnly /\ Free(m)
          /\ flock' = [flock EXCEPT ![m] = Manager]
          /\ file' = [file EXCEPT ![m] = Record(Manager, FALSE)]
          /\ manager' = [manager EXCEPT !.scan = {}, !.lock_fd = m]
       \/ /\ m \notin ReadOnly /\ ~ Free(m)
          /\ ManagerReleases
          /\ manager' = [manager EXCEPT !.scan = @ \ {m}, !.lock_fd = None]
          /\ UNCHANGED file
    /\ UNCHANGED <<proc, sock, shm>>

ManagerStep ==
    \/ ManagerOpens
    \/ ManagerCloses
    \/ OnDataFolder
    \/ \E m \in Machine :
         \/ ReadOwner(m) \/ AttachPanelFor(m)
         \/ Deadline(m) \/ PanelGone(m)
         \/ AnyMachineInUse(m)
    \/ \E m \in Machine, p \in Pid : StartMachine(m, p)
    \/ \E p \in Pid : OnChildProcessEnded(p)

Next == ManagerStep \/ \E p \in Pid : Emulator(p)

Spec == Init /\ [][Next]_vars

\* The same with the Recent Machines menu, which takes no lock.
SwitchingSpec ==
    Init /\ [][Next \/ \E p \in Pid, m \in Machine : SwitchMachine(p, m)]_vars

-----------------------------------------------------------------------------
(* Properties.                                                             *)

ProcType ==
    [at : Using \cup Leaving \cup Ended \cup {"launched", "refused"}, machine : Machine \cup {None},
     managed : BOOLEAN, child : BOOLEAN, ipc : BOOLEAN]

EntryType ==
    [st : {"none", "starting", "shown"}, child : Pid \cup {None}, link : Pid \cup {None, Lost}]

ReadingType == [machine : Machine, pid : Pid \cup {Manager}, fresh : BOOLEAN]

ManagerType ==
    [up : BOOLEAN, running : [Machine -> EntryType], todo : SUBSET Machine,
     reading : {None} \cup ReadingType, scan : SUBSET Machine, lock_fd : Machine \cup {None}]

RecordType == [pid : Pid \cup {Manager}, ipc : BOOLEAN]

\* The state of processes, locks, lock files, sockets, framebuffers and Manager
\* has its types.
TypeOK ==
    /\ proc \in [Pid -> ProcType]
    /\ flock \in [Machine -> Pid \cup {Manager, None}]
    /\ file \in [Machine -> {Blank} \cup RecordType]
    /\ sock \in [Machine -> Pid \cup {None}]
    /\ shm \subseteq Machine \X Pid
    /\ manager \in ManagerType

\* machine_lock.h: one running emulator per machine.  No two processes have
\* the same machine in use, from taking its lock to their last save, whoever
\* crashes and whoever starts them.  A machine directory that cannot be
\* written has no lock.
OneEmulatorPerMachine ==
    \A m \in Machine \ ReadOnly : \A p, q \in Users(m) : p = q

\* machine_lock.h: a crash or a kill cannot leave a machine unstartable.  A
\* copy is turned away only while another process really uses the machine,
\* whatever lock file was left behind, or while the Manager keeps the lock
\* that AnyMachineInUse took.
TurnedAwayOnlyWhenInUse ==
    [][\A p \in Pid : (At(p, "launched") /\ proc'[p].at = "refused")
           => \/ Users(proc[p].machine) # {}
              \/ manager.up /\ flock[proc[p].machine] = Manager]_vars

\* The record of a machine in use is that of the process using it, never of a
\* predecessor, whose server may still be there: outside a rewrite the pid is
\* the holder's, an endpoint is named by every process that is reached at it,
\* and an endpoint that is named reaches its process or, when a predecessor
\* has removed the path since, nobody.
RecordIsTheUsers ==
    \A p \in Pid :
        LET m == proc[p].machine IN
        proc[p].at \in {"locked", "running", "closing"} /\ m \notin ReadOnly
            => /\ file[m] # Blank
               /\ file[m].pid = p
               /\ file[m].ipc => sock[m] \in {p, None}
               /\ sock[m] = p => file[m].ipc

\* A panel of the Manager talks to a process of that machine, which has it in
\* use or has just given it up and is about to hang up, whatever old records,
\* framebuffers and reused pids it was found by.
PanelReachesItsMachine ==
    \A m \in Machine : Entry(m).link \in Pid
        => /\ proc[Entry(m).link].machine = m
           /\ proc[Entry(m).link].at \in Using \cup Leaving

\* A machine that is shown is taken off the list only once its connection is
\* lost (or the window closes); OnChildProcessEnded is about the process that
\* ended, not about another that runs the same machine.
ShownWhileConnected ==
    [][\A m \in Machine : (Entry(m).link \in Pid /\ manager'.up)
                              => manager'.running[m].st = "shown"]_vars

\* The endpoint that a running machine has recorded reaches it, although a
\* predecessor that has given up the lock may still have its server to stop.
EndpointReaches ==
    \A p \in Pid : At(p, "running") /\ proc[p].ipc => sock[proc[p].machine] = p

\* The picture a new panel shows comes from the process its channel reaches:
\* the pid the framebuffer is named after was read before the endpoint.
PictureIsTheMachines ==
    [][\A m \in Machine : (AttachPanelFor(m) /\ manager'.running[m].link \in Pid)
           => manager'.running[m].link = manager.reading.pid]_vars

\* manager_frame.cpp on AnyMachineInUse: acquiring the lock is an accurate
\* answer, and anything taken is given straight back.  Looking at a machine
\* ends the question with "in use" exactly when somebody holds its lock, and
\* leaves every lock as it was.
LookingTellsAndLeavesAlone ==
    [][\A m \in Machine \ ReadOnly : AnyMachineInUse(m)
           => /\ flock' = flock
              /\ (manager'.scan = {} /\ manager.scan # {m}) => ~ Free(m)]_vars

=============================================================================
