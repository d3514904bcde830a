----------------------------- MODULE MachineLock -----------------------------
(***************************************************************************)
(* One running emulator per machine: machine_lock.c with the processes     *)
(* that use it.  An emulator process takes the lock of its machine, writes *)
(* a record of itself into running.lock and, when the Manager started it,  *)
(* adds the endpoint of its control channel.  The Manager reads those      *)
(* records to find machines to show (manager_frame.cpp).  The kernel drops *)
(* a lock and a listening socket with the process; the file and the shared *)
(* framebuffer outlive it.  A process that closes gives the lock back      *)
(* first, and its socket, by its path, and framebuffer only afterwards.    *)
(*                                                                         *)
(* A process is named by its pid, and a pid comes round again.             *)
(***************************************************************************)
CONSTANTS
    Pid,        \* process ids the emulators get
    Machine,    \* machine directories
    ReadOnly,   \* the machines whose directory cannot be written
    Manager,    \* the Manager's own process id
    None,       \* no process
    Lost,       \* the far end of a panel whose process has gone
    Blank,      \* contents of a lock file that is missing or truncated
    Upsets      \* what a run allows: "crash", "hand", "reopen", "ask"

ASSUME MachineLockAssumption ==
    /\ ReadOnly \subseteq Machine
    /\ Manager \notin Pid
    /\ None \notin Pid \cup Machine \cup {Manager}
    /\ Lost \notin Pid \cup {Manager, None}
    /\ Blank \notin [pid : Pid \cup {Manager}, ipc : BOOLEAN]
    /\ Upsets \subseteq {"crash", "hand", "reopen", "ask"}

VARIABLES
    proc,       \* the emulator processes
    flock,      \* who holds the kernel's lock on each machine's file
    file,       \* what running.lock says
    sock,       \* who is reached by the path of each machine's manager.sock
    shm,        \* shared framebuffers that exist: machine and pid
    manager     \* the Manager's window

vars == <<proc, flock, file, sock, shm, manager>>

Record(p, ipc) == [pid |-> p, ipc |-> ipc]

\* A process past machine_lock_acquire and not yet past its last save.
Using == {"writing", "locked", "rewriting", "running", "closing"}

\* Past machine_lock_release, with the window still to be destroyed.
Leaving == {"released", "stopping"}

\* Not there at all, or ended and not yet reaped by the Manager.
Ended == {"gone", "zombie"}

NoProcess == [at |-> "gone", machine |-> None, managed |-> FALSE,
              child |-> FALSE, ipc |-> FALSE]

Users(m) == {p \in Pid : proc[p].machine = m /\ proc[p].at \in Using}

NoEntry == [st |-> "none", child |-> None, link |-> None]

ManagerClosed == [up |-> FALSE, running |-> [m \in Machine |-> NoEntry],
                  todo |-> {}, reading |-> None, scan |-> {}, lock_fd |-> None]

Init ==
    /\ proc = [p \in Pid |-> NoProcess]
    /\ flock = [m \in Machine |-> None]
    /\ file = [m \in Machine |-> Blank]
    /\ sock = [m \in Machine |-> None]
    /\ shm = {}
    /\ manager = ManagerClosed

-----------------------------------------------------------------------------
(* An emulator process.                                                    *)

At(p, s) == proc[p].at = s
Goto(p, s) == proc' = [proc EXCEPT ![p].at = s]

Launched(m, managed, child) ==
    [NoProcess EXCEPT !.at = "launched", !.machine = m,
                      !.managed = managed, !.child = child]

\* Started from a command line or a shortcut.
StartByHand(p, m) ==
    /\ "hand" \in Upsets
    /\ At(p, "gone")
    /\ \E managed \in BOOLEAN : proc' = [proc EXCEPT ![p] = Launched(m, managed, FALSE)]
    /\ UNCHANGED <<flock, file, sock, shm, manager>>

\* A lock that counts a lock file left behind as a lock.
Free_Slip(m) == flock[m] = None /\ file[m] = Blank

Free(m) == flock[m] = None

\* machine_lock_acquire: open, flock, truncate.  The text follows.
machine_lock_acquire(p) ==
    LET m == proc[p].machine IN
    /\ At(p, "launched")
    /\ \/ /\ m \in ReadOnly
          /\ Goto(p, "locked")
          /\ UNCHANGED <<flock, file>>
       \/ /\ m \notin ReadOnly
          /\ Free(m)
          /\ flock' = [flock EXCEPT ![m] = p]
          /\ file' = [file EXCEPT ![m] = Blank]
          /\ Goto(p, "writing")
       \/ /\ m \notin ReadOnly
          /\ ~ Free(m)
          /\ Goto(p, "refused")
          /\ UNCHANGED <<flock, file>>
    /\ UNCHANGED <<sock, shm, manager>>

\* The write that follows a truncation, at the start or in a rewrite.
WriteRecord(p) ==
    LET m == proc[p].machine IN
    /\ proc[p].at \in {"writing", "rewriting"}
    /\ file' = [file EXCEPT ![m] = Record(p, proc[p].ipc)]
    /\ Goto(p, IF At(p, "writing") THEN "locked" ELSE "running")
    /\ UNCHANGED <<flock, sock, shm, manager>>

\* Setting the endpoint without rewriting the file.
EnableManagedMode_Slip(p) ==
    LET m == proc[p].machine IN
    /\ At(p, "locked") /\ proc[p].managed
    /\ shm' = shm \cup {<<m, p>>}
    /\ sock' = [sock EXCEPT ![m] = IF m \in ReadOnly THEN @ ELSE p]
    /\ proc' = [proc EXCEPT ![p].at = "running", ![p].ipc = m \notin ReadOnly]
    /\ UNCHANGED <<flock, file, manager>>

\* EnableManagedMode: framebuffer, control channel, and the endpoint recorded,
\* which truncates the file first.  Without a lock nothing is rewritten, and a
\* read-only directory takes no socket either.
EnableManagedMode(p) ==
    LET m == proc[p].machine IN
    /\ At(p, "locked") /\ proc[p].managed
    /\ shm' = shm \cup {<<m, p>>}
    /\ IF m \in ReadOnly
       THEN Goto(p, "running") /\ UNCHANGED <<file, sock>>
       ELSE /\ sock' = [sock EXCEPT ![m] = p]
            /\ file' = [file EXCEPT ![m] = Blank]
            /\ proc' = [proc EXCEPT ![p].at = "rewriting", ![p].ipc = TRUE]
    /\ UNCHANGED <<flock, manager>>

\* A window of its own has nothing to publish.
ShowWindow(p) ==
    /\ At(p, "locked") /\ ~ proc[p].managed
    /\ Goto(p, "running")
    /\ UNCHANGED <<flock, file, sock, shm, manager>>

\* OnRecentMachine and the emulator thread's SwitchMachine: another machine's
\* configuration, CMOS and discs, in the same process.
SwitchMachine(p, m) ==
    /\ At(p, "running") /\ ~ proc[p].managed
    /\ m # proc[p].machine
    /\ proc' = [proc EXCEPT ![p].machine = m]
    /\ UNCHANGED <<flock, file, sock, shm, manager>>

\* What the kernel takes back with a process, and what the Manager's read
\* threads see of it.
Dropped(f, p) == [m \in Machine |-> IF f[m] = p THEN None ELSE f[m]]

\* A reader that ends without a word when its peer closes.
Hung_Slip(p) == manager

Hung(p) ==
    [manager EXCEPT !.running =
        [m \in Machine |-> IF @[m].link = p THEN [@[m] EXCEPT !.link = Lost] ELSE @[m]]]

Dead(p) == IF proc[p].child THEN [proc[p] EXCEPT !.at = "zombie"] ELSE NoProcess

EndProcess(p) ==
    /\ proc' = [proc EXCEPT ![p] = Dead(p)]
    /\ flock' = Dropped(flock, p)
    /\ sock' = Dropped(sock, p)
    /\ manager' = Hung(p)

\* Releasing the lock before the emulator thread has been joined.
RequestExit_Slip(p) ==
    /\ At(p, "running")
    /\ Goto(p, "closing")
    /\ flock' = Dropped(flock, p)
    /\ UNCHANGED <<file, sock, shm, manager>>

\* ShutdownEmulator as far as Join: the machine is still writing its files.
RequestExit(p) ==
    /\ At(p, "running")
    /\ Goto(p, "closing")
    /\ UNCHANGED <<flock, file, sock, shm, manager>>

\* machine_lock_release, the end of ShutdownEmulator: the machine may be
\* started again while this process goes on.  The file stays.
machine_lock_release(p) ==
    /\ At(p, "closing")
    /\ Goto(p, "released")
    /\ flock' = Dropped(flock, p)
    /\ UNCHANGED <<file, sock, shm, manager>>

\* ~MainFrame destroys the server first.  MachineIpcServer::Stop waits for the
\* accept thread, which closes the Manager's connection on its way out.
AcceptLoopEnds(p) ==
    /\ At(p, "released") /\ proc[p].ipc
    /\ Goto(p, "stopping")
    /\ manager' = Hung(p)
    /\ UNCHANGED <<flock, file, sock, shm>>

\* The rest of Stop: the listener is closed, and with it a connection that was
\* still to be accepted; then the path goes, whoever has bound it since.
Stop(p) ==
    /\ At(p, "stopping")
    /\ proc' = [proc EXCEPT ![p].at = "released", ![p].ipc = FALSE]
    /\ sock' = [sock EXCEPT ![proc[p].machine] = None]
    /\ manager' = Hung(p)
    /\ UNCHANGED <<flock, file, shm>>

\* SharedFramebuffer::Close, by a name that holds this pid, and the end.
Exit(p) ==
    /\ At(p, "released") /\ ~ proc[p].ipc
    /\ EndProcess(p)
    /\ shm' = shm \ {<<m, p>> : m \in Machine}
    /\ UNCHANGED file

\* The copy that was refused has shown its message.
GiveUp(p) ==
    /\ At(p, "refused")
    /\ EndProcess(p)
    /\ UNCHANGED <<file, shm>>

Crash(p) ==
    /\ "crash" \in Upsets
    /\ proc[p].at \notin Ended
    /\ EndProcess(p)
    /\ UNCHANGED <<file, shm>>

Emulator(p) ==
    \/ machine_lock_acquire(p)
    \/ WriteRecord(p)
    \/ EnableManagedMode(p)
    \/ ShowWindow(p)
    \/ RequestExit(p)
    \/ machine_lock_release(p)
    \/ AcceptLoopEnds(p)
    \/ Stop(p)
    \/ Exit(p)
    \/ GiveUp(p)
    \/ Crash(p)
    \/ \E m \in Machine : StartByHand(p, m)

=============================================================================
