------------------------ MODULE MachineManagerProofs ------------------------
(***************************************************************************)
(* What the Manager relies on: processes, locks and records, for any       *)
(* machines, any number of processes and any upsets; the socket between a   *)
(* machine and its Managers (MachineIpc), for any number of them; and the   *)
(* panel that shows the machine (RemotePanel), for any number of rows.      *)
(***************************************************************************)
EXTENDS MachineManager, MachineIpc, RemotePanel, TLAPS

\* The only fact about the shape of a process record the steps need.
LEMMA NoProcessType == NoProcess \in ProcType
  BY DEF NoProcess, ProcType, Ended

LEMMA LaunchedType ==
  ASSUME NEW m \in Machine, NEW managed \in BOOLEAN, NEW child \in BOOLEAN
  PROVE  Launched(m, managed, child) \in ProcType
  BY ZenonT(40) DEF Launched, NoProcess, ProcType

\* Moving a process to another point of its code keeps its type.
LEMMA GotoType ==
  ASSUME proc \in [Pid -> ProcType], NEW p \in Pid,
         NEW s \in Using \cup Leaving \cup Ended \cup {"launched", "refused"}, Goto(p, s)
  PROVE  proc' \in [Pid -> ProcType]
  BY DEF Goto, ProcType

\* A process that exists has a machine.
Placed == \A p \in Pid : proc[p].at # "gone" => proc[p].machine \in Machine

Typed == TypeOK /\ Placed

LEMMA HungType ==
  ASSUME manager \in ManagerType, NEW p
  PROVE  Hung(p) \in ManagerType
PROOF
  <1> DEFINE run == [m \in Machine |-> IF manager.running[m].link = p
                                       THEN [manager.running[m] EXCEPT !.link = Lost]
                                       ELSE manager.running[m]]
  <1>1. \A m \in Machine : manager.running[m] \in EntryType
    BY DEF ManagerType
  <1>2. \A e \in EntryType : [e EXCEPT !.link = Lost] \in EntryType
    BY DEF EntryType
  <1>3. run \in [Machine -> EntryType]
    BY <1>1, <1>2
  <1>4. Hung(p) = [manager EXCEPT !.running = run]
    BY DEF Hung
  <1> HIDE DEF run
  <1> QED BY <1>3, <1>4 DEF ManagerType

LEMMA EndProcessType ==
  ASSUME Typed, NEW p \in Pid, EndProcess(p), proc[p].at # "gone"
  PROVE  /\ proc' \in [Pid -> ProcType] /\ Placed'
         /\ flock' \in [Machine -> Pid \cup {Manager, None}]
         /\ sock' \in [Machine -> Pid \cup {None}]
         /\ manager' \in ManagerType
PROOF
  <1>1. Dead(p) \in ProcType
    BY NoProcessType, ZenonT(20) DEF Typed, TypeOK, Dead, ProcType, Ended
  <1>2. proc' \in [Pid -> ProcType]
    BY <1>1 DEF EndProcess, Typed, TypeOK
  <1>3. flock' \in [Machine -> Pid \cup {Manager, None}]
    BY DEF EndProcess, Typed, TypeOK, Dropped
  <1>4. sock' \in [Machine -> Pid \cup {None}]
    BY DEF EndProcess, Typed, TypeOK, Dropped
  <1>5. manager' \in ManagerType
    BY HungType DEF EndProcess, Typed, TypeOK
  <1>6. Placed'
    <2>1. proc'[p].at = "gone" \/ proc'[p].machine = proc[p].machine
      BY DEF EndProcess, Typed, TypeOK, Dead, ProcType, NoProcess
    <2>2. \A q \in Pid \ {p} : proc'[q] = proc[q]
      BY DEF EndProcess, Typed, TypeOK
    <2> QED BY <2>1, <2>2 DEF Placed, Typed
  <1> QED BY <1>2, <1>3, <1>4, <1>5, <1>6

LEMMA EmulatorType ==
  ASSUME Typed, NEW p \in Pid, Emulator(p)
  PROVE  Typed'
PROOF
  <1> USE DEF Typed
  <1> DEFINE m == proc[p].machine
  <1>0. \A q \in Pid : proc[q] \in ProcType
    BY DEF TypeOK
  <1>1. CASE machine_lock_acquire(p)
    <2>1. proc' \in [Pid -> ProcType] /\ Placed'
      BY <1>1, <1>0, GotoType DEF machine_lock_acquire, TypeOK, Using, Ended, Placed, At, Goto, ProcType
    <2>2. flock' \in [Machine -> Pid \cup {Manager, None}]
      BY <1>1 DEF machine_lock_acquire, TypeOK
    <2>3. file' \in [Machine -> {Blank} \cup RecordType]
      BY <1>1 DEF machine_lock_acquire, TypeOK
    <2> QED BY <1>1, <2>1, <2>2, <2>3 DEF machine_lock_acquire, TypeOK
  <1>2. CASE WriteRecord(p)
    <2>0. \E s \in Using : s # "gone" /\ Goto(p, s)
      BY <1>2 DEF WriteRecord, Using
    <2>1. proc' \in [Pid -> ProcType] /\ Placed'
      <3>1. PICK s \in Using : s # "gone" /\ Goto(p, s)
        BY <2>0
      <3>2. proc' \in [Pid -> ProcType]
        BY <3>1, GotoType DEF TypeOK
      <3>3. proc[p].at # "gone"
        BY <1>2 DEF WriteRecord
      <3>4. \A q \in Pid : proc'[q].machine = proc[q].machine /\ (q # p => proc'[q] = proc[q])
        BY <3>1, <1>0 DEF Goto, TypeOK, ProcType
      <3> QED BY <3>2, <3>3, <3>4 DEF Placed
    <2>2. Record(p, proc[p].ipc) \in RecordType
      BY DEF TypeOK, ProcType, Record, RecordType
    <2>3. file' \in [Machine -> {Blank} \cup RecordType]
      BY ZenonT(40), <1>2, <2>2 DEF WriteRecord, TypeOK
    <2> QED BY <1>2, <2>1, <2>3 DEF WriteRecord, TypeOK
  <1>3. CASE EnableManagedMode(p)
    <2>1. proc' \in [Pid -> ProcType] /\ Placed'
      BY <1>3, <1>0, GotoType DEF EnableManagedMode, TypeOK, ProcType, Using, Ended, Placed, At, Goto
    <2>2. sock' \in [Machine -> Pid \cup {None}]
      BY <1>3 DEF EnableManagedMode, TypeOK
    <2>3. file' \in [Machine -> {Blank} \cup RecordType]
      BY <1>3 DEF EnableManagedMode, TypeOK
    <2>4. m \in Machine
      BY <1>3 DEF EnableManagedMode, At, Placed
    <2>5. shm' \subseteq Machine \X Pid
      BY <1>3, <2>4 DEF EnableManagedMode, TypeOK
    <2> QED BY <1>3, <2>1, <2>2, <2>3, <2>5 DEF EnableManagedMode, TypeOK
  <1>4. CASE ShowWindow(p)
    BY ZenonT(40), <1>4, <1>0, GotoType DEF ShowWindow, TypeOK, ProcType, Using, Ended, Placed,
       At, Goto
  <1>5. CASE RequestExit(p)
    BY ZenonT(40), <1>5, <1>0, GotoType DEF RequestExit, TypeOK, ProcType, Using, Ended, Placed,
       At, Goto
  <1>6. CASE machine_lock_release(p)
    <2>1. proc' \in [Pid -> ProcType]
      BY <1>6, GotoType DEF machine_lock_release, TypeOK, Leaving
    <2>2. Placed'
      BY <1>6, <1>0 DEF machine_lock_release, At, Goto, Placed, TypeOK, ProcType
    <2>3. flock' \in [Machine -> Pid \cup {Manager, None}]
      BY <1>6 DEF machine_lock_release, Dropped, TypeOK
    <2> QED BY <1>6, <2>1, <2>2, <2>3 DEF machine_lock_release, TypeOK
  <1>7. CASE GiveUp(p)
    BY <1>7, EndProcessType DEF GiveUp, TypeOK, At
  <1>10. CASE AcceptLoopEnds(p)
    <2>1. proc' \in [Pid -> ProcType]
      BY <1>10, GotoType DEF AcceptLoopEnds, TypeOK, Leaving
    <2>2. Placed'
      BY <1>10, <1>0 DEF AcceptLoopEnds, At, Goto, Placed, TypeOK, ProcType
    <2> QED BY <1>10, <2>1, <2>2, HungType DEF AcceptLoopEnds, TypeOK
  <1>11. CASE Stop(p)
    <2>1. proc' \in [Pid -> ProcType]
      BY <1>11, <1>0, ZenonT(40) DEF Stop, TypeOK, ProcType, Leaving
    <2>2. Placed'
      BY <1>11, <1>0 DEF Stop, At, Placed, TypeOK, ProcType
    <2>3. sock' \in [Machine -> Pid \cup {None}]
      BY <1>11 DEF Stop, TypeOK
    <2> QED BY <1>11, <2>1, <2>2, <2>3, HungType DEF Stop, TypeOK
  <1>12. CASE Exit(p)
    BY <1>12, EndProcessType DEF Exit, TypeOK, At
  <1>8. CASE Crash(p)
    BY <1>8, EndProcessType DEF Crash, TypeOK, Ended
  <1>9. ASSUME NEW x \in Machine, StartByHand(p, x)
        PROVE  Typed'
    <2>1. PICK managed \in BOOLEAN : proc' = [proc EXCEPT ![p] = Launched(x, managed, FALSE)]
      BY ZenonT(40), <1>9 DEF StartByHand
    <2>2. proc' \in [Pid -> ProcType]
      BY ZenonT(40), <2>1, LaunchedType DEF TypeOK
    <2>3. Launched(x, managed, FALSE).machine = x
      BY DEF Launched, NoProcess
    <2>4. Placed'
      BY ZenonT(40), <2>1, <2>3 DEF Placed, TypeOK
    <2> QED BY ZenonT(40), <1>9, <2>2, <2>4 DEF StartByHand, TypeOK
  <1> QED
    BY <1>1, <1>2, <1>3, <1>4, <1>5, <1>6, <1>7, <1>8, <1>9, <1>10, <1>11, <1>12 DEF Emulator

LEMMA RemoveType ==
  ASSUME manager \in ManagerType, NEW m \in Machine
  PROVE  RemoveRunningEntry(m) \in ManagerType
  BY ZenonT(40) DEF RemoveRunningEntry, SetEntry, NoEntry, ManagerType, EntryType

LEMMA ManagerStepType ==
  ASSUME Typed, ManagerStep
  PROVE  Typed'
PROOF
  <1> USE DEF Typed
  <1>1. CASE ManagerOpens
    BY ZenonT(40), <1>1 DEF ManagerOpens, TypeOK, Placed, ManagerClosed, NoEntry, ManagerType,
       EntryType
  <1>2. CASE ManagerCloses
    <2>1. \A p \in Pid : proc[p] \in ProcType
      BY DEF TypeOK
    <2>2. \A x \in ProcType : [x EXCEPT !.child = FALSE] \in ProcType
      BY ZenonT(40) DEF ProcType
    <2>3. proc' \in [Pid -> ProcType]
      BY <1>2, <2>1, <2>2, NoProcessType DEF ManagerCloses
    <2>4. Placed'
      BY <1>2, <2>1 DEF ManagerCloses, Placed, NoProcess, ProcType
    <2>5. flock' \in [Machine -> Pid \cup {Manager, None}]
      BY <1>2 DEF ManagerCloses, Dropped, TypeOK
    <2>6. manager' \in ManagerType
      BY <1>2 DEF ManagerCloses, ManagerClosed, NoEntry, ManagerType, EntryType
    <2> QED BY <1>2, <2>3, <2>4, <2>5, <2>6 DEF ManagerCloses, TypeOK
  <1>3. CASE OnDataFolder
    BY <1>3, ZenonT(20) DEF OnDataFolder, TypeOK, Placed, ManagerType
  <1>4. ASSUME NEW m \in Machine, ReadOwner(m)
        PROVE  Typed'
    <2>1. Owned(m) => file[m].pid \in Pid \cup {Manager}
      BY DEF Owned, TypeOK, RecordType
    <2> DEFINE r == IF Owned(m)
                    THEN [machine |-> m, pid |-> file[m].pid, fresh |-> m \notin manager.todo]
                    ELSE None
    <2>2. r \in {None} \cup ReadingType
      BY <2>1 DEF ReadingType
    <2>3. manager' = [manager EXCEPT !.todo = @ \ {m}, !.reading = r]
      BY <1>4 DEF ReadOwner
    <2> HIDE DEF r
    <2>4. manager' \in ManagerType
      BY ZenonT(40), <2>2, <2>3 DEF TypeOK, ManagerType
    <2> QED BY <1>4, <2>4 DEF ReadOwner, TypeOK, Placed
  <1>5. ASSUME NEW m \in Machine, AttachPanelFor(m)
        PROVE  Typed'
    <2> DEFINE shown == [Entry(m) EXCEPT !.st = "shown", !.link = sock[m]]
               done == [manager EXCEPT !.reading = None]
    <2>0. Entry(m) \in EntryType /\ sock[m] \in Pid \cup {None, Lost}
      BY DEF TypeOK, Entry, ManagerType
    <2>1. shown \in EntryType
      BY ZenonT(40), <2>0 DEF EntryType
    <2>2. done \in ManagerType
      BY DEF TypeOK, ManagerType
    <2>3. manager' = done \/ manager' = SetEntry(done, m, shown)
      BY <1>5 DEF AttachPanelFor
    <2> HIDE DEF shown, done
    <2>4. SetEntry(done, m, shown) \in ManagerType
      BY <2>1, <2>2 DEF SetEntry, ManagerType
    <2> QED BY <1>5, <2>2, <2>3, <2>4 DEF AttachPanelFor, TypeOK, Placed
  <1>6. ASSUME NEW m \in Machine, Deadline(m) \/ PanelGone(m)
        PROVE  Typed'
    BY <1>6, RemoveType DEF Deadline, PanelGone, TypeOK, Placed
  <1>7. ASSUME NEW m \in Machine, AnyMachineInUse(m)
        PROVE  Typed'
    <2>1. flock' \in [Machine -> Pid \cup {Manager, None}]
      BY ZenonT(40), <1>7 DEF AnyMachineInUse, ManagerReleases, TypeOK
    <2>2. Record(Manager, FALSE) \in RecordType
      BY DEF Record, RecordType
    <2>3. file' \in [Machine -> {Blank} \cup RecordType]
      BY ZenonT(40), <1>7, <2>2 DEF AnyMachineInUse, TypeOK
    <2>4. manager' \in ManagerType
      BY ZenonT(40), <1>7 DEF AnyMachineInUse, TypeOK, ManagerType
    <2> QED BY <1>7, <2>1, <2>3, <2>4 DEF AnyMachineInUse, TypeOK, Placed
  <1>8. ASSUME NEW m \in Machine, NEW p \in Pid, StartMachine(m, p)
        PROVE  Typed'
    <2>1. Launched(m, TRUE, TRUE) \in ProcType /\ Launched(m, TRUE, TRUE).machine = m
      BY ZenonT(40), LaunchedType DEF Launched, NoProcess
    <2>2. proc' \in [Pid -> ProcType] /\ Placed'
      BY ZenonT(40), <1>8, <2>1 DEF StartMachine, TypeOK, Placed
    <2>3. manager' \in ManagerType
      BY ZenonT(40), <1>8 DEF StartMachine, SetEntry, TypeOK, ManagerType, EntryType
    <2> QED BY ZenonT(40), <1>8, <2>2, <2>3 DEF StartMachine, TypeOK
  <1>9. ASSUME NEW p \in Pid, OnChildProcessEnded(p)
        PROVE  Typed'
    <2>1. proc' \in [Pid -> ProcType] /\ Placed'
      BY <1>9, NoProcessType DEF OnChildProcessEnded, TypeOK, Placed, NoProcess
    <2> DEFINE run == [m \in Machine |-> IF m \in {x \in Machine : Entry(x).child = p}
                                         THEN NoEntry ELSE manager.running[m]]
    <2>a. run \in [Machine -> EntryType]
      BY DEF TypeOK, ManagerType, EntryType, NoEntry
    <2>b. manager' = [manager EXCEPT !.running = run]
      BY <1>9 DEF OnChildProcessEnded
    <2> HIDE DEF run
    <2>2. manager' \in ManagerType
      BY <2>a, <2>b DEF TypeOK, ManagerType
    <2> QED BY <1>9, <2>1, <2>2 DEF OnChildProcessEnded, TypeOK
  <1> QED
    BY <1>1, <1>2, <1>3, <1>4, <1>5, <1>6, <1>7, <1>8, <1>9 DEF ManagerStep

-----------------------------------------------------------------------------
(* Who holds what.                                                         *)

\* A process using a machine that can be locked holds its lock, and a lock is
\* held by a process using that machine, or by a Manager that is there.  The
\* lock that lock_fd of the Manager stands for is its own.
Held ==
    /\ \A p \in Pid : (proc[p].at \in Using /\ proc[p].machine \notin ReadOnly)
                          => flock[proc[p].machine] = p
    /\ \A m \in Machine : flock[m] \in Pid
                          => proc[flock[m]].machine = m /\ proc[flock[m]].at \in Using
    /\ \A m \in Machine : flock[m] = Manager => manager.up
    /\ manager.lock_fd \in Machine => flock[manager.lock_fd] = Manager

\* What a panel's reader sees of a connection that ends, and nothing else.
LEMMA HungLinks ==
  ASSUME Typed, NEW p \in Pid, manager' = Hung(p)
  PROVE  /\ manager'.up = manager.up /\ manager'.lock_fd = manager.lock_fd
         /\ \A m \in Machine : manager'.running[m].link =
                IF manager.running[m].link = p THEN Lost ELSE manager.running[m].link
PROOF
  <1> DEFINE run == [m \in Machine |-> IF manager.running[m].link = p
                                       THEN [manager.running[m] EXCEPT !.link = Lost]
                                       ELSE manager.running[m]]
  <1>5. manager' = [manager EXCEPT !.running = run]
    BY DEF Hung
  <1>6. \A m \in Machine : run[m].link =
                IF manager.running[m].link = p THEN Lost ELSE manager.running[m].link
    BY DEF Typed, TypeOK, ManagerType, EntryType
  <1> HIDE DEF run
  <1>7. manager'.up = manager.up /\ manager'.lock_fd = manager.lock_fd /\ manager'.running = run
    BY <1>5 DEF Typed, TypeOK, ManagerType
  <1> QED BY <1>6, <1>7

\* What the end of a process leaves of the others and of itself.
LEMMA EndProcessLeaves ==
  ASSUME Typed, NEW p \in Pid, EndProcess(p)
  PROVE  /\ \A q \in Pid \ {p} : proc'[q] = proc[q]
         /\ proc'[p].at \in Ended
         /\ \A m \in Machine : flock'[m] = IF flock[m] = p THEN None ELSE flock[m]
         /\ \A m \in Machine : sock'[m] = IF sock[m] = p THEN None ELSE sock[m]
         /\ manager'.up = manager.up /\ manager'.lock_fd = manager.lock_fd
         /\ \A m \in Machine : manager'.running[m].link =
                IF manager.running[m].link = p THEN Lost ELSE manager.running[m].link
PROOF
  <1>1. proc'[p] = Dead(p) /\ \A q \in Pid \ {p} : proc'[q] = proc[q]
    BY DEF EndProcess, Typed, TypeOK
  <1>2. Dead(p).at \in Ended
    BY DEF Dead, NoProcess, Ended, Typed, TypeOK, ProcType
  <1>3. \A m \in Machine : flock'[m] = IF flock[m] = p THEN None ELSE flock[m]
    BY DEF EndProcess, Dropped
  <1>4. \A m \in Machine : sock'[m] = IF sock[m] = p THEN None ELSE sock[m]
    BY DEF EndProcess, Dropped
  <1>5. /\ manager'.up = manager.up /\ manager'.lock_fd = manager.lock_fd
        /\ \A m \in Machine : manager'.running[m].link =
               IF manager.running[m].link = p THEN Lost ELSE manager.running[m].link
    BY HungLinks DEF EndProcess
  <1> QED BY <1>1, <1>2, <1>3, <1>4, <1>5

\* A process that is not using a machine any more has given its lock back.
LEMMA GivenBackHeld ==
  ASSUME Typed, Held, NEW p \in Pid,
         \A q \in Pid \ {p} : proc'[q] = proc[q],
         \A m \in Machine : flock'[m] = IF flock[m] = p THEN None ELSE flock[m],
         manager'.up = manager.up, manager'.lock_fd = manager.lock_fd, proc'[p].at \notin Using
  PROVE  Held'
PROOF
  <1>3. \A q \in Pid : proc[q].at \in Using => proc[q].machine \in Machine
    BY DEF Typed, Placed, Using
  <1> QED BY <1>3, MachineLockAssumption DEF Held

LEMMA EndProcessHeld ==
  ASSUME Typed, Held, NEW p \in Pid, EndProcess(p)
  PROVE  Held'
PROOF
  <1>2. proc'[p].at \notin Using
    BY EndProcessLeaves DEF Using, Ended
  <1> QED BY <1>2, EndProcessLeaves, GivenBackHeld

\* A step of one process from one point of its code to another, its lock
\* alone: the lock it takes was free.
LEMMA EmulatorHeld ==
  ASSUME Typed, Held, NEW p \in Pid, Emulator(p)
  PROVE  Held'
PROOF
  <1> USE MachineLockAssumption
  <1>0. \A q \in Pid : proc[q] \in ProcType
    BY DEF Typed, TypeOK
  <1>1. CASE machine_lock_acquire(p)
    <2> DEFINE m == proc[p].machine
    <2>1. m \in Machine /\ proc[p].at = "launched"
      BY <1>1 DEF machine_lock_acquire, At, Typed, Placed
    <2>2. \A s : Goto(p, s) => /\ \A q \in Pid \ {p} : proc'[q] = proc[q]
                               /\ proc'[p].at = s /\ proc'[p].machine = m
      BY <1>0 DEF Goto, Typed, TypeOK, ProcType
    <2>3. manager' = manager
      BY <1>1, ZenonT(20) DEF machine_lock_acquire
    <2>4. CASE m \in ReadOnly
      <3>1. Goto(p, "locked") /\ flock' = flock
        BY <1>1, <2>4, ZenonT(20) DEF machine_lock_acquire
      <3> QED BY <2>1, <2>2, <2>3, <2>4, <3>1 DEF Held, Using
    <2>5. CASE m \notin ReadOnly /\ Free(m)
      <3>1. Goto(p, "writing") /\ flock' = [flock EXCEPT ![m] = p]
        BY <1>1, <2>5 DEF machine_lock_acquire
      <3>2. \A x \in Machine : flock'[x] = IF x = m THEN p ELSE flock[x]
        BY <3>1 DEF Typed, TypeOK
      <3>3. \A q \in Pid : (proc[q].at \in Using /\ proc[q].machine = m) => FALSE
        BY <2>5 DEF Held, Free
      <3>4. \A q \in Pid \ {p} : proc[q].at \in Using => proc[q].machine \in Machine
        BY DEF Typed, Placed, Using
      <3>5. "writing" \in Using
        BY ZenonT(20) DEF Using
      <3> QED BY <2>1, <2>2, <2>3, <2>5, <3>1, <3>2, <3>3, <3>4, <3>5 DEF Held, Free
    <2>6. CASE m \notin ReadOnly /\ ~ Free(m)
      <3>1. Goto(p, "refused") /\ flock' = flock
        BY <1>1, <2>6, ZenonT(20) DEF machine_lock_acquire
      <3> QED BY <2>1, <2>2, <2>3, <3>1 DEF Held, Using
    <2> QED BY <2>4, <2>5, <2>6
  <1>2. CASE \/ WriteRecord(p) \/ EnableManagedMode(p) \/ ShowWindow(p) \/ RequestExit(p)
    <2>1. proc[p].at \in Using /\ flock' = flock /\ manager' = manager
      BY <1>2, ZenonT(20) DEF WriteRecord, EnableManagedMode, ShowWindow, RequestExit, At, Using
    <2>2. /\ \A q \in Pid \ {p} : proc'[q] = proc[q]
          /\ proc'[p].at \in Using /\ proc'[p].machine = proc[p].machine
      BY <1>2, <1>0 DEF WriteRecord, EnableManagedMode, ShowWindow, RequestExit,
                        At, Goto, Using, Typed, TypeOK, ProcType
    <2> QED BY <2>1, <2>2 DEF Held
  <1>3. CASE \/ Exit(p) \/ GiveUp(p) \/ Crash(p)
    BY <1>3, EndProcessHeld, ZenonT(20) DEF Exit, GiveUp, Crash
  <1>5. CASE machine_lock_release(p)
    <2>1. /\ \A q \in Pid \ {p} : proc'[q] = proc[q]
          /\ proc'[p].at = "released"
      BY <1>5, <1>0 DEF machine_lock_release, Goto, Typed, TypeOK, ProcType
    <2>2. \A m \in Machine : flock'[m] = IF flock[m] = p THEN None ELSE flock[m]
      BY <1>5 DEF machine_lock_release, Dropped
    <2>3. manager'.up = manager.up /\ manager'.lock_fd = manager.lock_fd /\ proc'[p].at \notin Using
      BY <1>5, <2>1 DEF machine_lock_release, Using
    <2> QED BY <2>1, <2>2, <2>3, GivenBackHeld
  <1>6. CASE AcceptLoopEnds(p) \/ Stop(p)
    <2>1. /\ \A q \in Pid \ {p} : proc'[q] = proc[q]
          /\ proc[p].at \in Leaving /\ proc'[p].at \in Leaving
      BY <1>6, <1>0 DEF AcceptLoopEnds, Stop, At, Goto, Leaving, Typed, TypeOK, ProcType
    <2>2. proc[p].at \notin Using /\ proc'[p].at \notin Using
      BY <2>1 DEF Using, Leaving
    <2>3. \A m \in Machine : flock'[m] = flock[m] /\ flock[m] # p
      BY <1>6, <2>2 DEF AcceptLoopEnds, Stop, Held
    <2>4. manager'.up = manager.up /\ manager'.lock_fd = manager.lock_fd
      BY <1>6, HungLinks DEF AcceptLoopEnds, Stop
    <2> QED BY <2>1, <2>2, <2>3, <2>4, GivenBackHeld
  <1>4. ASSUME NEW x \in Machine, StartByHand(p, x)
        PROVE  Held'
    <2>1. /\ \A q \in Pid \ {p} : proc'[q] = proc[q]
          /\ proc'[p].at = "launched" /\ proc[p].at = "gone"
          /\ flock' = flock /\ manager' = manager
      BY <1>4 DEF StartByHand, At, Launched, NoProcess, Typed, TypeOK
    <2> QED BY <2>1 DEF Held, Using
  <1> QED BY <1>1, <1>2, <1>3, <1>4, <1>5, <1>6 DEF Emulator

LEMMA ManagerStepHeld ==
  ASSUME Typed, Held, ManagerStep
  PROVE  Held'
PROOF
  <1> USE MachineLockAssumption
  <1>1. CASE ManagerOpens
    BY <1>1, ZenonT(20) DEF ManagerOpens, ManagerClosed, Held
  <1>2. CASE ManagerCloses
    <2>1. \A m \in Machine : flock'[m] = IF flock[m] = Manager THEN None ELSE flock[m]
      BY <1>2 DEF ManagerCloses, Dropped
    <2>2. \A p \in Pid : /\ proc'[p].at \in Using => proc'[p].at = proc[p].at
                                                     /\ proc'[p].machine = proc[p].machine
                         /\ proc[p].at \in Using => proc'[p].at = proc[p].at
                                                     /\ proc'[p].machine = proc[p].machine
      BY <1>2 DEF ManagerCloses, At, NoProcess, Using, Typed, TypeOK, ProcType
    <2>3. \A p \in Pid : proc[p].at \in Using => proc[p].machine \in Machine
      BY DEF Typed, Placed, Using
    <2>4. manager'.lock_fd = None
      BY <1>2 DEF ManagerCloses, ManagerClosed
    <2> QED BY <2>1, <2>2, <2>3, <2>4 DEF Held
  <1>3. CASE OnDataFolder
    BY <1>3, ZenonT(20) DEF OnDataFolder, Held, Typed, TypeOK, ManagerType
  <1>4. ASSUME NEW m \in Machine,
               \/ ReadOwner(m) \/ AttachPanelFor(m) \/ Deadline(m) \/ PanelGone(m)
        PROVE  Held'
    <2>1. proc' = proc /\ flock' = flock
      BY <1>4 DEF ReadOwner, AttachPanelFor, Deadline, PanelGone
    <2>2. manager'.up = manager.up /\ manager'.lock_fd = manager.lock_fd
      BY ZenonT(40), <1>4 DEF ReadOwner, AttachPanelFor, Deadline, PanelGone, RemoveRunningEntry,
                  SetEntry, Typed, TypeOK, ManagerType
    <2> QED BY <2>1, <2>2 DEF Held
  <1>5. ASSUME NEW m \in Machine, AnyMachineInUse(m)
        PROVE  Held'
    <2>1. proc' = proc /\ manager'.up /\ manager.up
      BY ZenonT(40), <1>5 DEF AnyMachineInUse, Typed, TypeOK, ManagerType
    <2>2. CASE flock' = flock /\ manager' = [manager EXCEPT !.scan = {}]
      <3>1. manager'.lock_fd = manager.lock_fd
        BY <2>2 DEF Typed, TypeOK, ManagerType
      <3> QED BY <2>1, <2>2, <3>1, ZenonT(20) DEF Held
    <2>3. CASE /\ m \notin ReadOnly /\ Free(m) /\ flock' = [flock EXCEPT ![m] = Manager]
               /\ manager' = [manager EXCEPT !.scan = {}, !.lock_fd = m]
      <3>0. manager'.lock_fd = m
        BY <2>3 DEF Typed, TypeOK, ManagerType
      <3>1. \A x \in Machine : flock'[x] = IF x = m THEN Manager ELSE flock[x]
        BY <2>3, ZenonT(20) DEF Typed, TypeOK
      <3>2. \A q \in Pid : proc[q].at \in Using => proc[q].machine # m
        BY <2>3 DEF Held, Free
      <3>3. \A q \in Pid : proc[q].at \in Using => proc[q].machine \in Machine
        BY ZenonT(20) DEF Typed, Placed, Using
      <3> QED BY <2>1, <3>0, <3>1, <3>2, <3>3 DEF Held
    <2>4. CASE ManagerReleases /\ manager' = [manager EXCEPT !.scan = @ \ {m}, !.lock_fd = None]
      <3>0. manager'.lock_fd = None
        BY <2>4 DEF Typed, TypeOK, ManagerType
      <3>1. \A x \in Machine : flock'[x] = IF x = manager.lock_fd THEN None ELSE flock[x]
        BY <2>4, ZenonT(20) DEF ManagerReleases
      <3>2. \A q \in Pid : proc[q].machine # manager.lock_fd \/ proc[q].at \notin Using
                            \/ proc[q].machine \in ReadOnly
        BY DEF Held, Typed, Placed, Using
      <3>3. \A q \in Pid : proc[q].at \in Using => proc[q].machine \in Machine
        BY DEF Typed, Placed, Using
      <3> QED BY <2>1, <3>0, <3>1, <3>2, <3>3 DEF Held
    <2> QED BY ZenonT(40), <1>5, <2>2, <2>3, <2>4 DEF AnyMachineInUse
  <1>6. ASSUME NEW m \in Machine, NEW p \in Pid, StartMachine(m, p)
        PROVE  Held'
    <2>1. /\ \A q \in Pid \ {p} : proc'[q] = proc[q]
          /\ proc'[p].at = "launched" /\ proc[p].at = "gone"
          /\ flock' = flock /\ manager'.up = manager.up /\ manager'.lock_fd = manager.lock_fd
      BY <1>6, ZenonT(20) DEF StartMachine, At, Launched, NoProcess, SetEntry, Typed, TypeOK, ManagerType
    <2> QED BY <2>1 DEF Held, Using
  <1>7. ASSUME NEW p \in Pid, OnChildProcessEnded(p)
        PROVE  Held'
    <2>1. /\ \A q \in Pid \ {p} : proc'[q] = proc[q]
          /\ proc'[p].at = "gone" /\ proc[p].at = "zombie"
          /\ flock' = flock /\ manager'.up = manager.up /\ manager'.lock_fd = manager.lock_fd
      BY <1>7, ZenonT(20) DEF OnChildProcessEnded, At, NoProcess, Typed, TypeOK, ManagerType
    <2> QED BY <2>1 DEF Held, Using
  <1> QED
    BY <1>1, <1>2, <1>3, <1>4, <1>5, <1>6, <1>7 DEF ManagerStep

-----------------------------------------------------------------------------
(* What the users tell the others: socket, record, panel.                  *)

\* A process that has a machine in use, or had and has not ended yet.
There == Using \cup Leaving

LEMMA ThereFacts ==
  /\ {"locked", "running", "closing", "writing", "rewriting"} \subseteq Using
  /\ {"released", "stopping"} \subseteq There
  /\ Using \subseteq There
  /\ \A s \in Ended \cup {"launched", "refused"} : s \notin There /\ s \notin Using
  /\ "released" \notin Using /\ "stopping" \notin Using
  BY DEF There, Using, Leaving, Ended

\* The path of a control socket leads to a process of that machine that has
\* told so.  A process using a machine that told so is the one there, unless
\* the path has been removed.  The record of a process between two rewrites is
\* its own, and a panel's far end is a process of that machine.
Told ==
    /\ \A m \in Machine : sock[m] \in Pid
           => m \notin ReadOnly /\ proc[sock[m]].machine = m
              /\ proc[sock[m]].at \in There /\ proc[sock[m]].ipc
    /\ \A p \in Pid : (proc[p].at \in Using /\ proc[p].ipc) => sock[proc[p].machine] \in {p, None}
    /\ \A p \in Pid : proc[p].at \in {"launched", "refused", "writing", "locked"} => ~ proc[p].ipc
    /\ \A p \in Pid : proc[p].at \in {"writing", "rewriting"} => proc[p].machine \notin ReadOnly
    /\ \A p \in Pid : (proc[p].at \in {"locked", "running", "closing"}
                           /\ proc[p].machine \notin ReadOnly)
           => file[proc[p].machine] = Record(p, proc[p].ipc)
    /\ \A m \in Machine : manager.running[m].link \in Pid
           => proc[manager.running[m].link].machine = m
              /\ proc[manager.running[m].link].at \in There

LEMMA EndProcessTold ==
  ASSUME Typed, Told, NEW p \in Pid, EndProcess(p), file' = file
  PROVE  Told'
PROOF
  <1>1. /\ \A q \in Pid \ {p} : proc'[q] = proc[q]
        /\ \A m \in Machine : sock'[m] = IF sock[m] = p THEN None ELSE sock[m]
        /\ \A m \in Machine : manager'.running[m].link =
               IF manager.running[m].link = p THEN Lost ELSE manager.running[m].link
    BY EndProcessLeaves, ZenonT(20)
  <1>2. proc'[p].at \notin Using \cup {"launched", "refused"}
    BY EndProcessLeaves DEF Using, Ended
  <1>3. \A q \in Pid : proc[q].at \in Using => proc[q].machine \in Machine
    BY DEF Typed, Placed, Using
  <1>4. {"locked", "running", "closing", "writing", "rewriting"} \subseteq Using
    BY DEF Using
  <1>5. None \notin Pid /\ Lost \notin Pid
    BY MachineLockAssumption, ZenonT(20)
  <1> USE DEF Told
  <1>6. \A m \in Machine : sock'[m] \in Pid
           => m \notin ReadOnly /\ proc'[sock'[m]].machine = m
              /\ proc'[sock'[m]].at \in There /\ proc'[sock'[m]].ipc
    BY <1>1, <1>5
  <1>7. \A q \in Pid : (proc'[q].at \in Using /\ proc'[q].ipc) => sock'[proc'[q].machine] \in {q, None}
    <2> SUFFICES ASSUME NEW q \in Pid, proc'[q].at \in Using, proc'[q].ipc
                 PROVE  sock'[proc'[q].machine] \in {q, None}
      OBVIOUS
    <2>1. q # p /\ proc'[q] = proc[q]
      BY <1>1, <1>2, ZenonT(40)
    <2>2. sock[proc[q].machine] \in {q, None} /\ proc[q].machine \in Machine
      BY <1>3, <2>1, ZenonT(40)
    <2>3. sock'[proc[q].machine] \in {sock[proc[q].machine], None}
      BY <1>1, <2>2
    <2> QED BY <2>1, <2>2, <2>3, ZenonT(40)
  <1>8. \A q \in Pid : proc'[q].at \in {"launched", "refused", "writing", "locked"} => ~ proc'[q].ipc
    BY <1>1, <1>2, <1>4
  <1>w. \A q \in Pid : proc'[q].at \in {"writing", "rewriting"} => proc'[q].machine \notin ReadOnly
    BY <1>1, <1>2, <1>4 DEF Told
  <1>9. \A q \in Pid : (proc'[q].at \in {"locked", "running", "closing"}
                           /\ proc'[q].machine \notin ReadOnly)
           => file'[proc'[q].machine] = Record(q, proc'[q].ipc)
    BY <1>1, <1>2, <1>4
  <1>10. \A m \in Machine : manager'.running[m].link \in Pid
           => proc'[manager'.running[m].link].machine = m
              /\ proc'[manager'.running[m].link].at \in There
    BY <1>1, <1>5
  <1> QED BY <1>6, <1>7, <1>8, <1>w, <1>9, <1>10, ZenonT(20) DEF Record

\* A process that comes into being, or one that has ended and is reaped,
\* tells nothing.
LEMMA OutsideTold ==
  ASSUME Typed, Told, NEW p \in Pid,
         proc[p].at \in Ended,
         \A q \in Pid \ {p} : proc'[q] = proc[q],
         proc'[p].at \in {"launched", "gone"}, ~ proc'[p].ipc,
         sock' = sock, file' = file,
         \A m \in Machine : \/ manager'.running[m].link = manager.running[m].link
                            \/ manager'.running[m].link = None
  PROVE  Told'
PROOF
  <1>1. /\ proc'[p].at \notin Using /\ proc[p].at \notin Using
        /\ proc'[p].at \notin There /\ proc[p].at \notin There
    BY ThereFacts DEF Ended
  <1>4. {"locked", "running", "closing", "writing"} \subseteq Using
    BY ZenonT(20) DEF Using
  <1>5. None \notin Pid
    BY MachineLockAssumption, ZenonT(20)
  <1>6. \A m \in Machine : sock'[m] \in Pid
           => m \notin ReadOnly /\ proc'[sock'[m]].machine = m
              /\ proc'[sock'[m]].at \in There /\ proc'[sock'[m]].ipc
    BY <1>1, ZenonT(20) DEF Told
  <1>7. \A q \in Pid : (proc'[q].at \in Using /\ proc'[q].ipc) => sock'[proc'[q].machine] \in {q, None}
    BY <1>1, ZenonT(20) DEF Told
  <1>8. \A q \in Pid : proc'[q].at \in {"launched", "refused", "writing", "locked"} => ~ proc'[q].ipc
    BY ZenonT(20) DEF Told
  <1>w. \A q \in Pid : proc'[q].at \in {"writing", "rewriting"} => proc'[q].machine \notin ReadOnly
    BY ZenonT(20) DEF Told
  <1>9. \A q \in Pid : (proc'[q].at \in {"locked", "running", "closing"}
                           /\ proc'[q].machine \notin ReadOnly)
           => file'[proc'[q].machine] = Record(q, proc'[q].ipc)
    BY <1>1, <1>4, ZenonT(60) DEF Told
  <1>10. \A m \in Machine : manager'.running[m].link \in Pid
           => proc'[manager'.running[m].link].machine = m
              /\ proc'[manager'.running[m].link].at \in There
    BY SMTT(30), <1>1, <1>5 DEF Told
  <1> QED BY <1>6, <1>7, <1>8, <1>w, <1>9, <1>10, ZenonT(20) DEF Told, Record

\* A process that moves on inside its use of the machine, into it or out of
\* it, and rewrites no record but that of its own machine.
LEMMA MovingTold ==
  ASSUME Typed, Held, Held', Told, NEW p \in Pid, NEW m \in Machine,
         m = proc[p].machine,
         \A q \in Pid \ {p} : proc'[q] = proc[q],
         proc'[p].machine = m,
         proc[p].at \in There => proc'[p].at \in There,
         proc'[p].ipc = proc[p].ipc,
         sock' = sock,
         \A x \in Machine : \/ manager'.running[x].link = manager.running[x].link
                            \/ manager'.running[x].link = Lost,
         proc'[p].at \in {"launched", "refused", "writing", "locked"} => ~ proc[p].ipc,
         proc'[p].at \in Using /\ proc[p].at \notin Using => ~ proc[p].ipc,
         proc'[p].at \in {"writing", "rewriting"} => m \notin ReadOnly,
         \/ file' = file
         \/ m \notin ReadOnly /\ proc'[p].at \in Using
            /\ \A x \in Machine \ {m} : file'[x] = file[x],
         proc'[p].at \in {"locked", "running", "closing"} /\ m \notin ReadOnly
             => file'[m] = Record(p, proc[p].ipc)
  PROVE  Told'
PROOF
  <1>1. {"locked", "running", "closing"} \subseteq Using
    BY ZenonT(20) DEF Using
  <1>2. \A q \in Pid : proc[q].at \in Using => proc[q].machine \in Machine
    BY ZenonT(20) DEF Typed, Placed, Using
  <1>6. \A x \in Machine : sock'[x] \in Pid
           => x \notin ReadOnly /\ proc'[sock'[x]].machine = x
              /\ proc'[sock'[x]].at \in There /\ proc'[sock'[x]].ipc
    BY DEF Told
  <1>7. \A q \in Pid : (proc'[q].at \in Using /\ proc'[q].ipc) => sock'[proc'[q].machine] \in {q, None}
    BY DEF Told
  <1>8. \A q \in Pid : proc'[q].at \in {"launched", "refused", "writing", "locked"} => ~ proc'[q].ipc
    BY ZenonT(20) DEF Told
  <1>w. \A q \in Pid : proc'[q].at \in {"writing", "rewriting"} => proc'[q].machine \notin ReadOnly
    BY DEF Told
  <1>9. ASSUME NEW q \in Pid, proc'[q].at \in {"locked", "running", "closing"},
               proc'[q].machine \notin ReadOnly
        PROVE  file'[proc'[q].machine] = Record(q, proc'[q].ipc)
    <2>1. CASE q = p
      BY <1>9, <2>1, ZenonT(20)
    <2>2. CASE q # p /\ file' = file
      BY <1>9, <2>2, ZenonT(20) DEF Told
    <2>3. CASE q # p /\ m \notin ReadOnly /\ proc'[p].at \in Using
               /\ \A x \in Machine \ {m} : file'[x] = file[x]
      <3>1. proc'[q].machine # m
        BY <1>1, <1>9, <2>3 DEF Held
      <3>2. proc[q].machine \in Machine
        BY <1>1, <1>2, <1>9, <2>3, ZenonT(20)
      <3>3. proc'[q] = proc[q]
        BY <2>3, ZenonT(40)
      <3>4. file[proc[q].machine] = Record(q, proc[q].ipc)
        BY <1>9, <3>3, ZenonT(40) DEF Told
      <3>5. file'[proc[q].machine] = file[proc[q].machine]
        BY <2>3, <3>1, <3>2, <3>3, ZenonT(40)
      <3> QED BY <3>3, <3>4, <3>5, ZenonT(40)
    <2> QED BY <2>1, <2>2, <2>3, ZenonT(20)
  <1>10. \A x \in Machine : manager'.running[x].link \in Pid
           => proc'[manager'.running[x].link].machine = x
              /\ proc'[manager'.running[x].link].at \in There
    BY MachineLockAssumption DEF Told
  <1> QED BY <1>6, <1>7, <1>8, <1>w, <1>9, <1>10, ZenonT(20) DEF Told, Record

\* The path goes with the server that bound it first, whoever is there now.
LEMMA StopTold ==
  ASSUME Typed, Told, NEW p \in Pid, Stop(p)
  PROVE  Told'
PROOF
  <1> DEFINE m == proc[p].machine
  <1>1. m \in Machine /\ proc[p].at = "stopping"
    BY ZenonT(20) DEF Stop, At, Typed, Placed
  <1>2. /\ \A q \in Pid \ {p} : proc'[q] = proc[q]
        /\ proc'[p].at = "released" /\ proc'[p].machine = m
    BY DEF Stop, Typed, TypeOK, ProcType
  <1>3. /\ \A x \in Machine : sock'[x] = IF x = m THEN None ELSE sock[x]
        /\ file' = file
    BY <1>1 DEF Stop, Typed, TypeOK
  <1>4. \A x \in Machine : manager'.running[x].link =
                IF manager.running[x].link = p THEN Lost ELSE manager.running[x].link
    BY HungLinks DEF Stop
  <1>5. None \notin Pid /\ Lost \notin Pid
    BY MachineLockAssumption, ZenonT(20)
  <1>6. \A q \in Pid : proc[q].at \in Using => proc[q].machine \in Machine
    BY DEF Typed, Placed, Using
  <1>7. \A x \in Machine : sock'[x] \in Pid
           => x \notin ReadOnly /\ proc'[sock'[x]].machine = x
              /\ proc'[sock'[x]].at \in There /\ proc'[sock'[x]].ipc
    <2> SUFFICES ASSUME NEW x \in Machine, sock'[x] \in Pid
                 PROVE  x \notin ReadOnly /\ proc'[sock'[x]].machine = x
                        /\ proc'[sock'[x]].at \in There /\ proc'[sock'[x]].ipc
      OBVIOUS
    <2>1. x # m /\ sock'[x] = sock[x]
      BY <1>3, <1>5
    <2>2. sock[x] \in Pid \ {p}
      BY <2>1 DEF Told
    <2> QED BY <1>2, <2>1, <2>2 DEF Told
  <1>8. \A q \in Pid : (proc'[q].at \in Using /\ proc'[q].ipc) => sock'[proc'[q].machine] \in {q, None}
    <2> SUFFICES ASSUME NEW q \in Pid, proc'[q].at \in Using, proc'[q].ipc
                 PROVE  sock'[proc'[q].machine] \in {q, None}
      OBVIOUS
    <2>1. q # p /\ proc'[q] = proc[q]
      BY <1>2, ThereFacts, ZenonT(40)
    <2>2. sock[proc[q].machine] \in {q, None} /\ proc[q].machine \in Machine
      BY <1>6, <2>1, ZenonT(40) DEF Told
    <2>3. sock'[proc[q].machine] \in {sock[proc[q].machine], None}
      BY <1>3, <2>2
    <2> QED BY <2>1, <2>2, <2>3, ZenonT(40)
  <1>9. \A q \in Pid : proc'[q].at \in {"launched", "refused", "writing", "locked"} => ~ proc'[q].ipc
    BY <1>2, ZenonT(40) DEF Told
  <1>10. \A q \in Pid : proc'[q].at \in {"writing", "rewriting"} => proc'[q].machine \notin ReadOnly
    BY <1>2 DEF Told
  <1>11. \A q \in Pid : (proc'[q].at \in {"locked", "running", "closing"}
                           /\ proc'[q].machine \notin ReadOnly)
           => file'[proc'[q].machine] = Record(q, proc'[q].ipc)
    BY <1>2, <1>3 DEF Told
  <1>12. \A x \in Machine : manager'.running[x].link \in Pid
           => proc'[manager'.running[x].link].machine = x
              /\ proc'[manager'.running[x].link].at \in There
    BY <1>2, <1>4, <1>5 DEF Told
  <1> QED BY <1>7, <1>8, <1>9, <1>10, <1>11, <1>12, ZenonT(20) DEF Told, Record

LEMMA EmulatorTold ==
  ASSUME Typed, Typed', Held, Held', Told, NEW p \in Pid, Emulator(p)
  PROVE  Told'
PROOF
  <1> DEFINE m == proc[p].machine
  <1>0. \A q \in Pid : proc[q] \in ProcType
    BY DEF Typed, TypeOK
  <1>a. \A s : Goto(p, s) => /\ \A q \in Pid \ {p} : proc'[q] = proc[q]
                             /\ proc'[p].at = s /\ proc'[p].machine = m
                             /\ proc'[p].ipc = proc[p].ipc
    BY <1>0 DEF Goto, Typed, TypeOK, ProcType
  <1>1. CASE machine_lock_acquire(p)
    <2>1. m \in Machine /\ proc[p].at = "launched" /\ ~ proc[p].ipc
      BY <1>1, ZenonT(20) DEF machine_lock_acquire, At, Typed, Placed, Told
    <2>2. sock' = sock /\ manager' = manager
      BY <1>1, ZenonT(20) DEF machine_lock_acquire
    <2>3. CASE m \in ReadOnly
      <3>1. Goto(p, "locked") /\ file' = file
        BY <1>1, <2>3, ZenonT(20) DEF machine_lock_acquire
      <3> QED BY <1>a, <2>1, <2>2, <2>3, <3>1, MovingTold, ThereFacts
    <2>4. CASE m \notin ReadOnly /\ Free(m)
      <3>1. Goto(p, "writing") /\ file' = [file EXCEPT ![m] = Blank]
        BY <1>1, <2>4, ZenonT(20) DEF machine_lock_acquire
      <3>2. \A x \in Machine \ {m} : file'[x] = file[x]
        BY <3>1, ZenonT(20) DEF Typed, TypeOK
      <3> QED BY <1>a, <2>1, <2>2, <2>4, <3>1, <3>2, MovingTold, ThereFacts
    <2>5. CASE m \notin ReadOnly /\ ~ Free(m)
      <3>1. Goto(p, "refused") /\ file' = file
        BY <1>1, <2>5, ZenonT(20) DEF machine_lock_acquire
      <3> QED BY <1>a, <2>1, <2>2, <3>1, MovingTold, ThereFacts
    <2> QED BY SMTT(30), <2>3, <2>4, <2>5
  <1>2. CASE WriteRecord(p)
    <2>1. m \in Machine /\ proc[p].at \in {"writing", "rewriting"}
      BY <1>2, ZenonT(20) DEF WriteRecord, Typed, Placed
    <2>2. sock' = sock /\ manager' = manager
      BY <1>2, ZenonT(20) DEF WriteRecord
    <2>3. m \notin ReadOnly
      BY <2>1, ZenonT(20) DEF Told
    <2>4. file' = [file EXCEPT ![m] = Record(p, proc[p].ipc)]
      BY <1>2, ZenonT(20) DEF WriteRecord
    <2>5. file'[m] = Record(p, proc[p].ipc) /\ \A x \in Machine \ {m} : file'[x] = file[x]
      BY <2>1, <2>4, ZenonT(20) DEF Typed, TypeOK
    <2>6. CASE proc[p].at = "writing"
      <3>1. Goto(p, "locked") /\ ~ proc[p].ipc
        BY <1>2, <2>6, ZenonT(20) DEF WriteRecord, At, Told
      <3> QED BY <1>a, <2>1, <2>2, <2>3, <2>5, <3>1, MovingTold, ThereFacts, ZenonT(20)
    <2>7. CASE proc[p].at = "rewriting"
      <3>1. Goto(p, "running")
        BY <1>2, <2>7, ZenonT(20) DEF WriteRecord, At
      <3> QED BY <1>a, <2>1, <2>2, <2>3, <2>5, <2>7, <3>1, MovingTold, ThereFacts
    <2> QED BY <2>1, <2>6, <2>7, ZenonT(20)
  <1>3. CASE EnableManagedMode(p)
    <2>1. m \in Machine /\ proc[p].at = "locked" /\ ~ proc[p].ipc /\ manager' = manager
      BY <1>3, ZenonT(20) DEF EnableManagedMode, At, Typed, Placed, Told
    <2>2. CASE m \in ReadOnly
      <3>1. Goto(p, "running") /\ file' = file /\ sock' = sock
        BY SMTT(30), <1>3, <2>2 DEF EnableManagedMode
      <3> QED BY <1>a, <2>1, <2>2, <3>1, MovingTold, ThereFacts
    <2>3. CASE m \notin ReadOnly
      <3>1. /\ sock' = [sock EXCEPT ![m] = p]
            /\ file' = [file EXCEPT ![m] = Blank]
            /\ proc' = [proc EXCEPT ![p].at = "rewriting", ![p].ipc = TRUE]
        BY <1>3, <2>3 DEF EnableManagedMode
      <3>2. /\ \A q \in Pid \ {p} : proc'[q] = proc[q]
            /\ proc'[p].at = "rewriting" /\ proc'[p].ipc /\ proc'[p].machine = m
        BY <3>1, <1>0 DEF Typed, TypeOK, ProcType
      <3>3. /\ \A x \in Machine : sock'[x] = IF x = m THEN p ELSE sock[x]
            /\ \A x \in Machine \ {m} : file'[x] = file[x]
        BY SMTT(30), <3>1 DEF Typed, TypeOK
      <3>4. \A q \in Pid \ {p} : proc[q].at \in Using => proc[q].machine # m
        <4>1. proc[p].at \in Using
          BY <2>1 DEF Using
        <4>2. flock[m] = p
          BY <2>3, <4>1, ZenonT(40) DEF Held
        <4>3. ASSUME NEW q \in Pid \ {p}, proc[q].at \in Using, proc[q].machine = m
              PROVE  FALSE
          <5>1. flock[proc[q].machine] = q /\ q # p
            BY <2>3, <4>3, ZenonT(40) DEF Held
          <5>2. QED  BY <4>2, <4>3, <5>1, ZenonT(40)
        <4>4. QED  BY <4>3, ZenonT(40)
      <3>5. "rewriting" \in Using /\ {"locked", "running", "closing"} \subseteq Using
        BY ZenonT(20) DEF Using
      <3>6. \A q \in Pid : proc[q].at \in Using => proc[q].machine \in Machine
        BY DEF Typed, Placed, Using
      <3>7. \A x \in Machine : sock'[x] \in Pid
               => x \notin ReadOnly /\ proc'[sock'[x]].machine = x
                  /\ proc'[sock'[x]].at \in There /\ proc'[sock'[x]].ipc
        <4>1. ASSUME NEW x \in Machine, sock'[x] \in Pid, x # m
              PROVE  x \notin ReadOnly /\ proc'[sock'[x]].machine = x
                     /\ proc'[sock'[x]].at \in There /\ proc'[sock'[x]].ipc
          <5>1. sock'[x] = sock[x]
            BY <3>3, <4>1, ZenonT(40)
          <5>2. x \notin ReadOnly /\ proc[sock[x]].machine = x
                /\ proc[sock[x]].at \in There /\ proc[sock[x]].ipc
            BY <4>1, <5>1, ZenonT(40) DEF Told
          <5>3. sock[x] \in Pid \ {p}
            BY <2>1, <4>1, <5>1, <5>2, ZenonT(40)
          <5>4. proc'[sock[x]] = proc[sock[x]]
            BY <3>2, <5>3, ZenonT(40)
          <5>5. QED  BY <5>1, <5>2, <5>4, ZenonT(40)
        <4>2. sock'[m] = p
          BY <2>1, <3>3, ZenonT(40)
        <4>3. m \notin ReadOnly /\ proc'[sock'[m]].machine = m
              /\ proc'[sock'[m]].at \in There /\ proc'[sock'[m]].ipc
          <5>1. proc'[p].at \in There
            BY <3>2, <3>5, ThereFacts
          <5> QED BY <2>3, <3>2, <4>2, <5>1, ZenonT(40)
        <4>4. QED  BY <4>1, <4>3, ZenonT(40)
      <3>8. \A q \in Pid : (proc'[q].at \in Using /\ proc'[q].ipc) => sock'[proc'[q].machine] \in {q, None}
        <4>1. ASSUME NEW q \in Pid \ {p}, proc'[q].at \in Using, proc'[q].ipc
              PROVE  sock'[proc'[q].machine] \in {q, None}
          <5>1. proc'[q] = proc[q] /\ proc[q].at \in Using /\ proc[q].ipc
            BY <3>2, <4>1, ZenonT(40)
          <5>2. proc[q].machine \in Machine \ {m} /\ sock[proc[q].machine] \in {q, None}
            BY <3>4, <3>6, <5>1, ZenonT(40) DEF Told
          <5>3. sock'[proc[q].machine] = sock[proc[q].machine]
            BY <3>3, <5>2, ZenonT(40)
          <5>4. QED  BY <5>1, <5>2, <5>3, ZenonT(40)
        <4>2. sock'[proc'[p].machine] \in {p, None}
          BY <2>1, <3>2, <3>3, ZenonT(40)
        <4>3. QED  BY <4>1, <4>2, ZenonT(40)
      <3>9. \A q \in Pid : proc'[q].at \in {"launched", "refused", "writing", "locked"} => ~ proc'[q].ipc
        BY <3>2, ZenonT(20) DEF Told
      <3>10. \A q \in Pid : proc'[q].at \in {"writing", "rewriting"} => proc'[q].machine \notin ReadOnly
        BY SMTT(30), <2>3, <3>2 DEF Told
      <3>11. \A q \in Pid : (proc'[q].at \in {"locked", "running", "closing"}
                               /\ proc'[q].machine \notin ReadOnly)
               => file'[proc'[q].machine] = Record(q, proc'[q].ipc)
        <4>1. \A q \in Pid : proc'[q].at \in {"locked", "running", "closing"}
                 => q # p /\ proc[q].at \in Using
          BY <3>2, <3>5, SMTT(30)
        <4>2. QED
          <5>1. ASSUME NEW q \in Pid, proc'[q].at \in {"locked", "running", "closing"},
                       proc'[q].machine \notin ReadOnly
                PROVE  file'[proc'[q].machine] = Record(q, proc'[q].ipc)
            <6>1. q # p /\ proc[q].at \in Using /\ proc'[q] = proc[q]
              BY <3>2, <4>1, <5>1, ZenonT(40)
            <6>2. proc[q].machine \in Machine \ {m}
              BY <3>4, <3>6, <6>1, ZenonT(40)
            <6>3. file[proc[q].machine] = Record(q, proc[q].ipc)
              BY <5>1, <6>1, ZenonT(40) DEF Told
            <6>4. QED  BY <3>3, <6>1, <6>2, <6>3, ZenonT(40)
          <5>2. QED  BY <5>1, ZenonT(40)
      <3>t. "rewriting" \in There
        BY <3>5, ThereFacts
      <3>12. \A x \in Machine : manager'.running[x].link \in Pid
               => proc'[manager'.running[x].link].machine = x
                  /\ proc'[manager'.running[x].link].at \in There
        <4>1. \A q \in Pid : /\ proc'[q].machine = proc[q].machine
                             /\ proc[q].at \in There => proc'[q].at \in There
          BY <3>2, <3>t
        <4> QED BY <2>1, <4>1, ZenonT(40) DEF Told
      <3> QED BY <3>7, <3>8, <3>9, <3>10, <3>11, <3>12, ZenonT(20) DEF Told, Record
    <2> QED BY <2>2, <2>3, ZenonT(20)
  <1>4. CASE ShowWindow(p)
    <2>1. /\ m \in Machine /\ proc[p].at = "locked" /\ Goto(p, "running")
          /\ file' = file /\ sock' = sock /\ manager' = manager
      BY <1>4, ZenonT(20) DEF ShowWindow, At, Typed, Placed
    <2>2. m \notin ReadOnly => file[m] = Record(p, proc[p].ipc)
      BY <2>1, ZenonT(20) DEF Told
    <2> QED BY <1>a, <2>1, <2>2, MovingTold, ThereFacts
  <1>5. CASE RequestExit(p)
    <2>1. /\ m \in Machine /\ proc[p].at = "running" /\ Goto(p, "closing")
          /\ file' = file /\ sock' = sock /\ manager' = manager
      BY <1>5, ZenonT(20) DEF RequestExit, At, Typed, Placed
    <2>2. m \notin ReadOnly => file[m] = Record(p, proc[p].ipc)
      BY <2>1, ZenonT(20) DEF Told
    <2> QED BY <1>a, <2>1, <2>2, MovingTold, ThereFacts
  <1>6. CASE \/ Exit(p) \/ GiveUp(p) \/ Crash(p)
    BY <1>6, EndProcessTold, ZenonT(20) DEF Exit, GiveUp, Crash
  <1>8. CASE machine_lock_release(p)
    <2>1. /\ m \in Machine /\ proc[p].at = "closing" /\ Goto(p, "released")
          /\ file' = file /\ sock' = sock /\ manager' = manager
      BY <1>8, ZenonT(20) DEF machine_lock_release, At, Typed, Placed
    <2> QED BY <1>a, <2>1, MovingTold, ThereFacts
  <1>9. CASE AcceptLoopEnds(p)
    <2>1. /\ m \in Machine /\ proc[p].at = "released" /\ Goto(p, "stopping")
          /\ file' = file /\ sock' = sock /\ manager' = Hung(p)
      BY <1>9, ZenonT(20) DEF AcceptLoopEnds, At, Typed, Placed
    <2>2. \A x \in Machine : \/ manager'.running[x].link = manager.running[x].link
                             \/ manager'.running[x].link = Lost
      BY <2>1, HungLinks
    <2> QED BY <1>a, <2>1, <2>2, MovingTold, ThereFacts
  <1>10. CASE Stop(p)
    BY <1>10, StopTold
  <1>7. ASSUME NEW x \in Machine, StartByHand(p, x)
        PROVE  Told'
    <2>1. /\ \A q \in Pid \ {p} : proc'[q] = proc[q]
          /\ proc'[p].at = "launched" /\ ~ proc'[p].ipc /\ proc[p].at = "gone"
          /\ sock' = sock /\ file' = file /\ manager' = manager
      BY SMTT(30), <1>7 DEF StartByHand, At, Launched, NoProcess, Typed, TypeOK
    <2> QED BY <2>1, OutsideTold DEF Ended
  <1> QED
    BY <1>1, <1>2, <1>3, <1>4, <1>5, <1>6, <1>7, <1>8, <1>9, <1>10, ZenonT(20) DEF Emulator

\* A step of the Manager alone keeps what the processes tell as long as it
\* writes no record of a machine in use and links only to a listening process.
LEMMA ManagerOnlyTold ==
  ASSUME Typed, Told, proc' = proc, sock' = sock,
         \A m \in Machine : file'[m] = file[m]
             \/ \A q \in Pid : proc[q].at \in Using => proc[q].machine # m,
         \A m \in Machine : \/ manager'.running[m].link = manager.running[m].link
                            \/ manager'.running[m].link \in {None, sock[m]}
  PROVE  Told'
PROOF
  <1>1. {"locked", "running", "closing"} \subseteq Using
    BY ZenonT(20) DEF Using
  <1>2. \A q \in Pid : proc[q].at \in Using => proc[q].machine \in Machine
    BY ZenonT(20) DEF Typed, Placed, Using
  <1>3. \A q \in Pid : (proc[q].at \in {"locked", "running", "closing"}
                           /\ proc[q].machine \notin ReadOnly)
           => file'[proc[q].machine] = Record(q, proc[q].ipc)
    BY <1>1, <1>2 DEF Told
  <1>4. \A m \in Machine : manager'.running[m].link \in Pid
           => proc[manager'.running[m].link].machine = m
              /\ proc[manager'.running[m].link].at \in There
    BY MachineLockAssumption, ZenonT(20) DEF Told
  <1> QED BY <1>3, <1>4, ZenonT(20) DEF Told, Record

LEMMA ManagerStepTold ==
  ASSUME Typed, Held, Told, ManagerStep
  PROVE  Told'
PROOF
  <1> DEFINE NoLink == \A m \in Machine : ManagerClosed.running[m].link = None
  <1>0. NoLink
    BY DEF ManagerClosed, NoEntry
  <1>1. CASE ManagerOpens
    <2>1. \A m \in Machine : manager'.running[m].link = None
      BY SMTT(30), <1>1 DEF ManagerOpens, ManagerClosed, NoEntry
    <2> QED BY <1>1, <2>1, ManagerOnlyTold DEF ManagerOpens
  <1>2. CASE ManagerCloses
    <2>1. \A p \in Pid : \/ /\ proc'[p].at = proc[p].at
                            /\ proc'[p].machine = proc[p].machine
                            /\ proc'[p].ipc = proc[p].ipc
                         \/ proc[p].at = "zombie" /\ proc'[p].at = "gone"
      BY ZenonT(40), <1>2 DEF ManagerCloses, At, NoProcess, Typed, TypeOK, ProcType
    <2>2. "zombie" \notin Using /\ "gone" \notin Using /\ "zombie" \notin There
      BY DEF There, Using, Leaving
    <2>3. sock' = sock /\ file' = file /\ manager' = ManagerClosed
      BY <1>2 DEF ManagerCloses
    <2>4. \A m \in Machine : sock[m] \in Pid
           => m \notin ReadOnly /\ proc'[sock[m]].machine = m
              /\ proc'[sock[m]].at \in There /\ proc'[sock[m]].ipc
      <3> SUFFICES ASSUME NEW m \in Machine, sock[m] \in Pid
                   PROVE  m \notin ReadOnly /\ proc'[sock[m]].machine = m
                          /\ proc'[sock[m]].at \in There /\ proc'[sock[m]].ipc
        OBVIOUS
      <3>1. m \notin ReadOnly /\ proc[sock[m]].machine = m
            /\ proc[sock[m]].at \in There /\ proc[sock[m]].ipc
        BY ZenonT(40) DEF Told
      <3> QED BY <2>1, <2>2, <3>1, ZenonT(40)
    <2>5. \A p \in Pid : (proc'[p].at \in Using /\ proc'[p].ipc) => sock[proc'[p].machine] \in {p, None}
      BY <2>1, <2>2, ZenonT(20) DEF Told
    <2>6. \A p \in Pid :
             /\ proc'[p].at \in {"launched", "refused", "writing", "locked"} => ~ proc'[p].ipc
             /\ proc'[p].at \in {"writing", "rewriting"} => proc'[p].machine \notin ReadOnly
      BY <2>1, ZenonT(20) DEF Told
    <2>7. \A p \in Pid : (proc'[p].at \in {"locked", "running", "closing"}
                           /\ proc'[p].machine \notin ReadOnly)
           => file[proc'[p].machine] = Record(p, proc'[p].ipc)
      BY <2>1 DEF Told
    <2>8. \A m \in Machine : manager'.running[m].link \notin Pid
      BY <1>0, <2>3, MachineLockAssumption
    <2> QED BY <2>3, <2>4, <2>5, <2>6, <2>7, <2>8, ZenonT(20) DEF Told, Record
  <1>3. CASE OnDataFolder
    <2>1. manager'.running = manager.running
      BY <1>3 DEF OnDataFolder, Typed, TypeOK, ManagerType
    <2> QED BY <1>3, <2>1, ManagerOnlyTold DEF OnDataFolder
  <1>4. ASSUME NEW m \in Machine, ReadOwner(m)
        PROVE  Told'
    <2>1. manager'.running = manager.running
      BY <1>4 DEF ReadOwner, Typed, TypeOK, ManagerType
    <2> QED BY <1>4, <2>1, ManagerOnlyTold DEF ReadOwner
  <1>5. ASSUME NEW m \in Machine, AttachPanelFor(m)
        PROVE  Told'
    <2>1. \A x \in Machine : \/ manager'.running[x].link = manager.running[x].link
                             \/ manager'.running[x].link = sock[x]
      BY <1>5 DEF AttachPanelFor, SetEntry, Entry, Typed, TypeOK, ManagerType, EntryType
    <2> QED BY <1>5, <2>1, ManagerOnlyTold DEF AttachPanelFor
  <1>6. ASSUME NEW m \in Machine, Deadline(m) \/ PanelGone(m)
        PROVE  Told'
    <2>1. \A x \in Machine : \/ manager'.running[x].link = manager.running[x].link
                             \/ manager'.running[x].link = None
      BY <1>6 DEF Deadline, PanelGone, RemoveRunningEntry, SetEntry, NoEntry,
                  Typed, TypeOK, ManagerType
    <2> QED BY <1>6, <2>1, ManagerOnlyTold DEF Deadline, PanelGone
  <1>7. ASSUME NEW m \in Machine, AnyMachineInUse(m)
        PROVE  Told'
    <2>1. manager'.running = manager.running
      BY ZenonT(40), <1>7 DEF AnyMachineInUse, Typed, TypeOK, ManagerType
    <2>2. (m \notin ReadOnly /\ Free(m)) => \A q \in Pid : proc[q].at \in Using => proc[q].machine # m
      BY MachineLockAssumption DEF Held, Free
    <2>3. \A x \in Machine : file'[x] = file[x]
              \/ \A q \in Pid : proc[q].at \in Using => proc[q].machine # x
      BY ZenonT(40), <1>7, <2>2 DEF AnyMachineInUse, Typed, TypeOK
    <2> QED BY <1>7, <2>1, <2>3, ManagerOnlyTold DEF AnyMachineInUse
  <1>8. ASSUME NEW m \in Machine, NEW p \in Pid, StartMachine(m, p)
        PROVE  Told'
    <2>1. /\ \A q \in Pid \ {p} : proc'[q] = proc[q]
          /\ proc'[p].at = "launched" /\ ~ proc'[p].ipc /\ proc[p].at = "gone"
          /\ sock' = sock /\ file' = file
      BY <1>8 DEF StartMachine, At, Launched, NoProcess, Typed, TypeOK
    <2>2. \A x \in Machine : \/ manager'.running[x].link = manager.running[x].link
                             \/ manager'.running[x].link = None
      BY <1>8 DEF StartMachine, SetEntry, Typed, TypeOK, ManagerType
    <2> QED BY <2>1, <2>2, OutsideTold DEF Ended
  <1>9. ASSUME NEW p \in Pid, OnChildProcessEnded(p)
        PROVE  Told'
    <2>1. /\ \A q \in Pid \ {p} : proc'[q] = proc[q]
          /\ proc'[p].at = "gone" /\ ~ proc'[p].ipc /\ proc[p].at = "zombie"
          /\ sock' = sock /\ file' = file
      BY <1>9 DEF OnChildProcessEnded, At, NoProcess, Typed, TypeOK
    <2>2. \A x \in Machine : \/ manager'.running[x].link = manager.running[x].link
                             \/ manager'.running[x].link = None
      BY <1>9 DEF OnChildProcessEnded, NoEntry, Typed, TypeOK, ManagerType
    <2> QED BY <2>1, <2>2, OutsideTold DEF Ended
  <1> QED
    BY <1>1, <1>2, <1>3, <1>4, <1>5, <1>6, <1>7, <1>8, <1>9, ZenonT(20) DEF ManagerStep

-----------------------------------------------------------------------------
(* The theorems.                                                           *)

LockInv == Typed /\ Held /\ Told

LEMMA InitLockInv == Init => LockInv
PROOF
  <1> SUFFICES ASSUME Init PROVE LockInv
    OBVIOUS
  <1>1. Typed
    BY ZenonT(40), NoProcessType DEF Init, Typed, TypeOK, Placed, NoProcess, ManagerClosed, NoEntry,
                         ManagerType, EntryType
  <1>2. Held
    <2>1. \A p \in Pid : proc[p].at \notin Using
      BY DEF Init, NoProcess, Using
    <2>2. manager.lock_fd \notin Machine /\ \A m \in Machine : flock[m] = None
      BY MachineLockAssumption DEF Init, ManagerClosed
    <2> QED BY <2>1, <2>2, MachineLockAssumption, ZenonT(40) DEF Held
  <1>3. Told
    BY MachineLockAssumption DEF Init, Told, NoProcess, Using, ManagerClosed, NoEntry
  <1> QED BY <1>1, <1>2, <1>3 DEF LockInv

LEMMA NextLockInv == LockInv /\ [Next]_vars => LockInv'
PROOF
  <1> SUFFICES ASSUME LockInv, [Next]_vars PROVE LockInv'
    OBVIOUS
  <1>1. CASE ManagerStep
    BY <1>1, ManagerStepType, ManagerStepHeld, ManagerStepTold DEF LockInv
  <1>2. ASSUME NEW p \in Pid, Emulator(p)
        PROVE  LockInv'
    <2>1. Typed' /\ Held'
      BY <1>2, EmulatorType, EmulatorHeld DEF LockInv
    <2> QED BY <1>2, <2>1, EmulatorTold DEF LockInv
  <1>3. CASE UNCHANGED vars
    BY ZenonT(40), <1>3 DEF vars, LockInv, Typed, TypeOK, Placed, Held, Told, Record
  <1> QED BY <1>1, <1>2, <1>3 DEF Next

LEMMA LockInvariant == Spec => []LockInv
  BY InitLockInv, NextLockInv, PTL DEF Spec

\* Processes, locks, lock files, sockets and the Manager's window keep their
\* types, for any machines and any number of processes.
THEOREM LockTypeCorrect == Spec => []TypeOK
PROOF
  <1>1. LockInv => TypeOK
    BY SMTT(30) DEF LockInv, Typed
  <1> QED BY <1>1, LockInvariant, PTL

\* Whoever crashes, whoever starts whom and however pids are reused, no two
\* processes have a lockable machine in use (machine_lock_acquire to the end
\* of ShutdownEmulator's Join).
THEOREM OneEmulator == Spec => []OneEmulatorPerMachine
PROOF
  <1>1. LockInv => OneEmulatorPerMachine
    BY SMTT(30) DEF LockInv, Held, OneEmulatorPerMachine, Users
  <1> QED BY <1>1, LockInvariant, PTL

\* The record in the lock file of a machine in use is its user's own, although
\* a predecessor that has given the lock back is still taking down its server:
\* an endpoint in it leads to its user, or nowhere once that predecessor's Stop
\* has removed the path.
THEOREM RecordsAreTrue == Spec => []RecordIsTheUsers
PROOF
  <1>1. LockInv => RecordIsTheUsers
    <2> SUFFICES ASSUME LockInv, NEW p \in Pid,
                        proc[p].at \in {"locked", "running", "closing"},
                        proc[p].machine \notin ReadOnly
                 PROVE  LET m == proc[p].machine IN
                        /\ file[m] # Blank /\ file[m].pid = p
                        /\ file[m].ipc => sock[m] \in {p, None}
                        /\ sock[m] = p => file[m].ipc
      BY ZenonT(20) DEF RecordIsTheUsers
    <2> DEFINE m == proc[p].machine
    <2>1. file[m] = Record(p, proc[p].ipc)
      BY ZenonT(20) DEF LockInv, Told
    <2>2. proc[p].ipc \in BOOLEAN /\ m \in Machine
      BY ZenonT(20) DEF LockInv, Typed, TypeOK, ProcType, Placed
    <2>3. file[m] # Blank /\ file[m].pid = p /\ file[m].ipc = proc[p].ipc
      BY <2>1, <2>2, MachineLockAssumption DEF Record
    <2>4. (proc[p].ipc => sock[m] \in {p, None}) /\ (sock[m] = p => proc[p].ipc)
      BY <2>2, ThereFacts DEF LockInv, Told
    <2> QED BY <2>3, <2>4, ZenonT(20)
  <1> QED BY <1>1, LockInvariant, PTL

\* A panel's control channel ends in a process of that machine, one that has it
\* in use or is past machine_lock_release and about to close the channel,
\* whatever stale records, framebuffers and reused pids AttachPanelFor met.
THEOREM PanelsReachTheirMachines == Spec => []PanelReachesItsMachine
PROOF
  <1>1. LockInv => PanelReachesItsMachine
    BY DEF LockInv, Told, PanelReachesItsMachine, Entry, There
  <1> QED BY <1>1, LockInvariant, PTL

\* A copy is turned away only while a live process holds the machine: a crash
\* never leaves it unstartable.
THEOREM TurnedAwayJustly == Spec => TurnedAwayOnlyWhenInUse
PROOF
  <1> DEFINE Justly == \A p \in Pid : (At(p, "launched") /\ proc'[p].at = "refused")
                          => \/ Users(proc[p].machine) # {}
                             \/ manager.up /\ flock[proc[p].machine] = Manager
  <1>1. LockInv /\ [Next]_vars => [Justly]_vars
    <2> SUFFICES ASSUME LockInv, Next, NEW p \in Pid, At(p, "launched"), proc'[p].at = "refused"
                 PROVE  \/ Users(proc[p].machine) # {}
                        \/ manager.up /\ flock[proc[p].machine] = Manager
      OBVIOUS
    <2>0. proc \in [Pid -> ProcType] /\ proc[p].machine \in Machine /\ proc[p].at = "launched"
      BY ZenonT(20) DEF LockInv, Typed, TypeOK, Placed, At
    <2>1. CASE ManagerStep
      <3>1. CASE proc' = proc
        BY <2>0, <3>1
      <3>2. CASE ManagerCloses
        BY <2>0, <3>2 DEF ManagerCloses, At, NoProcess, ProcType
      <3>3. ASSUME NEW m \in Machine, NEW q \in Pid, StartMachine(m, q)
            PROVE  proc'[p].at # "refused"
        BY <2>0, <3>3 DEF StartMachine, At, NoProcess, Launched
      <3>4. ASSUME NEW q \in Pid, OnChildProcessEnded(q)
            PROVE  proc'[p].at # "refused"
        BY SMTT(30), <2>0, <3>4 DEF OnChildProcessEnded, At, NoProcess
      <3>5. \/ proc' = proc \/ ManagerCloses
            \/ \E m \in Machine, q \in Pid : StartMachine(m, q)
            \/ \E q \in Pid : OnChildProcessEnded(q)
        BY ZenonT(40), <2>1 DEF ManagerStep, ManagerOpens, OnDataFolder, ReadOwner,
             AttachPanelFor, Deadline, PanelGone, AnyMachineInUse
      <3> QED BY <3>1, <3>2, <3>3, <3>4, <3>5, ZenonT(20)
    <2>2. ASSUME NEW q \in Pid, Emulator(q), q # p
          PROVE  FALSE
      <3>1. proc'[p] = proc[p]
        BY ZenonT(40), <2>0, <2>2 DEF Emulator, machine_lock_acquire, WriteRecord,
           EnableManagedMode, ShowWindow,
             RequestExit, machine_lock_release, AcceptLoopEnds, Stop, Exit, GiveUp, Crash, StartByHand,
             EndProcess, Goto
      <3> QED BY <2>0, <3>1
    <2>3. CASE Emulator(p)
      <3>1. machine_lock_acquire(p) \/ Crash(p)
        BY <2>0, <2>3 DEF Emulator, WriteRecord, EnableManagedMode, ShowWindow,
             RequestExit, machine_lock_release, AcceptLoopEnds, Stop, Exit, GiveUp, StartByHand, At
      <3>2. ~ Crash(p)
        BY <2>0 DEF Crash, EndProcess, Dead, NoProcess, ProcType
      <3>3. ~ Free(proc[p].machine)
        BY <2>0, <3>1, <3>2, ZenonT(20) DEF machine_lock_acquire, Goto, ProcType
      <3>4. flock[proc[p].machine] \in Pid \cup {Manager}
        BY <2>0, <3>3 DEF Free, LockInv, Typed, TypeOK
      <3> QED BY <2>0, <3>4, ZenonT(60) DEF LockInv, Held, Users
    <2> QED BY <2>1, <2>2, <2>3, ZenonT(20) DEF Next
  <1>2. TurnedAwayOnlyWhenInUse <=> [][Justly]_vars
    BY DEF TurnedAwayOnlyWhenInUse
  <1> HIDE DEF Justly
  <1> QED BY <1>1, <1>2, LockInvariant, PTL DEF Spec

-----------------------------------------------------------------------------
(* The socket *)

(* The connections that wait: each once, and none that has been accepted. *)
BacklogOK ==
    /\ backlog \in Seq(Mgr)
    /\ \A i \in 1 .. Len(backlog) : server_end[backlog[i]] = "backlog"
    /\ \A i, j \in 1 .. Len(backlog) : backlog[i] = backlog[j] => i = j

(* The accept thread is about a connection while it serves one, and the       *)
(* thread that sends an event has one to send it to.                          *)
ServedOK ==
    /\ accept_thread.at \in {"loop", "recv", "leave"} => accept_thread.fd \in Mgr
    /\ accept_thread.at = "ended" => client_fd = NoMgr
    /\ event_sender = "sending" => client_fd # NoMgr

(* What a Manager believes: it is connected only between Connect and          *)
(* Disconnect, and has lost a machine that it did not leave only if that end  *)
(* is closed.                                                                 *)
ClientOK(m) ==
    /\ client[m].connected => client[m].fd = "open" /\ ~client[m].leaving
    /\ client[m].fd = "none" => server_end[m] = "none" /\ client[m].reader = "none"
                                /\ ~client[m].told /\ ~client[m].leaving
    /\ client[m].reader = "lost" /\ client[m].connected => server_end[m] = "closed"

(* What a MachineIpcClient holds. *)
Conn == [fd : {"none", "open", "shut", "closed"}, connected : BOOLEAN,
         reader : {"none", "recv", "lost", "ended"}, sending : BOOLEAN,
         leaving : BOOLEAN, told : BOOLEAN, hung : BOOLEAN]

IpcInv ==
    /\ IpcTypeOK /\ BacklogOK /\ ServedOK /\ OneDriver /\ ToldOfRealLoss
    /\ \A m \in Mgr : ClientOK(m)

(* What appending does to a sequence. *)
LEMMA AppendFacts ==
    ASSUME NEW S, NEW s \in Seq(S), NEW e \in S
    PROVE  /\ Append(s, e) \in Seq(S) /\ Len(Append(s, e)) = Len(s) + 1 /\ Len(s) \in Nat
           /\ \A i \in 1 .. Len(s) : Append(s, e)[i] = s[i]
           /\ Append(s, e)[Len(s) + 1] = e
  OBVIOUS

LEMMA IpcStart == IpcInit => IpcInv
  BY IpcAssumption
  DEF IpcInit, IpcInv, IpcTypeOK, BacklogOK, ServedOK, OneDriver, ToldOfRealLoss, ClientOK

USE IpcAssumption

LEMMA DriverIsOpen ==
    ASSUME IpcInv, NEW m \in Mgr
    PROVE  server_end[m] = "open" <=> m = client_fd
<1>1. m \in {o \in Mgr : server_end[o] = "open"} <=> m \in {client_fd} \ {NoMgr}
  BY DEF IpcInv, OneDriver
<1>2. QED
  BY <1>1, ZenonT(20)

(* A step of the accept thread, or of a sender, that leaves the ends alone. *)
LEMMA EndsAlone ==
    ASSUME IpcInv, AcceptEnds \/ LoopTest \/ RecvRequest \/ RecvFails \/ SendEvent \/ EventSent \/ StopServer
    PROVE  IpcInv'
<1>1. UNCHANGED <<client, server_end, backlog>> /\ client_fd' = client_fd
  BY DEF AcceptEnds, LoopTest, RecvRequest, RecvFails, SendEvent, EventSent, StopServer
<1>2. IpcTypeOK'
  <2>1. CASE RecvRequest
    <3>1. accept_thread.fd \in Mgr /\ to_machine[accept_thread.fd] - 1 \in 0 .. SocketBuffer
      BY <2>1 DEF RecvRequest, IpcInv, IpcTypeOK, ServedOK
    <3>2. to_machine' \in [Mgr -> 0 .. SocketBuffer]
      BY <2>1, <3>1, ZenonT(20) DEF RecvRequest, IpcInv, IpcTypeOK
    <3>3. QED
      BY <2>1, <3>2, ZenonT(40) DEF RecvRequest, IpcInv, IpcTypeOK, Going
  <2>2. CASE EventSent
    <3>1. client_fd \in Mgr /\ to_manager[client_fd] + 1 \in 0 .. SocketBuffer
      BY <2>2 DEF EventSent, IpcInv, IpcTypeOK, ServedOK
    <3>2. to_manager' \in [Mgr -> 0 .. SocketBuffer]
      BY <2>2, <3>1 DEF EventSent, IpcInv, IpcTypeOK
    <3>3. QED
      BY <2>2, <3>2, ZenonT(20) DEF EventSent, IpcInv, IpcTypeOK
  <2>3. CASE AcceptEnds \/ LoopTest \/ RecvFails \/ SendEvent \/ StopServer
    BY <2>3, ZenonT(40) DEF IpcInv, IpcTypeOK, AcceptEnds, LoopTest, RecvFails, SendEvent, StopServer, Going
  <2>4. QED
    BY <2>1, <2>2, <2>3
<1>3. BacklogOK' /\ ToldOfRealLoss' /\ \A m \in Mgr : ClientOK(m)'
  BY <1>1, ZenonT(20) DEF IpcInv, BacklogOK, ToldOfRealLoss, ClientOK
<1>4. ServedOK'
  BY DEF IpcInv, IpcTypeOK, ServedOK, OneDriver, AcceptEnds, LoopTest, RecvRequest, RecvFails, SendEvent, EventSent, StopServer, Going
<1>5. OneDriver'
  BY DEF IpcInv, IpcTypeOK, ServedOK, OneDriver, AcceptEnds, LoopTest, RecvRequest, RecvFails, SendEvent, EventSent, StopServer, Going
<1>6. QED
  BY <1>2, <1>3, <1>4, <1>5, SMTT(30) DEF IpcInv

LEMMA AcceptKeeps ==
    ASSUME IpcInv, Accept
    PROVE  IpcInv'
<1>h. DEFINE h == backlog[1]
<1>1. /\ h \in Mgr /\ Head(backlog) = h /\ server_end[h] = "backlog" /\ client_fd = NoMgr
      /\ Tail(backlog) \in Seq(Mgr) /\ Len(Tail(backlog)) = Len(backlog) - 1
      /\ \A i \in 1 .. Len(Tail(backlog)) : /\ Tail(backlog)[i] = backlog[i + 1]
                                            /\ i + 1 \in 1 .. Len(backlog)
                                            /\ backlog[i + 1] # h
  <2>1. backlog \in Seq(Mgr) /\ backlog # <<>> /\ Len(backlog) \in Nat /\ Len(backlog) >= 1
    BY DEF Accept, IpcInv, BacklogOK
  <2>2. /\ Head(backlog) = h /\ h \in Mgr /\ 1 \in 1 .. Len(backlog)
        /\ Tail(backlog) \in Seq(Mgr) /\ Len(Tail(backlog)) = Len(backlog) - 1
    BY <2>1
  <2>3. ASSUME NEW i \in 1 .. Len(Tail(backlog))
        PROVE  Tail(backlog)[i] = backlog[i + 1] /\ i + 1 \in 1 .. Len(backlog) /\ backlog[i + 1] # h
    <3>1. Tail(backlog)[i] = backlog[i + 1] /\ i + 1 \in 1 .. Len(backlog) /\ i + 1 # 1
      BY <2>1, <2>2
    <3>2. QED
      BY <2>2, <3>1, ZenonT(20) DEF IpcInv, BacklogOK
  <2>4. server_end[h] = "backlog"
    BY <2>2 DEF IpcInv, BacklogOK
  <2>5. client_fd = NoMgr
    BY DEF Accept, IpcInv, OneDriver
  <2>6. QED
    BY <2>2, <2>3, <2>4, <2>5
<1> HIDE DEF h
<1>2. /\ accept_thread' = [at |-> "loop", fd |-> h] /\ client_fd' = h /\ backlog' = Tail(backlog)
      /\ event_sender = "idle"
      /\ server_end' = [m \in Mgr |-> CASE m = h -> "open" [] m = client_fd -> "closed" [] OTHER -> server_end[m]]
      /\ UNCHANGED <<running_, event_sender, to_machine, to_manager, client>>
  BY <1>1 DEF Accept, MutexFree
<1>3. \A m \in Mgr : server_end'[m] = IF m = h THEN "open" ELSE server_end[m]
  BY <1>1, <1>2
<1>4. IpcTypeOK'
  <2>1. server_end' \in [Mgr -> {"none", "backlog", "open", "closed"}]
    BY <1>1, <1>2 DEF IpcInv, IpcTypeOK
  <2>2. QED
    BY <1>1, <1>2, <2>1, ZenonT(20) DEF IpcInv, IpcTypeOK
<1>5. BacklogOK'
  BY <1>1, <1>2, <1>3, SMTT(30) DEF IpcInv, BacklogOK
<1>6. ServedOK' /\ OneDriver'
  BY <1>1, <1>2, <1>3 DEF IpcInv, ServedOK, OneDriver
<1>7. ToldOfRealLoss' /\ \A m \in Mgr : ClientOK(m)'
  BY <1>1, <1>2, <1>3 DEF IpcInv, ToldOfRealLoss, ClientOK
<1>8. QED
  BY <1>4, <1>5, <1>6, <1>7 DEF IpcInv

(* An end is closed. *)
LEMMA CloseKeeps ==
    ASSUME IpcInv, LeaveClient \/ EventFails
    PROVE  IpcInv'
<1>1. UNCHANGED <<client, backlog, running_, to_machine, to_manager>>
  BY ZenonT(20) DEF LeaveClient, EventFails
<1>2. client_fd' = NoMgr
  BY ZenonT(20) DEF LeaveClient, EventFails, IpcInv, OneDriver
<1>3. \/ client_fd = NoMgr /\ server_end' = server_end
      \/ client_fd \in Mgr /\ server_end' = [server_end EXCEPT ![client_fd] = "closed"]
  BY DEF LeaveClient, EventFails, IpcInv, IpcTypeOK, OneDriver, ServedOK
<1>4. IpcTypeOK'
  BY <1>1, <1>2, <1>3, ZenonT(40) DEF LeaveClient, EventFails, IpcInv, IpcTypeOK, Going
<1>5. \A m \in Mgr : server_end'[m] = IF m = client_fd THEN "closed" ELSE server_end[m]
  BY <1>3, ZenonT(40) DEF IpcInv, IpcTypeOK
<1>6. \A m \in Mgr : server_end[m] = "open" <=> m = client_fd
  BY DriverIsOpen, ZenonT(40)
<1>7. BacklogOK'
  BY <1>1, <1>5, <1>6 DEF IpcInv, BacklogOK
<1>8. OneDriver'
  BY <1>2, <1>5, <1>6 DEF OneDriver
<1>9. ServedOK'
  BY <1>2, SMTT(30) DEF LeaveClient, EventFails, IpcInv, IpcTypeOK, ServedOK, Going, MutexFree
<1>10. ToldOfRealLoss' /\ \A m \in Mgr : ClientOK(m)'
  BY <1>1, <1>5, <1>6 DEF IpcInv, ToldOfRealLoss, ClientOK
<1>11. QED
  BY <1>4, <1>7, <1>8, <1>9, <1>10, ZenonT(20) DEF IpcInv

(* The machine's process ends. *)
LEMMA DeathKeeps ==
    ASSUME IpcInv, StopJoined \/ MachineDies
    PROVE  IpcInv'
<1>1. /\ running_' = "dead" /\ client_fd' = NoMgr /\ backlog' = <<>> /\ server_end' = AllClosed
      /\ UNCHANGED <<client, to_machine, to_manager>> /\ event_sender' = "idle"
      /\ accept_thread'.at = "ended"
      /\ accept_thread' \in [at : {"accept", "loop", "recv", "leave", "ended"}, fd : Mgr \cup {NoMgr}]
  BY DEF StopJoined, MachineDies, MutexFree, IpcInv, IpcTypeOK
<1>2. \A m \in Mgr : /\ server_end'[m] = (IF server_end[m] = "none" THEN "none" ELSE "closed")
                     /\ server_end[m] \in {"none", "backlog", "open", "closed"}
  BY <1>1, ZenonT(20) DEF AllClosed, IpcInv, IpcTypeOK
<1>3. IpcTypeOK' /\ BacklogOK'
  BY <1>1 DEF AllClosed, IpcInv, IpcTypeOK, BacklogOK
<1>4. ServedOK' /\ OneDriver'
  BY <1>1, <1>2, SMTT(30) DEF ServedOK, OneDriver
<1>5. ToldOfRealLoss' /\ \A m \in Mgr : ClientOK(m)'
  BY <1>1, <1>2, ZenonT(20) DEF IpcInv, ToldOfRealLoss, ClientOK
<1>6. QED
  BY <1>3, <1>4, <1>5, SMTT(30) DEF IpcInv

LEMMA ConnectKeeps ==
    ASSUME IpcInv, NEW m \in Mgr, Connect(m)
    PROVE  IpcInv'
<1>1. /\ client[m].fd = "none" /\ server_end[m] = "none" /\ ~client[m].told
      /\ backlog' = Append(backlog, m) /\ server_end' = [server_end EXCEPT ![m] = "backlog"]
      /\ client' = [client EXCEPT ![m].fd = "open", ![m].connected = TRUE, ![m].reader = "recv"]
      /\ UNCHANGED <<running_, accept_thread, client_fd, event_sender, to_machine, to_manager>>
  BY DEF Connect, IpcInv, ClientOK
<1>2. IpcTypeOK'
  <2>1. backlog' \in Seq(Mgr)
    BY <1>1 DEF IpcInv, IpcTypeOK
  <2>2. server_end' \in [Mgr -> {"none", "backlog", "open", "closed"}]
    BY <1>1 DEF IpcInv, IpcTypeOK
  <2>3. client' \in [Mgr -> Conn]
    <3>1. client \in [Mgr -> Conn] /\ client[m] \in Conn
      BY DEF IpcInv, IpcTypeOK, Conn
    <3>2. client' = [client EXCEPT ![m].fd = "open", ![m].connected = TRUE, ![m].reader = "recv"]
      BY <1>1
    <3>3. [client[m] EXCEPT !.fd = "open", !.connected = TRUE, !.reader = "recv"] \in Conn
      BY <3>1, ZenonT(40) DEF Conn
    <3>4. client' = [client EXCEPT ![m] = [client[m] EXCEPT !.fd = "open", !.connected = TRUE, !.reader = "recv"]]
      BY <3>1, <3>2, ZenonT(40)
    <3>5. QED
      BY <3>1, <3>3, <3>4, ZenonT(20)
  <2>4. QED
    BY <1>1, <2>1, <2>2, <2>3, SMTT(30) DEF IpcInv, IpcTypeOK, Conn
<1>3. \A o \in Mgr : server_end'[o] = IF o = m THEN "backlog" ELSE server_end[o]
  BY <1>1 DEF IpcInv, IpcTypeOK
<1>4. \A o \in Mgr : o # m => client'[o] = client[o]
  BY <1>1, ZenonT(20) DEF IpcInv, IpcTypeOK
<1>5. BacklogOK'
  <2>1. backlog \in Seq(Mgr) /\ Len(backlog) \in Nat
    BY DEF IpcInv, BacklogOK
  <2>2. /\ backlog' \in Seq(Mgr) /\ Len(backlog') = Len(backlog) + 1 /\ backlog'[Len(backlog) + 1] = m
        /\ \A i \in 1 .. Len(backlog) : backlog'[i] = backlog[i] /\ backlog[i] # m
    <3>1. \A i \in 1 .. Len(backlog) : backlog[i] # m
      BY <1>1, ZenonT(20) DEF IpcInv, BacklogOK
    <3>2. QED
      BY <1>1, <2>1, <3>1, AppendFacts
  <2>3. \A i \in 1 .. Len(backlog') : server_end'[backlog'[i]] = "backlog"
    BY <1>3, <2>1, <2>2 DEF IpcInv, BacklogOK
  <2>4. \A i, j \in 1 .. Len(backlog') : backlog'[i] = backlog'[j] => i = j
    BY <2>1, <2>2 DEF IpcInv, BacklogOK
  <2>5. QED
    BY <2>2, <2>3, <2>4, ZenonT(20) DEF BacklogOK
<1>6. ServedOK' /\ OneDriver'
  BY <1>1, <1>3 DEF IpcInv, ServedOK, OneDriver
<1>7. client'[m].fd = "open" /\ client'[m].reader = "recv" /\ client'[m].told = client[m].told
      /\ client'[m].leaving = client[m].leaving
  BY <1>1 DEF IpcInv, IpcTypeOK
<1>8. ToldOfRealLoss'
  BY <1>1, <1>3, <1>4, <1>7, ZenonT(40) DEF IpcInv, ToldOfRealLoss
<1>9. \A o \in Mgr : ClientOK(o)'
  <2>1. ClientOK(m)'
    BY <1>1, <1>3, <1>7, SMTT(30) DEF IpcInv, ClientOK
  <2>2. ASSUME NEW o \in Mgr, o # m PROVE ClientOK(o)'
    <3>1. ClientOK(o) /\ client'[o] = client[o] /\ server_end'[o] = server_end[o]
      BY <1>3, <1>4, <2>2 DEF IpcInv
    <3>2. QED
      BY <3>1, SMTT(30) DEF ClientOK
  <2>3. QED
    BY <2>1, <2>2
<1>10. QED
  BY <1>2, <1>5, <1>6, <1>8, <1>9 DEF IpcInv

(* A step of a Manager that changes only what it holds of the connection. *)
LEMMA ClientKeeps ==
    ASSUME IpcInv, NEW m \in Mgr,
           \/ ReadEvent(m) \/ ReadFails(m) \/ ReaderEnds(m) \/ Send(m) \/ SendReturns(m) \/ Disconnect(m)
           \/ CloseSocket(m) \/ JoinReader(m) \/ ManagerDies(m) \/ ManagerHangs(m)
    PROVE  IpcInv'
<1>1. UNCHANGED <<running_, accept_thread, client_fd, event_sender, server_end, backlog>>
  BY SMTT(30) DEF ReadEvent, ReadFails, ReaderEnds, Send, SendReturns, Disconnect, CloseSocket, JoinReader,
         ManagerDies, ManagerHangs
<1>2. BacklogOK' /\ ServedOK' /\ OneDriver'
  BY <1>1, ZenonT(40) DEF IpcInv, BacklogOK, ServedOK, OneDriver
<1>3. to_machine' \in [Mgr -> 0 .. SocketBuffer] /\ to_manager' \in [Mgr -> 0 .. SocketBuffer]
  <2>1. to_machine \in [Mgr -> 0 .. SocketBuffer] /\ to_manager \in [Mgr -> 0 .. SocketBuffer]
    BY ZenonT(40) DEF IpcInv, IpcTypeOK
  <2>2. CASE ReadEvent(m)
    <3>1. /\ to_manager' = [to_manager EXCEPT ![m] = @ - 1] /\ to_manager[m] > 0
          /\ to_machine' = to_machine
      BY <2>2, ZenonT(40) DEF ReadEvent
    <3>2. to_manager[m] - 1 \in 0 .. SocketBuffer
      BY <2>1, <3>1
    <3>3. QED
      BY <2>1, <3>1, <3>2, ZenonT(40)
  <2>3. CASE SendReturns(m)
    BY <2>1, <2>3 DEF SendReturns
  <2>4. CASE UNCHANGED <<to_machine, to_manager>>
    BY <2>1, <2>4, ZenonT(20)
  <2>5. QED
    BY <2>2, <2>3, <2>4 DEF ReadFails, ReaderEnds, Send, Disconnect, CloseSocket, JoinReader, ManagerDies, ManagerHangs
<1>4. client' \in [Mgr -> Conn] /\ \A o \in Mgr : o # m => client'[o] = client[o]
  <2>1. client \in [Mgr -> Conn] /\ client[m] \in Conn
    BY ZenonT(20) DEF IpcInv, IpcTypeOK, Conn
  <2>2. CASE ReadEvent(m)
    BY <2>1, <2>2 DEF ReadEvent
  <2>3. CASE ReadFails(m)
    BY <2>1, <2>3 DEF ReadFails, Conn
  <2>4. CASE ReaderEnds(m)
    BY <2>1, <2>4 DEF ReaderEnds, Conn
  <2>5. CASE Send(m)
    BY <2>1, <2>5, ZenonT(40) DEF Send, Conn
  <2>6. CASE SendReturns(m)
    BY <2>1, <2>6, ZenonT(40) DEF SendReturns, Conn
  <2>7. CASE Disconnect(m)
    BY <2>1, <2>7, ZenonT(40) DEF Disconnect, Conn
  <2>8. CASE CloseSocket(m)
    BY <2>1, <2>8 DEF CloseSocket, Conn
  <2>9. CASE JoinReader(m)
    BY <2>1, <2>9, ZenonT(40) DEF JoinReader, Conn
  <2>10. CASE ManagerDies(m)
    BY <2>1, <2>10, ZenonT(40) DEF ManagerDies, Conn
  <2>11. CASE ManagerHangs(m)
    BY <2>1, <2>11, ZenonT(40) DEF ManagerHangs, Conn
  <2>12. QED
    BY <2>2, <2>3, <2>4, <2>5, <2>6, <2>7, <2>8, <2>9, <2>10, <2>11, ZenonT(20)
<1>5. IpcTypeOK'
  BY <1>1, <1>3, <1>4, ZenonT(40) DEF IpcInv, IpcTypeOK, Conn
<1>7. ClientOK(m)' /\ (client'[m].told => server_end'[m] = "closed")
  <2>1. ClientOK(m) /\ (client[m].told => server_end[m] = "closed") /\ client \in [Mgr -> Conn]
    BY SMTT(30) DEF IpcInv, IpcTypeOK, Conn, ToldOfRealLoss
  <2>2. CASE ReadEvent(m)
    BY <1>1, <2>1, <2>2 DEF ReadEvent, ClientOK
  <2>3. CASE ReadFails(m)
    <3>1. client'[m].fd = client[m].fd /\ client'[m].connected = client[m].connected /\ client'[m].reader = "lost"
          /\ client'[m].leaving = client[m].leaving /\ client'[m].told = client[m].told
      BY <2>1, <2>3 DEF ReadFails, Conn
    <3>2. QED
      BY <1>1, <2>1, <2>3, <3>1 DEF ClientOK, ReadFails, Peer
  <2>4. CASE ReaderEnds(m)
    <3>1. client'[m].fd = client[m].fd /\ client'[m].connected = FALSE /\ client'[m].reader = "ended"
          /\ client'[m].leaving = client[m].leaving /\ client'[m].told = client[m].connected
      BY <2>1, <2>4 DEF ReaderEnds, Conn
    <3>2. QED
      BY <1>1, <2>1, <2>4, <3>1 DEF ClientOK, ReaderEnds
  <2>5. CASE Send(m)
    <3>1. client'[m].fd = client[m].fd /\ client'[m].connected = client[m].connected /\ client'[m].reader = client[m].reader
          /\ client'[m].leaving = client[m].leaving /\ client'[m].told = client[m].told
      BY <2>1, <2>5 DEF Send, Conn
    <3>2. QED
      BY <1>1, <2>1, <2>5, <3>1 DEF ClientOK, Send, Peer
  <2>6. CASE SendReturns(m)
    <3>1. client'[m].fd = client[m].fd /\ client'[m].connected = client[m].connected /\ client'[m].reader = client[m].reader
          /\ client'[m].leaving = client[m].leaving /\ client'[m].told = client[m].told
      BY <2>1, <2>6 DEF SendReturns, Conn
    <3>2. QED
      BY <1>1, <2>1, <2>6, <3>1 DEF ClientOK, SendReturns
  <2>7. CASE Disconnect(m)
    <3>1. client'[m].fd = client[m].fd /\ client'[m].connected = FALSE /\ client'[m].reader = client[m].reader
          /\ client'[m].leaving = TRUE /\ client'[m].told = client[m].told
      BY <2>1, <2>7 DEF Disconnect, Conn
    <3>2. QED
      BY <1>1, <2>1, <2>7, <3>1 DEF ClientOK, Disconnect, Peer
  <2>8. CASE CloseSocket(m)
    <3>1. client'[m].fd = "shut" /\ client'[m].connected = client[m].connected /\ client'[m].reader = client[m].reader
          /\ client'[m].leaving = client[m].leaving /\ client'[m].told = client[m].told
      BY <2>1, <2>8, ZenonT(40) DEF CloseSocket, Conn
    <3>2. QED
      BY <1>1, <2>1, <2>8, <3>1 DEF ClientOK, CloseSocket
  <2>9. CASE JoinReader(m)
    <3>1. client'[m].fd = "closed" /\ client'[m].connected = client[m].connected /\ client'[m].reader = client[m].reader
          /\ client'[m].leaving = FALSE /\ client'[m].told = client[m].told
      BY <2>1, <2>9 DEF JoinReader, Conn
    <3>2. QED
      BY <1>1, <2>1, <2>9, <3>1 DEF ClientOK, JoinReader
  <2>10. CASE ManagerDies(m)
    <3>1. client'[m].fd = "closed" /\ client'[m].connected = FALSE /\ client'[m].reader = "ended"
          /\ client'[m].leaving = FALSE /\ client'[m].told = client[m].told
      BY <2>1, <2>10 DEF ManagerDies, Conn
    <3>2. QED
      BY <1>1, <2>1, <2>10, <3>1 DEF ClientOK, ManagerDies
  <2>11. CASE ManagerHangs(m)
    <3>1. client'[m].fd = client[m].fd /\ client'[m].connected = client[m].connected /\ client'[m].reader = client[m].reader
          /\ client'[m].leaving = client[m].leaving /\ client'[m].told = client[m].told
      BY <2>1, <2>11, SMTT(30) DEF ManagerHangs, Conn
    <3>2. QED
      BY <1>1, <2>1, <2>11, <3>1 DEF ClientOK, ManagerHangs, Peer
  <2>12. QED
    BY <2>2, <2>3, <2>4, <2>5, <2>6, <2>7, <2>8, <2>9, <2>10, <2>11, ZenonT(40)
<1>8. ToldOfRealLoss' /\ \A o \in Mgr : ClientOK(o)'
  BY <1>1, <1>4, <1>7, ZenonT(40) DEF IpcInv, ToldOfRealLoss, ClientOK
<1>9. QED
  BY <1>2, <1>5, <1>8, ZenonT(40) DEF IpcInv

LEMMA IpcStep == IpcInv /\ [IpcNext]_ipcVars => IpcInv'
<1> SUFFICES ASSUME IpcInv, [IpcNext]_ipcVars PROVE IpcInv'
  OBVIOUS
<1>1. CASE AcceptEnds \/ LoopTest \/ RecvRequest \/ RecvFails \/ SendEvent \/ EventSent \/ StopServer
  BY <1>1, EndsAlone
<1>2. CASE Accept
  BY <1>2, AcceptKeeps
<1>3. CASE LeaveClient \/ EventFails
  BY <1>3, CloseKeeps
<1>4. CASE StopJoined \/ MachineDies
  BY <1>4, DeathKeeps, ZenonT(20)
<1>5. ASSUME NEW m \in Mgr,
             Connect(m) \/ Reader(m) \/ Send(m) \/ Disconnect(m) \/ ManagerGui(m) \/ ManagerDies(m) \/ ManagerHangs(m)
      PROVE  IpcInv'
  BY <1>5, ConnectKeeps, ClientKeeps, SMTT(30) DEF Reader, ManagerGui
<1>6. CASE UNCHANGED ipcVars
  BY <1>6 DEF ipcVars, IpcInv, IpcTypeOK, BacklogOK, ServedOK, OneDriver, ToldOfRealLoss, ClientOK
<1>7. QED
  BY <1>1, <1>2, <1>3, <1>4, <1>5, <1>6 DEF IpcNext, AcceptThread, EventSender

(* However many Managers connect, leave, crash or hang, and however the       *)
(* machine ends, one at a time drives the machine: the accept thread reads    *)
(* the end that SendEvent writes to, and no other end is open.                *)
THEOREM OneManagerDrives == IpcSpec => []OneDriver
<1>1. IpcInv => OneDriver
  BY DEF IpcInv
<1>2. QED
  BY IpcStart, IpcStep, <1>1, PTL DEF IpcSpec

(* A Manager that is told that its machine is gone has lost it: ReadLoop      *)
(* never reports the Manager's own Disconnect.                                *)
THEOREM LossIsReal == IpcSpec => []ToldOfRealLoss
<1>1. IpcInv => ToldOfRealLoss
  BY DEF IpcInv
<1>2. QED
  BY IpcStart, IpcStep, <1>1, PTL DEF IpcSpec

-----------------------------------------------------------------------------
HIDE IpcAssumption

(* The panel *)

Panel == [live : BOOLEAN, active : BOOLEAN, frame_dirty : BOOLEAN, dirty_all : BOOLEAN,
          dirty : (0 .. FrameRows) \X (0 .. FrameRows), mode : FrameMode \cup {NoMode}]
Canvas == [is : {"none", "undecided", "usable", "failed"}, tried : BOOLEAN,
           paints : Nat, texture : PanelImage]

PanelShape ==
    /\ newest_mode \in FrameMode \cup {NoMode}
    /\ frame_events \in Seq(ReportedRows) /\ panel \in Panel
    /\ frame_pixels \in PanelImage /\ scaled_image \in PanelImage
    /\ canvas \in Canvas /\ gave_up \in BOOLEAN
    /\ paints \subseteq {"panel", "canvas"} /\ on_screen \subseteq PanelRows

(* The rows that an event stands for, those of the events on their way, and *)
(* those that were gathered for the next paint.                             *)
EventRows(d) == IF d[2] > d[1] THEN RowsOf(d) ELSE PanelRows
Pending(r) == \E k \in 1 .. Len(frame_events) : r \in EventRows(frame_events[k])
Gathered(r) == panel.dirty_all \/ r \in RowsOf(panel.dirty)

IsShown == panel.live /\ panel.active /\ newest_mode # NoMode

CanvasOK ==
    /\ ~canvas.tried => canvas.is = "none"
    /\ canvas.is = "undecided" => "canvas" \in paints
    /\ canvas.is = "failed" => gave_up \/ "panel" \in paints
    /\ canvas.is = "usable" => on_screen = canvas.texture.now

(* The panel's copy, unless the canvas draws, has the newest frame or will  *)
(* read it with the next paint.                                             *)
CopyOK ==
    /\ frame_pixels.mode # newest_mode => frame_pixels.now = {}
    /\ IsShown /\ ~gave_up /\ canvas.is # "usable" /\ ~panel.frame_dirty =>
           \A r \in PanelRows : (r \in frame_pixels.now /\ panel.mode = newest_mode) \/ Pending(r)

(* The canvas's texture has the newest frame but for rows that are still to *)
(* be reported, or to be painted.                                           *)
TextureOK ==
    IsShown /\ canvas.is \in {"undecided", "usable"} =>
        \A r \in PanelRows :
            \/ r \in canvas.texture.now
            \/ Pending(r)
            \/ "canvas" \in paints /\ (Gathered(r) \/ canvas.texture.mode # newest_mode)

(* So has what the panel scaled itself, and what it shows. *)
ScaledOK ==
    IsShown /\ ~gave_up /\ canvas.is = "none" =>
        \A r \in PanelRows :
            /\ r \in scaled_image.now \/ Pending(r) \/ Gathered(r) \/ scaled_image.mode = NoMode
            /\ r \in on_screen \/ Pending(r) \/ "panel" \in paints

PanelInv == PanelShape /\ CanvasOK /\ CopyOK /\ TextureOK /\ ScaledOK

LEMMA PanelStarts == PanelInit => PanelInv
<1> SUFFICES ASSUME PanelInit PROVE PanelInv
  OBVIOUS
<1>1. Nothing \in PanelImage /\ Nothing.now = {} /\ Nothing.mode = NoMode
  BY ZenonT(20) DEF Nothing, PanelImage
<1>2. panel \in Panel /\ ~panel.active
  <2>1. 0 \in 0 .. FrameRows
    BY PanelAssumption
  <2>2. QED
    BY <2>1, ZenonT(40) DEF PanelInit, Panel
<1>3. canvas \in Canvas /\ canvas.is = "none"
  BY <1>1 DEF PanelInit, Canvas
<1>4. PanelShape
  <2>1. frame_events \in Seq(ReportedRows)
    BY DEF PanelInit
  <2>2. gave_up \in BOOLEAN
    BY Zenon DEF PanelInit
  <2>3. QED
    BY <1>1, <1>2, <1>3, <2>1, <2>2, Zenon DEF PanelInit, PanelShape
<1>5. ~IsShown
  BY <1>2, ZenonT(20) DEF IsShown
<1>6. CanvasOK /\ TextureOK /\ ScaledOK
  BY <1>3, <1>5, ZenonT(20) DEF CanvasOK, TextureOK, ScaledOK
<1>7. CopyOK
  BY <1>1, <1>5, ZenonT(20) DEF PanelInit, CopyOK
<1>8. QED
  BY <1>4, <1>6, <1>7, ZenonT(20) DEF PanelInv

(* The union of two ranges of rows has the rows of both. *)
LEMMA UnionCovers ==
    ASSUME NEW a \in (0 .. FrameRows) \X (0 .. FrameRows),
           NEW d \in (0 .. FrameRows) \X (0 .. FrameRows)
    PROVE  /\ Union(a, d) \in (0 .. FrameRows) \X (0 .. FrameRows)
           /\ \A r \in PanelRows : r \in RowsOf(a) \/ r \in RowsOf(d) => r \in RowsOf(Union(a, d))
<1>1. /\ a[1] \in 0 .. FrameRows /\ a[2] \in 0 .. FrameRows
      /\ d[1] \in 0 .. FrameRows /\ d[2] \in 0 .. FrameRows /\ FrameRows \in Nat
  BY PanelAssumption
<1>2. CASE a[2] <= a[1]
  <2>1. Union(a, d) = d
    BY <1>2, ZenonT(40) DEF Union
  <2>2. \A r \in PanelRows : r \notin RowsOf(a)
    BY <1>1, <1>2 DEF RowsOf, PanelRows
  <2>3. QED  BY <2>1, <2>2, ZenonT(40)
<1>3. CASE ~(a[2] <= a[1])
  <2> DEFINE lo == IF d[1] < a[1] THEN d[1] ELSE a[1]
             hi == IF d[2] > a[2] THEN d[2] ELSE a[2]
  <2>1. Union(a, d) = <<lo, hi>>
    BY <1>3, ZenonT(40) DEF Union
  <2>2. /\ lo \in 0 .. FrameRows /\ hi \in 0 .. FrameRows
        /\ lo <= a[1] /\ lo <= d[1] /\ a[2] <= hi /\ d[2] <= hi
    BY <1>1
  <2> HIDE DEF lo, hi
  <2>3. \A r \in PanelRows : r \in RowsOf(a) \/ r \in RowsOf(d) => lo <= r /\ r < hi
    BY <1>1, <2>2 DEF RowsOf, PanelRows
  <2>4. QED  BY <2>1, <2>2, <2>3 DEF RowsOf
<1>4. QED  BY <1>2, <1>3

LEMMA RangeFacts ==
    ASSUME NEW d \in ReportedRows
    PROVE  /\ d[1] \in 0 .. FrameRows /\ d[2] \in 0 .. FrameRows /\ d = <<d[1], d[2]>>
           /\ RowsOf(d) = {} <=> ~(d[2] > d[1])
           /\ RowsOf(d) \subseteq PanelRows /\ EventRows(d) \subseteq PanelRows
<1>1. d[1] \in 0 .. FrameRows /\ d[2] \in 0 .. FrameRows /\ d = <<d[1], d[2]>>
  BY PanelAssumption
<1>2. d[2] > d[1] => d[1] \in RowsOf(d)
  BY <1>1, PanelAssumption DEF RowsOf, PanelRows
<1>3. ~(d[2] > d[1]) => RowsOf(d) = {}
  BY <1>1, PanelAssumption DEF RowsOf, PanelRows
<1>4. QED
  BY <1>1, <1>2, <1>3 DEF RowsOf, EventRows

(* A frame is published: the rows that have changed are those of its event. *)
LEMMA PublishedKeeps ==
    ASSUME PanelInv, NEW m \in FrameMode, NEW d \in ReportedRows, FramePublished(m, d)
    PROVE  PanelInv'
<1> DEFINE changed == IF m # newest_mode \/ RowsOf(d) = {} THEN PanelRows ELSE RowsOf(d)
<1>1. /\ PanelShape /\ CanvasOK /\ CopyOK /\ TextureOK /\ ScaledOK
      /\ newest_mode' = m /\ panel' = panel /\ paints' = paints /\ gave_up' = gave_up
      /\ frame_events' = Append(frame_events, d)
  BY DEF PanelInv, FramePublished
<1>2. changed \subseteq EventRows(d) /\ (m # newest_mode => changed = PanelRows) /\ changed \subseteq PanelRows
  BY RangeFacts DEF FramePublished, EventRows
<1>3. frame_pixels' = [frame_pixels EXCEPT !.now = frame_pixels.now \ changed]
      /\ scaled_image' = [scaled_image EXCEPT !.now = scaled_image.now \ changed]
      /\ canvas' = [canvas EXCEPT !.texture.now = canvas.texture.now \ changed]
      /\ on_screen' = on_screen \ changed
  BY DEF FramePublished
<1> HIDE DEF changed
<1>4. /\ frame_pixels' \in PanelImage /\ frame_pixels'.mode = frame_pixels.mode
      /\ frame_pixels'.now = frame_pixels.now \ changed
      /\ scaled_image' \in PanelImage /\ scaled_image'.mode = scaled_image.mode
      /\ scaled_image'.now = scaled_image.now \ changed
  BY <1>1, <1>3, ZenonT(40) DEF PanelShape, PanelImage
<1>5. /\ canvas' \in Canvas /\ canvas'.is = canvas.is /\ canvas'.tried = canvas.tried
      /\ canvas'.texture.mode = canvas.texture.mode
      /\ canvas'.texture.now = canvas.texture.now \ changed
  <2>1. canvas \in Canvas /\ canvas.texture \in PanelImage
    BY <1>1 DEF PanelShape, Canvas
  <2>2. canvas' = [canvas EXCEPT !.texture = [canvas.texture EXCEPT !.now = canvas.texture.now \ changed]]
    BY <1>3, <2>1 DEF Canvas
  <2>3. /\ [canvas.texture EXCEPT !.now = canvas.texture.now \ changed] \in PanelImage
        /\ [canvas.texture EXCEPT !.now = canvas.texture.now \ changed].mode = canvas.texture.mode
        /\ [canvas.texture EXCEPT !.now = canvas.texture.now \ changed].now = canvas.texture.now \ changed
    BY <2>1, ZenonT(20) DEF PanelImage
  <2>4. QED
    BY <2>1, <2>2, <2>3, ZenonT(40) DEF Canvas
<1>6. frame_events' \in Seq(ReportedRows)
  BY <1>1 DEF PanelShape
<1>7. PanelShape'
  BY <1>1, <1>3, <1>4, <1>5, <1>6, ZenonT(20) DEF PanelShape
<1>8. ASSUME NEW r \in PanelRows PROVE (Pending(r) \/ r \in changed) => Pending(r)'
  <2>1. Len(frame_events') = Len(frame_events) + 1 /\ Len(frame_events) \in Nat
        /\ frame_events'[Len(frame_events) + 1] = d
        /\ \A k \in 1 .. Len(frame_events) : frame_events'[k] = frame_events[k]
    BY <1>1 DEF PanelShape
  <2>2. Pending(r) => Pending(r)'
    BY <2>1 DEF Pending
  <2>3. r \in changed => Pending(r)'
    BY <1>2, <2>1 DEF Pending
  <2>4. QED
    BY <2>2, <2>3, ZenonT(20)
<1>9. \A r \in PanelRows : m # newest_mode => Pending(r)'
  BY <1>2, <1>8
<1>10. CanvasOK'
  BY <1>1, <1>3, <1>5 DEF CanvasOK
<1>11. m = newest_mode => (IsShown' <=> IsShown) /\ \A r \in PanelRows : Gathered(r)' <=> Gathered(r)
  BY <1>1, ZenonT(40) DEF IsShown, Gathered
<1>12. CopyOK'
  <2>1. frame_pixels.now \subseteq PanelRows
    BY <1>1 DEF PanelShape, PanelImage
  <2>2. frame_pixels'.mode # newest_mode' => frame_pixels'.now = {}
    BY <1>1, <1>2, <1>4, <2>1, ZenonT(40) DEF CopyOK
  <2>3. QED
    BY <1>1, <1>4, <1>5, <1>8, <1>9, <1>11, <2>2, ZenonT(20) DEF CopyOK
<1>13. TextureOK'
  BY <1>1, <1>5, <1>8, <1>9, <1>11, ZenonT(20) DEF TextureOK
<1>14. ScaledOK'
  BY <1>1, <1>3, <1>4, <1>5, <1>8, <1>9, <1>11, ZenonT(20) DEF ScaledOK
<1>15. QED
  BY <1>7, <1>10, <1>12, <1>13, <1>14 DEF PanelInv

(* The event is handled: its rows go from the one set to the other. *)
LEMMA ReadyKeeps == ASSUME PanelInv, FrameReady PROVE PanelInv'
<1>1. PICK d \in ReportedRows : d = Head(frame_events)
  BY DEF PanelInv, PanelShape, FrameReady
<1>2. /\ PanelShape /\ CanvasOK /\ CopyOK /\ TextureOK /\ ScaledOK
      /\ frame_events # <<>> /\ frame_events' = Tail(frame_events)
      /\ newest_mode' = newest_mode /\ frame_pixels' = frame_pixels /\ scaled_image' = scaled_image
      /\ canvas' = canvas /\ on_screen' = on_screen
  BY ZenonT(20) DEF PanelInv, FrameReady
<1>3. frame_events' \in Seq(ReportedRows)
  BY <1>2 DEF PanelShape
<1>4. ASSUME NEW r \in PanelRows, Pending(r) PROVE r \in EventRows(d) \/ Pending(r)'
  <2>1. PICK k \in 1 .. Len(frame_events) : r \in EventRows(frame_events[k])
    BY <1>4, ZenonT(20) DEF Pending
  <2>2. k = 1 => frame_events[k] = d
    BY <1>1, <1>2 DEF PanelShape
  <2>3. k # 1 => k - 1 \in 1 .. Len(frame_events') /\ frame_events'[k - 1] = frame_events[k]
    BY <1>2 DEF PanelShape
  <2>4. QED
    BY <2>1, <2>2, <2>3, ZenonT(20) DEF Pending
<1>5. CASE ~panel.active
  <2>1. panel' = panel /\ paints' = paints /\ gave_up' = gave_up
    BY <1>5, ZenonT(20) DEF FrameReady
  <2>2. ~IsShown' /\ PanelShape'
    BY <1>2, <1>3, <1>5, <2>1, ZenonT(20) DEF IsShown, PanelShape
  <2>3. QED
    BY <1>2, <2>1, <2>2, ZenonT(20) DEF PanelInv, CanvasOK, CopyOK, TextureOK, ScaledOK
<1>6. CASE panel.active
  <2> DEFINE known == d[2] > d[1]
             rows == IF known THEN Union(panel.dirty, d) ELSE panel.dirty
  <2>1. /\ panel' = [panel EXCEPT !.dirty = rows, !.dirty_all = panel.dirty_all \/ ~known,
                                  !.frame_dirty = ~GlActive]
        /\ paints' = paints \cup {IF GlActive THEN "canvas" ELSE "panel"}
        /\ gave_up' = (gave_up /\ canvas.is = "none")
    BY <1>1, <1>6, ZenonT(20) DEF FrameReady
  <2>2. panel \in Panel /\ panel.dirty \in (0 .. FrameRows) \X (0 .. FrameRows)
    BY <1>2 DEF PanelShape, Panel
  <2>3. rows \in (0 .. FrameRows) \X (0 .. FrameRows)
        /\ \A r \in PanelRows : (r \in RowsOf(panel.dirty) \/ (known /\ r \in RowsOf(d))) => r \in RowsOf(rows)
    <3>1. /\ d \in (0 .. FrameRows) \X (0 .. FrameRows)
          /\ Union(panel.dirty, d) \in (0 .. FrameRows) \X (0 .. FrameRows)
          /\ \A r \in PanelRows : r \in RowsOf(panel.dirty) \/ r \in RowsOf(d)
                                    => r \in RowsOf(Union(panel.dirty, d))
      BY <2>2, PanelAssumption, UnionCovers, ZenonT(40)
    <3>2. QED
      BY <2>2, <3>1, ZenonT(40)
  <2> HIDE DEF rows
  <2>4. /\ panel' \in Panel /\ panel'.live = panel.live /\ panel'.active = panel.active
        /\ panel'.dirty = rows /\ panel'.mode = panel.mode
        /\ panel'.dirty_all = (panel.dirty_all \/ ~known) /\ panel'.frame_dirty = ~GlActive
    BY <2>1, <2>2, <2>3, ZenonT(40) DEF Panel, GlActive
  <2>5. PanelShape'
    <3>1. gave_up' \in BOOLEAN /\ paints' \subseteq {"panel", "canvas"}
      BY <1>2, <2>1, ZenonT(20) DEF PanelShape
    <3>2. QED
      BY <1>2, <1>3, <2>4, <3>1 DEF PanelShape
  <2>6. IsShown' <=> IsShown
    BY <1>2, <2>4, ZenonT(20) DEF IsShown
  <2>7. \A r \in PanelRows : Pending(r) \/ Gathered(r) => Pending(r)' \/ Gathered(r)'
    <3>1. \A r \in PanelRows : Gathered(r) \/ r \in EventRows(d) => Gathered(r)'
      BY <2>3, <2>4, ZenonT(40) DEF Gathered, EventRows
    <3>2. QED
      BY <1>4, <3>1
  <2>8. CanvasOK'
    BY <1>2, <2>1 DEF CanvasOK, GlActive
  <2>9. CopyOK'
    BY <1>2, <2>4, ZenonT(40) DEF CopyOK, GlActive
  <2>10. TextureOK'
    <3>1. canvas.is = "undecided" => "canvas" \in paints'
      BY <1>2, <2>1 DEF CanvasOK
    <3>2. canvas.is = "usable" => "canvas" \in paints'
      BY <2>1, ZenonT(20) DEF GlActive
    <3>3. QED
      BY <1>2, <2>6, <2>7, <3>1, <3>2 DEF TextureOK
  <2>11. ScaledOK'
    <3>1. canvas.is = "none" => gave_up' = gave_up /\ "panel" \in paints'
      BY <1>2, <2>1 DEF GlActive, PanelShape
    <3>2. QED
      BY <1>2, <2>6, <2>7, <3>1, ZenonT(40) DEF ScaledOK
  <2>12. QED
    BY <2>5, <2>8, <2>9, <2>10, <2>11 DEF PanelInv
<1>7. QED
  BY <1>5, <1>6

LEMMA SetActiveKeeps == ASSUME PanelInv, NEW b \in BOOLEAN, SetActive(b) PROVE PanelInv'
<1>1. /\ PanelShape /\ CanvasOK /\ CopyOK /\ TextureOK /\ ScaledOK
      /\ newest_mode' = newest_mode /\ frame_pixels' = frame_pixels /\ scaled_image' = scaled_image
      /\ canvas' = canvas /\ on_screen' = on_screen /\ frame_events' = frame_events
  BY DEF PanelInv, SetActive
<1>2. CASE b /\ panel.live
  <2>1. /\ panel' = [panel EXCEPT !.active = TRUE, !.frame_dirty = TRUE, !.dirty_all = TRUE]
        /\ paints' = paints \cup Windows /\ gave_up' = FALSE
    BY <1>2 DEF SetActive
  <2>2. panel' \in Panel /\ panel'.frame_dirty /\ panel'.dirty_all
    BY <1>1, <2>1, ZenonT(40) DEF PanelShape, Panel
  <2>3. "panel" \in paints' /\ (canvas.is # "none" => "canvas" \in paints') /\ paints' \subseteq {"panel", "canvas"}
    BY <1>1, <2>1 DEF Windows, PanelShape
  <2>4. PanelShape'
    BY <1>1, <2>1, <2>2, <2>3, ZenonT(40) DEF PanelShape
  <2>5. \A r \in PanelRows : Gathered(r)'
    BY <2>2 DEF Gathered
  <2>6. CanvasOK'
    BY <1>1, <2>1, <2>3, ZenonT(40) DEF CanvasOK
  <2>7. CopyOK'
    BY <1>1, <2>2, ZenonT(20) DEF CopyOK
  <2>8. TextureOK' /\ ScaledOK'
    BY <1>1, <2>3, <2>5, ZenonT(20) DEF TextureOK, ScaledOK
  <2>9. QED
    BY <2>4, <2>6, <2>7, <2>8 DEF PanelInv
<1>3. CASE ~(b /\ panel.live)
  <2>1. /\ panel' = [panel EXCEPT !.active = b] /\ paints' = paints /\ gave_up' = gave_up
    BY <1>3 DEF SetActive
  <2>2. panel' \in Panel /\ ~(panel'.live /\ panel'.active)
    BY <1>1, <1>3, <2>1 DEF PanelShape, Panel
  <2>3. ~IsShown' /\ PanelShape'
    BY <1>1, <2>1, <2>2, ZenonT(20) DEF IsShown, PanelShape
  <2>4. QED
    BY <1>1, <2>1, <2>3 DEF PanelInv, CanvasOK, CopyOK, TextureOK, ScaledOK
<1>4. QED
  BY <1>2, <1>3

LEMMA GoneKeeps == ASSUME PanelInv, MachineGone PROVE PanelInv'
<1>1. /\ PanelShape /\ CanvasOK /\ CopyOK /\ TextureOK /\ ScaledOK
      /\ UNCHANGED <<newest_mode, frame_events, frame_pixels, scaled_image, canvas, paints, on_screen, gave_up>>
      /\ panel' = [panel EXCEPT !.live = FALSE]
  BY DEF PanelInv, MachineGone
<1>2. panel' \in Panel /\ ~panel'.live
  BY <1>1, ZenonT(40) DEF PanelShape, Panel
<1>3. ~IsShown' /\ PanelShape'
  BY <1>1, <1>2, ZenonT(20) DEF IsShown, PanelShape
<1>4. QED
  BY <1>1, <1>3 DEF PanelInv, CanvasOK, CopyOK, TextureOK, ScaledOK

(* What a paint of the panel draws from: the copy, read again if need be,   *)
(* has every row of the newest frame whose event was handled.               *)
LEMMA PaintSource ==
    ASSUME PanelInv, NEW px, NEW mode,
           LET refresh == panel.live /\ panel.frame_dirty /\ newest_mode # NoMode
           IN /\ px = IF refresh THEN [mode |-> newest_mode, now |-> PanelRows] ELSE frame_pixels
              /\ mode = IF refresh THEN newest_mode ELSE panel.mode
    PROVE  /\ px \in PanelImage /\ mode \in FrameMode \cup {NoMode}
           /\ px.mode # newest_mode => px.now = {}
           /\ IsShown /\ ~gave_up /\ canvas.is # "usable" =>
                 \A r \in PanelRows : (r \in px.now /\ mode = newest_mode) \/ Pending(r)
<1>1. PanelShape /\ CopyOK
  BY ZenonT(20) DEF PanelInv
<1>2. CASE panel.live /\ panel.frame_dirty /\ newest_mode # NoMode
  <2>1. px = [mode |-> newest_mode, now |-> PanelRows] /\ mode = newest_mode
    BY <1>2, ZenonT(20)
  <2>2. QED
    BY <1>1, <2>1 DEF PanelShape, PanelImage
<1>3. CASE ~(panel.live /\ panel.frame_dirty /\ newest_mode # NoMode)
  <2>1. px = frame_pixels /\ mode = panel.mode
    BY <1>3, ZenonT(20)
  <2>2. panel.mode \in FrameMode \cup {NoMode}
    BY <1>1 DEF PanelShape, Panel
  <2>3. QED
    BY <1>1, <1>3, <2>1, <2>2, ZenonT(20) DEF PanelShape, CopyOK, IsShown
<1>4. QED
  BY <1>2, <1>3, ZenonT(20)

LEMMA PaintKeeps == ASSUME PanelInv, NEW b \in BOOLEAN, OnPaint(b) PROVE PanelInv'
<1> DEFINE refresh == panel.live /\ panel.frame_dirty /\ newest_mode # NoMode
           px0 == IF refresh THEN [mode |-> newest_mode, now |-> PanelRows] ELSE frame_pixels
           mode0 == IF refresh THEN newest_mode ELSE panel.mode
           try == panel.live /\ px0.mode # NoMode /\ ~canvas.tried
           c0 == IF try THEN IF acceleration THEN NewCanvas ELSE [canvas EXCEPT !.tried = TRUE] ELSE canvas
           waits == Undecided(c0)
           destroy == c0.is = "failed" \/ (c0.is = "undecided" /\ ~waits)
           draws == panel.live /\ mode0 # NoMode /\ px0.mode # NoMode
           image0 == ScaledBitmap(px0, mode0, scaled_image.mode # NoMode /\ ~destroy,
                                  panel.dirty_all \/ destroy \/ b)
           seen0 == [panel EXCEPT !.frame_dirty = panel.frame_dirty /\ ~panel.live, !.mode = mode0]
<1>1. PICK px, mode, c, seen, image :
         px = px0 /\ mode = mode0 /\ c = c0 /\ seen = seen0 /\ image = image0
  OBVIOUS
<1>2. /\ PanelShape /\ CanvasOK /\ CopyOK /\ TextureOK /\ ScaledOK
      /\ UNCHANGED <<newest_mode, frame_events, gave_up>> /\ frame_pixels' = px
  BY <1>1, ZenonT(40) DEF PanelInv, OnPaint
<1>3. IF c.is = "usable" \/ waits
      THEN /\ canvas' = IF waits THEN [c EXCEPT !.paints = c.paints + 1] ELSE c
           /\ panel' = seen
           /\ on_screen' = IF waits THEN {} ELSE on_screen
           /\ paints' = (paints \ {"panel"}) \cup (IF try THEN {"canvas"} ELSE {})
           /\ UNCHANGED scaled_image
      ELSE /\ canvas' = IF destroy THEN [c EXCEPT !.is = "none", !.texture = Nothing] ELSE c
           /\ panel' = [seen EXCEPT !.dirty_all = ~draws /\ (seen.dirty_all \/ destroy),
                                    !.dirty = IF draws THEN <<0, 0>> ELSE seen.dirty]
           /\ scaled_image' = IF draws THEN image ELSE IF destroy THEN Nothing ELSE scaled_image
           /\ on_screen' = IF draws THEN image.now ELSE {}
           /\ paints' = IF destroy THEN {"panel"} ELSE paints \ {"panel"}
  BY <1>1, ZenonT(40) DEF OnPaint
<1>4. /\ px \in PanelImage /\ mode \in FrameMode \cup {NoMode}
      /\ px.mode # newest_mode => px.now = {}
      /\ IsShown /\ ~gave_up /\ canvas.is # "usable" =>
            \A r \in PanelRows : (r \in px.now /\ mode = newest_mode) \/ Pending(r)
  BY <1>1, PaintSource, ZenonT(40)
<1>5. /\ c \in Canvas /\ (~c.tried => c.is = "none")
      /\ \/ ~try /\ c = canvas
         \/ try /\ canvas.is = "none" /\ c = NewCanvas
         \/ try /\ canvas.is = "none" /\ c.is = "none"
  <2>1. canvas \in Canvas /\ (~canvas.tried => canvas.is = "none")
    BY <1>2, ZenonT(20) DEF PanelShape, CanvasOK
  <2>2. Nothing \in PanelImage
    BY ZenonT(20) DEF Nothing, PanelImage
  <2>3. NewCanvas \in Canvas /\ NewCanvas.tried
    BY <2>2 DEF NewCanvas, Canvas
  <2>4. canvas.is = "none" => [canvas EXCEPT !.tried = TRUE] \in Canvas /\ [canvas EXCEPT !.tried = TRUE].is = "none"
    BY <2>1, ZenonT(40) DEF Canvas
  <2>5. CASE ~try
    BY <1>1, <2>1, <2>5
  <2>6. CASE try
    <3>1. canvas.is = "none" /\ c = IF acceleration THEN NewCanvas ELSE [canvas EXCEPT !.tried = TRUE]
      BY <1>1, <2>1, <2>6
    <3>2. QED
      BY <2>3, <2>4, <2>6, <3>1, ZenonT(20)
  <2>7. QED
    BY <2>5, <2>6, ZenonT(40)
<1>6. /\ seen \in Panel /\ seen.live = panel.live /\ seen.active = panel.active /\ seen.mode = mode
      /\ (seen.frame_dirty => ~seen.live) /\ seen.dirty = panel.dirty /\ seen.dirty_all = panel.dirty_all
  BY <1>1, <1>2, <1>4, ZenonT(40) DEF PanelShape, Panel
<1>7. \A r \in PanelRows : Pending(r)' <=> Pending(r)
  BY <1>2, ZenonT(20) DEF Pending
<1>8. /\ waits => c.is = "undecided"
      /\ destroy <=> (c.is = "failed" \/ (c.is = "undecided" /\ ~waits))
      /\ draws <=> (panel.live /\ mode # NoMode /\ px.mode # NoMode)
      /\ image = ScaledBitmap(px, mode, scaled_image.mode # NoMode /\ ~destroy, panel.dirty_all \/ destroy \/ b)
  BY <1>1, ZenonT(20) DEF Undecided
<1> HIDE DEF refresh, px0, mode0, try, c0, waits, destroy, draws, image0, seen0
<1>9. Nothing \in PanelImage /\ Nothing.mode = NoMode
  BY ZenonT(20) DEF Nothing, PanelImage
<1>10. CASE c.is = "usable" \/ waits
  <2>1. /\ canvas' = IF waits THEN [c EXCEPT !.paints = c.paints + 1] ELSE c
        /\ panel' = seen /\ scaled_image' = scaled_image
        /\ on_screen' = IF waits THEN {} ELSE on_screen
        /\ paints' = (paints \ {"panel"}) \cup (IF try THEN {"canvas"} ELSE {})
    BY <1>3, <1>10
  <2>2. canvas' \in Canvas /\ canvas'.is = c.is /\ canvas'.tried = c.tried /\ canvas'.texture = c.texture
    BY <1>5, <2>1 DEF Canvas
  <2>3. PanelShape'
    BY <1>2, <1>4, <1>6, <2>1, <2>2 DEF PanelShape
  <2>4. IsShown' <=> IsShown
    BY <1>2, <1>6, <2>1, ZenonT(40) DEF IsShown
  <2>5. c.is = "usable" => ~waits /\ ~try /\ c = canvas
    <3>1. NewCanvas.is = "undecided"
      BY ZenonT(40) DEF NewCanvas
    <3>2. c.is = "usable" => c.is # "undecided" /\ c.is # "none"
      BY ZenonT(40)
    <3>3. QED
      BY <1>5, <1>8, <3>1, <3>2, ZenonT(40)
  <2>6. c.is # "usable" => c.is = "undecided" /\ canvas.is # "usable"
    BY <1>5, <1>8, <1>10
  <2>7. "canvas" \in paints' <=> ("canvas" \in paints \/ try)
    BY <2>1
  <2>8. CanvasOK'
    BY <1>2, <1>5, <2>1, <2>2, <2>5, <2>6, <2>7, ZenonT(20) DEF CanvasOK
  <2>9. CopyOK'
    BY <1>2, <1>4, <1>6, <1>7, <2>1, <2>2, <2>4, <2>6, ZenonT(40) DEF CopyOK
  <2>10. TextureOK'
    <3>1. \A r \in PanelRows : Gathered(r)' <=> Gathered(r)
      BY <1>6, <2>1, ZenonT(40) DEF Gathered
    <3>2. CASE c = canvas
      BY <1>2, <1>7, <2>2, <2>4, <2>7, <3>1, <3>2, ZenonT(40) DEF TextureOK
    <3>3. CASE try /\ c = NewCanvas
      <4>1. c.texture.mode = NoMode
        BY <1>9, <3>3, ZenonT(40) DEF NewCanvas
      <4>2. QED
        BY <1>2, <2>2, <2>7, <3>3, <4>1 DEF TextureOK, IsShown
    <3>4. QED
      BY <1>5, <1>10, <1>8, <3>2, <3>3
  <2>11. ScaledOK'
    BY <2>2, <2>6, ZenonT(20) DEF ScaledOK
  <2>12. QED
    BY <2>3, <2>8, <2>9, <2>10, <2>11 DEF PanelInv
<1>11. CASE ~(c.is = "usable" \/ waits)
  <2>1. /\ canvas' = IF destroy THEN [c EXCEPT !.is = "none", !.texture = Nothing] ELSE c
        /\ panel' = [seen EXCEPT !.dirty_all = ~draws /\ (seen.dirty_all \/ destroy),
                                 !.dirty = IF draws THEN <<0, 0>> ELSE seen.dirty]
        /\ scaled_image' = IF draws THEN image ELSE IF destroy THEN Nothing ELSE scaled_image
        /\ on_screen' = IF draws THEN image.now ELSE {}
        /\ paints' = IF destroy THEN {"panel"} ELSE paints \ {"panel"}
    BY <1>3, <1>11
  <2>2. canvas' \in Canvas /\ canvas'.is = "none"
    <3>1. ~destroy => c.is = "none"
      BY <1>5, <1>8, <1>11 DEF Canvas
    <3>2. QED
      BY <1>5, <1>9, <2>1, <3>1, ZenonT(40) DEF Canvas
  <2>3. /\ panel' \in Panel /\ panel'.live = panel.live /\ panel'.active = panel.active
        /\ panel'.mode = mode /\ (panel'.frame_dirty => ~panel'.live)
        /\ (~draws => panel'.dirty = panel.dirty /\ (panel.dirty_all => panel'.dirty_all))
    <3>1. (~draws /\ (seen.dirty_all \/ destroy)) \in BOOLEAN
      BY Zenon
    <3>2. (IF draws THEN <<0, 0>> ELSE seen.dirty) \in (0 .. FrameRows) \X (0 .. FrameRows)
      <4>1. 0 \in 0 .. FrameRows
        BY PanelAssumption
      <4>2. QED
        BY <1>6, <4>1, ZenonT(40) DEF Panel
    <3>3. QED
      BY <1>6, <2>1, <3>1, <3>2, ZenonT(40) DEF Panel
  <2>4. image \in PanelImage
    BY <1>2, <1>4, <1>8 DEF ScaledBitmap, PanelImage, PanelShape
  <2>5. PanelShape'
    BY <1>2, <1>4, <1>9, <2>1, <2>2, <2>3, <2>4, ZenonT(20) DEF PanelShape, PanelImage
  <2>6. IsShown' <=> IsShown
    BY <1>2, <2>3, ZenonT(20) DEF IsShown
  <2>7. canvas.is # "usable"
    BY <1>5, <1>11, ZenonT(20)
  <2>8. CanvasOK' /\ TextureOK'
    BY <2>2, ZenonT(20) DEF CanvasOK, TextureOK
  <2>9. CopyOK'
    BY <1>2, <1>4, <1>7, <2>3, <2>6, <2>7, ZenonT(20) DEF CopyOK
  <2>10. ScaledOK'
    <3> SUFFICES ASSUME IsShown, ~gave_up, NEW r \in PanelRows
                 PROVE  /\ r \in scaled_image'.now \/ Pending(r) \/ Gathered(r)' \/ scaled_image'.mode = NoMode
                        /\ r \in on_screen' \/ Pending(r) \/ "panel" \in paints'
      BY <1>2, <1>7, <2>6, ZenonT(20) DEF ScaledOK
    <3>1. (r \in px.now /\ mode = newest_mode) \/ Pending(r)
      BY <1>4, <2>7
    <3>2. CASE draws
      <4>1. r \in image.now \/ Pending(r)
        <5> DEFINE these == IF panel.dirty_all \/ destroy \/ b \/ ~(scaled_image.mode # NoMode /\ ~destroy)
                               \/ scaled_image.mode # mode THEN PanelRows ELSE RowsOf(panel.dirty)
                   good == IF px.mode = mode THEN px.now ELSE {}
        <5>1. image.now = (scaled_image.now \ these) \cup (these \cap good)
          BY <1>8, ZenonT(20) DEF ScaledBitmap
        <5>2. r \in good \/ Pending(r)
          BY <1>4, <3>1, ZenonT(20)
        <5>3. r \notin these => r \in scaled_image.now \/ Pending(r)
          <6>1. SUFFICES ASSUME r \notin these PROVE r \in scaled_image.now \/ Pending(r)
            OBVIOUS
          <6>2. ~panel.dirty_all /\ r \notin RowsOf(panel.dirty) /\ scaled_image.mode # NoMode /\ ~destroy
            BY <6>1, ZenonT(40)
          <6>3. canvas.is = "none"
            BY <1>5, <1>8, <1>11, <6>2, ZenonT(20) DEF Canvas
          <6>4. QED
            BY <1>2, <6>2, <6>3, ZenonT(20) DEF ScaledOK, Gathered
        <5>4. QED
          BY <5>1, <5>2, <5>3, ZenonT(40)
      <4>2. QED
        BY <2>1, <3>2, <4>1
    <3>3. CASE ~draws
      <4>1. Pending(r)
        BY <1>4, <1>8, <3>1, <3>3 DEF IsShown
      <4>2. QED
        BY <4>1, ZenonT(40)
    <3>4. QED
      BY <3>2, <3>3, ZenonT(20)
  <2>11. QED
    BY <2>5, <2>8, <2>9, <2>10 DEF PanelInv
<1>12. QED
  BY <1>10, <1>11, ZenonT(20)

LEMMA CanvasPaintsKeeps == ASSUME PanelInv, CanvasPaints PROVE PanelInv'
<1>1. /\ PanelShape /\ CanvasOK /\ CopyOK /\ TextureOK /\ ScaledOK
      /\ UNCHANGED <<newest_mode, frame_events, frame_pixels, scaled_image, gave_up>>
      /\ canvas.is \in {"undecided", "usable"}
      /\ on_screen' = canvas'.texture.now /\ paints' = paints \ {"canvas"}
  BY DEF PanelInv, CanvasPaints
<1>2. PICK t : t = UpdateFrame(canvas.texture)
  OBVIOUS
<1>3. canvas \in Canvas /\ canvas.texture \in PanelImage /\ canvas.tried
  BY <1>1, ZenonT(40) DEF PanelShape, CanvasOK, Canvas
<1>4. t \in PanelImage
  BY <1>1, <1>2, <1>3, ZenonT(40) DEF UpdateFrame, PanelImage, PanelShape, RowsOf
<1>5. \A r \in PanelRows : (r \in canvas.texture.now \/ Gathered(r) \/ canvas.texture.mode # newest_mode) => r \in t.now
  BY <1>2, ZenonT(20) DEF UpdateFrame, Gathered
<1>6. \A r \in PanelRows : Pending(r)' <=> Pending(r)
  BY <1>1, ZenonT(20) DEF Pending
<1>7. CASE panel.live /\ newest_mode # NoMode
  <2>1. /\ canvas' = [canvas EXCEPT !.is = "usable", !.texture = t]
        /\ panel' = [panel EXCEPT !.mode = newest_mode, !.dirty_all = FALSE, !.dirty = <<0, 0>>]
    BY <1>2, <1>7 DEF CanvasPaints
  <2>2. canvas' \in Canvas /\ canvas'.is = "usable" /\ canvas'.texture = t /\ canvas'.tried
    BY <1>3, <1>4, <2>1, ZenonT(40) DEF Canvas
  <2>3. panel' \in Panel /\ panel'.live = panel.live /\ panel'.active = panel.active
    <3>1. <<0, 0>> \in (0 .. FrameRows) \X (0 .. FrameRows)
      BY PanelAssumption
    <3>2. panel \in Panel /\ newest_mode \in FrameMode \cup {NoMode}
      BY <1>1, ZenonT(20) DEF PanelShape
    <3>3. QED
      BY <2>1, <3>1, <3>2, ZenonT(40) DEF Panel
  <2>4. PanelShape'
    <3>1. on_screen' \subseteq PanelRows
      BY <1>1, <1>4, <2>2, ZenonT(40) DEF PanelImage
    <3>2. QED
      BY <1>1, <2>2, <2>3, <3>1 DEF PanelShape
  <2>5. CanvasOK' /\ ScaledOK' /\ CopyOK'
    BY <1>1, <2>2, ZenonT(40) DEF CanvasOK, ScaledOK, CopyOK
  <2>6. TextureOK'
    <3>1. IsShown' => IsShown
      BY <1>1, <2>3, ZenonT(40) DEF IsShown
    <3>2. QED
      BY <1>1, <1>5, <1>6, <2>2, <3>1 DEF TextureOK
  <2>7. QED
    BY <2>4, <2>5, <2>6 DEF PanelInv
<1>8. CASE ~(panel.live /\ newest_mode # NoMode)
  <2>1. canvas' = [canvas EXCEPT !.is = "usable"] /\ panel' = panel
    BY <1>8 DEF CanvasPaints
  <2>2. canvas' \in Canvas /\ canvas'.is = "usable" /\ canvas'.texture = canvas.texture /\ canvas'.tried
    BY <1>3, <2>1 DEF Canvas
  <2>3. PanelShape'
    <3>1. on_screen' \subseteq PanelRows
      BY <1>1, <1>3, <2>2 DEF PanelImage
    <3>2. QED
      BY <1>1, <2>1, <2>2, <3>1, ZenonT(20) DEF PanelShape
  <2>4. ~IsShown'
    BY <1>1, <1>8, <2>1 DEF IsShown
  <2>5. QED
    BY <1>1, <2>2, <2>3, <2>4, ZenonT(20) DEF PanelInv, CanvasOK, CopyOK, TextureOK, ScaledOK
<1>9. QED
  BY <1>7, <1>8

LEMMA CanvasFailsKeeps == ASSUME PanelInv, CanvasFails PROVE PanelInv'
<1>1. /\ PanelShape /\ CanvasOK /\ CopyOK /\ TextureOK /\ ScaledOK
      /\ UNCHANGED <<newest_mode, frame_events, panel, frame_pixels, scaled_image, on_screen>>
      /\ canvas.is \in {"undecided", "usable"}
      /\ canvas' = [canvas EXCEPT !.is = "failed"] /\ paints' = paints \ {"canvas"} /\ gave_up' = TRUE
  BY DEF PanelInv, CanvasFails
<1>2. canvas' \in Canvas /\ canvas'.is = "failed" /\ canvas'.tried
  BY <1>1, ZenonT(20) DEF PanelShape, CanvasOK, Canvas
<1>3. PanelShape'
  BY <1>1, <1>2 DEF PanelShape
<1>4. QED
  BY <1>1, <1>2, <1>3 DEF PanelInv, CanvasOK, CopyOK, TextureOK, ScaledOK

LEMMA SizeKeeps == ASSUME PanelInv, OnSize PROVE PanelInv'
<1>1. /\ PanelShape /\ CanvasOK /\ CopyOK /\ TextureOK /\ ScaledOK
      /\ UNCHANGED <<newest_mode, frame_events, frame_pixels, canvas, on_screen>>
  BY DEF PanelInv, OnSize
<1>2. \A r \in PanelRows : Pending(r)' <=> Pending(r)
  BY <1>1, ZenonT(20) DEF Pending
<1>3. CASE panel.live
  <2>1. /\ scaled_image' = Nothing /\ panel' = [panel EXCEPT !.frame_dirty = TRUE]
        /\ gave_up' = FALSE /\ paints' = paints \cup Windows
    BY <1>3 DEF OnSize
  <2>2. /\ panel' \in Panel /\ panel'.frame_dirty
        /\ panel'.live = panel.live /\ panel'.active = panel.active
        /\ panel'.dirty = panel.dirty /\ panel'.dirty_all = panel.dirty_all
    BY <1>1, <2>1, ZenonT(40) DEF PanelShape, Panel
  <2>3. scaled_image' \in PanelImage /\ scaled_image'.mode = NoMode
    BY <2>1 DEF Nothing, PanelImage
  <2>4. "panel" \in paints' /\ paints' \subseteq {"panel", "canvas"} /\ ("canvas" \in paints => "canvas" \in paints')
    BY <1>1, <2>1 DEF Windows, PanelShape
  <2>5. PanelShape'
    BY <1>1, <2>1, <2>2, <2>3, <2>4, ZenonT(40) DEF PanelShape
  <2>6. (IsShown' <=> IsShown) /\ \A r \in PanelRows : Gathered(r)' <=> Gathered(r)
    BY <1>1, <2>2, ZenonT(40) DEF IsShown, Gathered
  <2>7. CanvasOK' /\ CopyOK'
    BY <1>1, <2>2, <2>4, ZenonT(40) DEF CanvasOK, CopyOK
  <2>8. TextureOK' /\ ScaledOK'
    BY <1>1, <1>2, <2>3, <2>4, <2>6, ZenonT(40) DEF TextureOK, ScaledOK
  <2>9. QED
    BY <2>5, <2>7, <2>8 DEF PanelInv
<1>4. CASE ~panel.live
  <2>1. UNCHANGED <<scaled_image, panel, gave_up>> /\ paints' = paints \cup (Windows \ {"panel"})
    BY <1>4, ZenonT(20) DEF OnSize
  <2>2. paints \subseteq paints' /\ paints' \subseteq {"panel", "canvas"}
    BY <1>1, <2>1 DEF Windows, PanelShape
  <2>3. PanelShape' /\ ~IsShown'
    BY <1>1, <1>4, <2>1, <2>2, ZenonT(40) DEF PanelShape, IsShown
  <2>4. QED
    BY <1>1, <2>1, <2>2, <2>3, ZenonT(20) DEF PanelInv, CanvasOK, CopyOK, TextureOK, ScaledOK
<1>5. QED
  BY <1>3, <1>4

LEMMA SettleKeeps == ASSUME PanelInv, OnSettleTimer PROVE PanelInv'
<1>1. /\ PanelShape /\ CanvasOK /\ CopyOK /\ TextureOK /\ ScaledOK
      /\ UNCHANGED <<newest_mode, frame_events, panel, frame_pixels, canvas, on_screen, gave_up>>
      /\ scaled_image' = Nothing /\ paints' = paints \cup {"panel"}
  BY SMTT(30) DEF PanelInv, OnSettleTimer
<1>2. scaled_image' \in PanelImage /\ scaled_image'.mode = NoMode
  BY <1>1, ZenonT(20) DEF Nothing, PanelImage
<1>3. PanelShape'
  BY <1>1, <1>2, ZenonT(20) DEF PanelShape
<1>4. (IsShown' <=> IsShown) /\ \A r \in PanelRows : (Gathered(r)' <=> Gathered(r)) /\ (Pending(r)' <=> Pending(r))
  BY <1>1 DEF IsShown, Gathered, Pending
<1>5. QED
  BY <1>1, <1>2, <1>3, <1>4, ZenonT(20) DEF PanelInv, CanvasOK, CopyOK, TextureOK, ScaledOK

LEMMA AccelerationKeeps == ASSUME PanelInv, NEW b \in BOOLEAN, SetHardwareAcceleration(b) PROVE PanelInv'
<1>1. /\ PanelShape /\ CanvasOK /\ CopyOK /\ TextureOK /\ ScaledOK
      /\ UNCHANGED <<newest_mode, frame_events, frame_pixels, on_screen>>
      /\ gave_up' = (gave_up \/ (~b /\ GlActive))
  BY ZenonT(20) DEF PanelInv, SetHardwareAcceleration
<1>2. \A r \in PanelRows : Pending(r)' <=> Pending(r)
  BY <1>1, ZenonT(20) DEF Pending
<1>3. Nothing \in PanelImage /\ Nothing.mode = NoMode
  BY DEF Nothing, PanelImage
<1>4. gave_up' \in BOOLEAN
  BY <1>1 DEF PanelShape
<1>5. CASE ~b /\ canvas.is = "none"
  <2>1. canvas' = [canvas EXCEPT !.tried = TRUE] /\ UNCHANGED <<scaled_image, panel, paints>>
    BY <1>5, ZenonT(40) DEF SetHardwareAcceleration
  <2>2. canvas' \in Canvas /\ canvas'.is = "none"
    BY <1>1, <1>5, <2>1, ZenonT(40) DEF PanelShape, Canvas
  <2>3. ~gave_up' => ~gave_up
    BY <1>1, ZenonT(40)
  <2>4. PanelShape'
    BY <1>1, <1>4, <2>1, <2>2 DEF PanelShape
  <2>5. (IsShown' <=> IsShown) /\ \A r \in PanelRows : Gathered(r)' <=> Gathered(r)
    BY <1>1, <2>1 DEF IsShown, Gathered
  <2>6. QED
    BY <1>1, <1>2, <1>5, <2>1, <2>2, <2>3, <2>4, <2>5, ZenonT(20) DEF PanelInv, CanvasOK, CopyOK, TextureOK, ScaledOK
<1>6. CASE b \/ canvas.is # "none"
  <2>1. /\ canvas' = IF ~b THEN [NewCanvas EXCEPT !.is = "none"]
                    ELSE [canvas EXCEPT !.tried = ~(b /\ canvas.is = "none")]
        /\ scaled_image' = Nothing /\ panel' = [panel EXCEPT !.dirty_all = TRUE]
        /\ paints' = (IF ~b THEN {} ELSE paints) \cup {"panel"}
    BY <1>6 DEF SetHardwareAcceleration
  <2>2. /\ panel' \in Panel /\ panel'.dirty_all /\ panel'.frame_dirty = panel.frame_dirty
        /\ panel'.live = panel.live /\ panel'.active = panel.active /\ panel'.mode = panel.mode
    BY <1>1, <2>1, ZenonT(40) DEF PanelShape, Panel
  <2>3. canvas' \in Canvas /\ (~canvas'.tried => canvas'.is = "none")
        /\ (~b => canvas'.is = "none") /\ (b => canvas'.is = canvas.is /\ canvas'.texture = canvas.texture)
    <3>1. [NewCanvas EXCEPT !.is = "none"] \in Canvas /\ [NewCanvas EXCEPT !.is = "none"].is = "none"
      BY <1>3, ZenonT(40) DEF NewCanvas, Canvas
    <3>2. canvas \in Canvas
      BY <1>1 DEF PanelShape
    <3>3. CASE ~b
      BY <2>1, <3>1, <3>3
    <3>4. CASE b
      BY <2>1, <3>2, <3>4, ZenonT(40) DEF Canvas
    <3>5. QED
      BY <3>3, <3>4
  <2>4. "panel" \in paints' /\ paints' \subseteq {"panel", "canvas"} /\ (b /\ "canvas" \in paints => "canvas" \in paints')
    BY <1>1, <2>1 DEF PanelShape
  <2>5. PanelShape'
    BY <1>1, <1>3, <1>4, <2>1, <2>2, <2>3, <2>4, ZenonT(20) DEF PanelShape
  <2>6. (IsShown' <=> IsShown) /\ \A r \in PanelRows : Gathered(r)'
    BY <1>1, <2>2 DEF IsShown, Gathered
  <2>7. ~gave_up' => ~gave_up /\ (~b => canvas.is # "usable")
    BY <1>1, ZenonT(40) DEF GlActive
  <2>8. CanvasOK'
    BY <1>1, <2>3, <2>4, ZenonT(40) DEF CanvasOK
  <2>9. CopyOK'
    BY <1>1, <1>2, <2>2, <2>3, <2>6, <2>7, ZenonT(40) DEF CopyOK
  <2>10. TextureOK' /\ ScaledOK'
    BY <1>1, <1>2, <2>3, <2>4, <2>6, ZenonT(40) DEF TextureOK, ScaledOK
  <2>11. QED
    BY <2>5, <2>8, <2>9, <2>10 DEF PanelInv
<1>7. QED
  BY <1>5, <1>6

LEMMA ScreenshotKeeps == ASSUME PanelInv, SaveScreenshot PROVE PanelInv'
<1>1. /\ PanelShape /\ CanvasOK /\ CopyOK /\ TextureOK /\ ScaledOK
      /\ UNCHANGED <<newest_mode, frame_events, panel, scaled_image, canvas, paints, on_screen, gave_up>>
      /\ frame_pixels' = [mode |-> newest_mode, now |-> PanelRows]
  BY ZenonT(20) DEF PanelInv, SaveScreenshot
<1>2. frame_pixels' \in PanelImage /\ frame_pixels'.mode = newest_mode /\ frame_pixels'.now = PanelRows
  BY <1>1, ZenonT(20) DEF PanelShape, PanelImage
<1>3. PanelShape'
  BY <1>1, <1>2 DEF PanelShape
<1>4. (IsShown' <=> IsShown) /\ \A r \in PanelRows : (Gathered(r)' <=> Gathered(r)) /\ (Pending(r)' <=> Pending(r))
  BY <1>1, ZenonT(40) DEF IsShown, Gathered, Pending
<1>5. CopyOK'
  BY <1>1, <1>2, <1>4, ZenonT(20) DEF CopyOK
<1>6. QED
  BY <1>1, <1>3, <1>4, <1>5, ZenonT(20) DEF PanelInv, CanvasOK, TextureOK, ScaledOK

LEMMA PanelInvIsInvariant == PanelSpec => []PanelInv
<1>1. PanelInv /\ [PanelNext]_panelVars => PanelInv'
  <2> SUFFICES ASSUME PanelInv, [PanelNext]_panelVars PROVE PanelInv'
    BY ZenonT(40)
  <2>1. CASE UNCHANGED panelVars
    BY <2>1, ZenonT(20) DEF panelVars, PanelInv, PanelShape, CanvasOK, CopyOK, TextureOK, ScaledOK,
                IsShown, Pending, Gathered
  <2>2. CASE PanelNext
    BY <2>2, PublishedKeeps, ReadyKeeps, GoneKeeps, SetActiveKeeps, AccelerationKeeps, PaintKeeps,
       CanvasPaintsKeeps, CanvasFailsKeeps, SizeKeeps, SettleKeeps, ScreenshotKeeps, Zenon DEF PanelNext
  <2>3. QED
    BY <2>1, <2>2
<1>2. QED
  BY <1>1, PanelStarts, PTL DEF PanelSpec

(* With no event and no paint to come, the user sees every row of the       *)
(* newest frame.                                                            *)
THEOREM QuietPanelIsCurrent == PanelSpec => []QuietPanelIsUpToDate
<1>1. PanelInv => QuietPanelIsUpToDate
  <2> SUFFICES ASSUME PanelInv, panel.live, panel.active, newest_mode # NoMode,
                      frame_events = <<>>, paints = {}, ~gave_up
               PROVE  on_screen = PanelRows
    BY DEF QuietPanelIsUpToDate
  <2>1. PanelShape /\ CanvasOK /\ TextureOK /\ ScaledOK /\ IsShown
    BY DEF PanelInv, IsShown
  <2>2. \A r \in PanelRows : ~Pending(r)
    BY SMTT(30) DEF Pending
  <2>3. canvas.is \in {"none", "usable"}
    BY <2>1, ZenonT(40) DEF PanelShape, Canvas, CanvasOK
  <2>4. \A r \in PanelRows : r \in on_screen
    BY <2>1, <2>2, <2>3, ZenonT(20) DEF CanvasOK, TextureOK, ScaledOK
  <2>5. QED
    BY <2>1, <2>4, ZenonT(40) DEF PanelShape
<1>2. QED
  BY <1>1, PanelInvIsInvariant, PTL
=============================================================================
