----------------------------- MODULE MachineIpc -----------------------------
(***************************************************************************)
(* The socket between a machine (MachineIpcServer) and the Managers that   *)
(* connect to it (MachineIpcClient): the accept thread that serves one     *)
(* client at a time, events sent by any thread of the machine, the reader  *)
(* thread of each client, and the two ways down.  Records are counted, not *)
(* told apart; each direction of a connection holds up to SocketBuffer.    *)
(***************************************************************************)
EXTENDS Integers, Sequences

CONSTANTS Mgr,            \* Manager processes, each connects once
          NoMgr,
          SocketBuffer,   \* bound: records that the kernel keeps
          IpcUpsets       \* what a run allows, out of AllIpcUpsets

(* hung: a Manager process stops running but stays connected. *)
AllIpcUpsets == {"hung"}

ASSUME IpcAssumption ==
    /\ NoMgr \notin Mgr /\ SocketBuffer \in Nat \ {0} /\ IpcUpsets \subseteq AllIpcUpsets

VARIABLES
    running_,       \* the server's; "dead" once the machine is gone
    accept_thread,  \* where AcceptLoop and ClientLoop are, and whom they serve
    client_fd,      \* client_fd_
    event_sender,   \* a thread in SendEvent, with client_mutex_
    server_end,     \* the machine's end of each Manager's connection
    backlog,        \* connections not yet accepted
    to_machine, to_manager,   \* records under way
    client          \* each MachineIpcClient

ipcVars == <<running_, accept_thread, client_fd, event_sender, server_end, backlog,
             to_machine, to_manager, client>>

IpcTypeOK ==
    /\ running_ \in {"yes", "stopping", "dead"}
    /\ accept_thread \in [at : {"accept", "loop", "recv", "leave", "ended"}, fd : Mgr \cup {NoMgr}]
    /\ client_fd \in Mgr \cup {NoMgr} /\ event_sender \in {"idle", "sending"}
    /\ server_end \in [Mgr -> {"none", "backlog", "open", "closed"}]
    /\ backlog \in Seq(Mgr)
    /\ to_machine \in [Mgr -> 0 .. SocketBuffer] /\ to_manager \in [Mgr -> 0 .. SocketBuffer]
    /\ client \in [Mgr -> [fd : {"none", "open", "shut", "closed"}, connected : BOOLEAN,
                           reader : {"none", "recv", "lost", "ended"}, sending : BOOLEAN,
                           leaving : BOOLEAN, told : BOOLEAN, hung : BOOLEAN]]

IpcInit ==
    /\ running_ = "yes"
    /\ accept_thread = [at |-> "accept", fd |-> NoMgr]
    /\ client_fd = NoMgr /\ event_sender = "idle"
    /\ server_end = [m \in Mgr |-> "none"] /\ backlog = <<>>
    /\ to_machine = [m \in Mgr |-> 0] /\ to_manager = [m \in Mgr |-> 0]
    /\ client = [m \in Mgr |-> [fd |-> "none", connected |-> FALSE, reader |-> "none", sending |-> FALSE,
                                leaving |-> FALSE, told |-> FALSE, hung |-> FALSE]]

Peer(m) == client[m].fd = "open"

----------------------------------------------------------------------------
(* The machine's side.  client_mutex_ is held over whole calls only in      *)
(* SendEvent; elsewhere it covers one step.                                 *)
MutexFree == event_sender = "idle"
Going(there) == accept_thread' = [accept_thread EXCEPT !.at = there]

(* AcceptLoop *)
Accept ==
    /\ accept_thread.at = "accept" /\ running_ = "yes" /\ backlog # <<>> /\ MutexFree
    /\ accept_thread' = [at |-> "loop", fd |-> Head(backlog)]
    /\ client_fd' = Head(backlog)
    /\ server_end' = [m \in Mgr |-> CASE m = Head(backlog) -> "open"
                                      [] m = client_fd -> "closed"
                                      [] OTHER -> server_end[m]]
    /\ backlog' = Tail(backlog)
    /\ UNCHANGED <<running_, event_sender, to_machine, to_manager, client>>

AcceptEnds ==
    /\ accept_thread.at = "accept" /\ running_ = "stopping"
    /\ Going("ended")
    /\ UNCHANGED <<running_, client_fd, event_sender, server_end, backlog, to_machine, to_manager, client>>

(* ClientLoop: the test for another connection having taken over, *)
LoopTest ==
    /\ accept_thread.at = "loop" /\ MutexFree
    /\ IF running_ # "yes" THEN Going("leave")
       ELSE IF client_fd # accept_thread.fd THEN Going("accept")
       ELSE Going("recv")
    /\ UNCHANGED <<running_, client_fd, event_sender, server_end, backlog, to_machine, to_manager, client>>

(* a request read and handled, *)
RecvRequest ==
    LET m == accept_thread.fd
    IN /\ accept_thread.at = "recv" /\ server_end[m] = "open" /\ to_machine[m] > 0
       /\ to_machine' = [to_machine EXCEPT ![m] = @ - 1]
       /\ Going("loop")
       /\ UNCHANGED <<running_, client_fd, event_sender, server_end, backlog, to_manager, client>>

(* or none: the server stops, the peer has closed, or SendEvent closed this *)
(* end under the reader;                                                    *)
RecvFails_IgnoresClose ==
    LET m == accept_thread.fd
    IN /\ accept_thread.at = "recv"
       /\ running_ # "yes" \/ server_end[m] = "closed"
       /\ Going("leave")
       /\ UNCHANGED <<running_, client_fd, event_sender, server_end, backlog, to_machine, to_manager, client>>

RecvFails ==
    LET m == accept_thread.fd
    IN /\ accept_thread.at = "recv"
       /\ \/ running_ # "yes"
          \/ server_end[m] = "closed"
          \/ to_machine[m] = 0 /\ ~Peer(m)
       /\ Going("leave")
       /\ UNCHANGED <<running_, client_fd, event_sender, server_end, backlog, to_machine, to_manager, client>>

(* then it is closed, unless that was done. *)
LeaveClient_LeftOpen ==
    /\ accept_thread.at = "leave" /\ MutexFree
    /\ Going("accept") /\ client_fd' = NoMgr
    /\ UNCHANGED <<running_, event_sender, server_end, backlog, to_machine, to_manager, client>>

LeaveClient ==
    LET m == accept_thread.fd
    IN /\ accept_thread.at = "leave" /\ MutexFree
       /\ Going("accept")
       /\ IF client_fd = m THEN client_fd' = NoMgr /\ server_end' = [server_end EXCEPT ![m] = "closed"]
          ELSE UNCHANGED <<client_fd, server_end>>
       /\ UNCHANGED <<running_, event_sender, backlog, to_machine, to_manager, client>>

(* SendEvent *)
SendEvent ==
    /\ running_ = "yes" /\ MutexFree /\ client_fd # NoMgr
    /\ event_sender' = "sending"
    /\ UNCHANGED <<running_, accept_thread, client_fd, server_end, backlog, to_machine, to_manager, client>>

EventSent ==
    /\ event_sender = "sending" /\ Peer(client_fd) /\ to_manager[client_fd] < SocketBuffer
    /\ event_sender' = "idle"
    /\ to_manager' = [to_manager EXCEPT ![client_fd] = @ + 1]
    /\ UNCHANGED <<running_, accept_thread, client_fd, server_end, backlog, to_machine, client>>

EventFails ==
    /\ event_sender = "sending" /\ ~Peer(client_fd)
    /\ event_sender' = "idle"
    /\ server_end' = [server_end EXCEPT ![client_fd] = "closed"]
    /\ client_fd' = NoMgr
    /\ UNCHANGED <<running_, accept_thread, backlog, to_machine, to_manager, client>>

(* Stop: the flag, the join, then what is left is closed. *)
StopServer ==
    /\ running_ = "yes"
    /\ running_' = "stopping"
    /\ UNCHANGED <<accept_thread, client_fd, event_sender, server_end, backlog, to_machine, to_manager, client>>

AllClosed == [m \in Mgr |-> IF server_end[m] = "none" THEN "none" ELSE "closed"]

StopJoined ==
    /\ running_ = "stopping" /\ accept_thread.at = "ended" /\ MutexFree
    /\ running_' = "dead" /\ client_fd' = NoMgr
    /\ server_end' = AllClosed /\ backlog' = <<>>
    /\ UNCHANGED <<accept_thread, event_sender, to_machine, to_manager, client>>

(* The process is killed. *)
MachineDies ==
    /\ running_ # "dead"
    /\ running_' = "dead" /\ client_fd' = NoMgr /\ event_sender' = "idle"
    /\ accept_thread' = [at |-> "ended", fd |-> NoMgr]
    /\ server_end' = AllClosed /\ backlog' = <<>>
    /\ UNCHANGED <<to_machine, to_manager, client>>

----------------------------------------------------------------------------
(* A Manager's side. *)
Runs(m) == ~client[m].hung

Connect(m) ==
    /\ running_ # "dead" /\ client[m].fd = "none"
    /\ client' = [client EXCEPT ![m].fd = "open", ![m].connected = TRUE, ![m].reader = "recv"]
    /\ server_end' = [server_end EXCEPT ![m] = "backlog"]
    /\ backlog' = Append(backlog, m)
    /\ UNCHANGED <<running_, accept_thread, client_fd, event_sender, to_machine, to_manager>>

(* ReadLoop: an event is handed to the GUI thread, *)
ReadEvent_OnGuiThread(m) ==
    /\ Runs(m) /\ client[m].reader = "recv" /\ client[m].connected /\ Peer(m) /\ to_manager[m] > 0
    /\ ~client[m].sending
    /\ to_manager' = [to_manager EXCEPT ![m] = @ - 1]
    /\ UNCHANGED <<running_, accept_thread, client_fd, event_sender, server_end, backlog, to_machine, client>>

ReadEvent(m) ==
    /\ Runs(m) /\ client[m].reader = "recv" /\ client[m].connected /\ Peer(m) /\ to_manager[m] > 0
    /\ to_manager' = [to_manager EXCEPT ![m] = @ - 1]
    /\ UNCHANGED <<running_, accept_thread, client_fd, event_sender, server_end, backlog, to_machine, client>>

(* or RecvExact fails, which is told as a Quit unless this end asked. *)
ReadFails(m) ==
    /\ Runs(m) /\ client[m].reader = "recv"
    /\ \/ ~client[m].connected \/ ~Peer(m)
       \/ server_end[m] = "closed" /\ to_manager[m] = 0
    /\ client' = [client EXCEPT ![m].reader = "lost"]
    /\ UNCHANGED <<running_, accept_thread, client_fd, event_sender, server_end, backlog, to_machine, to_manager>>

ReaderEnds(m) ==
    /\ Runs(m) /\ client[m].reader = "lost"
    /\ client' = [client EXCEPT ![m].told = client[m].connected, ![m].connected = FALSE,
                                ![m].reader = "ended"]
    /\ UNCHANGED <<running_, accept_thread, client_fd, event_sender, server_end, backlog, to_machine, to_manager>>

(* Send, from the GUI thread. *)
Send(m) ==
    /\ Runs(m) /\ Peer(m) /\ ~client[m].leaving /\ ~client[m].sending
    /\ client' = [client EXCEPT ![m].sending = TRUE]
    /\ UNCHANGED <<running_, accept_thread, client_fd, event_sender, server_end, backlog, to_machine, to_manager>>

SendReturns(m) ==
    /\ Runs(m) /\ client[m].sending
    /\ \/ server_end[m] = "closed" /\ UNCHANGED to_machine
       \/ server_end[m] # "closed" /\ to_machine[m] < SocketBuffer
            /\ to_machine' = [to_machine EXCEPT ![m] = @ + 1]
    /\ client' = [client EXCEPT ![m].sending = FALSE]
    /\ UNCHANGED <<running_, accept_thread, client_fd, event_sender, server_end, backlog, to_manager>>

(* Disconnect: the flag, *)
Disconnect_FlagLate(m) ==
    /\ Runs(m) /\ Peer(m) /\ ~client[m].leaving /\ ~client[m].sending
    /\ client' = [client EXCEPT ![m].leaving = TRUE]
    /\ UNCHANGED <<running_, accept_thread, client_fd, event_sender, server_end, backlog, to_machine, to_manager>>

Disconnect(m) ==
    /\ Runs(m) /\ Peer(m) /\ ~client[m].leaving /\ ~client[m].sending
    /\ client' = [client EXCEPT ![m].leaving = TRUE, ![m].connected = FALSE]
    /\ UNCHANGED <<running_, accept_thread, client_fd, event_sender, server_end, backlog, to_machine, to_manager>>

(* shutdown and close, *)
CloseSocket(m) ==
    /\ Runs(m) /\ client[m].leaving /\ client[m].fd = "open"
    /\ client' = [client EXCEPT ![m].fd = "shut"]
    /\ UNCHANGED <<running_, accept_thread, client_fd, event_sender, server_end, backlog, to_machine, to_manager>>

(* and the join. *)
JoinReader(m) ==
    /\ Runs(m) /\ client[m].fd = "shut" /\ client[m].reader = "ended"
    /\ client' = [client EXCEPT ![m].fd = "closed", ![m].leaving = FALSE]
    /\ UNCHANGED <<running_, accept_thread, client_fd, event_sender, server_end, backlog, to_machine, to_manager>>

(* The process is killed, or stopped while it stays connected. *)
ManagerDies(m) ==
    /\ client[m].fd \in {"open", "shut"}
    /\ client' = [client EXCEPT ![m] = [@ EXCEPT !.fd = "closed", !.connected = FALSE, !.reader = "ended",
                                                 !.sending = FALSE, !.leaving = FALSE]]
    /\ UNCHANGED <<running_, accept_thread, client_fd, event_sender, server_end, backlog, to_machine, to_manager>>

ManagerHangs(m) ==
    /\ "hung" \in IpcUpsets /\ Peer(m) /\ Runs(m)
    /\ client' = [client EXCEPT ![m].hung = TRUE]
    /\ UNCHANGED <<running_, accept_thread, client_fd, event_sender, server_end, backlog, to_machine, to_manager>>

AcceptThread == Accept \/ AcceptEnds \/ LoopTest \/ RecvRequest \/ RecvFails \/ LeaveClient
EventSender == EventSent \/ EventFails
Reader(m) == ReadEvent(m) \/ ReadFails(m) \/ ReaderEnds(m)
ManagerGui(m) == SendReturns(m) \/ CloseSocket(m) \/ JoinReader(m)

IpcNext ==
    \/ AcceptThread \/ SendEvent \/ EventSender \/ StopServer \/ StopJoined \/ MachineDies
    \/ \E m \in Mgr : \/ Connect(m) \/ Reader(m) \/ Send(m) \/ Disconnect(m) \/ ManagerGui(m)
                      \/ ManagerDies(m) \/ ManagerHangs(m)

IpcSpec == IpcInit /\ [][IpcNext]_ipcVars

----------------------------------------------------------------------------
(* One Manager at a time drives the machine: the only end left open is that *)
(* of client_fd_, which is the one being read, and events go to it alone.   *)
OneDriver ==
    /\ {m \in Mgr : server_end[m] = "open"} = {client_fd} \ {NoMgr}
    /\ client_fd \in {accept_thread.fd, NoMgr}
    /\ accept_thread.at = "accept" => client_fd = NoMgr

(* A Manager is told that a machine is gone only if that end was closed,    *)
(* never because of its own Disconnect or of one being on its way.          *)
ToldOfRealLoss == \A m \in Mgr : client[m].told => server_end[m] = "closed"

(* A Manager whose machine has gone, however it went, is told so. *)
LossIsTold ==
    \A m \in Mgr : []<>(server_end[m] = "closed" /\ Peer(m) => client[m].told \/ client[m].leaving)

(* A Manager that connects is served once the one before it is gone, also   *)
(* if that one crashed.                                                     *)
NextIsServed ==
    \A m \in Mgr : []<>(server_end[m] = "backlog" => \E o \in Mgr \ {m} : Peer(o))

(* No Manager is left without an answer, whatever its machine or the Manager *)
(* before it does: it is told, or it is served.                             *)
ManagersAreServed == LossIsTold /\ NextIsServed

(* A machine waits for room in the socket with client_mutex_ held, but not  *)
(* for ever: the Manager's reader does not wait for what the window sends.  *)
EventsAreSent == []<>(event_sender = "idle")

(* A Manager that is being served does not wait for ever to send a request: *)
(* the machine reads its socket whatever it is sending itself.              *)
RequestsAreSent == \A m \in Mgr : []<>(client[m].sending => server_end[m] = "backlog")

(* Neither side waits for the other for ever. *)
SendsEnd == EventsAreSent /\ RequestsAreSent

(* The comment in AcceptLoop: a fresh connection replaces whatever was      *)
(* there.                                                                   *)
FreshReplaces == \A m \in Mgr : []<>(server_end[m] # "backlog")

(* Until then a Manager that is not being served waits in Send. *)
SendAlwaysReturns == \A m \in Mgr : []<>~client[m].sending
=============================================================================
