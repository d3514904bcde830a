--------------------------- MODULE HostCmdSystem ---------------------------
(***************************************************************************)
(* The whole HostCmd channel: the emulator (HostCmd), the guest's support  *)
(* module (RPCEmuSupport), the socket clients (rpcemu-run and rpcemu-shell *)
(* in tools/rpcemu_run.c) and the caller inside the emulator               *)
(* (GuestCommand).                                                         *)
(*                                                                         *)
(* Upsets names the events that are not part of a quiet session, so that a *)
(* run can say which of them its clients, guest and user may cause.        *)
(***************************************************************************)
EXTENDS RPCEmuSupport, GuestCommand

CONSTANT Upsets

ASSUME UpsetsAssumption ==
    Upsets \subseteq {"hangup", "halfclose", "blank", "typeahead", "reset",
                      "clock", "longcommand", "quit", "nostart", "unload"}

vars == <<hostVars, guestVars, callerVars>>

Init == HostInit /\ hc.listening /\ GuestInit /\ CallerInit

SystemClients ==
    \E c \in Conn :
        \/ Connect(c)
        \/ \E x \in Cmd \ InternalCmd : SendLine(c, x)
        \/ \E x \in {y \in Cmd \ InternalCmd : "typeahead" \in Upsets} :
              TypeAhead(c, x)
        \/ "blank" \in Upsets /\ SendBlank(c)
        \/ "hangup" \in Upsets /\ Hangup(c)
        \/ "halfclose" \in Upsets /\ HalfClose(c)

Guest ==
    \/ ModuleInit \/ Ticker \/ Headless \/ Desktop
    \/ "quit" \in Upsets /\ TwQuit
    \/ "nostart" \in Upsets /\ TaskStartFails
    \/ "unload" \in Upsets /\ ModuleFinal

(* "clock": any amount of time may pass anywhere, as on a paused machine.   *)
(* "longcommand": it passes only while the guest runs a command, since an   *)
(* idle module polls every centisecond.                                     *)
Time ==
    \/ "clock" \in Upsets /\ Tick
    \/ "longcommand" \in Upsets /\ gstate \in {"RUNNING", "TW_RUNNING"} /\ Tick

Next ==
    \/ (Service \/ SystemClients) /\ UNCHANGED <<guestVars, callerVars>>
    \/ Time /\ UNCHANGED <<guestVars, callerVars>>
    \/ Guest /\ UNCHANGED callerVars
    \/ "reset" \in Upsets /\ MachineReset /\ UNCHANGED callerVars
    \/ Caller /\ UNCHANGED guestVars

Spec == Init /\ [][Next]_vars

(* The emulator's main loop calls hostcmd_poll over and over, a client      *)
(* reads whatever it is sent, and the guest's interrupt and foreground both *)
(* run: the ticker again and again, and the foreground between two ticks.   *)
(* The commands return in the end, and a client that waits for nothing      *)
(* leaves, as rpcemu-run does with its answer and rpcemu-shell at its end.  *)
HostFairness ==
    /\ WF_vars(PollHup /\ UNCHANGED <<guestVars, callerVars>>)
    /\ WF_vars(PollAccept /\ UNCHANGED <<guestVars, callerVars>>)
    /\ WF_vars(PollRead /\ UNCHANGED <<guestVars, callerVars>>)
    /\ WF_vars(ReadLoop /\ UNCHANGED <<guestVars, callerVars>>)
    /\ WF_vars(\E n \in 1 .. RingSize : PollWrite(n)
                                     /\ UNCHANGED <<guestVars, callerVars>>)

GuestFairness ==
    /\ WF_vars(ModuleInit /\ UNCHANGED callerVars)
    /\ WF_vars(Ticker /\ UNCHANGED callerVars)
    /\ SF_vars(RunCommand /\ UNCHANGED callerVars)
    /\ SF_vars(RunReturns /\ UNCHANGED callerVars)
    /\ SF_vars(PollWord /\ UNCHANGED callerVars)
    /\ SF_vars(TwMorio /\ UNCHANGED callerVars)
    /\ SF_vars((TaskStarts \/ TaskStartFails) /\ UNCHANGED callerVars)

ClientFairness ==
    "hangup" \in Upsets =>
        \A c \in Conn :
            WF_vars(/\ await[c] = None /\ Hangup(c)
                    /\ UNCHANGED <<guestVars, callerVars>>)

FairSpec == Spec /\ HostFairness /\ GuestFairness /\ ClientFairness
-----------------------------------------------------------------------------
(* Every variable holds a value of its type: the C struct hc, the kernel's *)
(* side of the sockets, the guest module's workspace and the caller.       *)
TypeOK ==
    /\ HostTypeOK
    /\ gstate \in GuestStates
    /\ gcmd \in Cmd \union {None}
    /\ gring \in Seq(Cmd)
    /\ ticker \in {"none", "flush", "act"}
    /\ task \in {"none", "starting", "live"}
    /\ poll_word \in BOOLEAN
    /\ printed \in 0 .. MaxPrint
    /\ queue \in Seq(Request)
    /\ waiting \in InternalCmd \union {None}
    /\ outcome \in Result \union {NoOutcome}

(* hostcmd.c counts what the guest owes it: the module holds a command      *)
(* whose end it has not reported exactly when the emulator either waits for *)
(* that end (cmd_inflight) or expects to discard it (orphaned), and never   *)
(* both.                                                                    *)
GuestAccounted ==
    /\ hc.cmd_inflight <=> (Owes /\ hc.orphaned = 0)
    /\ hc.orphaned = 0 \/ (hc.orphaned = 1 /\ Owes)

(* An END from the guest is always one the emulator expects, so it can      *)
(* never close a command that is still queued: the rest of GuestAccounted,  *)
(* and it survives the module being killed and loaded again.                *)
EndExpected == Owes => hc.cmd_inflight \/ hc.orphaned > 0

(* The command the guest runs is the one in cmd_line as long as the         *)
(* emulator waits for it, so nothing has been queued over it.               *)
InflightIsRunning == hc.cmd_inflight => gcmd = hc.cmd_line

(* The done frame a client reads is for the command it is waiting for.      *)
AnswerIsOwn ==
    \A c \in Conn : got[c].type = "D" => got[c].data = <<got[c].as>>

(* The output a client reads while it waits for a command was printed by    *)
(* that command.                                                            *)
OutputIsOwn ==
    \A c \in Conn : got[c].type = "O" =>
        \A i \in 1 .. Len(got[c].data) : got[c].data[i] = got[c].as

(* What a client reads is for the command it waits for. *)
ReadsItsOwn == AnswerIsOwn /\ OutputIsOwn

DoneIsComing(x) ==
    \E i \in 1 .. Len(hc.ring) :
        hc.ring[i].type = "D" /\ hc.ring[i].data = <<x>>

LineIsComing(c, x) ==
    \/ x \in {wire[c][i] : i \in 1 .. Len(wire[c])}
    \/ x \in {tmp[i] : i \in 1 .. Len(tmp)}
    \/ hc.in_buf = x

(* A client that waits for a command is never forgotten: the line is still  *)
(* on its way in, or queued, or with the guest, or its done frame is on its *)
(* way out.                                                                 *)
NeverForgotten ==
    \A c \in Conn :
        peer[c] # "closed" /\ await[c] # None =>
            \/ LineIsComing(c, await[c])
            \/ hc.client = c /\ Busy(hc) /\ hc.cmd_line = await[c]
            \/ hc.client = c /\ DoneIsComing(await[c])

(* A command that a client sent and the guest collected ends with a done    *)
(* frame for it in the ring, also when a reset of the machine ends it with  *)
(* its notice in front, as long as the client is there and the ring has     *)
(* room for the two.                                                        *)
EndedIsTold ==
    [][hc.client # None /\ hc'.client = hc.client
         /\ hc.cmd_inflight /\ ~hc'.cmd_inflight /\ ~hc.internal_active
         /\ Free(hc) >= Notice.left + Done(hc.cmd_line).left
       => \E i \in 1 .. Len(hc'.ring) :
              hc'.ring[i].type = "D" /\ hc'.ring[i].data = <<hc.cmd_line>>]_vars

(* The status an internal caller is given is that of its own command, or    *)
(* says that the command was never collected.                               *)
InternalStatusIsOwn == outcome.status \in {outcome.token, None}

(* The output an internal caller is given was printed by its own command.   *)
InternalOutputIsOwn ==
    \A i \in 1 .. Len(outcome.out) : outcome.out[i] = outcome.token

(* A caller that is still waiting is told when its command is closed: the   *)
(* emulator never lets go of an internal command without the callback.      *)
CallerIsTold ==
    [][waiting # None /\ hc.internal_done = waiting
         => hc'.internal_done = waiting \/ Len(hc'.posted) > Len(hc.posted)]_vars

(* A command is given up on only after it has itself waited at least the    *)
(* shorter of the two limits.                                               *)
GivenUpAfterWaiting == GivenUp(hc) => hc.queued_age >= NoGuestWait

(* The lines of a client that types ahead wait in the kernel until the      *)
(* command before them has finished: a line is read only by an idle channel.*)
TypeAheadWaits ==
    tmp # <<>> /\ Head(tmp) = NL /\ hc.in_buf # None => ~Busy(hc)

(* Every command a client sends is answered, or the client goes away.       *)
EveryCommandAnswered ==
    \A c \in Conn : await[c] # None ~> (await[c] = None \/ peer[c] = "closed")

(* A client that connects while another is being served is turned away with *)
(* a notice.                                                                *)
SecondClientRejected ==
    \A c \in Conn :
        peer[c] = "open" /\ hc.client \notin {None, c}
            ~> (got[c].type = "X" \/ peer[c] = "closed")
=============================================================================
