---------------------------- MODULE GuestCommand ----------------------------
(***************************************************************************)
(* A caller inside the emulator that runs a guest command and waits for the *)
(* answer: gui/guest_command.cpp, with the part of gui/emulator_host.cpp    *)
(* that carries its requests to the emulator thread.                        *)
(*                                                                          *)
(* The request goes out through the emulator's command queue, the result    *)
(* comes back as a call posted to the GUI thread, and a token pairs the     *)
(* two.  A caller that gives up forgets its token and queues an abandon.    *)
(* The token of a call is the command it asks for.                          *)
(***************************************************************************)
EXTENDS HostCmd

VARIABLES
    queue,    \* requests on their way to the emulator thread
    waiting,  \* the token in g_waiting, None when nobody waits
    outcome   \* what the last call that was answered was told

callerVars == <<queue, waiting, outcome>>

Request == [op : {"run", "abandon"}, token : InternalCmd]

NoOutcome == [token |-> None, ok |-> FALSE, out |-> <<>>, status |-> None]

CallerInit == queue = <<>> /\ waiting = None /\ outcome = NoOutcome

(* GuestCommandRun, up to the wait. *)
GuestCommandRun(c) ==
    /\ waiting = None /\ c \in fresh
    /\ InternalReady(hc)
    /\ waiting' = c
    /\ queue' = Append(queue, [op |-> "run", token |-> c])
    /\ fresh' = fresh \ {c}
    /\ UNCHANGED <<outcome, hc, tmp, backlog, peer, wire, await, got>>

(* The emulator thread takes a request; a command it cannot queue is        *)
(* answered at once.                                                        *)
RunRequest ==
    /\ queue # <<>> /\ Head(queue).op = "run"
    /\ LET c == Head(queue).token
       IN  Emulator(IF CanSubmit(hc, c) THEN InternalSubmit(hc, c)
                    ELSE [hc EXCEPT !.posted =
                             Append(@, [token |-> c, ok |-> FALSE,
                                        out |-> <<>>, status |-> None])])
    /\ queue' = Tail(queue)
    /\ UNCHANGED <<waiting, outcome, tmp, netVars>>

AbandonRequest ==
    /\ queue # <<>> /\ Head(queue).op = "abandon"
    /\ Abandon
    /\ queue' = Tail(queue)
    /\ UNCHANGED <<waiting, outcome>>

(* GuestCommandDeliver: a result nobody waits for is thrown away. *)
GuestCommandDeliver ==
    /\ hc.posted # <<>>
    /\ hc' = [hc EXCEPT !.posted = Tail(@)]
    /\ IF waiting = Head(hc.posted).token
         THEN waiting' = None /\ outcome' = Head(hc.posted)
         ELSE UNCHANGED <<waiting, outcome>>
    /\ UNCHANGED <<queue, tmp, netVars>>

(* The deadline timer fires first. *)
GuestCommandTimeout ==
    /\ waiting # None
    /\ waiting' = None
    /\ queue' = Append(queue, [op |-> "abandon", token |-> waiting])
    /\ UNCHANGED <<outcome, hostVars>>

Caller ==
    \/ \E c \in InternalCmd : GuestCommandRun(c)
    \/ RunRequest \/ AbandonRequest \/ GuestCommandDeliver
    \/ GuestCommandTimeout
=============================================================================
