------------------------------ MODULE HostCmd ------------------------------
(***************************************************************************)
(* The emulator's half of the HostCmd channel: hostcmd.c.                  *)
(*                                                                         *)
(* One command at a time travels from a socket client, or from a caller    *)
(* inside the emulator, to the guest's support module and its output comes *)
(* back.  Everything here runs on the emulator thread: the socket is       *)
(* serviced by hostcmd_poll, the guest calls the SWI handler hostcmd, and  *)
(* the GUI's requests arrive through the emulator's command queue.         *)
(*                                                                         *)
(* The C struct `hc' is the record variable hc and each C function is an   *)
(* operator from one value of the struct to the next, so that a function   *)
(* that calls another is a composition, as it is in the code.  A command   *)
(* line is an element of Cmd, a byte of command output is the element of   *)
(* Cmd that printed it, and a frame keeps its type, its payload and the    *)
(* number of its bytes that are still in the ring.                         *)
(*                                                                         *)
(* A definition Name_Slip is what one slip in the code would make of Name; *)
(* no specification uses it.                                               *)
(*                                                                         *)
(* In this module the guest is any program: it may issue any SWI at any    *)
(* time.  HostCmdSystem replaces it with the real support module.          *)
(***************************************************************************)
EXTENDS Integers, Sequences, FiniteSets

CONSTANTS
    Cmd,          \* command lines, each with its own identity
    LongCmd,      \* those longer than HC_CMDLINE_MAX - 1 bytes
    InternalCmd,  \* those submitted by the emulator itself
    Conn,         \* connections that clients make, in any order
    None,         \* a NULL pointer, an fd of -1, an empty line
    NL,           \* the byte that ends a line
    Blocks,       \* the blocks of output the guest passes to OUTPUT
    RingSize,     \* HC_OUT_RING_SZ
    HeaderLen,    \* the 5 bytes of a frame header
    DoneLen,      \* the 4 bytes of a return code
    NoticeLen,    \* the length of a notice's text
    OutMax,       \* HC_INTERNAL_OUT_MAX
    NoGuestWait,  \* HC_NO_GUEST_MS, in clock ticks
    GuestQuiet    \* HC_GUEST_QUIET_MS, in clock ticks

ASSUME IdentityAssumption ==
    /\ LongCmd \subseteq Cmd
    /\ InternalCmd \subseteq Cmd \ LongCmd
    /\ None \notin Cmd /\ NL \notin Cmd /\ None # NL /\ None \notin Conn

ASSUME SizeAssumption ==
    /\ RingSize \in Nat \ {0}
    /\ HeaderLen \in Nat \ {0}
    /\ DoneLen \in Nat
    /\ NoticeLen \in Nat
    /\ OutMax \in Nat
    /\ NoGuestWait \in Nat
    /\ GuestQuiet \in Nat
    /\ NoGuestWait =< GuestQuiet

ASSUME BlocksAssumption == Blocks \subseteq Seq(Cmd)

VARIABLES
    hc,       \* HostCmdState
    tmp,      \* what recv returned and hc_read_client has not looked at yet
    backlog,  \* connections the kernel holds for accept, oldest first
    peer,     \* what each client has done with its end of the connection
    wire,     \* bytes each client has sent that recv has not returned
    await,    \* the command each client is waiting to hear the end of
    got,      \* the last whole frame each client has read
    fresh     \* the command lines nobody has sent or submitted yet

netVars == <<backlog, peer, wire, await, got, fresh>>
hostVars == <<hc, tmp, backlog, peer, wire, await, got, fresh>>
-----------------------------------------------------------------------------
(* Types *)

Frame == [type : {"O", "D", "X"}, data : Seq(Cmd \union {None}), left : Nat]

(* What the caller of an internal command is told: whether it ran, what was *)
(* captured and the command whose STATUS END closed it (None: it was not    *)
(* collected, or refused).                                                  *)
Result == [token : Cmd, ok : BOOLEAN, out : Seq(Cmd),
           status : Cmd \union {None}]

HostCmdState ==
    [ initialised      : BOOLEAN,
      listening        : BOOLEAN,              \* listen_fd >= 0
      client           : Conn \union {None},   \* client_fd
      in_buf           : Cmd \union {None},
      in_overflow      : BOOLEAN,
      cmd_pending      : BOOLEAN,
      cmd_inflight     : BOOLEAN,
      cmd_line         : Cmd \union {None},
      ring             : Seq(Frame),           \* out_ring, oldest frame first
      used             : Int,                  \* hc_ring_used()
      registered       : BOOLEAN,              \* guest_registered
      queued_age       : 0 .. GuestQuiet,      \* now - cmd_queued_ms, capped
      seen_age         : 0 .. GuestQuiet,      \* now - guest_seen_ms, capped
      orphaned         : Nat,
      internal_active  : BOOLEAN,
      internal_done    : Cmd \union {None},    \* the callback and its opaque
      internal_out     : Seq(Cmd),
      posted           : Seq(Result) ]         \* callbacks on their way to the GUI

PeerStates == {"absent", "open", "half", "closed"}

(* `as' is the command the client was waiting for when it read the frame.  *)
Got == [type : {"-", "O", "D", "X"}, data : Seq(Cmd \union {None}),
        as : Cmd \union {None}]

(* The state hostcmd_init leaves behind when HostCmd is enabled and the     *)
(* listener could be bound.                                                 *)
InitialState ==
    [ initialised |-> TRUE, listening |-> TRUE, client |-> None, in_buf |-> None,
      in_overflow |-> FALSE, cmd_pending |-> FALSE, cmd_inflight |-> FALSE,
      cmd_line |-> None, ring |-> <<>>, used |-> 0, registered |-> FALSE,
      queued_age |-> 0, seen_age |-> 0, orphaned |-> 0,
      internal_active |-> FALSE, internal_done |-> None,
      internal_out |-> <<>>, posted |-> <<>> ]
-----------------------------------------------------------------------------
(* The outbound ring *)

Free(h) == (RingSize - 1) - h.used

Notice == [type |-> "X", data |-> <<>>, left |-> HeaderLen + NoticeLen]

Done(c) == [type |-> "D", data |-> <<c>>, left |-> HeaderLen + DoneLen]

Output(data) ==
    [type |-> "O", data |-> data, left |-> HeaderLen + Len(data)]

(* A frame that does not fit is dropped whole. *)
PushFrame(h, f) ==
    IF h.client = None \/ Free(h) < f.left
      THEN h
      ELSE [h EXCEPT !.ring = Append(@, f), !.used = @ + f.left]

(* send() takes n bytes of the oldest frame. *)
SendBytes(h, n) ==
    LET f == Head(h.ring)
    IN  [h EXCEPT !.ring = IF n = f.left THEN Tail(@)
                           ELSE <<[f EXCEPT !.left = @ - n]>> \o Tail(@),
                  !.used = @ - n]
-----------------------------------------------------------------------------
(* Internal commands *)

Truncate(s, n) == IF Len(s) =< n THEN s ELSE SubSeq(s, 1, n)

Capture(h, data) ==
    [h EXCEPT !.internal_out = Truncate(@ \o data, OutMax)]

InternalFinish(h, status) ==
    [h EXCEPT
        !.internal_active = FALSE,
        !.internal_done = None,
        !.internal_out = <<>>,
        !.posted = IF h.internal_done = None THEN @
                   ELSE Append(@, [token |-> h.internal_done,
                                   ok |-> TRUE,
                                   out |-> h.internal_out,
                                   status |-> status])]

InternalReady(h) == h.initialised /\ h.registered

Busy(h) == h.cmd_pending \/ h.cmd_inflight

CanSubmit_WhileQueued(h, c) ==
    c \notin LongCmd /\ InternalReady(h) /\ ~h.internal_active /\ ~h.cmd_inflight

CanSubmit(h, c) ==
    /\ c \notin LongCmd
    /\ InternalReady(h)
    /\ ~h.internal_active
    /\ ~Busy(h)

InternalSubmit(h, c) ==
    [h EXCEPT !.cmd_line = c, !.cmd_pending = TRUE, !.queued_age = 0,
              !.cmd_inflight = FALSE, !.internal_active = TRUE,
              !.internal_done = c, !.internal_out = <<>>]

Orphan_NotCounted(h) == [h EXCEPT !.cmd_inflight = FALSE]

(* Hand a delivered command over to the count of those nobody waits for. *)
Orphan(h) ==
    [h EXCEPT !.cmd_inflight = FALSE, !.orphaned = @ + 1]

InternalAbandon(h) ==
    LET silent == [h EXCEPT !.internal_done = None]
        freed  == IF h.cmd_pending
                    THEN [silent EXCEPT !.cmd_pending = FALSE,
                                        !.cmd_line = None]
                    ELSE IF h.cmd_inflight THEN Orphan(silent) ELSE silent
    IN  IF h.internal_active THEN InternalFinish(freed, None) ELSE h
-----------------------------------------------------------------------------
(* The SWI handler *)

SwiRegister(h) == [h EXCEPT !.registered = TRUE, !.seen_age = 0]

Deliverable(h) == h.cmd_pending /\ ~h.cmd_inflight

SwiPoll_KeepsPending(h, fits) ==
    LET g == [h EXCEPT !.registered = TRUE, !.seen_age = 0]
    IN  IF Deliverable(h) /\ fits THEN [g EXCEPT !.cmd_inflight = TRUE] ELSE g

(* fits: the guest's buffer holds the command and its terminator. *)
SwiPoll(h, fits) ==
    LET g == [h EXCEPT !.registered = TRUE, !.seen_age = 0]
    IN  IF Deliverable(h) /\ fits
          THEN [g EXCEPT !.cmd_pending = FALSE, !.cmd_inflight = TRUE]
          ELSE g

Discards_NoOrphan(h) == h.client = None

Discards(h) == h.client = None \/ (~h.cmd_inflight /\ h.orphaned > 0)

Accepts_OrphanStalls(h, data) ==
    IF h.internal_active THEN Len(data)
    ELSE IF Discards(h) \/ Free(h) =< HeaderLen THEN 0
    ELSE IF Len(data) < Free(h) - HeaderLen THEN Len(data)
    ELSE Free(h) - HeaderLen

(* How many bytes of a block the handler says it took. *)
Accepts(h, data) ==
    IF h.internal_active \/ Discards(h) THEN Len(data)
    ELSE IF Free(h) =< HeaderLen THEN 0
    ELSE IF Len(data) < Free(h) - HeaderLen THEN Len(data)
    ELSE Free(h) - HeaderLen

SwiOutput(h, data) ==
    IF h.internal_active THEN Capture(h, data)
    ELSE IF Discards(h) \/ Accepts(h, data) = 0 THEN h
    ELSE PushFrame(h, Output(SubSeq(data, 1, Accepts(h, data))))

SwiStatusEnd_InternalFirst(h, c) ==
    IF h.internal_active
      THEN InternalFinish([h EXCEPT !.cmd_inflight = FALSE,
                                    !.orphaned = IF h.cmd_inflight \/ @ = 0 THEN @ ELSE @ - 1], c)
    ELSE IF ~h.cmd_inflight /\ h.orphaned > 0
      THEN [h EXCEPT !.orphaned = @ - 1]
    ELSE [PushFrame(h, Done(c)) EXCEPT !.cmd_inflight = FALSE]

(* STATUS END for the command c; STATUS START changes nothing. *)
SwiStatusEnd(h, c) ==
    IF ~h.cmd_inflight /\ h.orphaned > 0
      THEN [h EXCEPT !.orphaned = @ - 1]
    ELSE IF h.internal_active
      THEN InternalFinish([h EXCEPT !.cmd_inflight = FALSE], c)
    ELSE [PushFrame(h, Done(c)) EXCEPT !.cmd_inflight = FALSE]
-----------------------------------------------------------------------------
(* Lifecycle *)

DropClient(h) ==
    LET g == [h EXCEPT !.client = None, !.in_buf = None,
                       !.in_overflow = FALSE, !.ring = <<>>, !.used = 0,
                       !.cmd_pending = FALSE]
    IN  IF h.cmd_inflight /\ ~h.internal_active THEN Orphan(g) ELSE g

ResetState_EmptiesRing(h) ==
    IF ~h.initialised THEN h
    ELSE InternalFinish([h EXCEPT !.ring = <<>>, !.used = 0,
                                  !.cmd_pending = FALSE, !.cmd_inflight = FALSE,
                                  !.cmd_line = None, !.orphaned = 0,
                                  !.registered = FALSE,
                                  !.internal_done = None], None)

ResetState_ForgetsFirst(h) ==
    IF ~h.initialised THEN h
    ELSE InternalFinish([h EXCEPT !.cmd_pending = FALSE, !.cmd_inflight = FALSE,
                                  !.cmd_line = None, !.orphaned = 0,
                                  !.registered = FALSE,
                                  !.internal_done = None], None)

ResetState(h) ==
    LET told == IF h.client # None /\ h.cmd_inflight
                  THEN PushFrame(PushFrame(h, Notice), Done(h.cmd_line))
                  ELSE h
        idle == [told EXCEPT !.cmd_pending = FALSE, !.cmd_inflight = FALSE,
                             !.cmd_line = None, !.orphaned = 0,
                             !.registered = FALSE]
    IN  IF ~h.initialised THEN h
        ELSE IF h.internal_active
          THEN InternalFinish([idle EXCEPT !.internal_done = None], None)
          ELSE idle

CloseState(h) ==
    [h EXCEPT !.client = None, !.listening = FALSE, !.initialised = FALSE]
-----------------------------------------------------------------------------
(* The per-tick service *)

GivenUp(h) ==
    /\ h.cmd_pending /\ ~h.cmd_inflight
    /\ IF h.registered THEN h.seen_age >= GuestQuiet
                       ELSE h.queued_age >= NoGuestWait

Expire_Silent(h) ==
    LET g == [h EXCEPT !.cmd_pending = FALSE, !.cmd_line = None]
    IN  IF ~GivenUp(h) THEN h
        ELSE IF h.internal_active
          THEN InternalFinish([g EXCEPT !.internal_done = None], None)
        ELSE PushFrame(PushFrame(g, Notice), Done(h.cmd_line))

Expire(h) ==
    LET g == [h EXCEPT !.cmd_pending = FALSE, !.cmd_line = None]
    IN  IF ~GivenUp(h) THEN h
        ELSE IF h.internal_active THEN InternalFinish(g, None)
        ELSE PushFrame(PushFrame(g, Notice), Done(h.cmd_line))

AcceptClient(h, c) ==
    PushFrame([h EXCEPT !.client = c, !.in_buf = None, !.in_overflow = FALSE,
                        !.ring = <<>>, !.used = 0], Notice)

EndOfLine_BusyOrphan(h) ==
    LET g == [h EXCEPT !.in_buf = None]
    IN  IF h.in_overflow THEN PushFrame([h EXCEPT !.in_overflow = FALSE], Notice)
        ELSE IF h.in_buf = None THEN g
        ELSE IF Busy(h) \/ h.orphaned > 0 THEN PushFrame(g, Notice)
        ELSE [g EXCEPT !.cmd_line = h.in_buf, !.cmd_pending = TRUE,
                       !.queued_age = 0]

(* A newline ends the line in in_buf. *)
EndOfLine(h) ==
    LET g == [h EXCEPT !.in_buf = None]
    IN  IF h.in_overflow THEN PushFrame([h EXCEPT !.in_overflow = FALSE], Notice)
        ELSE IF h.in_buf = None THEN g
        ELSE IF Busy(h) THEN PushFrame(g, Notice)
        ELSE [g EXCEPT !.cmd_line = h.in_buf, !.cmd_pending = TRUE,
                       !.queued_age = 0]

(* One turn of the loop in hc_read_client: the text of a line, or its end. *)
ReadItem(h, b) ==
    IF b = NL THEN EndOfLine(h)
    ELSE IF h.in_overflow THEN h
    ELSE IF b \in LongCmd THEN [h EXCEPT !.in_overflow = TRUE, !.in_buf = None]
    ELSE [h EXCEPT !.in_buf = b]
-----------------------------------------------------------------------------
(* The emulator thread.  It is inside hc_read_client while tmp is not empty *)
(* and does nothing else until the loop there has ended.                    *)

Emulator(h) == tmp = <<>> /\ hc' = h

(* The answer to a call of poll(): the client's end has been closed. *)
PollHup ==
    LET h == Expire(hc)
    IN  /\ hc.listening /\ h.client # None
        /\ ~Busy(h) \/ h.ring # <<>>
        /\ peer[h.client] = "closed"
        /\ Emulator(DropClient(h))
        /\ UNCHANGED <<tmp, netVars>>

PollAccept ==
    LET h == Expire(hc)
    IN  /\ hc.listening /\ h.client = None /\ backlog # <<>>
        /\ Emulator(AcceptClient(h, Head(backlog)))
        /\ backlog' = Tail(backlog)
        /\ UNCHANGED <<tmp, peer, wire, await, got, fresh>>

(* recv returns some of the bytes sent, or says that there are no more. *)
PollRead ==
    LET h == Expire(hc)
        c == h.client
    IN  /\ hc.listening /\ c # None /\ ~Busy(h)
        /\ \/ \E n \in 1 .. Len(wire[c]) :
                 /\ Emulator(h)
                 /\ tmp' = SubSeq(wire[c], 1, n)
                 /\ wire' = [wire EXCEPT ![c] = SubSeq(@, n + 1, Len(@))]
           \/ /\ wire[c] = <<>> /\ peer[c] \in {"half", "closed"}
              /\ Emulator(DropClient(h))
              /\ UNCHANGED <<tmp, wire>>
        /\ UNCHANGED <<backlog, peer, await, got, fresh>>

ReadLoop ==
    /\ tmp # <<>>
    /\ hc' = ReadItem(hc, Head(tmp))
    /\ tmp' = Tail(tmp)
    /\ UNCHANGED netVars

(* The socket takes n bytes of the oldest frame.  With its last byte the    *)
(* frame reaches the client, if it is still there, and a done frame ends    *)
(* its wait.                                                                *)
PollWrite(n) ==
    LET h == Expire(hc)
        f == Head(h.ring)
        c == h.client
        read == n = f.left /\ peer[c] # "closed"
    IN  /\ hc.listening /\ c # None /\ h.ring # <<>>
        /\ n \in 1 .. f.left
        /\ Emulator(SendBytes(h, n))
        /\ got' = IF ~read THEN got
                  ELSE [got EXCEPT ![c] = [type |-> f.type, data |-> f.data,
                                           as |-> await[c]]]
        /\ await' = IF ~read \/ f.type # "D" THEN await
                    ELSE [await EXCEPT ![c] = None]
        /\ UNCHANGED <<tmp, backlog, peer, wire, fresh>>

(* send() fails: the client has closed its end. *)
PollWriteFails ==
    LET h == Expire(hc)
    IN  /\ hc.listening /\ h.client # None /\ h.ring # <<>>
        /\ peer[h.client] = "closed"
        /\ Emulator(DropClient(h))
        /\ UNCHANGED <<tmp, netVars>>

(* A poll that finds no socket ready still looks at the waiting command. *)
PollQuiet ==
    /\ hc.listening
    /\ GivenUp(hc)
    /\ Emulator(Expire(hc))
    /\ UNCHANGED <<tmp, netVars>>

HostReset == Emulator(ResetState(hc)) /\ UNCHANGED <<tmp, netVars>>

Close == Emulator(CloseState(hc)) /\ UNCHANGED <<tmp, netVars>>

Abandon == Emulator(InternalAbandon(hc)) /\ UNCHANGED <<tmp, netVars>>

(* The monotonic clock; the ages stop counting at the longest limit. *)
Older(age) == IF age < GuestQuiet THEN age + 1 ELSE age

Tick ==
    /\ hc.queued_age < GuestQuiet \/ hc.seen_age < GuestQuiet
    /\ hc' = [hc EXCEPT !.queued_age = Older(@), !.seen_age = Older(@)]
    /\ UNCHANGED <<tmp, netVars>>
-----------------------------------------------------------------------------
(* The clients and the kernel between them and the emulator *)

Connect(c) ==
    /\ hc.listening /\ peer[c] = "absent"
    /\ peer' = [peer EXCEPT ![c] = "open"]
    /\ backlog' = Append(backlog, c)
    /\ UNCHANGED <<hc, tmp, wire, await, got, fresh>>

(* rpcemu-run writes one line and reads frames until the done frame. *)
SendLine(c, x) ==
    /\ peer[c] = "open" /\ await[c] = None /\ x \in fresh
    /\ wire' = [wire EXCEPT ![c] = @ \o <<x, NL>>]
    /\ await' = [await EXCEPT ![c] = x]
    /\ fresh' = fresh \ {x}
    /\ UNCHANGED <<hc, tmp, backlog, peer, got>>

(* A client that does not wait for the done frame types ahead. *)
TypeAhead(c, x) ==
    /\ peer[c] = "open" /\ await[c] # None /\ x \in fresh
    /\ wire' = [wire EXCEPT ![c] = @ \o <<x, NL>>]
    /\ fresh' = fresh \ {x}
    /\ UNCHANGED <<hc, tmp, backlog, peer, await, got>>

SendBlank(c) ==
    /\ peer[c] = "open" /\ wire[c] = <<>>
    /\ wire' = [wire EXCEPT ![c] = <<NL>>]
    /\ UNCHANGED <<hc, tmp, backlog, peer, await, got, fresh>>

Hangup(c) ==
    /\ peer[c] \in {"open", "half"}
    /\ peer' = [peer EXCEPT ![c] = "closed"]
    /\ await' = [await EXCEPT ![c] = None]
    /\ UNCHANGED <<hc, tmp, backlog, wire, got, fresh>>

HalfClose(c) ==
    /\ peer[c] = "open"
    /\ peer' = [peer EXCEPT ![c] = "half"]
    /\ UNCHANGED <<hc, tmp, backlog, wire, await, got, fresh>>

NothingRead == [type |-> "-", data |-> <<>>, as |-> None]

HostInit ==
    /\ hc \in {InitialState, [InitialState EXCEPT !.listening = FALSE]}
    /\ tmp = <<>>
    /\ backlog = <<>>
    /\ peer = [c \in Conn |-> "absent"]
    /\ wire = [c \in Conn |-> <<>>]
    /\ await = [c \in Conn |-> None]
    /\ got = [c \in Conn |-> NothingRead]
    /\ fresh = Cmd

(* Any guest: any SWI, with any block of output, whenever the emulator      *)
(* thread runs the guest.  The handler never learns which command an END is *)
(* for; it is marked with the last command queued.                          *)
AnyGuest ==
    /\ \/ Emulator(SwiRegister(hc))
       \/ \E fits \in BOOLEAN : Emulator(SwiPoll(hc, fits))
       \/ \E data \in Blocks : Emulator(SwiOutput(hc, data))
       \/ Emulator(SwiStatusEnd(hc, hc.cmd_line))
    /\ UNCHANGED <<tmp, netVars>>

SubmitFresh ==
    \E c \in InternalCmd \intersect fresh :
        /\ CanSubmit(hc, c)
        /\ Emulator(InternalSubmit(hc, c))
        /\ fresh' = fresh \ {c}
        /\ UNCHANGED <<tmp, backlog, peer, wire, await, got>>

Service ==
    \/ PollHup \/ PollAccept \/ PollRead \/ ReadLoop
    \/ \E n \in 1 .. RingSize : PollWrite(n)
    \/ PollWriteFails \/ PollQuiet

Clients ==
    \E c \in Conn :
        \/ Connect(c) \/ Hangup(c)
        \/ \E x \in Cmd \ InternalCmd : SendLine(c, x) \/ TypeAhead(c, x)

HostNext ==
    \/ Service \/ Clients \/ AnyGuest \/ SubmitFresh
    \/ Abandon \/ HostReset \/ Close \/ Tick

HostSpec == HostInit /\ [][HostNext]_hostVars
-----------------------------------------------------------------------------
(* Properties of the emulator's half, whatever the guest does *)

(* The C struct hc and the kernel's side of the sockets hold values of      *)
(* their types.                                                             *)
HostTypeOK ==
    /\ hc \in HostCmdState
    /\ tmp \in Seq(Cmd \union {NL})
    /\ backlog \in Seq(Conn)
    /\ peer \in [Conn -> PeerStates]
    /\ wire \in [Conn -> Seq(Cmd \union {NL})]
    /\ await \in [Conn -> Cmd \union {None}]
    /\ got \in [Conn -> Got]
    /\ fresh \subseteq Cmd

(* cmd_pending and cmd_inflight are never both set: a command is queued or  *)
(* with the guest, and hostcmd_poll, the SWI handler and the internal       *)
(* interface agree which.                                                   *)
CommandInOnePlace == ~(hc.cmd_pending /\ hc.cmd_inflight)

(* hc_ring_used, on which hc_push_frame and OUTPUT rely, never passes the   *)
(* HC_OUT_RING_SZ - 1 bytes that keep a full ring apart from an empty one,  *)
(* is zero only when no frame waits, and covers the frame being sent.       *)
RingAccounted ==
    /\ hc.used \in 0 .. RingSize - 1
    /\ hc.used = 0 <=> hc.ring = <<>>
    /\ hc.ring # <<>> => hc.ring[1].left \in 1 .. hc.used

(* A command that is queued or running is never replaced by another one:    *)
(* neither a client's line nor an internal submit writes over cmd_line.     *)
NeverOverwritten ==
    [][Busy(hc) /\ Busy(hc)' => hc'.cmd_line = hc.cmd_line]_hostVars

(* While one client stays connected, the frames waiting for it keep their   *)
(* order and their bytes: only the oldest is consumed, from the front, and  *)
(* new ones go in behind, so the length-prefixed stream never loses step.   *)
FramesKept ==
    [][hc.client # None /\ hc'.client = hc.client =>
         \E old \in {hc.ring, SubSeq(hc.ring, 2, Len(hc.ring))} :
            /\ Len(old) =< Len(hc'.ring)
            /\ \A i \in 1 .. Len(old) :
                  /\ hc'.ring[i].data = old[i].data
                  /\ hc'.ring[i].left = old[i].left
                     \/ (i = 1 /\ hc'.ring[1].left < old[1].left)]_hostVars
=============================================================================
