--------------------------- MODULE HostCmdProofs ---------------------------
(***************************************************************************)
(* Proofs about the HostCmd channel, for any number of commands, clients   *)
(* and bytes: about the emulator's half, for any guest, and about the whole *)
(* channel: that the emulator's count of what the guest owes it is right,   *)
(* and that a caller inside the emulator is told the status of its own      *)
(* command. The last part says what each function of the emulator does to   *)
(* the line and the frames of the client that is connected.                 *)
(***************************************************************************)
EXTENDS HostCmdSystem, TLAPS

(* The frames hostcmd.c builds are frames. *)
LEMMA FrameTypes ==
    /\ Notice \in Frame
    /\ \A c \in Cmd \union {None} : Done(c) \in Frame
    /\ \A data \in Seq(Cmd) : Output(data) \in Frame
BY SizeAssumption DEF Notice, Done, Output, Frame

(* hc_push_frame keeps the struct well typed. *)
LEMMA PushFrameType ==
    ASSUME NEW h \in HostCmdState, NEW f \in Frame
    PROVE  PushFrame(h, f) \in HostCmdState
<1>1. h.used \in Int /\ f.left \in Nat /\ h.ring \in Seq(Frame)
  BY Zenon DEF HostCmdState, Frame
<1>2. h.used + f.left \in Int /\ Append(h.ring, f) \in Seq(Frame)
  BY <1>1
<1>3. QED  BY <1>2, ZenonT(40) DEF PushFrame, HostCmdState

(* hc_flush_out keeps the struct well typed. *)
LEMMA SendBytesType ==
    ASSUME NEW h \in HostCmdState, h.ring # <<>>,
           NEW n \in Nat, n =< Head(h.ring).left
    PROVE  SendBytes(h, n) \in HostCmdState
<1> DEFINE f == Head(h.ring)
           part == [f EXCEPT !.left = @ - n]
<1>1. h.used \in Int /\ h.ring \in Seq(Frame)
  BY Zenon DEF HostCmdState
<1>2. f \in Frame /\ Tail(h.ring) \in Seq(Frame)
  BY <1>1
<1>3. f.left - n \in Nat
  BY <1>2 DEF Frame
<1>4. part \in Frame
  BY <1>2, <1>3, Zenon DEF Frame
<1>5. <<part>> \o Tail(h.ring) \in Seq(Frame)
  BY <1>2, <1>4
<1>6. h.used - n \in Int
  BY <1>1
<1>7. QED  BY <1>2, <1>5, <1>6, Zenon DEF SendBytes, HostCmdState

(* hc_internal_append keeps the struct well typed. *)
LEMMA CaptureType ==
    ASSUME NEW h \in HostCmdState, NEW data \in Seq(Cmd)
    PROVE  Capture(h, data) \in HostCmdState
<1>1. h.internal_out \in Seq(Cmd)
  BY Zenon DEF HostCmdState
<1>2. Truncate(h.internal_out \o data, OutMax) \in Seq(Cmd)
  BY <1>1, SizeAssumption DEF Truncate
<1>3. QED  BY <1>2, Zenon DEF Capture, HostCmdState

(* Handing a command over to the orphans keeps the struct well typed. *)
LEMMA OrphanType ==
    ASSUME NEW h \in HostCmdState
    PROVE  Orphan(h) \in HostCmdState
<1>1. h.orphaned \in Nat
  BY Zenon DEF HostCmdState
<1>2. h.orphaned + 1 \in Nat
  BY <1>1
<1>3. QED  BY <1>2, Zenon DEF Orphan, HostCmdState

(* hc_internal_finish keeps the struct well typed. *)
LEMMA InternalFinishType ==
    ASSUME NEW h \in HostCmdState, NEW s \in Cmd \union {None}
    PROVE  InternalFinish(h, s) \in HostCmdState
<1> DEFINE r == [token |-> h.internal_done, ok |-> TRUE,
                 out |-> h.internal_out, status |-> s]
<1>0. <<>> \in Seq(Cmd)
  OBVIOUS
<1>1. h.posted \in Seq(Result)
  BY Zenon DEF HostCmdState
<1>2. h.internal_done # None => r \in Result
  BY Zenon DEF HostCmdState, Result
<1>3. h.internal_done # None => Append(h.posted, r) \in Seq(Result)
  BY <1>1, <1>2
<1>4. QED  BY <1>0, <1>1, <1>3, ZenonT(40) DEF InternalFinish, HostCmdState

(* hostcmd_internal_submit and hostcmd_internal_abandon keep the struct     *)
(* well typed.                                                              *)
LEMMA InternalSubmitType ==
    ASSUME NEW h \in HostCmdState, NEW c \in Cmd
    PROVE  InternalSubmit(h, c) \in HostCmdState
<1>1. <<>> \in Seq(Cmd) /\ 0 \in 0 .. GuestQuiet
  BY SizeAssumption
<1>2. QED  BY <1>1, Zenon DEF InternalSubmit, HostCmdState

LEMMA InternalAbandonType ==
    ASSUME NEW h \in HostCmdState
    PROVE  InternalAbandon(h) \in HostCmdState
<1> DEFINE silent == [h EXCEPT !.internal_done = None]
           unqueued == [silent EXCEPT !.cmd_pending = FALSE, !.cmd_line = None]
           freed == IF h.cmd_pending THEN unqueued
                    ELSE IF h.cmd_inflight THEN Orphan(silent) ELSE silent
<1>1. silent \in HostCmdState
  BY Zenon DEF HostCmdState
<1>2. unqueued \in HostCmdState
  BY <1>1, Zenon DEF HostCmdState
<1>3. freed \in HostCmdState
  BY <1>1, <1>2, OrphanType, Zenon
<1>4. InternalFinish(freed, None) \in HostCmdState
  BY <1>3, InternalFinishType, Zenon
<1>5. QED  BY <1>4, Zenon DEF InternalAbandon

(* The SWI handler keeps the struct well typed. *)
LEMMA SwiRegisterType ==
    ASSUME NEW h \in HostCmdState
    PROVE  SwiRegister(h) \in HostCmdState
<1>1. 0 \in 0 .. GuestQuiet
  BY SizeAssumption
<1>2. QED  BY <1>1, Zenon DEF SwiRegister, HostCmdState

LEMMA SwiPollType ==
    ASSUME NEW h \in HostCmdState, NEW fits \in BOOLEAN
    PROVE  SwiPoll(h, fits) \in HostCmdState
<1>1. 0 \in 0 .. GuestQuiet
  BY SizeAssumption
<1> DEFINE g == [h EXCEPT !.registered = TRUE, !.seen_age = 0]
<1>2. g \in HostCmdState
  BY <1>1, Zenon DEF HostCmdState
<1>3. [g EXCEPT !.cmd_pending = FALSE, !.cmd_inflight = TRUE] \in HostCmdState
  BY <1>2, Zenon DEF HostCmdState
<1>4. QED  BY <1>2, <1>3, Zenon DEF SwiPoll

(* OUTPUT takes a number of bytes between none and all of the block. *)
LEMMA AcceptsRange ==
    ASSUME NEW h \in HostCmdState, NEW data \in Seq(Cmd)
    PROVE  Accepts(h, data) \in 0 .. Len(data)
<1>1. h.used \in Int
  BY Zenon DEF HostCmdState
<1>2. QED  BY <1>1, SizeAssumption DEF Accepts, Free

LEMMA SwiOutputType ==
    ASSUME NEW h \in HostCmdState, NEW data \in Seq(Cmd)
    PROVE  SwiOutput(h, data) \in HostCmdState
<1> DEFINE part == SubSeq(data, 1, Accepts(h, data))
<1>1. part \in Seq(Cmd)
  BY AcceptsRange
<1>2. PushFrame(h, Output(part)) \in HostCmdState
  BY <1>1, FrameTypes, PushFrameType, Zenon
<1>3. QED  BY <1>2, CaptureType, Zenon DEF SwiOutput

LEMMA SwiStatusEndType ==
    ASSUME NEW h \in HostCmdState, NEW c \in Cmd \union {None}
    PROVE  SwiStatusEnd(h, c) \in HostCmdState
<1>1. h.orphaned \in Nat
  BY Zenon DEF HostCmdState
<1>2. h.orphaned > 0 => h.orphaned - 1 \in Nat
  BY <1>1
<1>3. h.orphaned > 0 => [h EXCEPT !.orphaned = @ - 1] \in HostCmdState
  BY <1>2, Zenon DEF HostCmdState
<1>4. [h EXCEPT !.cmd_inflight = FALSE] \in HostCmdState
  BY Zenon DEF HostCmdState
<1>5. InternalFinish([h EXCEPT !.cmd_inflight = FALSE], c) \in HostCmdState
  BY <1>4, InternalFinishType, Zenon
<1>6. PushFrame(h, Done(c)) \in HostCmdState
  BY FrameTypes, PushFrameType, Zenon
<1>7. [PushFrame(h, Done(c)) EXCEPT !.cmd_inflight = FALSE] \in HostCmdState
  BY <1>6, Zenon DEF HostCmdState
<1>8. QED  BY <1>3, <1>5, <1>7, Zenon DEF SwiStatusEnd

(* hc_drop_client, hostcmd_reset and hostcmd_close keep the struct well     *)
(* typed.                                                                   *)
LEMMA DropClientType ==
    ASSUME NEW h \in HostCmdState
    PROVE  DropClient(h) \in HostCmdState
<1> DEFINE g == [h EXCEPT !.client = None, !.in_buf = None,
                          !.in_overflow = FALSE, !.ring = <<>>, !.used = 0,
                          !.cmd_pending = FALSE]
<1>1. <<>> \in Seq(Frame) /\ 0 \in Int
  OBVIOUS
<1>2. g \in HostCmdState
  BY <1>1, Zenon DEF HostCmdState
<1>3. QED  BY <1>2, OrphanType, Zenon DEF DropClient

LEMMA ResetStateType ==
    ASSUME NEW h \in HostCmdState
    PROVE  ResetState(h) \in HostCmdState
<1> DEFINE told == IF h.client # None /\ h.cmd_inflight
                     THEN PushFrame(PushFrame(h, Notice), Done(h.cmd_line))
                     ELSE h
           idle == [told EXCEPT !.cmd_pending = FALSE, !.cmd_inflight = FALSE,
                                !.cmd_line = None, !.orphaned = 0,
                                !.registered = FALSE]
           quiet == [idle EXCEPT !.internal_done = None]
<1>1. h.cmd_line \in Cmd \union {None}
  BY Zenon DEF HostCmdState
<1>2. PushFrame(PushFrame(h, Notice), Done(h.cmd_line)) \in HostCmdState
  BY <1>1, FrameTypes, PushFrameType, Zenon
<1>3. told \in HostCmdState
  BY <1>2, Zenon
<1>4. 0 \in Nat
  OBVIOUS
<1> HIDE DEF told
<1>5. idle \in HostCmdState
  BY <1>3, <1>4, Zenon DEF HostCmdState
<1> HIDE DEF idle
<1>6. quiet \in HostCmdState
  BY <1>5, Zenon DEF HostCmdState
<1>7. InternalFinish(quiet, None) \in HostCmdState
  BY <1>6, InternalFinishType, Zenon
<1>8. QED  BY <1>5, <1>7, Zenon DEF ResetState, idle, told

LEMMA CloseStateType ==
    ASSUME NEW h \in HostCmdState
    PROVE  CloseState(h) \in HostCmdState
BY Zenon DEF CloseState, HostCmdState

(* The work of hostcmd_poll keeps the struct well typed. *)
LEMMA ExpireType ==
    ASSUME NEW h \in HostCmdState
    PROVE  Expire(h) \in HostCmdState
<1> DEFINE g == [h EXCEPT !.cmd_pending = FALSE, !.cmd_line = None]
<1>1. g \in HostCmdState /\ h.cmd_line \in Cmd \union {None}
  BY Zenon DEF HostCmdState
<1>2. InternalFinish(g, None) \in HostCmdState
  BY <1>1, InternalFinishType, Zenon
<1>3. PushFrame(PushFrame(g, Notice), Done(h.cmd_line)) \in HostCmdState
  BY <1>1, FrameTypes, PushFrameType, Zenon
<1>4. QED  BY <1>2, <1>3, Zenon DEF Expire

LEMMA AcceptClientType ==
    ASSUME NEW h \in HostCmdState, NEW c \in Conn
    PROVE  AcceptClient(h, c) \in HostCmdState
<1> DEFINE g == [h EXCEPT !.client = c, !.in_buf = None,
                          !.in_overflow = FALSE, !.ring = <<>>, !.used = 0]
<1>1. <<>> \in Seq(Frame) /\ 0 \in Int
  OBVIOUS
<1>2. g \in HostCmdState
  BY <1>1, Zenon DEF HostCmdState
<1>3. QED  BY <1>2, FrameTypes, PushFrameType, Zenon DEF AcceptClient

LEMMA ReadItemType ==
    ASSUME NEW h \in HostCmdState, NEW b \in Cmd \union {NL}
    PROVE  ReadItem(h, b) \in HostCmdState
<1> DEFINE g == [h EXCEPT !.in_buf = None]
           drop == [h EXCEPT !.in_overflow = FALSE]
<1>1. 0 \in 0 .. GuestQuiet
  BY SizeAssumption
<1>2. g \in HostCmdState /\ drop \in HostCmdState
  BY Zenon DEF HostCmdState
<1>3. [g EXCEPT !.cmd_line = h.in_buf, !.cmd_pending = TRUE, !.queued_age = 0]
         \in HostCmdState
  BY <1>1, <1>2, Zenon DEF HostCmdState
<1>4. PushFrame(g, Notice) \in HostCmdState
      /\ PushFrame(drop, Notice) \in HostCmdState
  BY <1>2, FrameTypes, PushFrameType, Zenon
<1>5. EndOfLine(h) \in HostCmdState
  BY <1>2, <1>3, <1>4, Zenon DEF EndOfLine
<1>6. [h EXCEPT !.in_overflow = TRUE, !.in_buf = None] \in HostCmdState
  BY Zenon DEF HostCmdState
<1>7. b # NL => [h EXCEPT !.in_buf = b] \in HostCmdState
  BY Zenon DEF HostCmdState
<1>8. QED  BY <1>5, <1>6, <1>7, Zenon DEF ReadItem
-----------------------------------------------------------------------------
(* The types hold at the start and after every step. *)
LEMMA HostInitType == HostInit => HostTypeOK
<1> SUFFICES ASSUME HostInit PROVE HostTypeOK
  OBVIOUS
<1>1. <<>> \in Seq(Frame) /\ <<>> \in Seq(Cmd) /\ <<>> \in Seq(Result)
      /\ 0 \in Nat /\ 0 \in Int /\ 0 \in 0 .. GuestQuiet
  BY SizeAssumption
<1>2. InitialState \in HostCmdState
  BY <1>1, Zenon DEF InitialState, HostCmdState
<1>3. [InitialState EXCEPT !.listening = FALSE] \in HostCmdState
  BY <1>2, Zenon DEF HostCmdState
<1>4. NothingRead \in Got
  BY DEF NothingRead, Got
<1>5. hc \in HostCmdState
  BY <1>2, <1>3, Zenon DEF HostInit
<1>6. QED  BY <1>4, <1>5 DEF HostInit, HostTypeOK, PeerStates

LEMMA PollHupType == HostTypeOK /\ PollHup => HostTypeOK'
<1> SUFFICES ASSUME HostTypeOK, PollHup PROVE HostTypeOK'
  OBVIOUS
<1>1. hc' \in HostCmdState
  BY ExpireType, DropClientType, Zenon DEF HostTypeOK, PollHup, Emulator
<1>2. QED  BY <1>1, Zenon DEF HostTypeOK, PollHup, netVars

LEMMA PollAcceptType == HostTypeOK /\ PollAccept => HostTypeOK'
<1> SUFFICES ASSUME HostTypeOK, PollAccept PROVE HostTypeOK'
  OBVIOUS
<1>1. Head(backlog) \in Conn /\ backlog' \in Seq(Conn)
  BY DEF HostTypeOK, PollAccept
<1>2. hc' \in HostCmdState
  BY <1>1, ExpireType, AcceptClientType, Zenon
     DEF HostTypeOK, PollAccept, Emulator
<1>3. QED  BY <1>1, <1>2, Zenon DEF HostTypeOK, PollAccept

LEMMA PollReadType == HostTypeOK /\ PollRead => HostTypeOK'
<1> SUFFICES ASSUME HostTypeOK, PollRead PROVE HostTypeOK'
  OBVIOUS
<1> DEFINE h == Expire(hc)
           c == h.client
<1>1. h \in HostCmdState /\ DropClient(h) \in HostCmdState
  BY ExpireType, DropClientType, Zenon DEF HostTypeOK
<1>2. c \in Conn
  BY <1>1, Zenon DEF PollRead, HostCmdState
<1>3. hc' \in HostCmdState
  BY <1>1, Zenon DEF PollRead, Emulator
<1>4. wire[c] \in Seq(Cmd \union {NL})
  BY <1>2, Zenon DEF HostTypeOK
<1>5. tmp' \in Seq(Cmd \union {NL})
      /\ wire' \in [Conn -> Seq(Cmd \union {NL})]
  <2>1. CASE UNCHANGED <<tmp, wire>>
    BY <2>1, Zenon DEF HostTypeOK
  <2>2. ASSUME NEW n \in 1 .. Len(wire[c]),
               tmp' = SubSeq(wire[c], 1, n),
               wire' = [wire EXCEPT ![c] = SubSeq(@, n + 1, Len(@))]
        PROVE  tmp' \in Seq(Cmd \union {NL})
               /\ wire' \in [Conn -> Seq(Cmd \union {NL})]
    <3>1. SubSeq(wire[c], 1, n) \in Seq(Cmd \union {NL})
          /\ SubSeq(wire[c], n + 1, Len(wire[c])) \in Seq(Cmd \union {NL})
      <4> DEFINE w == wire[c]
      <4> HIDE DEF w, c
      <4>1. w \in Seq(Cmd \union {NL}) /\ n \in 1 .. Len(w)
        BY <1>4 DEF w
      <4>2. QED  BY <4>1 DEF w
    <3>2. QED  BY <1>2, <2>2, <3>1, Zenon DEF HostTypeOK
  <2>3. QED  BY <2>1, <2>2, Zenon DEF PollRead
<1>6. QED  BY <1>3, <1>5, Zenon DEF HostTypeOK, PollRead

LEMMA ReadLoopType == HostTypeOK /\ ReadLoop => HostTypeOK'
<1> SUFFICES ASSUME HostTypeOK, ReadLoop PROVE HostTypeOK'
  OBVIOUS
<1>1. Head(tmp) \in Cmd \union {NL} /\ tmp' \in Seq(Cmd \union {NL})
  BY DEF HostTypeOK, ReadLoop
<1>2. hc' \in HostCmdState
  BY <1>1, ReadItemType, Zenon DEF HostTypeOK, ReadLoop
<1>3. QED  BY <1>1, <1>2, Zenon DEF HostTypeOK, ReadLoop, netVars

LEMMA PollWriteType ==
    ASSUME NEW n \in 1 .. RingSize, HostTypeOK, PollWrite(n)
    PROVE  HostTypeOK'
<1> DEFINE h == Expire(hc)
           f == Head(h.ring)
           c == h.client
<1>1. h \in HostCmdState
  BY ExpireType, Zenon DEF HostTypeOK
<1>2. c \in Conn /\ h.ring \in Seq(Frame) /\ h.ring # <<>>
  BY <1>1, Zenon DEF PollWrite, HostCmdState
<1>3. f \in Frame
  BY <1>2
<1>4. n \in Nat /\ n =< f.left
  BY <1>3, SizeAssumption DEF PollWrite, Frame
<1>5. SendBytes(h, n) \in HostCmdState
  BY <1>1, <1>2, <1>4, SendBytesType, Zenon
<1>6. hc' \in HostCmdState
  BY <1>5, Zenon DEF PollWrite, Emulator
<1>7. [type |-> f.type, data |-> f.data, as |-> await[c]] \in Got
  BY <1>2, <1>3, Zenon DEF HostTypeOK, Frame, Got
<1>8. got' \in [Conn -> Got] /\ await' \in [Conn -> Cmd \union {None}]
  BY <1>2, <1>7, Zenon DEF HostTypeOK, PollWrite
<1>9. QED  BY <1>6, <1>8, Zenon DEF HostTypeOK, PollWrite

LEMMA PollOtherType == HostTypeOK /\ (PollWriteFails \/ PollQuiet) => HostTypeOK'
<1> SUFFICES ASSUME HostTypeOK, PollWriteFails \/ PollQuiet PROVE HostTypeOK'
  OBVIOUS
<1>1. hc' \in HostCmdState
  BY ExpireType, DropClientType, Zenon
     DEF HostTypeOK, PollWriteFails, PollQuiet, Emulator
<1>2. QED
  BY <1>1, Zenon DEF HostTypeOK, PollWriteFails, PollQuiet, netVars

(* hostcmd_poll, whatever it finds to do. *)
LEMMA ServiceType == HostTypeOK /\ Service => HostTypeOK'
BY PollHupType, PollAcceptType, PollReadType, ReadLoopType, PollWriteType,
   PollOtherType, Zenon DEF Service

(* The clock moves the two ages within their range. *)
LEMMA TickType == HostTypeOK /\ Tick => HostTypeOK'
<1> SUFFICES ASSUME HostTypeOK, Tick PROVE HostTypeOK'
  OBVIOUS
<1>1. hc.queued_age \in 0 .. GuestQuiet /\ hc.seen_age \in 0 .. GuestQuiet
  BY Zenon DEF HostTypeOK, HostCmdState
<1>2. Older(hc.queued_age) \in 0 .. GuestQuiet
      /\ Older(hc.seen_age) \in 0 .. GuestQuiet
  BY <1>1, SizeAssumption DEF Older
<1>3. hc' \in HostCmdState
  BY <1>2, Zenon DEF HostTypeOK, HostCmdState, Tick
<1>4. QED  BY <1>3, Zenon DEF HostTypeOK, Tick, netVars

(* What a client does, the kernel's queue included. *)
LEMMA ClientType ==
    ASSUME NEW c \in Conn, HostTypeOK,
           Connect(c) \/ Hangup(c) \/ HalfClose(c) \/ SendBlank(c)
    PROVE  HostTypeOK'
<1>1. CASE Connect(c)
  BY <1>1 DEF HostTypeOK, Connect, PeerStates
<1>2. CASE Hangup(c)
  BY <1>2 DEF HostTypeOK, Hangup, PeerStates
<1>3. CASE HalfClose(c)
  BY <1>3 DEF HostTypeOK, HalfClose, PeerStates
<1>4. CASE SendBlank(c)
  BY <1>4 DEF HostTypeOK, SendBlank
<1>5. QED  BY <1>1, <1>2, <1>3, <1>4

LEMMA LineType ==
    ASSUME NEW c \in Conn, NEW x \in Cmd, HostTypeOK,
           SendLine(c, x) \/ TypeAhead(c, x)
    PROVE  HostTypeOK'
<1>1. CASE SendLine(c, x)
  BY <1>1 DEF HostTypeOK, SendLine
<1>2. CASE TypeAhead(c, x)
  BY <1>2 DEF HostTypeOK, TypeAhead
<1>3. QED  BY <1>1, <1>2

(* The steps of the guest, of internal callers and of the machine. *)
LEMMA EmulatorType ==
    ASSUME HostTypeOK, NEW h \in HostCmdState, Emulator(h),
           UNCHANGED <<tmp, backlog, peer, wire, await, got>>, fresh' \subseteq fresh
    PROVE  HostTypeOK'
<1>1. fresh' \subseteq Cmd
  BY Zenon DEF HostTypeOK
<1>2. QED  BY <1>1, Zenon DEF HostTypeOK, Emulator

LEMMA HostNextType == HostTypeOK /\ [HostNext]_hostVars => HostTypeOK'
<1> SUFFICES ASSUME HostTypeOK, [HostNext]_hostVars PROVE HostTypeOK'
  OBVIOUS
<1>1. CASE Service
  BY <1>1, ServiceType
<1>2. CASE Clients
  BY <1>2, ClientType, LineType, Zenon DEF Clients
<1>3. CASE AnyGuest
  <2>0. hc \in HostCmdState /\ hc.cmd_line \in Cmd \union {None}
    BY Zenon DEF HostTypeOK, HostCmdState
  <2>1. SwiRegister(hc) \in HostCmdState
        /\ SwiStatusEnd(hc, hc.cmd_line) \in HostCmdState
    BY <2>0, SwiRegisterType, SwiStatusEndType, Zenon
  <2>2. \A fits \in BOOLEAN : SwiPoll(hc, fits) \in HostCmdState
    BY <2>0, SwiPollType, Zenon
  <2>3. \A data \in Blocks : SwiOutput(hc, data) \in HostCmdState
    BY <2>0, BlocksAssumption, SwiOutputType, Zenon
  <2>4. PICK h \in HostCmdState : Emulator(h)
    BY <1>3, <2>1, <2>2, <2>3, Zenon DEF AnyGuest
  <2>5. UNCHANGED <<tmp, netVars>>
    BY <1>3, Zenon DEF AnyGuest
  <2>6. QED  BY <2>4, <2>5, EmulatorType, Zenon DEF netVars
<1>4. CASE SubmitFresh
  <2>1. PICK c \in InternalCmd \intersect fresh :
            /\ Emulator(InternalSubmit(hc, c)) /\ fresh' = fresh \ {c}
            /\ UNCHANGED <<tmp, backlog, peer, wire, await, got>>
    BY <1>4, Zenon DEF SubmitFresh
  <2>2. InternalSubmit(hc, c) \in HostCmdState
    BY <2>1, InternalSubmitType, Zenon DEF HostTypeOK
  <2>3. fresh' \subseteq fresh
    BY <2>1, Zenon
  <2>4. QED  BY <2>1, <2>2, <2>3, EmulatorType, Zenon
<1>5. CASE Abandon
  BY <1>5, InternalAbandonType, EmulatorType, Zenon
     DEF Abandon, netVars, HostTypeOK
<1>6. CASE HostReset
  BY <1>6, ResetStateType, EmulatorType, Zenon DEF HostReset, netVars, HostTypeOK
<1>7. CASE Close
  BY <1>7, CloseStateType, EmulatorType, Zenon DEF Close, netVars, HostTypeOK
<1>8. CASE Tick
  BY <1>8, TickType
<1>9. CASE UNCHANGED hostVars
  BY <1>9, Zenon DEF HostTypeOK, hostVars
<1>10. QED
  BY <1>1, <1>2, <1>3, <1>4, <1>5, <1>6, <1>7, <1>8, <1>9 DEF HostNext

(* The struct hc and the sockets always hold values of their types,         *)
(* whatever the guest does.                                                 *)
THEOREM HostTypeCorrect == HostSpec => []HostTypeOK
BY HostInitType, HostNextType, PTL DEF HostSpec
-----------------------------------------------------------------------------
(* What each function does to the command and to the ring.                  *)

SameCommand(g, h) ==
    /\ g.initialised = h.initialised
    /\ g.cmd_pending = h.cmd_pending
    /\ g.cmd_inflight = h.cmd_inflight
    /\ g.cmd_line = h.cmd_line
    /\ g.orphaned = h.orphaned

SameRing(g, h) == g.ring = h.ring /\ g.used = h.used /\ g.client = h.client

(* hc_push_frame changes only the ring. *)
LEMMA PushFrameCommand ==
    ASSUME NEW h \in HostCmdState, NEW f
    PROVE  /\ SameCommand(PushFrame(h, f), h)
           /\ PushFrame(h, f).client = h.client
BY Zenon DEF PushFrame, SameCommand, HostCmdState

LEMMA InternalFinishCommand ==
    ASSUME NEW h \in HostCmdState, NEW s
    PROVE  /\ SameCommand(InternalFinish(h, s), h)
           /\ SameRing(InternalFinish(h, s), h)
BY Zenon DEF InternalFinish, SameCommand, SameRing, HostCmdState

LEMMA ExpireCommand ==
    ASSUME NEW h \in HostCmdState
    PROVE  IF GivenUp(h)
             THEN /\ ~Busy(Expire(h))
                  /\ Expire(h).initialised = h.initialised
                  /\ Expire(h).orphaned = h.orphaned
             ELSE Expire(h) = h
<1> DEFINE g == [h EXCEPT !.cmd_pending = FALSE, !.cmd_line = None]
<1>1. g \in HostCmdState
  BY Zenon DEF HostCmdState
<1>2. ~g.cmd_pending /\ g.cmd_inflight = h.cmd_inflight
      /\ g.orphaned = h.orphaned /\ g.initialised = h.initialised
  BY Zenon DEF HostCmdState
<1>3. PushFrame(g, Notice) \in HostCmdState
  BY <1>1, FrameTypes, PushFrameType, Zenon
<1>4. SameCommand(PushFrame(PushFrame(g, Notice), Done(h.cmd_line)), g)
  <2> DEFINE a == PushFrame(g, Notice)
             b == PushFrame(a, Done(h.cmd_line))
  <2>1. SameCommand(a, g) /\ SameCommand(b, a)
    BY <1>1, <1>3, PushFrameCommand, Zenon
  <2> HIDE DEF a, g
  <2>2. SameCommand(b, g)
    BY <2>1, Zenon DEF SameCommand
  <2>3. QED  BY <2>2, Zenon DEF a
<1>5. SameCommand(InternalFinish(g, None), g)
  BY <1>1, InternalFinishCommand, Zenon
<1> HIDE DEF g
<1>6. QED
  BY <1>2, <1>4, <1>5, Zenon DEF Expire, GivenUp, SameCommand, Busy, g

LEMMA DropClientCommand ==
    ASSUME NEW h \in HostCmdState
    PROVE  /\ ~DropClient(h).cmd_pending
           /\ DropClient(h).cmd_line = h.cmd_line
           /\ DropClient(h).client = None
           /\ DropClient(h).initialised = h.initialised
           /\ IF h.cmd_inflight /\ ~h.internal_active
                THEN /\ ~DropClient(h).cmd_inflight
                     /\ DropClient(h).orphaned = h.orphaned + 1
                ELSE /\ DropClient(h).cmd_inflight = h.cmd_inflight
                     /\ DropClient(h).orphaned = h.orphaned
<1> DEFINE g == [h EXCEPT !.client = None, !.in_buf = None,
                          !.in_overflow = FALSE, !.ring = <<>>, !.used = 0,
                          !.cmd_pending = FALSE]
<1>1. <<>> \in Seq(Frame) /\ 0 \in Int
  OBVIOUS
<1>2. g \in HostCmdState
  BY <1>1, Zenon DEF HostCmdState
<1>3. /\ ~g.cmd_pending /\ g.cmd_inflight = h.cmd_inflight
      /\ g.cmd_line = h.cmd_line /\ g.orphaned = h.orphaned /\ g.client = None
      /\ g.initialised = h.initialised
  BY Zenon DEF HostCmdState
<1> HIDE DEF g
<1>4. /\ ~Orphan(g).cmd_pending /\ ~Orphan(g).cmd_inflight
      /\ Orphan(g).cmd_line = g.cmd_line /\ Orphan(g).client = None
      /\ Orphan(g).orphaned = g.orphaned + 1
      /\ Orphan(g).initialised = g.initialised
  BY <1>2, <1>3, Zenon DEF Orphan, HostCmdState
<1>5. QED  BY <1>3, <1>4, Zenon DEF DropClient, g

LEMMA InternalAbandonCommand ==
    ASSUME NEW h \in HostCmdState
    PROVE  IF ~h.internal_active THEN InternalAbandon(h) = h
           ELSE IF h.cmd_pending
             THEN /\ ~InternalAbandon(h).cmd_pending
                  /\ InternalAbandon(h).cmd_inflight = h.cmd_inflight
                  /\ InternalAbandon(h).orphaned = h.orphaned
                  /\ InternalAbandon(h).initialised = h.initialised
           ELSE /\ InternalAbandon(h).cmd_pending = h.cmd_pending
                /\ ~InternalAbandon(h).cmd_inflight
                /\ InternalAbandon(h).orphaned =
                      IF h.cmd_inflight THEN h.orphaned + 1 ELSE h.orphaned
                /\ InternalAbandon(h).initialised = h.initialised
<1> DEFINE silent == [h EXCEPT !.internal_done = None]
           unqueued == [silent EXCEPT !.cmd_pending = FALSE, !.cmd_line = None]
           freed == IF h.cmd_pending THEN unqueued
                    ELSE IF h.cmd_inflight THEN Orphan(silent) ELSE silent
<1>1. silent \in HostCmdState /\ SameCommand(silent, h)
  BY Zenon DEF HostCmdState, SameCommand
<1> HIDE DEF silent
<1>2. /\ unqueued \in HostCmdState /\ ~unqueued.cmd_pending
      /\ unqueued.cmd_inflight = h.cmd_inflight
      /\ unqueued.orphaned = h.orphaned
      /\ unqueued.initialised = h.initialised
  BY <1>1, ZenonT(40) DEF HostCmdState, SameCommand
<1>3. /\ Orphan(silent).cmd_pending = h.cmd_pending
      /\ ~Orphan(silent).cmd_inflight
      /\ Orphan(silent).orphaned = h.orphaned + 1
      /\ Orphan(silent).initialised = h.initialised
  BY <1>1, Zenon DEF Orphan, HostCmdState, SameCommand
<1>4. Orphan(silent) \in HostCmdState
  BY <1>1, OrphanType, Zenon
<1> HIDE DEF unqueued
<1>5. freed \in HostCmdState
  BY <1>1, <1>2, <1>4, Zenon
<1>6. SameCommand(InternalFinish(freed, None), freed)
  BY <1>5, InternalFinishCommand, Zenon
<1>7. CASE ~h.internal_active
  BY <1>7, Zenon DEF InternalAbandon
<1>8. CASE h.internal_active /\ h.cmd_pending
  <2>1. InternalAbandon(h) = InternalFinish(unqueued, None) /\ freed = unqueued
    BY <1>8, Zenon DEF InternalAbandon, unqueued, silent
  <2>2. QED  BY <1>2, <1>6, <1>8, <2>1, Zenon DEF SameCommand
<1>9. CASE h.internal_active /\ ~h.cmd_pending /\ h.cmd_inflight
  <2>1. InternalAbandon(h) = InternalFinish(Orphan(silent), None)
        /\ freed = Orphan(silent)
    BY <1>9, Zenon DEF InternalAbandon, silent
  <2>2. QED  BY <1>3, <1>6, <1>9, <2>1, Zenon DEF SameCommand
<1>10. CASE h.internal_active /\ ~h.cmd_pending /\ ~h.cmd_inflight
  <2>1. InternalAbandon(h) = InternalFinish(silent, None) /\ freed = silent
    BY <1>10, Zenon DEF InternalAbandon, silent
  <2>2. QED  BY <1>1, <1>6, <1>10, <2>1, Zenon DEF SameCommand
<1>11. QED  BY <1>7, <1>8, <1>9, <1>10, Zenon

LEMMA SwiPollCommand ==
    ASSUME NEW h \in HostCmdState, NEW fits \in BOOLEAN
    PROVE  /\ SwiPoll(h, fits).cmd_line = h.cmd_line
           /\ SwiPoll(h, fits).orphaned = h.orphaned
           /\ SwiPoll(h, fits).initialised = h.initialised
           /\ IF Deliverable(h) /\ fits
                THEN ~SwiPoll(h, fits).cmd_pending /\ SwiPoll(h, fits).cmd_inflight
                ELSE SameCommand(SwiPoll(h, fits), h)
<1> DEFINE g == [h EXCEPT !.registered = TRUE, !.seen_age = 0]
<1>1. 0 \in 0 .. GuestQuiet
  BY SizeAssumption
<1>2. g \in HostCmdState /\ SameCommand(g, h)
  BY <1>1, Zenon DEF HostCmdState, SameCommand
<1> HIDE DEF g
<1>3. /\ ~[g EXCEPT !.cmd_pending = FALSE, !.cmd_inflight = TRUE].cmd_pending
      /\ [g EXCEPT !.cmd_pending = FALSE, !.cmd_inflight = TRUE].cmd_inflight
      /\ [g EXCEPT !.cmd_pending = FALSE, !.cmd_inflight = TRUE].cmd_line = h.cmd_line
      /\ [g EXCEPT !.cmd_pending = FALSE, !.cmd_inflight = TRUE].orphaned = h.orphaned
      /\ [g EXCEPT !.cmd_pending = FALSE, !.cmd_inflight = TRUE].initialised
            = h.initialised
  BY <1>2, Zenon DEF HostCmdState, SameCommand
<1>4. QED  BY <1>2, <1>3, Zenon DEF SwiPoll, SameCommand, g

LEMMA SwiStatusEndCommand ==
    ASSUME NEW h \in HostCmdState, NEW c \in Cmd \union {None}
    PROVE  /\ SwiStatusEnd(h, c).cmd_pending = h.cmd_pending
           /\ SwiStatusEnd(h, c).cmd_line = h.cmd_line
           /\ ~SwiStatusEnd(h, c).cmd_inflight
           /\ SwiStatusEnd(h, c).initialised = h.initialised
           /\ SwiStatusEnd(h, c).orphaned =
                 IF ~h.cmd_inflight /\ h.orphaned > 0 THEN h.orphaned - 1
                                                      ELSE h.orphaned
<1> DEFINE e == [h EXCEPT !.cmd_inflight = FALSE]
           p == PushFrame(h, Done(c))
<1>1. e \in HostCmdState /\ e.cmd_pending = h.cmd_pending /\ ~e.cmd_inflight
      /\ e.cmd_line = h.cmd_line /\ e.orphaned = h.orphaned
      /\ e.initialised = h.initialised
  BY Zenon DEF HostCmdState
<1>2. p \in HostCmdState /\ SameCommand(p, h)
  BY FrameTypes, PushFrameType, PushFrameCommand, Zenon
<1> HIDE DEF e, p
<1>3. SameCommand(InternalFinish(e, c), e)
  BY <1>1, InternalFinishCommand, Zenon
<1>4. /\ [p EXCEPT !.cmd_inflight = FALSE].cmd_pending = h.cmd_pending
      /\ [p EXCEPT !.cmd_inflight = FALSE].cmd_line = h.cmd_line
      /\ [p EXCEPT !.cmd_inflight = FALSE].orphaned = h.orphaned
      /\ [p EXCEPT !.cmd_inflight = FALSE].initialised = h.initialised
      /\ ~[p EXCEPT !.cmd_inflight = FALSE].cmd_inflight
  BY <1>2, Zenon DEF HostCmdState, SameCommand
<1>5. /\ [h EXCEPT !.orphaned = @ - 1].cmd_pending = h.cmd_pending
      /\ [h EXCEPT !.orphaned = @ - 1].cmd_line = h.cmd_line
      /\ [h EXCEPT !.orphaned = @ - 1].cmd_inflight = h.cmd_inflight
      /\ [h EXCEPT !.orphaned = @ - 1].orphaned = h.orphaned - 1
      /\ [h EXCEPT !.orphaned = @ - 1].initialised = h.initialised
  BY Zenon DEF HostCmdState
<1>6. QED  BY <1>1, <1>3, <1>4, <1>5, Zenon DEF SwiStatusEnd, SameCommand, e, p

LEMMA ResetStateCommand ==
    ASSUME NEW h \in HostCmdState, h.initialised
    PROVE  /\ ~Busy(ResetState(h)) /\ ResetState(h).orphaned = 0
           /\ ResetState(h).initialised
<1> DEFINE told == IF h.client # None /\ h.cmd_inflight
                     THEN PushFrame(PushFrame(h, Notice), Done(h.cmd_line))
                     ELSE h
           idle == [told EXCEPT !.cmd_pending = FALSE, !.cmd_inflight = FALSE,
                                !.cmd_line = None, !.orphaned = 0,
                                !.registered = FALSE]
           quiet == [idle EXCEPT !.internal_done = None]
<1>1. h.cmd_line \in Cmd \union {None}
  BY Zenon DEF HostCmdState
<1>2. told \in HostCmdState /\ told.initialised
  <2>1. PushFrame(h, Notice) \in HostCmdState
        /\ PushFrame(PushFrame(h, Notice), Done(h.cmd_line)) \in HostCmdState
    BY <1>1, FrameTypes, PushFrameType, Zenon
  <2>2. /\ PushFrame(h, Notice).initialised
        /\ PushFrame(PushFrame(h, Notice), Done(h.cmd_line)).initialised
    BY <2>1, PushFrameCommand, Zenon DEF SameCommand
  <2>3. QED  BY <2>1, <2>2, Zenon
<1> HIDE DEF told
<1>3. 0 \in Nat
  OBVIOUS
<1>4. idle \in HostCmdState /\ ~Busy(idle) /\ idle.orphaned = 0
      /\ idle.initialised
  <2>1. idle \in HostCmdState
    BY <1>2, <1>3, ZenonT(40) DEF HostCmdState
  <2>2. ~idle.cmd_pending /\ ~idle.cmd_inflight /\ idle.orphaned = 0
        /\ idle.initialised
    BY <1>2, Zenon DEF HostCmdState
  <2>3. QED  BY <2>1, <2>2, Zenon DEF Busy
<1> HIDE DEF idle
<1>5. quiet \in HostCmdState /\ SameCommand(quiet, idle)
  BY <1>4, ZenonT(40) DEF HostCmdState, SameCommand
<1> HIDE DEF quiet
<1>6. SameCommand(InternalFinish(quiet, None), quiet)
  BY <1>5, InternalFinishCommand, Zenon
<1>7. ResetState(h) \in {idle, InternalFinish(quiet, None)}
  BY Zenon DEF ResetState, quiet, idle, told
<1>8. QED  BY <1>4, <1>5, <1>6, <1>7, Zenon DEF SameCommand, Busy

LEMMA ReadItemCommand ==
    ASSUME NEW h \in HostCmdState, NEW b
    PROVE  \/ SameCommand(ReadItem(h, b), h)
           \/ /\ ~Busy(h)
              /\ ~ReadItem(h, b).cmd_inflight
              /\ ReadItem(h, b).orphaned = h.orphaned
              /\ ReadItem(h, b).initialised = h.initialised
              /\ ReadItem(h, b).cmd_line \in Cmd
<1> DEFINE g == [h EXCEPT !.in_buf = None]
           drop == [h EXCEPT !.in_overflow = FALSE]
           queued == [g EXCEPT !.cmd_line = h.in_buf, !.cmd_pending = TRUE,
                               !.queued_age = 0]
<1>1. /\ g \in HostCmdState /\ SameCommand(g, h)
      /\ drop \in HostCmdState /\ SameCommand(drop, h)
  BY Zenon DEF HostCmdState, SameCommand
<1> HIDE DEF g, drop
<1>2. queued.cmd_inflight = h.cmd_inflight /\ queued.orphaned = h.orphaned
      /\ queued.initialised = h.initialised
      /\ queued.cmd_line = h.in_buf
  BY <1>1, Zenon DEF HostCmdState, SameCommand
<1>3. SameCommand(PushFrame(g, Notice), g) /\ SameCommand(PushFrame(drop, Notice), drop)
  BY <1>1, PushFrameCommand, Zenon
<1> HIDE DEF queued
<1>4. \/ SameCommand(EndOfLine(h), h)
      \/ ~Busy(h) /\ EndOfLine(h) = queued /\ h.in_buf # None
  BY <1>1, <1>3, Zenon DEF EndOfLine, SameCommand, g, drop, queued
<1>5. /\ SameCommand([h EXCEPT !.in_overflow = TRUE, !.in_buf = None], h)
      /\ SameCommand([h EXCEPT !.in_buf = b], h)
      /\ SameCommand(h, h)
  BY Zenon DEF HostCmdState, SameCommand
<1>6. h.in_buf # None => h.in_buf \in Cmd
  BY Zenon DEF HostCmdState
<1>7. QED  BY <1>2, <1>4, <1>5, <1>6, Zenon DEF ReadItem, Busy

(* The remaining functions leave the command alone. *)
LEMMA OtherCommand ==
    ASSUME NEW h \in HostCmdState
    PROVE  /\ SameCommand(SwiRegister(h), h)
           /\ \A data : SameCommand(SwiOutput(h, data), h)
           /\ \A n : SameCommand(SendBytes(h, n), h)
<1>1. \A data : SameCommand(Capture(h, data), h)
  BY Zenon DEF Capture, HostCmdState, SameCommand
<1>2. \A data : SameCommand(SwiOutput(h, data), h)
  BY <1>1, PushFrameCommand, Zenon DEF SwiOutput, SameCommand
<1>3. \A n : SameCommand(SendBytes(h, n), h)
  BY Zenon DEF SendBytes, HostCmdState, SameCommand
<1>4. QED
  BY <1>2, <1>3, Zenon DEF SwiRegister, HostCmdState, SameCommand

LEMMA AcceptClientCommand ==
    ASSUME NEW h \in HostCmdState, NEW c \in Conn
    PROVE  SameCommand(AcceptClient(h, c), h)
<1> DEFINE g == [h EXCEPT !.client = c, !.in_buf = None,
                          !.in_overflow = FALSE, !.ring = <<>>, !.used = 0]
<1>1. <<>> \in Seq(Frame) /\ 0 \in Int
  OBVIOUS
<1>2. g \in HostCmdState /\ SameCommand(g, h)
  BY <1>1, Zenon DEF HostCmdState, SameCommand
<1> HIDE DEF g
<1>3. SameCommand(PushFrame(g, Notice), g)
  BY <1>2, PushFrameCommand, Zenon
<1>4. QED  BY <1>2, <1>3, Zenon DEF AcceptClient, SameCommand, g
-----------------------------------------------------------------------------
(* A step from h to g that queues nothing: a command is busy after it only  *)
(* if it was busy before, under the same line, and still in one place.      *)
QueuesNothing(h, g) ==
    /\ Busy(g) => Busy(h) /\ g.cmd_line = h.cmd_line
    /\ ~(h.cmd_pending /\ h.cmd_inflight) => ~(g.cmd_pending /\ g.cmd_inflight)

LEMMA SameQueuesNothing ==
    \A h, g : SameCommand(g, h) => QueuesNothing(h, g)
BY Zenon DEF SameCommand, QueuesNothing, Busy

LEMMA ExpireQueuesNothing ==
    ASSUME NEW h \in HostCmdState
    PROVE  QueuesNothing(h, Expire(h))
BY ExpireCommand, Zenon DEF QueuesNothing, Busy

LEMMA DropQueuesNothing ==
    ASSUME NEW h \in HostCmdState
    PROVE  QueuesNothing(h, DropClient(h))
BY DropClientCommand, Zenon DEF QueuesNothing, Busy

(* hostcmd_poll queues nothing, except a line it reads when it is idle. *)
LEMMA ServiceQueues ==
    ASSUME HostTypeOK, Service
    PROVE  \/ QueuesNothing(hc, hc')
           \/ ~Busy(hc) /\ ~hc'.cmd_inflight /\ hc'.cmd_line \in Cmd
<1> DEFINE h == Expire(hc)
<1>1. hc \in HostCmdState /\ h \in HostCmdState
  BY ExpireType, Zenon DEF HostTypeOK
<1>2. QueuesNothing(hc, h) /\ QueuesNothing(h, DropClient(h))
  BY <1>1, ExpireQueuesNothing, DropQueuesNothing, Zenon
<1> HIDE DEF h
<1>3. CASE PollHup \/ PollWriteFails
  <2>1. hc' = DropClient(h)
    BY <1>3, Zenon DEF PollHup, PollWriteFails, Emulator, h
  <2>2. QED  BY <1>2, <2>1, Zenon DEF QueuesNothing
<1>4. CASE PollAccept
  <2>1. hc' = AcceptClient(h, Head(backlog)) /\ backlog # <<>>
    BY <1>4, Zenon DEF PollAccept, Emulator, h
  <2>2. Head(backlog) \in Conn
    BY <2>1 DEF HostTypeOK
  <2>3. QueuesNothing(h, hc')
    BY <1>1, <2>1, <2>2, AcceptClientCommand, SameQueuesNothing, Zenon
  <2>4. QED  BY <1>2, <2>3, Zenon DEF QueuesNothing
<1>5. CASE PollRead
  <2>1. hc' = h \/ hc' = DropClient(h)
    BY <1>5, Zenon DEF PollRead, Emulator, h
  <2>2. QED  BY <1>2, <2>1, Zenon DEF QueuesNothing
<1>6. CASE ReadLoop
  BY <1>1, <1>6, ReadItemCommand, SameQueuesNothing, Zenon DEF ReadLoop
<1>7. CASE \E n \in 1 .. RingSize : PollWrite(n)
  <2>1. PICK n : hc' = SendBytes(h, n)
    BY <1>7, Zenon DEF PollWrite, Emulator, h
  <2>2. QueuesNothing(h, hc')
    BY <1>1, <2>1, OtherCommand, SameQueuesNothing, Zenon
  <2>3. QED  BY <1>2, <2>2, Zenon DEF QueuesNothing
<1>8. CASE PollQuiet
  BY <1>2, <1>8, Zenon DEF PollQuiet, Emulator, h
<1>9. QED
  BY <1>3, <1>4, <1>5, <1>6, <1>7, <1>8, Zenon DEF Service, QueuesNothing

(* The same of any step: a command is queued only when none is busy.        *)
LEMMA StepQueues ==
    ASSUME HostTypeOK, CommandInOnePlace, [HostNext]_hostVars
    PROVE  \/ QueuesNothing(hc, hc')
           \/ ~Busy(hc) /\ ~hc'.cmd_inflight /\ hc'.cmd_line \in Cmd
<1>0. hc \in HostCmdState /\ hc.cmd_line \in Cmd \union {None}
  BY Zenon DEF HostTypeOK, HostCmdState
<1>1. CASE Service
  BY <1>1, ServiceQueues
<1>2. CASE Clients \/ UNCHANGED hostVars
  <2>1. hc' = hc
    BY <1>2, Zenon
       DEF Clients, Connect, Hangup, SendLine, TypeAhead, hostVars
  <2>2. QED  BY <2>1, Zenon DEF QueuesNothing
<1>3. CASE AnyGuest
  <2>1. \A fits \in BOOLEAN : QueuesNothing(hc, SwiPoll(hc, fits))
    <3> SUFFICES ASSUME NEW fits \in BOOLEAN
                 PROVE  QueuesNothing(hc, SwiPoll(hc, fits))
      OBVIOUS
    <3> DEFINE g == SwiPoll(hc, fits)
    <3> HIDE DEF g
    <3>1. /\ g.cmd_line = hc.cmd_line
          /\ IF Deliverable(hc) /\ fits THEN ~g.cmd_pending /\ g.cmd_inflight
                                        ELSE SameCommand(g, hc)
      BY <1>0, SwiPollCommand, Zenon DEF g
    <3>2. CASE Deliverable(hc) /\ fits
      BY <3>1, <3>2, Zenon DEF QueuesNothing, Busy, Deliverable, g
    <3>3. CASE ~(Deliverable(hc) /\ fits)
      BY <3>1, <3>3, SameQueuesNothing, Zenon DEF g
    <3>4. QED  BY <3>2, <3>3
  <2>2. QueuesNothing(hc, SwiStatusEnd(hc, hc.cmd_line))
    BY <1>0, SwiStatusEndCommand, Zenon DEF QueuesNothing, Busy
  <2>3. QueuesNothing(hc, SwiRegister(hc))
        /\ \A data : QueuesNothing(hc, SwiOutput(hc, data))
    BY <1>0, OtherCommand, SameQueuesNothing, Zenon
  <2>4. QED  BY <1>3, <2>1, <2>2, <2>3, Zenon DEF AnyGuest, Emulator
<1>4. CASE SubmitFresh
  <2>1. PICK c \in InternalCmd : hc' = InternalSubmit(hc, c) /\ ~Busy(hc)
    BY <1>4, Zenon DEF SubmitFresh, CanSubmit, Emulator
  <2>2. ~InternalSubmit(hc, c).cmd_inflight
        /\ InternalSubmit(hc, c).cmd_line = c
    BY <1>0, Zenon DEF InternalSubmit, HostCmdState
  <2>3. QED  BY <2>1, <2>2, IdentityAssumption
<1>5. CASE Abandon
  <2>1. hc' = InternalAbandon(hc)
    BY <1>5, Zenon DEF Abandon, Emulator
  <2>2. InternalAbandon(hc) = hc \/ ~Busy(InternalAbandon(hc))
    BY <1>0, InternalAbandonCommand, Zenon DEF Busy, CommandInOnePlace
  <2>3. QED  BY <2>1, <2>2, Zenon DEF QueuesNothing, Busy
<1>6. CASE HostReset
  <2>1. CASE hc.initialised
    BY <1>0, <1>6, <2>1, ResetStateCommand, Zenon
       DEF HostReset, Emulator, QueuesNothing, Busy
  <2>2. CASE ~hc.initialised
    BY <1>6, <2>2, Zenon DEF HostReset, Emulator, ResetState, QueuesNothing
  <2>3. QED  BY <2>1, <2>2
<1>7. CASE Close
  <2>1. /\ hc'.cmd_pending = hc.cmd_pending
        /\ hc'.cmd_inflight = hc.cmd_inflight /\ hc'.cmd_line = hc.cmd_line
    BY <1>0, <1>7, Zenon DEF Close, CloseState, Emulator, HostCmdState
  <2>2. QED  BY <2>1, Zenon DEF QueuesNothing, Busy
<1>8. CASE Tick
  <2>1. SameCommand(hc', hc)
    BY <1>0, <1>8, Zenon DEF Tick, HostCmdState, SameCommand
  <2>2. QED  BY <2>1, SameQueuesNothing, Zenon
<1>9. QED
  BY <1>1, <1>2, <1>3, <1>4, <1>5, <1>6, <1>7, <1>8 DEF HostNext

(* A command is never queued and with the guest at once, whatever the guest *)
(* does.                                                                    *)
THEOREM OnePlaceForACommand == HostSpec => []CommandInOnePlace
<1>1. HostInit => CommandInOnePlace
  <2>1. ~InitialState.cmd_pending
        /\ ~[InitialState EXCEPT !.listening = FALSE].cmd_pending
    BY Zenon DEF InitialState
  <2>2. QED  BY <2>1, Zenon DEF HostInit, CommandInOnePlace
<1>2. HostTypeOK /\ CommandInOnePlace /\ [HostNext]_hostVars => CommandInOnePlace'
  BY StepQueues, Zenon DEF QueuesNothing, CommandInOnePlace
<1>3. QED  BY <1>1, <1>2, HostTypeCorrect, PTL DEF HostSpec

(* A queued or running command is never written over. *)
THEOREM CommandsNeverOverwritten == HostSpec => NeverOverwritten
<1>1. HostTypeOK /\ CommandInOnePlace /\ [HostNext]_hostVars
         => [Busy(hc) /\ Busy(hc)' => hc'.cmd_line = hc.cmd_line]_hostVars
  BY StepQueues, Zenon DEF QueuesNothing
<1>2. QED
  BY <1>1, HostTypeCorrect, OnePlaceForACommand, PTL
     DEF HostSpec, NeverOverwritten
-----------------------------------------------------------------------------
(* The ring's accounting.  acc[i] is the number of bytes that the first i   *)
(* frames still hold; the last of these running totals is hc_ring_used.     *)
IsTotals(acc, ring, used) ==
    /\ acc \in [0 .. Len(ring) -> Nat]
    /\ acc[0] = 0
    /\ \A i \in 1 .. Len(ring) : ring[i].left >= 1
                                /\ acc[i] = acc[i - 1] + ring[i].left
    /\ \A i, j \in 0 .. Len(ring) : i =< j => acc[i] =< acc[j]
    /\ used = acc[Len(ring)]

Totalled(ring, used) == \E acc : IsTotals(acc, ring, used)

(* A frame behind the others adds its length. *)
LEMMA PushTotals ==
    ASSUME NEW ring \in Seq(Frame), NEW used \in Int, NEW f \in Frame,
           f.left >= 1, Totalled(ring, used)
    PROVE  Totalled(Append(ring, f), used + f.left)
<1>1. PICK acc : IsTotals(acc, ring, used)
  BY Zenon DEF Totalled
<1> DEFINE n == Len(ring)
           r == Append(ring, f)
           b == [i \in 0 .. n + 1 |-> IF i =< n THEN acc[i] ELSE acc[n] + f.left]
<1>2. f.left \in Nat /\ n \in Nat
  BY DEF Frame
<1>3. Len(r) = n + 1 /\ r[n + 1] = f /\ \A i \in 1 .. n : r[i] = ring[i]
  OBVIOUS
<1>4. /\ acc \in [0 .. n -> Nat] /\ acc[0] = 0 /\ used = acc[n]
      /\ \A i \in 1 .. n : ring[i].left >= 1 /\ acc[i] = acc[i - 1] + ring[i].left
      /\ \A i, j \in 0 .. n : i =< j => acc[i] =< acc[j]
  BY <1>1, Zenon DEF IsTotals
<1> HIDE DEF n, r
<1>5. /\ b \in [0 .. n + 1 -> Nat] /\ b[0] = 0 /\ b[n + 1] = used + f.left
      /\ \A i \in 0 .. n : b[i] = acc[i]
  BY <1>2, <1>4
<1> HIDE DEF b
<1>6. \A i \in 1 .. n + 1 : r[i].left >= 1 /\ b[i] = b[i - 1] + r[i].left
  <2> SUFFICES ASSUME NEW i \in 1 .. n + 1
               PROVE  r[i].left >= 1 /\ b[i] = b[i - 1] + r[i].left
    OBVIOUS
  <2>1. CASE i = n + 1
    BY <1>2, <1>3, <1>4, <1>5, <2>1
  <2>2. CASE i \in 1 .. n
    <3>1. i \in 0 .. n /\ i - 1 \in 0 .. n
      BY <1>2, <2>2
    <3>2. b[i] = acc[i] /\ b[i - 1] = acc[i - 1] /\ r[i] = ring[i]
      BY <1>3, <1>5, <2>2, <3>1, Zenon
    <3>3. QED  BY <1>4, <2>2, <3>2, Zenon
  <2>3. QED  BY <1>2, <2>1, <2>2
<1>7. \A i, j \in 0 .. n + 1 : i =< j => b[i] =< b[j]
  <2> SUFFICES ASSUME NEW i \in 0 .. n + 1, NEW j \in 0 .. n + 1, i =< j
               PROVE  b[i] =< b[j]
    OBVIOUS
  <2>1. CASE j \in 0 .. n
    <3>1. i \in 0 .. n
      BY <1>2, <2>1
    <3>2. QED  BY <1>4, <1>5, <2>1, <3>1, Zenon
  <2>2. CASE i \in 0 .. n /\ j = n + 1
    <3>1. acc[i] =< acc[n] /\ b[i] = acc[i] /\ acc[i] \in Nat /\ acc[n] \in Nat
      BY <1>2, <1>4, <1>5, <2>2
    <3>2. b[j] = acc[n] + f.left
      BY <1>4, <1>5, <2>2
    <3>3. QED  BY <1>2, <3>1, <3>2
  <2>3. CASE i = n + 1 /\ j = n + 1
    <3>1. b[i] \in Nat
      BY <1>5
    <3>2. QED  BY <2>3, <3>1
  <2>4. QED  BY <1>2, <2>1, <2>2, <2>3
<1>8. IsTotals(b, r, used + f.left)
  BY <1>2, <1>3, <1>5, <1>6, <1>7 DEF IsTotals
<1>9. QED  BY <1>8, Zenon DEF Totalled, r

(* Taking the whole of the oldest frame leaves the totals of the rest. *)
LEMMA PopTotals ==
    ASSUME NEW ring \in Seq(Frame), NEW used \in Int, ring # <<>>,
           Totalled(ring, used)
    PROVE  Totalled(Tail(ring), used - Head(ring).left)
<1>1. PICK acc : IsTotals(acc, ring, used)
  BY Zenon DEF Totalled
<1> DEFINE n == Len(ring)
           r == Tail(ring)
           b == [i \in 0 .. n - 1 |-> acc[i + 1] - acc[1]]
<1>2. n \in Nat \ {0} /\ Head(ring) = ring[1]
  OBVIOUS
<1>3. Len(r) = n - 1 /\ \A i \in 1 .. n - 1 : r[i] = ring[i + 1]
  OBVIOUS
<1>4. /\ acc \in [0 .. n -> Nat] /\ acc[0] = 0 /\ used = acc[n]
      /\ \A i \in 1 .. n : ring[i].left >= 1 /\ acc[i] = acc[i - 1] + ring[i].left
      /\ \A i, j \in 0 .. n : i =< j => acc[i] =< acc[j]
  BY <1>1, Zenon DEF IsTotals
<1>5. \A i \in 1 .. n : ring[i].left \in Nat
  <2>1. \A i \in 1 .. n : ring[i] \in Frame
    OBVIOUS
  <2>2. QED  BY <2>1, Zenon DEF Frame
<1> HIDE DEF n, r
<1>6. acc[1] = ring[1].left
  BY <1>2, <1>4, <1>5
<1>7. /\ b \in [0 .. n - 1 -> Nat] /\ b[0] = 0
      /\ b[n - 1] = used - ring[1].left
      /\ \A i \in 0 .. n - 1 : b[i] = acc[i + 1] - acc[1]
  <2>1. \A i \in 0 .. n - 1 : i + 1 \in 0 .. n /\ 1 \in 0 .. n /\ 1 =< i + 1
    BY <1>2
  <2>2. \A i \in 0 .. n - 1 : acc[i + 1] \in Nat /\ acc[1] \in Nat
                              /\ acc[1] =< acc[i + 1]
    BY <1>4, <2>1, Zenon
  <2>3. \A i \in 0 .. n - 1 : acc[i + 1] - acc[1] \in Nat
    BY <2>2
  <2>4. b \in [0 .. n - 1 -> Nat]
    BY <2>3, Zenon
  <2>5. 0 \in 0 .. n - 1 /\ n - 1 \in 0 .. n - 1 /\ 0 + 1 = 1 /\ (n - 1) + 1 = n
    BY <1>2
  <2>6. b[0] = acc[1] - acc[1] /\ b[n - 1] = acc[n] - acc[1]
    BY <2>5
  <2>7. acc[1] - acc[1] = 0
    BY <2>2, <2>5
  <2>8. QED  BY <1>4, <1>6, <2>4, <2>6, <2>7
<1> HIDE DEF b
<1>8. \A i \in 1 .. n - 1 : r[i].left >= 1 /\ b[i] = b[i - 1] + r[i].left
  <2> SUFFICES ASSUME NEW i \in 1 .. n - 1
               PROVE  r[i].left >= 1 /\ b[i] = b[i - 1] + r[i].left
    OBVIOUS
  <2>1. acc[i + 1] = acc[i] + ring[i + 1].left /\ ring[i + 1].left >= 1
    BY <1>2, <1>4
  <2>2. b[i] = acc[i + 1] - acc[1] /\ b[i - 1] = acc[i] - acc[1]
    BY <1>2, <1>7
  <2>3. acc[i] \in Nat /\ acc[i + 1] \in Nat /\ acc[1] \in Nat
        /\ ring[i + 1].left \in Nat /\ r[i] = ring[i + 1]
    BY <1>2, <1>3, <1>4, <1>5
  <2>4. QED  BY SMTT(30), <2>1, <2>2, <2>3
<1>9. \A i, j \in 0 .. n - 1 : i =< j => b[i] =< b[j]
  <2> SUFFICES ASSUME NEW i \in 0 .. n - 1, NEW j \in 0 .. n - 1, i =< j
               PROVE  b[i] =< b[j]
    OBVIOUS
  <2>1. i + 1 \in 0 .. n /\ j + 1 \in 0 .. n /\ i + 1 =< j + 1 /\ 1 \in 0 .. n
    BY <1>2
  <2>2. acc[i + 1] =< acc[j + 1] /\ acc[i + 1] \in Nat /\ acc[j + 1] \in Nat
        /\ acc[1] \in Nat
    BY <1>4, <2>1, Zenon
  <2>3. QED  BY SMTT(30), <1>7, <2>2
<1>10. IsTotals(b, r, used - ring[1].left)
  BY <1>2, <1>3, <1>7, <1>8, <1>9 DEF IsTotals
<1>11. QED  BY <1>2, <1>10, Zenon DEF Totalled, r

(* Taking n bytes of the oldest frame, but not all of it, takes n off every *)
(* total but the first.                                                     *)
LEMMA PartTotals ==
    ASSUME NEW ring \in Seq(Frame), NEW used \in Int, ring # <<>>,
           Totalled(ring, used), NEW k \in Nat, k < Head(ring).left
    PROVE  Totalled(<<[Head(ring) EXCEPT !.left = @ - k]>> \o Tail(ring),
                    used - k)
<1>1. PICK acc : IsTotals(acc, ring, used)
  BY Zenon DEF Totalled
<1> DEFINE n == Len(ring)
           head == [Head(ring) EXCEPT !.left = @ - k]
           r == <<head>> \o Tail(ring)
           b == [i \in 0 .. n |-> IF i = 0 THEN 0 ELSE acc[i] - k]
<1>2. n \in Nat \ {0} /\ Head(ring) = ring[1] /\ ring[1] \in Frame
  OBVIOUS
<1>3. head.left = ring[1].left - k
  BY <1>2, Zenon DEF Frame
<1>4. Len(r) = n /\ r[1] = head /\ \A i \in 2 .. n : r[i] = ring[i]
  <2> HIDE DEF head
  <2>1. Tail(ring) \in Seq(Frame) /\ Len(Tail(ring)) = n - 1
        /\ \A i \in 1 .. n - 1 : Tail(ring)[i] = ring[i + 1]
    OBVIOUS
  <2>2. QED  BY <1>2, <2>1
<1>5. /\ acc \in [0 .. n -> Nat] /\ acc[0] = 0 /\ used = acc[n]
      /\ \A i \in 1 .. n : ring[i].left >= 1 /\ acc[i] = acc[i - 1] + ring[i].left
      /\ \A i, j \in 0 .. n : i =< j => acc[i] =< acc[j]
  BY <1>1, Zenon DEF IsTotals
<1>6. \A i \in 1 .. n : ring[i].left \in Nat
  <2>1. \A i \in 1 .. n : ring[i] \in Frame
    OBVIOUS
  <2>2. QED  BY <2>1, Zenon DEF Frame
<1>7. k < ring[1].left
  BY <1>2
<1> HIDE DEF n, r, head
<1>8. acc[1] = ring[1].left
  <2>1. 1 \in 1 .. n /\ 1 - 1 = 0
    BY <1>2
  <2>2. acc[1] = acc[0] + ring[1].left /\ ring[1].left \in Nat
    BY <1>5, <1>6, <2>1
  <2>3. QED  BY <1>5, <2>2
<1>9. \A i \in 1 .. n : acc[i] \in Nat /\ acc[i] - k \in Nat /\ acc[i] - k >= 1
  <2> SUFFICES ASSUME NEW i \in 1 .. n
               PROVE  acc[i] \in Nat /\ acc[i] - k \in Nat /\ acc[i] - k >= 1
    OBVIOUS
  <2>1. 1 \in 0 .. n /\ i \in 0 .. n /\ 1 =< i
    BY <1>2
  <2>2. acc[1] =< acc[i] /\ acc[i] \in Nat
    BY <1>5, <2>1, Zenon
  <2>3. QED  BY SMTT(30), <1>2, <1>6, <1>7, <1>8, <2>2
<1>10. b \in [0 .. n -> Nat] /\ b[0] = 0 /\ \A i \in 1 .. n : b[i] = acc[i] - k
  BY <1>2, <1>9
<1> HIDE DEF b
<1>11. \A i \in 1 .. n : r[i].left >= 1 /\ b[i] = b[i - 1] + r[i].left
  <2> SUFFICES ASSUME NEW i \in 1 .. n
               PROVE  r[i].left >= 1 /\ b[i] = b[i - 1] + r[i].left
    OBVIOUS
  <2>1. CASE i = 1
    BY <1>2, <1>3, <1>4, <1>6, <1>7, <1>8, <1>10, <2>1
  <2>2. CASE i \in 2 .. n
    <3>1. i - 1 \in 1 .. n /\ r[i] = ring[i]
      BY <1>2, <1>4, <2>2
    <3>2. b[i] = acc[i] - k /\ b[i - 1] = acc[i - 1] - k
      BY <1>10, <3>1
    <3>3. acc[i] = acc[i - 1] + ring[i].left /\ ring[i].left >= 1
          /\ acc[i - 1] \in Nat /\ ring[i].left \in Nat
      BY <1>5, <1>6, <1>9, <3>1, Zenon
    <3>4. QED  BY <3>1, <3>2, <3>3
  <2>3. QED  BY <1>2, <2>1, <2>2
<1>12. \A i, j \in 0 .. n : i =< j => b[i] =< b[j]
  <2> SUFFICES ASSUME NEW i \in 0 .. n, NEW j \in 0 .. n, i =< j
               PROVE  b[i] =< b[j]
    OBVIOUS
  <2>1. CASE i = 0
    <3>1. b[j] \in Nat
      BY <1>10
    <3>2. QED  BY <1>10, <2>1, <3>1
  <2>2. CASE i \in 1 .. n
    <3>1. j \in 1 .. n
      BY <1>2, <2>2
    <3>2. acc[i] =< acc[j]
      BY <1>5, Zenon
    <3>3. QED  BY <1>9, <1>10, <2>2, <3>1, <3>2
  <2>3. QED  BY <1>2, <2>1, <2>2
<1>13. b[n] = used - k
  BY <1>2, <1>5, <1>10
<1>14. IsTotals(b, r, used - k)
  BY <1>4, <1>10, <1>11, <1>12, <1>13, Zenon DEF IsTotals
<1>15. QED  BY <1>14, Zenon DEF Totalled, r, head

(* What the totals say of the ring. *)
LEMMA TotalsBound ==
    ASSUME NEW ring \in Seq(Frame), NEW used \in Int, Totalled(ring, used)
    PROVE  /\ used \in Nat
           /\ used = 0 <=> ring = <<>>
           /\ ring # <<>> => ring[1].left \in 1 .. used
<1>1. PICK acc : IsTotals(acc, ring, used)
  BY Zenon DEF Totalled
<1> DEFINE n == Len(ring)
<1>2. /\ acc \in [0 .. n -> Nat] /\ acc[0] = 0 /\ used = acc[n]
      /\ \A i \in 1 .. n : ring[i].left >= 1 /\ acc[i] = acc[i - 1] + ring[i].left
      /\ \A i, j \in 0 .. n : i =< j => acc[i] =< acc[j]
  BY <1>1, Zenon DEF IsTotals
<1>3. n \in Nat
  OBVIOUS
<1>4. CASE ring = <<>>
  BY <1>2, <1>4
<1>5. CASE ring # <<>>
  <2>1. n >= 1 /\ ring[1] \in Frame
    BY <1>5
  <2>2. ring[1].left \in Nat
    BY <2>1, Zenon DEF Frame
  <2> HIDE DEF n
  <2>3. 1 \in 1 .. n /\ 1 - 1 = 0 /\ 1 \in 0 .. n /\ n \in 0 .. n /\ 1 =< n
    BY <1>3, <2>1
  <2>4. acc[1] = acc[0] + ring[1].left /\ ring[1].left >= 1
    BY <1>2, <2>3
  <2>5. acc[1] =< acc[n] /\ acc[n] \in Nat /\ acc[1] \in Nat
    BY <1>2, <2>3, Zenon
  <2>6. QED  BY <1>2, <1>5, <2>2, <2>4, <2>5
<1>6. QED  BY <1>4, <1>5

RingInv(h) == Totalled(h.ring, h.used) /\ h.used =< RingSize - 1

LEMMA EmptyRing ==
    ASSUME NEW h, h.ring = <<>>, h.used = 0
    PROVE  RingInv(h)
<1>1. IsTotals([i \in 0 .. 0 |-> 0], <<>>, 0)
  BY DEF IsTotals
<1>2. QED  BY <1>1, SizeAssumption DEF RingInv, Totalled

LEMMA SameRingInv ==
    \A g, h : SameRing(g, h) /\ RingInv(h) => RingInv(g)
BY Zenon DEF SameRing, RingInv

(* hc_push_frame puts in only what fits. *)
LEMMA PushFrameRing ==
    ASSUME NEW h \in HostCmdState, NEW f \in Frame, f.left >= 1, RingInv(h)
    PROVE  RingInv(PushFrame(h, f))
<1> DEFINE g == [h EXCEPT !.ring = Append(@, f), !.used = @ + f.left]
<1>1. h.ring \in Seq(Frame) /\ h.used \in Int /\ f.left \in Nat
  BY Zenon DEF HostCmdState, Frame
<1>2. g.ring = Append(h.ring, f) /\ g.used = h.used + f.left
  BY Zenon DEF HostCmdState
<1>3. Totalled(Append(h.ring, f), h.used + f.left)
  BY <1>1, PushTotals, Zenon DEF RingInv
<1> HIDE DEF g
<1>4. ~(Free(h) < f.left) => RingInv(g)
  BY <1>1, <1>2, <1>3, SizeAssumption DEF RingInv, Free
<1>5. QED  BY <1>4, Zenon DEF PushFrame, g

(* send() takes bytes from the front only. *)
LEMMA SendBytesRing ==
    ASSUME NEW h \in HostCmdState, h.ring # <<>>, RingInv(h),
           NEW n \in Nat, n =< Head(h.ring).left
    PROVE  RingInv(SendBytes(h, n))
<1> DEFINE f == Head(h.ring)
           part == <<[f EXCEPT !.left = @ - n]>> \o Tail(h.ring)
           g == SendBytes(h, n)
<1>1. h.ring \in Seq(Frame) /\ h.used \in Int
  BY Zenon DEF HostCmdState
<1>2. f \in Frame
  BY <1>1
<1>3. f.left \in Nat
  BY <1>2, Zenon DEF Frame
<1>4. g.used = h.used - n /\ g.ring = IF n = f.left THEN Tail(h.ring) ELSE part
  BY Zenon DEF SendBytes, HostCmdState
<1>5. n = f.left => Totalled(Tail(h.ring), h.used - n)
  BY <1>1, PopTotals, Zenon DEF RingInv
<1>6. n # f.left => n < f.left
  BY <1>3
<1>7. n # f.left => Totalled(part, h.used - n)
  BY <1>1, <1>6, PartTotals, Zenon DEF RingInv
<1>8. Totalled(g.ring, g.used)
  BY <1>4, <1>5, <1>7, Zenon
<1>9. g.used =< RingSize - 1
  BY <1>1, <1>4, SizeAssumption DEF RingInv
<1>10. QED  BY <1>8, <1>9, Zenon DEF RingInv

LEMMA FrameLengths ==
    /\ Notice.left >= 1
    /\ \A c : Done(c).left >= 1
    /\ \A data \in Seq(Cmd) : Output(data).left >= 1
BY SizeAssumption DEF Notice, Done, Output

(* A notice and a done frame, as hostcmd_reset and the give-up push them. *)
LEMMA NoticeDoneRing ==
    ASSUME NEW h \in HostCmdState, RingInv(h), NEW c \in Cmd \union {None}
    PROVE  RingInv(PushFrame(PushFrame(h, Notice), Done(c)))
<1>1. PushFrame(h, Notice) \in HostCmdState /\ RingInv(PushFrame(h, Notice))
  BY FrameTypes, FrameLengths, PushFrameType, PushFrameRing, Zenon
<1>2. QED  BY <1>1, FrameTypes, FrameLengths, PushFrameRing, Zenon

LEMMA ExpireRing ==
    ASSUME NEW h \in HostCmdState, RingInv(h)
    PROVE  RingInv(Expire(h))
<1> DEFINE g == [h EXCEPT !.cmd_pending = FALSE, !.cmd_line = None]
<1>1. g \in HostCmdState /\ SameRing(g, h) /\ h.cmd_line \in Cmd \union {None}
  BY Zenon DEF HostCmdState, SameRing
<1>2. RingInv(g)
  BY <1>1, SameRingInv, Zenon
<1> HIDE DEF g
<1>3. RingInv(InternalFinish(g, None))
  BY <1>1, <1>2, InternalFinishCommand, SameRingInv, Zenon
<1>4. RingInv(PushFrame(PushFrame(g, Notice), Done(h.cmd_line)))
  BY <1>1, <1>2, NoticeDoneRing, Zenon
<1>5. QED  BY <1>3, <1>4, Zenon DEF Expire, g

LEMMA DropClientRing ==
    ASSUME NEW h \in HostCmdState
    PROVE  RingInv(DropClient(h))
<1> DEFINE g == [h EXCEPT !.client = None, !.in_buf = None,
                          !.in_overflow = FALSE, !.ring = <<>>, !.used = 0,
                          !.cmd_pending = FALSE]
<1>1. <<>> \in Seq(Frame) /\ 0 \in Int
  OBVIOUS
<1>2. g \in HostCmdState /\ g.ring = <<>> /\ g.used = 0
  BY <1>1, Zenon DEF HostCmdState
<1> HIDE DEF g
<1>3. Orphan(g).ring = <<>> /\ Orphan(g).used = 0
  BY <1>2, Zenon DEF Orphan, HostCmdState
<1>4. RingInv(g) /\ RingInv(Orphan(g))
  BY <1>2, <1>3, EmptyRing, Zenon
<1>5. QED  BY <1>4, Zenon DEF DropClient, g

LEMMA ResetStateRing ==
    ASSUME NEW h \in HostCmdState, RingInv(h)
    PROVE  RingInv(ResetState(h))
<1> DEFINE told == IF h.client # None /\ h.cmd_inflight
                     THEN PushFrame(PushFrame(h, Notice), Done(h.cmd_line))
                     ELSE h
           idle == [told EXCEPT !.cmd_pending = FALSE, !.cmd_inflight = FALSE,
                                !.cmd_line = None, !.orphaned = 0,
                                !.registered = FALSE]
           quiet == [idle EXCEPT !.internal_done = None]
<1>1. h.cmd_line \in Cmd \union {None}
  BY Zenon DEF HostCmdState
<1>2. told \in HostCmdState /\ RingInv(told)
  BY <1>1, FrameTypes, PushFrameType, NoticeDoneRing, Zenon
<1> HIDE DEF told
<1>3. 0 \in Nat
  OBVIOUS
<1>4. SameRing(idle, told)
  BY <1>2, Zenon DEF HostCmdState, SameRing
<1>5. idle \in HostCmdState
  BY <1>2, <1>3, ZenonT(40) DEF HostCmdState
<1> HIDE DEF idle
<1>6. quiet \in HostCmdState /\ SameRing(quiet, idle)
  BY <1>5, Zenon DEF HostCmdState, SameRing
<1> HIDE DEF quiet
<1>7. RingInv(idle) /\ RingInv(quiet)
  BY <1>2, <1>4, <1>6, SameRingInv, Zenon
<1>8. RingInv(InternalFinish(quiet, None))
  BY <1>6, <1>7, InternalFinishCommand, SameRingInv, Zenon
<1>9. QED  BY <1>7, <1>8, Zenon DEF ResetState, quiet, idle, told

LEMMA InternalAbandonRing ==
    ASSUME NEW h \in HostCmdState, RingInv(h)
    PROVE  RingInv(InternalAbandon(h))
<1> DEFINE silent == [h EXCEPT !.internal_done = None]
           unqueued == [silent EXCEPT !.cmd_pending = FALSE, !.cmd_line = None]
           freed == IF h.cmd_pending THEN unqueued
                    ELSE IF h.cmd_inflight THEN Orphan(silent) ELSE silent
<1>1. silent \in HostCmdState /\ SameRing(silent, h)
  BY Zenon DEF HostCmdState, SameRing
<1> HIDE DEF silent
<1>2. unqueued \in HostCmdState /\ SameRing(unqueued, silent)
  BY <1>1, ZenonT(40) DEF HostCmdState, SameRing
<1>3. Orphan(silent) \in HostCmdState /\ SameRing(Orphan(silent), silent)
  BY <1>1, OrphanType, Zenon DEF Orphan, HostCmdState, SameRing
<1> HIDE DEF unqueued
<1>4. freed \in HostCmdState /\ RingInv(freed)
  BY <1>1, <1>2, <1>3, SameRingInv, Zenon
<1> HIDE DEF freed
<1>5. RingInv(InternalFinish(freed, None))
  BY <1>4, InternalFinishCommand, SameRingInv, Zenon
<1>6. QED  BY <1>5, Zenon DEF InternalAbandon, freed, unqueued, silent

LEMMA ReadItemRing ==
    ASSUME NEW h \in HostCmdState, NEW b \in Cmd \union {NL}, RingInv(h)
    PROVE  RingInv(ReadItem(h, b))
<1> DEFINE g == [h EXCEPT !.in_buf = None]
           drop == [h EXCEPT !.in_overflow = FALSE]
           queued == [g EXCEPT !.cmd_line = h.in_buf, !.cmd_pending = TRUE,
                               !.queued_age = 0]
<1>1. /\ g \in HostCmdState /\ SameRing(g, h)
      /\ drop \in HostCmdState /\ SameRing(drop, h)
  BY ZenonT(40) DEF HostCmdState, SameRing
<1>2. RingInv(g) /\ RingInv(drop)
  BY <1>1, SameRingInv, Zenon
<1> HIDE DEF g, drop
<1>3. SameRing(queued, g)
  BY <1>1, Zenon DEF HostCmdState, SameRing
<1>4. RingInv(PushFrame(g, Notice)) /\ RingInv(PushFrame(drop, Notice))
  BY <1>1, <1>2, FrameTypes, FrameLengths, PushFrameRing, Zenon
<1>5. RingInv(queued)
  BY <1>2, <1>3, SameRingInv, Zenon
<1>6. RingInv(EndOfLine(h))
  BY <1>2, <1>4, <1>5, Zenon DEF EndOfLine, g, drop, queued
<1>7. /\ SameRing([h EXCEPT !.in_overflow = TRUE, !.in_buf = None], h)
      /\ SameRing([h EXCEPT !.in_buf = b], h)
  BY Zenon DEF HostCmdState, SameRing
<1>8. QED  BY <1>6, <1>7, SameRingInv, Zenon DEF ReadItem

LEMMA AcceptClientRing ==
    ASSUME NEW h \in HostCmdState, NEW c \in Conn
    PROVE  RingInv(AcceptClient(h, c))
<1> DEFINE g == [h EXCEPT !.client = c, !.in_buf = None,
                          !.in_overflow = FALSE, !.ring = <<>>, !.used = 0]
<1>1. <<>> \in Seq(Frame) /\ 0 \in Int
  OBVIOUS
<1>2. g \in HostCmdState /\ g.ring = <<>> /\ g.used = 0
  BY <1>1, Zenon DEF HostCmdState
<1> HIDE DEF g
<1>3. RingInv(g)
  BY <1>2, EmptyRing, Zenon
<1>4. RingInv(PushFrame(g, Notice))
  BY <1>2, <1>3, FrameTypes, FrameLengths, PushFrameRing, Zenon
<1>5. QED  BY <1>4, Zenon DEF AcceptClient, g

(* The SWI handler fills the ring only with what fits. *)
LEMMA SwiRing ==
    ASSUME NEW h \in HostCmdState, RingInv(h)
    PROVE  /\ RingInv(SwiRegister(h))
           /\ \A fits : RingInv(SwiPoll(h, fits))
           /\ \A data \in Seq(Cmd) : RingInv(SwiOutput(h, data))
           /\ \A c \in Cmd \union {None} : RingInv(SwiStatusEnd(h, c))
<1>1. SameRing(SwiRegister(h), h)
  BY Zenon DEF SwiRegister, HostCmdState, SameRing
<1>2. \A fits : SameRing(SwiPoll(h, fits), h)
  BY Zenon DEF SwiPoll, HostCmdState, SameRing
<1>3. ASSUME NEW data \in Seq(Cmd) PROVE RingInv(SwiOutput(h, data))
  <2> DEFINE part == SubSeq(data, 1, Accepts(h, data))
  <2>1. part \in Seq(Cmd)
    BY AcceptsRange
  <2>2. RingInv(PushFrame(h, Output(part)))
    BY <2>1, FrameTypes, FrameLengths, PushFrameRing, Zenon
  <2>3. SameRing(Capture(h, data), h)
    BY Zenon DEF Capture, HostCmdState, SameRing
  <2>4. QED  BY <2>2, <2>3, SameRingInv, Zenon DEF SwiOutput
<1>4. ASSUME NEW c \in Cmd \union {None} PROVE RingInv(SwiStatusEnd(h, c))
  <2> DEFINE e == [h EXCEPT !.cmd_inflight = FALSE]
             p == PushFrame(h, Done(c))
             q == [p EXCEPT !.cmd_inflight = FALSE]
  <2>1. e \in HostCmdState /\ SameRing(e, h)
        /\ SameRing([h EXCEPT !.orphaned = @ - 1], h)
    BY Zenon DEF HostCmdState, SameRing
  <2>2. p \in HostCmdState /\ RingInv(p)
    BY FrameTypes, FrameLengths, PushFrameType, PushFrameRing, Zenon
  <2> HIDE DEF e, p
  <2>3. SameRing(q, p) /\ SameRing(InternalFinish(e, c), e)
    BY <2>1, <2>2, InternalFinishCommand, Zenon DEF HostCmdState, SameRing
  <2> HIDE DEF q
  <2>4. RingInv(q) /\ RingInv(e)
    BY <2>1, <2>2, <2>3, SameRingInv, Zenon
  <2>5. RingInv(InternalFinish(e, c)) /\ RingInv([h EXCEPT !.orphaned = @ - 1])
    BY <2>1, <2>3, <2>4, SameRingInv, Zenon
  <2>6. QED  BY <2>4, <2>5, Zenon DEF SwiStatusEnd, q, p, e
<1>5. QED  BY <1>1, <1>2, <1>3, <1>4, SameRingInv, Zenon

LEMMA ServiceRing ==
    ASSUME HostTypeOK, RingInv(hc), Service
    PROVE  RingInv(hc')
<1> DEFINE h == Expire(hc)
<1>1. hc \in HostCmdState /\ h \in HostCmdState /\ RingInv(h)
  BY ExpireType, ExpireRing, Zenon DEF HostTypeOK
<1>2. RingInv(DropClient(h))
  BY <1>1, DropClientRing, Zenon
<1> HIDE DEF h
<1>3. CASE PollHup \/ PollWriteFails \/ PollRead \/ PollQuiet
  BY <1>1, <1>2, <1>3, Zenon
     DEF PollHup, PollWriteFails, PollRead, PollQuiet, Emulator, h
<1>4. CASE PollAccept
  <2>1. hc' = AcceptClient(h, Head(backlog)) /\ backlog # <<>>
    BY <1>4, Zenon DEF PollAccept, Emulator, h
  <2>2. Head(backlog) \in Conn
    BY <2>1 DEF HostTypeOK
  <2>3. QED  BY <1>1, <2>1, <2>2, AcceptClientRing, Zenon
<1>5. CASE ReadLoop
  <2>1. Head(tmp) \in Cmd \union {NL}
    BY <1>5 DEF HostTypeOK, ReadLoop
  <2>2. QED  BY <1>1, <1>5, <2>1, ReadItemRing, Zenon DEF ReadLoop
<1>6. CASE \E n \in 1 .. RingSize : PollWrite(n)
  <2>1. PICK n \in 1 .. RingSize :
           hc' = SendBytes(h, n) /\ h.ring # <<>> /\ n \in 1 .. Head(h.ring).left
    BY <1>6, Zenon DEF PollWrite, Emulator, h
  <2>2. h.ring \in Seq(Frame)
    BY <1>1, Zenon DEF HostCmdState
  <2>3. Head(h.ring) \in Frame
    BY <2>1, <2>2
  <2>4. n \in Nat /\ n =< Head(h.ring).left
    BY <2>1, <2>3 DEF Frame
  <2>5. QED  BY <1>1, <2>1, <2>4, SendBytesRing, Zenon
<1>7. QED  BY <1>3, <1>4, <1>5, <1>6, Zenon DEF Service

(* The ring's byte count is right, bounded and never lets a full ring look  *)
(* empty, whatever the guest prints and however slowly the client reads.    *)
THEOREM RingNeverOverruns == HostSpec => []RingAccounted
<1>1. HostInit => RingInv(hc)
  <2>1. /\ InitialState.ring = <<>> /\ InitialState.used = 0
        /\ [InitialState EXCEPT !.listening = FALSE].ring = <<>>
        /\ [InitialState EXCEPT !.listening = FALSE].used = 0
    BY Zenon DEF InitialState
  <2>2. QED  BY <2>1, EmptyRing, Zenon DEF HostInit
<1>2. HostTypeOK /\ RingInv(hc) /\ [HostNext]_hostVars => RingInv(hc)'
  <2> SUFFICES ASSUME HostTypeOK, RingInv(hc), [HostNext]_hostVars
               PROVE  RingInv(hc')
    OBVIOUS
  <2>0. hc \in HostCmdState /\ hc.cmd_line \in Cmd \union {None}
    BY Zenon DEF HostTypeOK, HostCmdState
  <2>1. CASE Service
    BY <2>1, ServiceRing
  <2>2. CASE Clients \/ UNCHANGED hostVars
    <3>1. hc' = hc
      BY <2>2, Zenon DEF Clients, Connect, Hangup, SendLine, TypeAhead, hostVars
    <3>2. QED  BY <3>1, Zenon
  <2>3. CASE AnyGuest
    BY <2>0, <2>3, SwiRing, BlocksAssumption, Zenon DEF AnyGuest, Emulator
  <2>4. CASE SubmitFresh
    <3>1. PICK c : hc' = InternalSubmit(hc, c)
      BY <2>4, Zenon DEF SubmitFresh, Emulator
    <3>2. SameRing(InternalSubmit(hc, c), hc)
      BY <2>0, Zenon DEF InternalSubmit, HostCmdState, SameRing
    <3>3. QED  BY <3>1, <3>2, SameRingInv, Zenon
  <2>5. CASE Abandon \/ HostReset
    BY <2>0, <2>5, InternalAbandonRing, ResetStateRing, Zenon
       DEF Abandon, HostReset, Emulator
  <2>6. CASE Close \/ Tick
    <3>1. hc'.ring = hc.ring /\ hc'.used = hc.used
      BY <2>0, <2>6, Zenon DEF Close, CloseState, Tick, Emulator, HostCmdState
    <3>2. QED  BY <3>1, Zenon DEF RingInv
  <2>7. QED
    BY <2>1, <2>2, <2>3, <2>4, <2>5, <2>6 DEF HostNext
<1>3. HostTypeOK /\ RingInv(hc) => RingAccounted
  <2> SUFFICES ASSUME HostTypeOK, RingInv(hc) PROVE RingAccounted
    OBVIOUS
  <2>1. hc.ring \in Seq(Frame) /\ hc.used \in Int
    BY Zenon DEF HostTypeOK, HostCmdState
  <2>2. /\ hc.used \in Nat
        /\ hc.used = 0 <=> hc.ring = <<>>
        /\ hc.ring # <<>> => hc.ring[1].left \in 1 .. hc.used
    BY <2>1, TotalsBound, Zenon DEF RingInv
  <2>3. hc.used \in 0 .. RingSize - 1
    BY <2>2, SizeAssumption DEF RingInv
  <2>4. QED  BY <2>2, <2>3, Zenon DEF RingAccounted
<1>4. QED  BY <1>1, <1>2, <1>3, HostTypeCorrect, PTL DEF HostSpec
-----------------------------------------------------------------------------
(* The whole channel *)

(* A step of the emulator's own from h to g: the command with the guest     *)
(* stays where it is, under its line, or is handed over to the orphans.     *)
Keeps(h, g) ==
    /\ g.initialised = h.initialised
    /\ \/ /\ g.cmd_inflight = h.cmd_inflight
          /\ g.orphaned = h.orphaned
          /\ g.cmd_inflight => g.cmd_line = h.cmd_line
       \/ /\ h.cmd_inflight /\ ~g.cmd_inflight
          /\ g.orphaned = h.orphaned + 1

LEMMA SameKeeps == \A h, g : SameCommand(g, h) => Keeps(h, g)
BY Zenon DEF SameCommand, Keeps

LEMMA ExpireKeeps ==
    ASSUME NEW h \in HostCmdState
    PROVE  /\ Keeps(h, Expire(h))
           /\ Expire(h).cmd_inflight = h.cmd_inflight
           /\ Expire(h).cmd_line = h.cmd_line \/ ~h.cmd_inflight
           /\ Expire(h).orphaned = h.orphaned
           /\ Expire(h).initialised = h.initialised
<1>1. CASE GivenUp(h)
  <2>1. ~h.cmd_inflight /\ h.cmd_inflight \in BOOLEAN
    BY <1>1, Zenon DEF GivenUp, HostCmdState
  <2>2. Expire(h) \in HostCmdState
    BY ExpireType, Zenon
  <2>3. Expire(h).cmd_inflight \in BOOLEAN
    BY <2>2, Zenon DEF HostCmdState
  <2>4. QED  BY <1>1, <2>1, <2>3, ExpireCommand, Zenon DEF Keeps, Busy
<1>2. CASE ~GivenUp(h)
  BY <1>2, ExpireCommand, Zenon DEF Keeps
<1>3. QED  BY <1>1, <1>2

LEMMA DropKeeps ==
    ASSUME NEW h \in HostCmdState
    PROVE  Keeps(h, DropClient(h))
BY DropClientCommand, Zenon DEF Keeps

(* What hostcmd_poll does after the waiting command has been looked at. *)
LEMMA ExpireThen ==
    ASSUME NEW h \in HostCmdState, NEW g, Keeps(Expire(h), g)
    PROVE  Keeps(h, g)
BY ExpireKeeps, Zenon DEF Keeps

LEMMA ServiceKeeps ==
    ASSUME HostTypeOK, Service
    PROVE  Keeps(hc, hc')
<1> DEFINE h == Expire(hc)
<1>1. hc \in HostCmdState /\ h \in HostCmdState
  BY ExpireType, Zenon DEF HostTypeOK
<1>2. Keeps(hc, h) /\ Keeps(hc, DropClient(h))
  BY <1>1, ExpireKeeps, DropKeeps, ExpireThen, Zenon
<1>3. CASE PollHup \/ PollWriteFails \/ PollRead \/ PollQuiet
  BY <1>2, <1>3, Zenon
     DEF PollHup, PollWriteFails, PollRead, PollQuiet, Emulator
<1>4. CASE PollAccept
  <2>1. hc' = AcceptClient(h, Head(backlog)) /\ backlog # <<>>
    BY <1>4, Zenon DEF PollAccept, Emulator
  <2>2. Head(backlog) \in Conn
    BY <2>1 DEF HostTypeOK
  <2>3. Keeps(h, hc')
    BY <1>1, <2>1, <2>2, AcceptClientCommand, SameKeeps, Zenon
  <2>4. QED  BY <1>1, <2>3, ExpireThen, Zenon
<1>5. CASE ReadLoop
  <2>1. ReadItem(hc, Head(tmp)) = hc'
    BY <1>5, Zenon DEF ReadLoop
  <2>2. CASE SameCommand(hc', hc)
    BY <2>2, SameKeeps, Zenon
  <2>3. CASE ~Busy(hc) /\ ~hc'.cmd_inflight /\ hc'.orphaned = hc.orphaned
             /\ hc'.initialised = hc.initialised
    <3>1. hc' \in HostCmdState
      BY <1>5, ReadLoopType, Zenon DEF HostTypeOK
    <3>2. hc'.cmd_inflight \in BOOLEAN /\ hc.cmd_inflight \in BOOLEAN
      BY <1>1, <3>1, Zenon DEF HostCmdState
    <3>3. QED  BY <2>3, <3>2, Zenon DEF Keeps, Busy
  <2>4. QED  BY <1>1, <2>1, <2>2, <2>3, ReadItemCommand, Zenon
<1>6. CASE \E n \in 1 .. RingSize : PollWrite(n)
  <2>1. PICK n : hc' = SendBytes(h, n)
    BY <1>6, Zenon DEF PollWrite, Emulator
  <2>2. Keeps(h, hc')
    BY <1>1, <2>1, OtherCommand, SameKeeps, Zenon
  <2>3. QED  BY <1>1, <2>2, ExpireThen, Zenon
<1>7. QED  BY <1>3, <1>4, <1>5, <1>6, Zenon DEF Service

LEMMA TickKeeps ==
    ASSUME HostTypeOK, Tick
    PROVE  Keeps(hc, hc')
<1>1. SameCommand(hc', hc)
  BY Zenon DEF Tick, HostTypeOK, HostCmdState, SameCommand
<1>2. QED  BY <1>1, SameKeeps, Zenon

LEMMA AbandonKeeps ==
    ASSUME NEW h \in HostCmdState, ~(h.cmd_pending /\ h.cmd_inflight)
    PROVE  Keeps(h, InternalAbandon(h))
<1> DEFINE g == InternalAbandon(h)
<1>0. h.cmd_inflight \in BOOLEAN /\ g \in HostCmdState
  BY InternalAbandonType, Zenon DEF HostCmdState
<1>1. g.cmd_inflight \in BOOLEAN
  BY <1>0, Zenon DEF HostCmdState
<1> HIDE DEF g
<1>2. CASE ~h.internal_active
  BY <1>2, InternalAbandonCommand, Zenon DEF Keeps, g
<1>3. CASE h.internal_active /\ h.cmd_pending
  <2>1. g.cmd_inflight = h.cmd_inflight /\ g.orphaned = h.orphaned
        /\ g.initialised = h.initialised
    BY <1>3, InternalAbandonCommand, Zenon DEF g
  <2>2. QED  BY <1>3, <2>1, Zenon DEF Keeps, g
<1>4. CASE h.internal_active /\ ~h.cmd_pending
  <2>1. ~g.cmd_inflight /\ g.initialised = h.initialised
        /\ g.orphaned = IF h.cmd_inflight THEN h.orphaned + 1 ELSE h.orphaned
    BY <1>4, InternalAbandonCommand, Zenon DEF g
  <2>2. QED  BY <1>0, <1>1, <2>1, Zenon DEF Keeps, g
<1>5. QED  BY <1>2, <1>3, <1>4
-----------------------------------------------------------------------------
(* Types *)

GuestTypeOK ==
    /\ gstate \in GuestStates
    /\ gcmd \in Cmd \union {None}
    /\ gring \in Seq(Cmd)
    /\ ticker \in {"none", "flush", "act"}
    /\ task \in {"none", "starting", "live"}
    /\ poll_word \in BOOLEAN
    /\ printed \in 0 .. MaxPrint

CallerTypeOK ==
    /\ queue \in Seq(Request)
    /\ waiting \in InternalCmd \union {None}
    /\ outcome \in Result \union {NoOutcome}

LEMMA TypeParts == TypeOK <=> HostTypeOK /\ GuestTypeOK /\ CallerTypeOK
BY Zenon DEF TypeOK, GuestTypeOK, CallerTypeOK

(* The host's half across a SWI of the guest. *)
LEMMA SwiType ==
    ASSUME HostTypeOK, NEW h \in HostCmdState, Swi(h)
    PROVE  HostTypeOK'
BY EmulatorType, Zenon DEF Swi, netVars

LEMMA HostStutterType == HostTypeOK /\ unchangedHost => HostTypeOK'
BY Zenon DEF HostTypeOK, unchangedHost, hostVars

LEMMA EndSwiType ==
    ASSUME HostTypeOK, gcmd \in Cmd \union {None},
           Swi(SwiStatusEnd(hc, gcmd)) \/ unchangedHost
    PROVE  HostTypeOK'
<1>1. SwiStatusEnd(hc, gcmd) \in HostCmdState
  BY SwiStatusEndType, Zenon DEF HostTypeOK
<1>2. QED  BY <1>1, SwiType, HostStutterType, Zenon

(* A byte printed while a command runs. *)
LEMMA PutByteType ==
    ASSUME HostTypeOK, GuestTypeOK, gcmd \in Cmd, PutByte
    PROVE  HostTypeOK' /\ GuestTypeOK'
<1>1. HostTypeOK'
  BY HostStutterType, Zenon DEF PutByte
<1>2. printed' \in 0 .. MaxPrint /\ gring' \in Seq(Cmd)
  BY GuestAssumption DEF PutByte, GuestTypeOK
<1>3. QED  BY <1>1, <1>2, Zenon DEF PutByte, GuestTypeOK

(* What else is known of the command lines: a busy command has a line, and  *)
(* so has the command the guest holds.                                      *)
LinesKnown ==
    /\ hc.initialised
    /\ Busy(hc) => hc.cmd_line \in Cmd
    /\ Owes => gcmd \in Cmd

(* The ticker. *)
LEMMA TickerTypes ==
    ASSUME HostTypeOK, GuestTypeOK, LinesKnown, Ticker
    PROVE  HostTypeOK' /\ GuestTypeOK'
<1>0. hc \in HostCmdState /\ gcmd \in Cmd \union {None} /\ gring \in Seq(Cmd)
      /\ hc.cmd_line \in Cmd \union {None}
  BY Zenon DEF HostTypeOK, GuestTypeOK, HostCmdState
<1>1. CASE TickerEntry \/ FlushDone \/ TickerDone
  <2>1. HostTypeOK'
    BY <1>1, HostStutterType, Zenon DEF TickerEntry, FlushDone, TickerDone
  <2>2. QED
    BY <1>1, <2>1, Zenon DEF TickerEntry, FlushDone, TickerDone, GuestTypeOK
<1>2. CASE FlushRing
  <2>1. PICK n \in 1 .. Len(gring) :
           /\ Swi(SwiOutput(hc, SubSeq(gring, 1, n)))
           /\ gring' = SubSeq(gring, Accepts(hc, SubSeq(gring, 1, n)) + 1, Len(gring))
           /\ ticker' \in {"act", "flush"}
    BY <1>2, Zenon DEF FlushRing
  <2> DEFINE block == SubSeq(gring, 1, n)
  <2>2. block \in Seq(Cmd)
    BY <1>0, <2>1
  <2>3. Accepts(hc, block) \in 0 .. Len(block) /\ SwiOutput(hc, block) \in HostCmdState
    BY <1>0, <2>2, AcceptsRange, SwiOutputType, Zenon
  <2>4. Accepts(hc, block) \in Nat
    BY <2>2, <2>3
  <2>5. gring' \in Seq(Cmd)
    BY <1>0, <2>1, <2>4
  <2>6. HostTypeOK'
    BY <2>1, <2>3, SwiType, Zenon
  <2>7. UNCHANGED <<gstate, gcmd, task, poll_word, printed>>
    BY <1>2, Zenon DEF FlushRing
  <2>8. QED  BY <2>1, <2>5, <2>6, <2>7, Zenon DEF GuestTypeOK
<1>3. CASE TickerPoll
  <2>1. HostTypeOK'
    BY <1>0, <1>3, SwiPollType, SwiType, Zenon DEF TickerPoll
  <2>2. gcmd' \in Cmd \union {None} /\ gstate' \in GuestStates
        /\ poll_word' \in BOOLEAN
    BY <1>0, <1>3, Zenon DEF TickerPoll, GuestTypeOK, GuestStates
  <2>3. printed' \in 0 .. MaxPrint
    BY <1>3, GuestAssumption DEF TickerPoll, GuestTypeOK
  <2>4. QED  BY <1>3, <2>1, <2>2, <2>3, Zenon DEF TickerPoll, GuestTypeOK
<1>4. CASE TickerEnd
  <2>1. HostTypeOK'
    BY <1>0, <1>4, EndSwiType, Zenon DEF TickerEnd
  <2>2. QED  BY <1>4, <2>1, Zenon DEF TickerEnd, GuestTypeOK, GuestStates
<1>5. QED  BY <1>1, <1>2, <1>3, <1>4, Zenon DEF Ticker

(* The rest of the guest. *)
LEMMA GuestTypes ==
    ASSUME HostTypeOK, GuestTypeOK, LinesKnown, Guest
    PROVE  HostTypeOK' /\ GuestTypeOK'
<1>0. hc \in HostCmdState /\ gcmd \in Cmd \union {None} /\ <<>> \in Seq(Cmd)
  <2>1. <<>> \in Seq(Cmd)
    OBVIOUS
  <2>2. QED  BY <2>1, Zenon DEF HostTypeOK, GuestTypeOK
<1>1. CASE ModuleInit
  <2>1. HostTypeOK'
    BY <1>0, <1>1, SwiRegisterType, SwiType, Zenon DEF ModuleInit
  <2>2. QED  BY <1>0, <1>1, <2>1, Zenon DEF ModuleInit, GuestTypeOK, GuestStates
<1>2. CASE Ticker
  BY <1>2, TickerTypes
<1>3. CASE Wrch \/ TwOutput
  <2>1. Owes /\ PutByte
    BY <1>3 DEF Wrch, TwOutput, Owes
  <2>2. QED  BY <2>1, PutByteType, Zenon DEF LinesKnown
<1>4. CASE RunCommand \/ RunReturns \/ TwMorio
  <2>1. HostTypeOK'
    BY <1>4, HostStutterType, Zenon DEF RunCommand, RunReturns, TwMorio, Become
  <2>2. QED
    BY <1>4, <2>1, Zenon
       DEF RunCommand, RunReturns, TwMorio, Become, GuestTypeOK, GuestStates
<1>5. CASE StartWimp \/ TaskStarts \/ TaskStartFails \/ ModuleFinal
  <2>1. HostTypeOK'
    BY <1>5, HostStutterType, Zenon
       DEF StartWimp, TaskStarts, TaskStartFails, ModuleFinal
  <2>2. QED
    BY <1>0, <1>5, <2>1, Zenon
       DEF StartWimp, TaskStarts, TaskStartFails, ModuleFinal, GuestTypeOK,
           GuestStates
<1>6. CASE PollWord \/ TwQuit
  <2>1. HostTypeOK'
    BY <1>0, <1>6, EndSwiType, Zenon DEF PollWord, TwQuit, AbortCommand
  <2>2. gstate' \in GuestStates
    BY <1>6, Zenon DEF PollWord, TwQuit, AbortCommand, GuestTypeOK, GuestStates
  <2>3. QED  BY <1>6, <2>1, <2>2, Zenon DEF PollWord, TwQuit, GuestTypeOK
<1>7. QED
  BY <1>1, <1>2, <1>3, <1>4, <1>5, <1>6, Zenon DEF Guest, Headless, Desktop

(* The caller inside the emulator. *)
LEMMA CallerTypes ==
    ASSUME HostTypeOK, CallerTypeOK, Caller
    PROVE  HostTypeOK' /\ CallerTypeOK'
<1>0. hc \in HostCmdState /\ hc.posted \in Seq(Result)
  BY Zenon DEF HostTypeOK, HostCmdState
<1>1. ASSUME NEW c \in InternalCmd, GuestCommandRun(c)
      PROVE  HostTypeOK' /\ CallerTypeOK'
  <2>1. [op |-> "run", token |-> c] \in Request
    BY <1>1, Zenon DEF Request
  <2>2. queue' \in Seq(Request)
    BY <1>1, <2>1 DEF GuestCommandRun, CallerTypeOK
  <2>3. HostTypeOK'
    BY <1>1, Zenon DEF GuestCommandRun, HostTypeOK
  <2>4. QED  BY <1>1, <2>2, <2>3, Zenon DEF GuestCommandRun, CallerTypeOK
<1>2. CASE RunRequest
  <2>1. queue # <<>>
    BY <1>2, Zenon DEF RunRequest
  <2>2. queue' \in Seq(Request) /\ Head(queue) \in Request
    BY <1>2, <2>1 DEF RunRequest, CallerTypeOK
  <2> DEFINE c == Head(queue).token
             res == [token |-> c, ok |-> FALSE, out |-> <<>>, status |-> None]
             no == [hc EXCEPT !.posted = Append(@, res)]
  <2>3. c \in InternalCmd
    BY <2>2, Zenon DEF Request
  <2>4. c \in Cmd
    BY <2>3, IdentityAssumption
  <2>5. res \in Result
    <3>1. <<>> \in Seq(Cmd)
      OBVIOUS
    <3>2. QED  BY <2>4, <3>1, Zenon DEF Result
  <2>6. Append(hc.posted, res) \in Seq(Result)
    BY <1>0, <2>5
  <2>7. no \in HostCmdState
    BY <1>0, <2>6, Zenon DEF HostCmdState
  <2>8. InternalSubmit(hc, c) \in HostCmdState
    BY <1>0, <2>4, InternalSubmitType, Zenon
  <2>9. hc' \in HostCmdState
    BY <1>2, <2>7, <2>8, Zenon DEF RunRequest, Emulator
  <2>10. HostTypeOK'
    BY <1>2, <2>9, Zenon DEF RunRequest, HostTypeOK, netVars
  <2>11. QED  BY <1>2, <2>2, <2>10, Zenon DEF RunRequest, CallerTypeOK
<1>3. CASE AbandonRequest
  <2>1. queue' \in Seq(Request)
    BY <1>3 DEF AbandonRequest, CallerTypeOK
  <2>2. HostTypeOK'
    BY <1>0, <1>3, InternalAbandonType, EmulatorType, Zenon
       DEF AbandonRequest, Abandon, netVars
  <2>3. QED  BY <1>3, <2>1, <2>2, Zenon DEF AbandonRequest, CallerTypeOK
<1>4. CASE GuestCommandDeliver
  <2>1. hc.posted # <<>>
    BY <1>4, Zenon DEF GuestCommandDeliver
  <2>2. Tail(hc.posted) \in Seq(Result) /\ Head(hc.posted) \in Result
    BY <1>0, <2>1
  <2>3. hc' \in HostCmdState
    BY <1>0, <1>4, <2>2, Zenon DEF GuestCommandDeliver, HostCmdState
  <2>4. HostTypeOK'
    BY <1>4, <2>3, Zenon DEF GuestCommandDeliver, HostTypeOK, netVars
  <2>5. QED  BY <1>4, <2>2, <2>4, Zenon DEF GuestCommandDeliver, CallerTypeOK
<1>5. CASE GuestCommandTimeout
  <2>1. [op |-> "abandon", token |-> waiting] \in Request
    BY <1>5, Zenon DEF GuestCommandTimeout, CallerTypeOK, Request
  <2>2. queue' \in Seq(Request)
    BY <1>5, <2>1 DEF GuestCommandTimeout, CallerTypeOK
  <2>3. HostTypeOK'
    BY <1>5, Zenon DEF GuestCommandTimeout, HostTypeOK, hostVars
  <2>4. QED  BY <1>5, <2>2, <2>3, Zenon DEF GuestCommandTimeout, CallerTypeOK
<1>6. QED  BY <1>1, <1>2, <1>3, <1>4, <1>5, Zenon DEF Caller

(* Every step keeps every variable's type. *)
LEMMA NextType ==
    ASSUME TypeOK, LinesKnown, [Next]_vars
    PROVE  TypeOK'
<1>0. HostTypeOK /\ GuestTypeOK /\ CallerTypeOK
  BY TypeParts
<1>1. SUFFICES HostTypeOK' /\ GuestTypeOK' /\ CallerTypeOK'
  BY TypeParts, PTL
<1>2. UNCHANGED guestVars => GuestTypeOK'
  BY <1>0, Zenon DEF guestVars, GuestTypeOK
<1>3. UNCHANGED callerVars => CallerTypeOK'
  BY <1>0, Zenon DEF callerVars, CallerTypeOK
<1>4. CASE (Service \/ SystemClients) /\ UNCHANGED <<guestVars, callerVars>>
  <2>1. SystemClients => HostTypeOK'
    BY <1>0, ClientType, LineType, Zenon DEF SystemClients
  <2>2. QED  BY <1>0, <1>2, <1>3, <1>4, <2>1, ServiceType, Zenon
<1>5. CASE Time /\ UNCHANGED <<guestVars, callerVars>>
  BY <1>0, <1>2, <1>3, <1>5, TickType, Zenon DEF Time
<1>6. CASE Guest /\ UNCHANGED callerVars
  BY <1>0, <1>3, <1>6, GuestTypes, Zenon
<1>7. CASE MachineReset /\ UNCHANGED callerVars
  <2>1. HostTypeOK'
    BY <1>0, <1>7, ResetStateType, EmulatorType, Zenon
       DEF MachineReset, HostReset, netVars, HostTypeOK
  <2>2. <<>> \in Seq(Cmd)
    OBVIOUS
  <2>3. GuestTypeOK'
    BY <1>0, <1>7, <2>2, Zenon DEF MachineReset, GuestTypeOK, GuestStates
  <2>4. QED  BY <1>3, <1>7, <2>1, <2>3
<1>8. CASE Caller /\ UNCHANGED guestVars
  BY <1>0, <1>2, <1>8, CallerTypes, Zenon
<1>9. CASE UNCHANGED vars
  <2>1. HostTypeOK'
    BY <1>0, <1>9, HostStutterType, Zenon DEF vars, unchangedHost
  <2>2. QED  BY <1>2, <1>3, <1>9, <2>1, Zenon DEF vars
<1>10. QED  BY <1>4, <1>5, <1>6, <1>7, <1>8, <1>9, Zenon DEF Next
-----------------------------------------------------------------------------
(* Where the command is *)

(* The five things a step can do to the command that is with the guest.     *)
Calm == Keeps(hc, hc') /\ (Owes' <=> Owes) /\ gcmd' = gcmd

Collects ==
    /\ ~Owes /\ Deliverable(hc)
    /\ Owes' /\ gcmd' = hc.cmd_line
    /\ hc'.cmd_inflight /\ hc'.initialised = hc.initialised
    /\ hc'.cmd_line = hc.cmd_line /\ hc'.orphaned = hc.orphaned

Ends ==
    /\ Owes /\ ~Owes' /\ gcmd' = gcmd
    /\ ~hc'.cmd_inflight /\ hc'.initialised = hc.initialised
    /\ hc'.orphaned = IF ~hc.cmd_inflight /\ hc.orphaned > 0
                         THEN hc.orphaned - 1 ELSE hc.orphaned

Restarts ==
    /\ ~Owes' /\ gcmd' = gcmd
    /\ ~Busy(hc') /\ hc'.orphaned = 0 /\ hc'.initialised

Unloads == "unload" \in Upsets /\ ~Owes' /\ gcmd' = gcmd /\ hc' = hc

(* A SWI that leaves the command alone. *)
LEMMA SameSwi ==
    ASSUME NEW h, SameCommand(h, hc), hc' = h
    PROVE  Keeps(hc, hc') /\ QueuesNothing(hc, hc')
BY SameKeeps, SameQueuesNothing, Zenon

LEMMA NoStep ==
    ASSUME hc' = hc
    PROVE  Keeps(hc, hc') /\ QueuesNothing(hc, hc')
BY Zenon DEF Keeps, QueuesNothing

(* What a STATUS END from the module does. *)
LEMMA EndStep ==
    ASSUME HostTypeOK, gcmd \in Cmd \union {None}, hc' = SwiStatusEnd(hc, gcmd),
           Owes, gstate' = "IDLE", gcmd' = gcmd
    PROVE  Ends /\ QueuesNothing(hc, hc')
<1>1. ~Owes'
  BY DEF Owes
<1>2. hc \in HostCmdState
  BY Zenon DEF HostTypeOK
<1>3. Ends
  BY <1>1, <1>2, SwiStatusEndCommand, Zenon DEF Ends
<1>4. QueuesNothing(hc, hc')
  BY <1>2, SwiStatusEndCommand, Zenon DEF QueuesNothing, Busy
<1>5. QED  BY <1>3, <1>4

LEMMA TickerSteps ==
    ASSUME HostTypeOK, GuestTypeOK, Ticker
    PROVE  (Calm \/ Collects \/ Ends) /\ QueuesNothing(hc, hc')
<1>0. hc \in HostCmdState /\ gcmd \in Cmd \union {None}
  BY Zenon DEF HostTypeOK, GuestTypeOK
<1>1. CASE TickerEntry \/ FlushDone \/ TickerDone
  <2>1. hc' = hc /\ gstate' = gstate /\ gcmd' = gcmd
    BY <1>1, Zenon
       DEF TickerEntry, FlushDone, TickerDone, unchangedHost, hostVars
  <2>2. QED  BY <2>1, NoStep, Zenon DEF Calm, Owes
<1>2. CASE FlushRing
  <2>1. PICK n : hc' = SwiOutput(hc, SubSeq(gring, 1, n))
    BY <1>2, Zenon DEF FlushRing, Swi, Emulator
  <2>2. Keeps(hc, hc') /\ QueuesNothing(hc, hc')
    BY <1>0, <2>1, OtherCommand, SameSwi, Zenon
  <2>3. gstate' = gstate /\ gcmd' = gcmd
    BY <1>2, Zenon DEF FlushRing
  <2>4. QED  BY <2>2, <2>3, Zenon DEF Calm, Owes
<1>3. CASE TickerPoll
  <2>1. hc' = SwiPoll(hc, TRUE) /\ gstate = "IDLE"
    BY <1>3, Zenon DEF TickerPoll, Swi, Emulator
  <2>2. /\ hc'.cmd_line = hc.cmd_line /\ hc'.orphaned = hc.orphaned
        /\ hc'.initialised = hc.initialised
        /\ IF Deliverable(hc) THEN ~hc'.cmd_pending /\ hc'.cmd_inflight
                              ELSE SameCommand(hc', hc)
    BY <1>0, <2>1, SwiPollCommand, Zenon
  <2>3. CASE Deliverable(hc)
    <3>1. gcmd' = hc.cmd_line /\ gstate' \in {"PENDING", "TW_PENDING"}
      BY <1>3, <2>3, Zenon DEF TickerPoll
    <3>2. Owes' /\ ~Owes
      BY <2>1, <3>1 DEF Owes
    <3>3. Collects
      BY <2>2, <2>3, <3>1, <3>2, Zenon DEF Collects
    <3>4. QueuesNothing(hc, hc')
      BY <2>2, <2>3, Zenon DEF QueuesNothing, Busy, Deliverable
    <3>5. QED  BY <3>3, <3>4
  <2>4. CASE ~Deliverable(hc)
    <3>1. gcmd' = gcmd /\ gstate' = gstate
      BY <1>3, <2>4, Zenon DEF TickerPoll
    <3>2. QED
      BY <2>2, <2>4, <3>1, SameKeeps, SameQueuesNothing, Zenon DEF Calm, Owes
  <2>5. QED  BY <2>3, <2>4
<1>4. CASE TickerEnd
  <2>1. Owes
    BY <1>4 DEF TickerEnd, Owes
  <2>2. QED  BY <1>0, <1>4, <2>1, EndStep, Zenon DEF TickerEnd, Swi, Emulator
<1>5. QED  BY <1>1, <1>2, <1>3, <1>4, Zenon DEF Ticker

LEMMA GuestSteps ==
    ASSUME HostTypeOK, GuestTypeOK, Guest
    PROVE  (Calm \/ Collects \/ Ends \/ Unloads) /\ QueuesNothing(hc, hc')
<1>0. hc \in HostCmdState /\ gcmd \in Cmd \union {None}
  BY Zenon DEF HostTypeOK, GuestTypeOK
<1>1. CASE ModuleInit
  <2>1. hc' = SwiRegister(hc) /\ gcmd' = gcmd
    BY <1>1, Zenon DEF ModuleInit, Swi, Emulator
  <2>2. ~Owes /\ ~Owes'
    BY <1>1 DEF ModuleInit, Owes
  <2>3. Keeps(hc, hc') /\ QueuesNothing(hc, hc')
    BY <1>0, <2>1, OtherCommand, SameSwi, Zenon
  <2>4. QED  BY <2>1, <2>2, <2>3, Zenon DEF Calm
<1>2. CASE Ticker
  BY <1>2, TickerSteps
<1>3. CASE Wrch \/ TwOutput \/ RunCommand \/ RunReturns \/ TwMorio
  <2>1. hc' = hc /\ gcmd' = gcmd
    BY <1>3, Zenon DEF Wrch, TwOutput, RunCommand, RunReturns, TwMorio, PutByte,
                       Become, unchangedHost, hostVars
  <2>2. Owes /\ Owes'
    BY <1>3 DEF Wrch, TwOutput, RunCommand, RunReturns, TwMorio, PutByte,
                Become, Owes
  <2>3. QED  BY <2>1, <2>2, NoStep, Zenon DEF Calm
<1>4. CASE StartWimp \/ TaskStarts \/ TaskStartFails
  <2>1. hc' = hc /\ gcmd' = gcmd /\ gstate' = gstate
    BY <1>4, Zenon
       DEF StartWimp, TaskStarts, TaskStartFails, unchangedHost, hostVars
  <2>2. QED  BY <2>1, NoStep, Zenon DEF Calm, Owes
<1>5. CASE "unload" \in Upsets /\ ModuleFinal
  <2>1. hc' = hc /\ gcmd' = gcmd /\ gstate' = "OFF"
    BY <1>5, Zenon DEF ModuleFinal, unchangedHost, hostVars
  <2>2. ~Owes'
    BY <2>1 DEF Owes
  <2>3. QED  BY <1>5, <2>1, <2>2, NoStep, Zenon DEF Unloads
<1>6. CASE PollWord \/ TwQuit
  <2>1. gcmd' = gcmd
    BY <1>6, Zenon DEF PollWord, TwQuit
  <2>2. \/ AbortCommand /\ gstate \in {"TW_PENDING", "TW_RUNNING"}
        \/ gstate = "TW_PENDING" /\ gstate' = "TW_RUNNING" /\ unchangedHost
        \/ gstate' = gstate /\ unchangedHost
    BY <1>6, Zenon DEF PollWord, TwQuit
  <2>3. CASE AbortCommand /\ gstate \in {"TW_PENDING", "TW_RUNNING"}
    <3>1. Owes
      BY <2>3 DEF Owes
    <3>2. QED
      BY <1>0, <2>1, <2>3, <3>1, EndStep, Zenon DEF AbortCommand, Swi, Emulator
  <2>4. CASE gstate = "TW_PENDING" /\ gstate' = "TW_RUNNING" /\ unchangedHost
    <3>1. Owes /\ Owes'
      BY <2>4 DEF Owes
    <3>2. hc' = hc
      BY <2>4, Zenon DEF unchangedHost, hostVars
    <3>3. QED  BY <2>1, <3>1, <3>2, NoStep, Zenon DEF Calm
  <2>5. CASE gstate' = gstate /\ unchangedHost
    <3>1. hc' = hc
      BY <2>5, Zenon DEF unchangedHost, hostVars
    <3>2. QED  BY <2>1, <2>5, <3>1, NoStep, Zenon DEF Calm, Owes
  <2>6. QED  BY <2>2, <2>3, <2>4, <2>5
<1>7. QED
  BY <1>1, <1>2, <1>3, <1>4, <1>5, <1>6, Zenon DEF Guest, Headless, Desktop

LEMMA CallerSteps ==
    ASSUME HostTypeOK, CallerTypeOK, CommandInOnePlace, Caller
    PROVE  /\ Keeps(hc, hc')
           /\ \/ QueuesNothing(hc, hc')
              \/ ~Busy(hc) /\ ~hc'.cmd_inflight /\ hc'.cmd_line \in Cmd
<1>0. hc \in HostCmdState /\ hc.cmd_inflight \in BOOLEAN
  BY Zenon DEF HostTypeOK, HostCmdState
<1>1. CASE (\E c \in InternalCmd : GuestCommandRun(c)) \/ GuestCommandTimeout
  <2>1. hc' = hc
    BY <1>1, Zenon DEF GuestCommandRun, GuestCommandTimeout, hostVars
  <2>2. QED  BY <2>1, NoStep
<1>2. CASE RunRequest
  <2> DEFINE c == Head(queue).token
  <2>1. c \in Cmd
    <3>1. Head(queue) \in Request
      BY <1>2 DEF RunRequest, CallerTypeOK
    <3>2. c \in InternalCmd
      BY <3>1, Zenon DEF Request
    <3>3. QED  BY <3>2, IdentityAssumption
  <2>2. CASE CanSubmit(hc, c)
    <3>1. hc' = InternalSubmit(hc, c) /\ ~Busy(hc)
      BY <1>2, <2>2, Zenon DEF RunRequest, Emulator, CanSubmit
    <3>2. /\ ~InternalSubmit(hc, c).cmd_inflight
          /\ InternalSubmit(hc, c).cmd_inflight = FALSE
          /\ InternalSubmit(hc, c).cmd_line = c
          /\ InternalSubmit(hc, c).orphaned = hc.orphaned
          /\ InternalSubmit(hc, c).initialised = hc.initialised
      BY <1>0, Zenon DEF InternalSubmit, HostCmdState
    <3>3. hc.cmd_inflight = FALSE
      BY <1>0, <3>1, Zenon DEF Busy
    <3>4. Keeps(hc, hc')
      BY <3>1, <3>2, <3>3, Zenon DEF Keeps
    <3>5. QED  BY <2>1, <3>1, <3>2, <3>4, Zenon
  <2>3. CASE ~CanSubmit(hc, c)
    <3>1. SameCommand(hc', hc)
      BY <1>0, <1>2, <2>3, Zenon DEF RunRequest, Emulator, HostCmdState, SameCommand
    <3>2. QED  BY <3>1, SameKeeps, SameQueuesNothing, Zenon
  <2>4. QED  BY <2>2, <2>3
<1>3. CASE AbandonRequest
  <2>1. hc' = InternalAbandon(hc)
    BY <1>3, Zenon DEF AbandonRequest, Abandon, Emulator
  <2>2. Keeps(hc, hc')
    BY <1>0, <2>1, AbandonKeeps, Zenon DEF CommandInOnePlace
  <2>3. InternalAbandon(hc) = hc \/ ~Busy(InternalAbandon(hc))
    BY <1>0, InternalAbandonCommand, Zenon DEF Busy, CommandInOnePlace
  <2>4. QED  BY <2>1, <2>2, <2>3, Zenon DEF QueuesNothing, Busy
<1>4. CASE GuestCommandDeliver
  <2>1. SameCommand(hc', hc)
    BY <1>0, <1>4, Zenon DEF GuestCommandDeliver, HostCmdState, SameCommand
  <2>2. QED  BY <2>1, SameKeeps, SameQueuesNothing, Zenon
<1>5. QED  BY <1>1, <1>2, <1>3, <1>4, Zenon DEF Caller

(* Every step of the channel is one of the five. *)
LEMMA NextSteps ==
    ASSUME TypeOK, LinesKnown, CommandInOnePlace, [Next]_vars
    PROVE  /\ Calm \/ Collects \/ Ends \/ Restarts \/ Unloads
           /\ \/ QueuesNothing(hc, hc')
              \/ ~Busy(hc) /\ ~hc'.cmd_inflight /\ hc'.cmd_line \in Cmd
<1>0. HostTypeOK /\ GuestTypeOK /\ CallerTypeOK /\ hc \in HostCmdState
  BY TypeParts, Zenon DEF HostTypeOK
<1>1. UNCHANGED guestVars => (Owes' <=> Owes) /\ gcmd' = gcmd
  BY Zenon DEF guestVars, Owes
<1>2. CASE (Service \/ SystemClients) /\ UNCHANGED <<guestVars, callerVars>>
  <2>1. SystemClients => hc' = hc
    BY Zenon DEF SystemClients, Connect, SendLine, TypeAhead, SendBlank, Hangup,
                 HalfClose
  <2>2. SystemClients => Keeps(hc, hc') /\ QueuesNothing(hc, hc')
    BY <2>1, NoStep
  <2>3. QED
    BY <1>0, <1>1, <1>2, <2>2, ServiceKeeps, ServiceQueues, Zenon DEF Calm
<1>3. CASE Time /\ UNCHANGED <<guestVars, callerVars>>
  <2>1. Tick
    BY <1>3, Zenon DEF Time
  <2>2. SameCommand(hc', hc)
    BY <1>0, <2>1, Zenon DEF Tick, HostCmdState, SameCommand
  <2>3. QED
    BY <1>1, <1>3, <2>2, SameKeeps, SameQueuesNothing, Zenon DEF Calm
<1>4. CASE Guest /\ UNCHANGED callerVars
  BY <1>0, <1>4, GuestSteps
<1>5. CASE MachineReset /\ UNCHANGED callerVars
  <2>1. hc' = ResetState(hc) /\ gstate' = "OFF" /\ gcmd' = gcmd
    BY <1>5, Zenon DEF MachineReset, HostReset, Emulator
  <2>2. ~Owes'
    BY <2>1 DEF Owes
  <2>3. /\ ~Busy(ResetState(hc)) /\ ResetState(hc).orphaned = 0
        /\ ResetState(hc).initialised
    BY <1>0, ResetStateCommand, Zenon DEF LinesKnown
  <2>4. QED  BY <2>1, <2>2, <2>3, Zenon DEF Restarts, QueuesNothing, Busy
<1>6. CASE Caller /\ UNCHANGED guestVars
  BY <1>0, <1>1, <1>6, CallerSteps, Zenon DEF Calm
<1>7. CASE UNCHANGED vars
  <2>1. hc' = hc /\ UNCHANGED guestVars
    BY <1>7, Zenon DEF vars, hostVars
  <2>2. QED  BY <1>1, <2>1, NoStep, Zenon DEF Calm
<1>8. QED  BY <1>2, <1>3, <1>4, <1>5, <1>6, <1>7, Zenon DEF Next

(* The inductive invariant of the channel. *)
ChannelInv == TypeOK /\ LinesKnown /\ CommandInOnePlace
              /\ InflightIsRunning /\ EndExpected

LEMMA InitChannel == Init => ChannelInv /\ GuestAccounted
<1> SUFFICES ASSUME Init PROVE ChannelInv /\ GuestAccounted
  OBVIOUS
<1>1. hc \in {InitialState, [InitialState EXCEPT !.listening = FALSE]}
  BY Zenon DEF Init, HostInit
<1>2. /\ InitialState.initialised /\ ~InitialState.cmd_pending
      /\ ~InitialState.cmd_inflight /\ InitialState.orphaned = 0
  BY Zenon DEF InitialState
<1>3. /\ [InitialState EXCEPT !.listening = FALSE].initialised
      /\ ~[InitialState EXCEPT !.listening = FALSE].cmd_pending
      /\ ~[InitialState EXCEPT !.listening = FALSE].cmd_inflight
      /\ [InitialState EXCEPT !.listening = FALSE].orphaned = 0
  BY Zenon DEF InitialState
<1>4. hc.initialised /\ ~hc.cmd_pending /\ ~hc.cmd_inflight /\ hc.orphaned = 0
  BY <1>1, <1>2, <1>3, Zenon
<1>5. ~Owes
  BY DEF Init, GuestInit, Owes
<1>6. TypeOK
  <2>1. HostTypeOK
    BY HostInitType, Zenon DEF Init
  <2>2. GuestTypeOK
    <3>1. <<>> \in Seq(Cmd) /\ 0 \in 0 .. MaxPrint
      BY GuestAssumption
    <3>2. QED
      BY <3>1, Zenon DEF Init, GuestInit, GuestTypeOK, GuestStates
  <2>3. CallerTypeOK
    <3>1. <<>> \in Seq(Request)
      OBVIOUS
    <3>2. QED  BY <3>1, Zenon DEF Init, CallerInit, CallerTypeOK
  <2>4. QED  BY <2>1, <2>2, <2>3, TypeParts
<1>7. QED
  BY <1>4, <1>5, <1>6, Zenon
     DEF ChannelInv, LinesKnown, CommandInOnePlace, InflightIsRunning,
         EndExpected, GuestAccounted, Busy

LEMMA NextChannel == ChannelInv /\ [Next]_vars => ChannelInv'
<1> SUFFICES ASSUME ChannelInv, [Next]_vars PROVE ChannelInv'
  OBVIOUS
<1>0. TypeOK /\ LinesKnown /\ CommandInOnePlace /\ InflightIsRunning /\ EndExpected
  BY DEF ChannelInv
<1>1. TypeOK'
  BY <1>0, NextType
<1>2. /\ Calm \/ Collects \/ Ends \/ Restarts \/ Unloads
      /\ \/ QueuesNothing(hc, hc')
         \/ ~Busy(hc) /\ ~hc'.cmd_inflight /\ hc'.cmd_line \in Cmd
  BY <1>0, NextSteps
<1>3. CommandInOnePlace'
  BY <1>0, <1>2, Zenon DEF CommandInOnePlace, QueuesNothing
<1>4. hc'.initialised
  BY <1>0, <1>2, Zenon
     DEF LinesKnown, Calm, Keeps, Collects, Ends, Restarts, Unloads
<1>5. Busy(hc') => hc'.cmd_line \in Cmd
  BY <1>0, <1>2, Zenon DEF LinesKnown, QueuesNothing
<1>6. Owes' => gcmd' \in Cmd
  BY <1>0, <1>2, Zenon
     DEF LinesKnown, Calm, Collects, Ends, Restarts, Unloads, Deliverable, Busy
<1>7. LinesKnown'
  BY <1>4, <1>5, <1>6, Zenon DEF LinesKnown
<1>8. InflightIsRunning'
  BY <1>0, <1>2, Zenon
     DEF InflightIsRunning, Calm, Keeps, Collects, Ends, Restarts, Unloads, Busy
<1>9. EndExpected'
  <2>1. hc.orphaned \in Nat
    BY <1>0, Zenon DEF TypeOK, HostTypeOK, HostCmdState
  <2>2. hc.orphaned + 1 > 0
    BY <2>1
  <2>3. CASE Calm
    <3>1. Owes' => hc.cmd_inflight \/ hc.orphaned > 0
      BY <1>0, <2>3, Zenon DEF Calm, EndExpected
    <3>2. hc.cmd_inflight => hc'.cmd_inflight \/ hc'.orphaned > 0
      BY <2>2, <2>3, Zenon DEF Calm, Keeps
    <3>3. hc.orphaned > 0 => hc'.orphaned > 0
      <4>1. hc'.orphaned \in {hc.orphaned, hc.orphaned + 1}
        BY <2>3, Zenon DEF Calm, Keeps
      <4>2. QED  BY <2>1, <4>1
    <3>4. QED  BY <3>1, <3>2, <3>3, Zenon DEF EndExpected
  <2>4. CASE Collects \/ Ends \/ Restarts \/ Unloads
    BY <2>4, Zenon DEF Collects, Ends, Restarts, Unloads, EndExpected
  <2>5. QED  BY <1>2, <2>3, <2>4
<1>10. QED  BY <1>1, <1>3, <1>7, <1>8, <1>9 DEF ChannelInv

(* Every variable of the channel always holds a value of its type. *)
THEOREM TypeCorrect == Spec => []TypeOK
<1>1. ChannelInv => TypeOK
  BY DEF ChannelInv
<1>2. QED  BY InitChannel, NextChannel, <1>1, PTL DEF Spec

(* As long as the emulator waits for a command, the guest runs that one. *)
THEOREM GuestRunsTheInflightCommand == Spec => []InflightIsRunning
<1>1. ChannelInv => InflightIsRunning
  BY DEF ChannelInv
<1>2. QED  BY InitChannel, NextChannel, <1>1, PTL DEF Spec

(* An END never takes the emulator by surprise, whatever the clients, the   *)
(* user and the clock do, and even if the module is unloaded and loaded     *)
(* again in the middle of a command.                                        *)
THEOREM EndsAreExpected == Spec => []EndExpected
<1>1. ChannelInv => EndExpected
  BY DEF ChannelInv
<1>2. QED  BY InitChannel, NextChannel, <1>1, PTL DEF Spec

LEMMA NextAccounted ==
    "unload" \notin Upsets
        => (ChannelInv /\ GuestAccounted /\ [Next]_vars => GuestAccounted')
<1> SUFFICES ASSUME "unload" \notin Upsets, ChannelInv, GuestAccounted, [Next]_vars
             PROVE  GuestAccounted'
  OBVIOUS
<1>0. TypeOK /\ LinesKnown /\ CommandInOnePlace
  BY DEF ChannelInv
<1>1. hc \in HostCmdState /\ hc.cmd_inflight \in BOOLEAN /\ hc.orphaned \in Nat
  BY <1>0, Zenon DEF TypeOK, HostTypeOK, HostCmdState
<1>2. Calm \/ Collects \/ Ends \/ Restarts
  BY <1>0, NextSteps, Zenon DEF Unloads
<1>3. CASE Calm
  <2>1. CASE hc'.cmd_inflight = hc.cmd_inflight /\ hc'.orphaned = hc.orphaned
    BY <1>3, <2>1, Zenon DEF Calm, GuestAccounted
  <2>2. CASE hc.cmd_inflight /\ ~hc'.cmd_inflight /\ hc'.orphaned = hc.orphaned + 1
    <3>1. hc.orphaned = 0 /\ Owes
      BY <2>2, Zenon DEF GuestAccounted
    <3>2. hc'.orphaned = 1 /\ hc'.orphaned # 0
      BY <2>2, <3>1
    <3>3. QED  BY <1>3, <2>2, <3>1, <3>2, Zenon DEF Calm, GuestAccounted
  <2>3. QED  BY <1>3, <2>1, <2>2, Zenon DEF Calm, Keeps
<1>4. CASE Collects
  BY <1>4, Zenon DEF Collects, GuestAccounted
<1>5. CASE Ends
  <2>1. hc'.orphaned = 0
    <3>1. \/ hc.cmd_inflight /\ hc.orphaned = 0
          \/ ~hc.cmd_inflight /\ hc.orphaned = 1
      BY <1>5, Zenon DEF Ends, GuestAccounted
    <3>2. CASE hc.cmd_inflight /\ hc.orphaned = 0
      BY <1>5, <3>2, Zenon DEF Ends
    <3>3. CASE ~hc.cmd_inflight /\ hc.orphaned = 1
      BY <1>5, <3>3 DEF Ends
    <3>4. QED  BY <3>1, <3>2, <3>3
  <2>2. QED  BY <1>5, <2>1, Zenon DEF Ends, GuestAccounted
<1>6. CASE Restarts
  BY <1>6, Zenon DEF Restarts, GuestAccounted, Busy
<1>7. QED  BY <1>2, <1>3, <1>4, <1>5, <1>6

(* The emulator's count of what the guest owes it is exact, provided the    *)
(* support module is not unloaded: at most one command is with the guest,   *)
(* and it is either waited for or, alone, an orphan.                        *)
THEOREM GuestIsAccounted == "unload" \notin Upsets => (Spec => []GuestAccounted)
<1> SUFFICES ASSUME "unload" \notin Upsets PROVE Spec => []GuestAccounted
  OBVIOUS
<1>1. ChannelInv /\ GuestAccounted /\ [Next]_vars => GuestAccounted'
  BY NextAccounted
<1>2. QED  BY InitChannel, NextChannel, <1>1, PTL DEF Spec

(* The frames of r are the first frames of s. *)
StartsWith(s, r) ==
    Len(r) =< Len(s) /\ \A i \in 1 .. Len(r) : s[i] = r[i]

(* From r to s the oldest frame was consumed, in part or wholly, or none    *)
(* was, and frames were put in behind.                                      *)
Consumes(r, s) ==
    \E old \in {r, SubSeq(r, 2, Len(r))} :
        /\ Len(old) =< Len(s)
        /\ \A i \in 1 .. Len(old) :
              /\ s[i].data = old[i].data
              /\ s[i].left = old[i].left \/ (i = 1 /\ s[1].left < old[1].left)

LEMMA StartsWithItself == \A r \in Seq(Frame) : StartsWith(r, r)
BY DEF StartsWith

LEMMA StartsWithTrans ==
    ASSUME NEW r \in Seq(Frame), NEW s \in Seq(Frame), NEW t \in Seq(Frame),
           StartsWith(s, r), StartsWith(t, s)
    PROVE  StartsWith(t, r)
BY DEF StartsWith

LEMMA StartsWithConsumes ==
    ASSUME NEW r \in Seq(Frame), NEW s \in Seq(Frame), StartsWith(s, r)
    PROVE  Consumes(r, s)
BY DEF StartsWith, Consumes

(* hc_push_frame puts a frame behind the others. *)
LEMMA PushFrameAppends ==
    ASSUME NEW h \in HostCmdState, NEW f \in Frame
    PROVE  StartsWith(PushFrame(h, f).ring, h.ring)
<1> DEFINE g == [h EXCEPT !.ring = Append(@, f), !.used = @ + f.left]
<1>1. h.ring \in Seq(Frame)
  BY Zenon DEF HostCmdState
<1>2. g.ring = Append(h.ring, f)
  BY Zenon DEF HostCmdState
<1> HIDE DEF g
<1>3. StartsWith(Append(h.ring, f), h.ring) /\ StartsWith(h.ring, h.ring)
  BY <1>1 DEF StartsWith
<1>4. QED  BY <1>2, <1>3, Zenon DEF PushFrame, g

LEMMA NoticeDoneAppends ==
    ASSUME NEW h \in HostCmdState, NEW c \in Cmd \union {None}
    PROVE  /\ StartsWith(PushFrame(PushFrame(h, Notice), Done(c)).ring, h.ring)
           /\ PushFrame(PushFrame(h, Notice), Done(c)).client = h.client
<1> DEFINE a == PushFrame(h, Notice)
           b == PushFrame(a, Done(c))
<1>1. a \in HostCmdState /\ b \in HostCmdState
  BY FrameTypes, PushFrameType, Zenon
<1>2. StartsWith(a.ring, h.ring) /\ StartsWith(b.ring, a.ring)
  BY <1>1, FrameTypes, PushFrameAppends, Zenon
<1>3. h.ring \in Seq(Frame) /\ a.ring \in Seq(Frame) /\ b.ring \in Seq(Frame)
  BY <1>1, Zenon DEF HostCmdState
<1>4. a.client = h.client /\ b.client = a.client
  BY <1>1, PushFrameCommand, Zenon
<1> HIDE DEF a, b
<1>5. StartsWith(b.ring, h.ring)
  BY <1>2, <1>3, StartsWithTrans, Zenon
<1>6. QED  BY <1>4, <1>5, Zenon DEF a, b

(* From h to g the frames waiting for a client that stays are kept. *)
Appends(h, g) ==
    h.client # None /\ g.client = h.client => StartsWith(g.ring, h.ring)

LEMMA SameRingAppends ==
    ASSUME NEW h \in HostCmdState, NEW g, SameRing(g, h)
    PROVE  Appends(h, g)
<1>1. h.ring \in Seq(Frame)
  BY Zenon DEF HostCmdState
<1>2. QED  BY <1>1, StartsWithItself, Zenon DEF SameRing, Appends

LEMMA ExpireAppends ==
    ASSUME NEW h \in HostCmdState
    PROVE  Expire(h).client = h.client /\ StartsWith(Expire(h).ring, h.ring)
<1> DEFINE g == [h EXCEPT !.cmd_pending = FALSE, !.cmd_line = None]
<1>1. g \in HostCmdState /\ SameRing(g, h) /\ h.cmd_line \in Cmd \union {None}
      /\ h.ring \in Seq(Frame)
  BY Zenon DEF HostCmdState, SameRing
<1> HIDE DEF g
<1>2. SameRing(InternalFinish(g, None), g)
  BY <1>1, InternalFinishCommand, Zenon
<1>3. /\ StartsWith(PushFrame(PushFrame(g, Notice), Done(h.cmd_line)).ring, g.ring)
      /\ PushFrame(PushFrame(g, Notice), Done(h.cmd_line)).client = g.client
  BY <1>1, NoticeDoneAppends, Zenon
<1>4. QED
  BY <1>1, <1>2, <1>3, StartsWithItself, Zenon DEF Expire, SameRing, g

LEMMA ResetStateAppends ==
    ASSUME NEW h \in HostCmdState
    PROVE  Appends(h, ResetState(h))
<1> DEFINE told == IF h.client # None /\ h.cmd_inflight
                     THEN PushFrame(PushFrame(h, Notice), Done(h.cmd_line))
                     ELSE h
           idle == [told EXCEPT !.cmd_pending = FALSE, !.cmd_inflight = FALSE,
                                !.cmd_line = None, !.orphaned = 0,
                                !.registered = FALSE]
           quiet == [idle EXCEPT !.internal_done = None]
<1>1. h.cmd_line \in Cmd \union {None} /\ h.ring \in Seq(Frame)
  BY Zenon DEF HostCmdState
<1>2. told \in HostCmdState /\ StartsWith(told.ring, h.ring)
  BY <1>1, FrameTypes, PushFrameType, NoticeDoneAppends, StartsWithItself, Zenon
<1> HIDE DEF told
<1>3. 0 \in Nat
  OBVIOUS
<1>4. SameRing(idle, told)
  BY <1>2, Zenon DEF HostCmdState, SameRing
<1>5. idle \in HostCmdState
  BY <1>2, <1>3, ZenonT(40) DEF HostCmdState
<1> HIDE DEF idle
<1>6. quiet \in HostCmdState /\ SameRing(quiet, idle)
  BY <1>5, Zenon DEF HostCmdState, SameRing
<1> HIDE DEF quiet
<1>7. SameRing(InternalFinish(quiet, None), quiet)
  BY <1>6, InternalFinishCommand, Zenon
<1>8. ResetState(h) \in {h, idle, InternalFinish(quiet, None)}
  BY Zenon DEF ResetState, quiet, idle, told
<1>9. QED
  BY <1>1, <1>2, <1>4, <1>6, <1>7, <1>8, StartsWithItself, Zenon
     DEF Appends, SameRing

LEMMA InternalAbandonSameRing ==
    ASSUME NEW h \in HostCmdState
    PROVE  SameRing(InternalAbandon(h), h)
<1> DEFINE silent == [h EXCEPT !.internal_done = None]
           unqueued == [silent EXCEPT !.cmd_pending = FALSE, !.cmd_line = None]
           freed == IF h.cmd_pending THEN unqueued
                    ELSE IF h.cmd_inflight THEN Orphan(silent) ELSE silent
<1>1. silent \in HostCmdState /\ SameRing(silent, h)
  BY Zenon DEF HostCmdState, SameRing
<1> HIDE DEF silent
<1>2. unqueued \in HostCmdState /\ SameRing(unqueued, silent)
  BY <1>1, ZenonT(40) DEF HostCmdState, SameRing
<1>3. Orphan(silent) \in HostCmdState /\ SameRing(Orphan(silent), silent)
  BY <1>1, OrphanType, Zenon DEF Orphan, HostCmdState, SameRing
<1> HIDE DEF unqueued
<1>4. freed \in HostCmdState /\ SameRing(freed, h)
  BY <1>1, <1>2, <1>3, Zenon DEF SameRing
<1> HIDE DEF freed
<1>5. SameRing(InternalFinish(freed, None), freed)
  BY <1>4, InternalFinishCommand, Zenon
<1>6. QED
  BY <1>4, <1>5, Zenon DEF InternalAbandon, SameRing, freed, unqueued, silent

LEMMA ReadItemAppends ==
    ASSUME NEW h \in HostCmdState, NEW b
    PROVE  Appends(h, ReadItem(h, b))
<1> DEFINE g == [h EXCEPT !.in_buf = None]
           drop == [h EXCEPT !.in_overflow = FALSE]
           queued == [g EXCEPT !.cmd_line = h.in_buf, !.cmd_pending = TRUE,
                               !.queued_age = 0]
<1>1. /\ g \in HostCmdState /\ SameRing(g, h)
      /\ drop \in HostCmdState /\ SameRing(drop, h)
      /\ h.ring \in Seq(Frame)
  BY ZenonT(40) DEF HostCmdState, SameRing
<1> HIDE DEF g, drop
<1>2. SameRing(queued, g)
  BY <1>1, Zenon DEF HostCmdState, SameRing
<1>3. /\ StartsWith(PushFrame(g, Notice).ring, g.ring)
      /\ StartsWith(PushFrame(drop, Notice).ring, drop.ring)
  BY <1>1, FrameTypes, PushFrameAppends, Zenon
<1>4. StartsWith(h.ring, h.ring)
  BY <1>1, StartsWithItself, Zenon
<1> HIDE DEF queued
<1>5. StartsWith(EndOfLine(h).ring, h.ring)
  BY <1>1, <1>2, <1>3, <1>4, Zenon DEF EndOfLine, SameRing, g, drop, queued
<1>6. /\ SameRing([h EXCEPT !.in_overflow = TRUE, !.in_buf = None], h)
      /\ SameRing([h EXCEPT !.in_buf = b], h)
  BY Zenon DEF HostCmdState, SameRing
<1>7. QED
  BY <1>4, <1>5, <1>6, Zenon DEF ReadItem, Appends, SameRing

(* send() takes from the front of the frames, the ones put in by the give-up *)
(* before it included.                                                       *)
LEMMA SendConsumes ==
    ASSUME NEW h \in HostCmdState, h.ring # <<>>,
           NEW n \in Nat, n =< Head(h.ring).left, n >= 1,
           NEW r \in Seq(Frame), StartsWith(h.ring, r)
    PROVE  Consumes(r, SendBytes(h, n).ring)
<1> DEFINE f == Head(h.ring)
           part == [f EXCEPT !.left = @ - n]
           s == h.ring
<1>1. s \in Seq(Frame) /\ s # <<>>
  BY Zenon DEF HostCmdState
<1>2. f = s[1] /\ f \in Frame
  BY <1>1
<1>3. part.data = f.data /\ part.left = f.left - n /\ f.left \in Nat
  BY <1>2, Zenon DEF Frame
<1>4. part.left < f.left
  BY <1>3
<1>5. SendBytes(h, n).ring = IF n = f.left THEN Tail(s) ELSE <<part>> \o Tail(s)
  BY Zenon DEF SendBytes, HostCmdState
<1>6. part \in Frame
  <2>1. f.left - n \in Nat
    BY <1>3
  <2>2. QED  BY <1>2, <2>1, Zenon DEF Frame
<1> HIDE DEF f, part, s
<1>7. StartsWith(s, r)
  BY DEF s
<1>8. Consumes(r, Tail(s))
  <2> DEFINE old == SubSeq(r, 2, Len(r))
  <2>1. Len(old) =< Len(Tail(s)) /\ \A i \in 1 .. Len(old) : Tail(s)[i] = old[i]
    BY <1>1, <1>7 DEF StartsWith
  <2> HIDE DEF old
  <2>2. QED  BY <2>1, Zenon DEF Consumes, old
<1>9. Consumes(r, <<part>> \o Tail(s))
  <2> DEFINE t == <<part>> \o Tail(s)
  <2>1. /\ Len(t) = Len(s) /\ t[1] = part
        /\ \A i \in 1 .. Len(s) : i # 1 => t[i] = s[i]
    BY <1>1, <1>6
  <2> HIDE DEF t
  <2>2. Len(r) =< Len(t)
    BY <1>7, <2>1 DEF StartsWith
  <2>3. ASSUME NEW i \in 1 .. Len(r)
        PROVE  /\ t[i].data = r[i].data
               /\ t[i].left = r[i].left \/ (i = 1 /\ t[1].left < r[1].left)
    <3>1. i \in 1 .. Len(s) /\ r[i] = s[i]
      BY <1>1, <1>7 DEF StartsWith
    <3>2. CASE i = 1
      BY <1>2, <1>3, <1>4, <2>1, <3>1, <3>2, Zenon
    <3>3. CASE i # 1
      BY <2>1, <3>1, <3>3, Zenon
    <3>4. QED  BY <3>2, <3>3
  <2>4. QED  BY <2>2, <2>3, Zenon DEF Consumes, t
<1>10. QED  BY <1>5, <1>8, <1>9, Zenon

LEMMA AppendsConsumes ==
    ASSUME NEW h \in HostCmdState, NEW g \in HostCmdState, Appends(h, g),
           h.client # None, g.client = h.client
    PROVE  Consumes(h.ring, g.ring)
<1>1. h.ring \in Seq(Frame) /\ g.ring \in Seq(Frame)
  BY Zenon DEF HostCmdState
<1>2. QED  BY <1>1, StartsWithConsumes, Zenon DEF Appends

(* The frames a connected client has still to be sent are never reordered,  *)
(* changed or lost from the middle, whatever the guest prints.              *)
THEOREM StreamKeepsStep == HostSpec => FramesKept
<1> DEFINE Kept == hc.client # None /\ hc'.client = hc.client
                     => Consumes(hc.ring, hc'.ring)
<1>1. HostTypeOK /\ [HostNext]_hostVars => Kept
  <2> SUFFICES ASSUME HostTypeOK, [HostNext]_hostVars,
                      hc.client # None, hc'.client = hc.client
               PROVE  Consumes(hc.ring, hc'.ring)
    BY Zenon
  <2> DEFINE h == Expire(hc)
  <2>1. hc \in HostCmdState /\ hc' \in HostCmdState /\ h \in HostCmdState
    BY HostNextType, ExpireType, Zenon DEF HostTypeOK
  <2>2. h.client = hc.client /\ StartsWith(h.ring, hc.ring)
    BY <2>1, ExpireAppends, Zenon
  <2>3. SUFFICES Appends(hc, hc') \/ Consumes(hc.ring, hc'.ring)
    BY <2>1, AppendsConsumes, Zenon
  <2> HIDE DEF h
  <2>4. CASE Service
    <3>1. CASE PollHup \/ PollWriteFails
      <4>1. hc' = DropClient(h)
        BY <3>1, Zenon DEF PollHup, PollWriteFails, Emulator, h
      <4>2. QED  BY <2>1, <4>1, DropClientCommand, Zenon
    <3>2. CASE PollAccept
      BY <2>2, <3>2, Zenon DEF PollAccept, h
    <3>3. CASE PollRead \/ PollQuiet
      <4>1. hc' = h \/ hc' = DropClient(h)
        BY <3>3, Zenon DEF PollRead, PollQuiet, Emulator, h
      <4>2. QED  BY <2>1, <2>2, <4>1, DropClientCommand, Zenon DEF Appends
    <3>4. CASE ReadLoop
      BY <2>1, <3>4, ReadItemAppends, Zenon DEF ReadLoop
    <3>5. CASE \E n \in 1 .. RingSize : PollWrite(n)
      <4>1. PICK n \in 1 .. RingSize :
              hc' = SendBytes(h, n) /\ h.ring # <<>> /\ n \in 1 .. Head(h.ring).left
        BY <3>5, Zenon DEF PollWrite, Emulator, h
      <4>2. h.ring \in Seq(Frame) /\ hc.ring \in Seq(Frame)
        BY <2>1, Zenon DEF HostCmdState
      <4>3. Head(h.ring) \in Frame
        BY <4>1, <4>2
      <4>4. n \in Nat /\ n =< Head(h.ring).left /\ n >= 1
        BY <4>1, <4>3 DEF Frame
      <4>5. QED  BY <2>1, <2>2, <4>1, <4>2, <4>4, SendConsumes, Zenon
    <3>6. QED  BY <2>4, <3>1, <3>2, <3>3, <3>4, <3>5, Zenon DEF Service
  <2>5. CASE Clients \/ UNCHANGED hostVars
    <3>1. hc' = hc
      BY <2>5, Zenon DEF Clients, Connect, Hangup, SendLine, TypeAhead, hostVars
    <3>2. QED  BY <2>1, <3>1, SameRingAppends, Zenon DEF SameRing
  <2>6. CASE AnyGuest
    <3>1. SameRing(SwiRegister(hc), hc)
          /\ \A fits : SameRing(SwiPoll(hc, fits), hc)
      BY <2>1, Zenon DEF SwiRegister, SwiPoll, HostCmdState, SameRing
    <3>2. ASSUME NEW data \in Blocks PROVE Appends(hc, SwiOutput(hc, data))
      <4> DEFINE part == SubSeq(data, 1, Accepts(hc, data))
      <4>1. data \in Seq(Cmd)
        BY BlocksAssumption, Zenon
      <4>2. part \in Seq(Cmd)
        BY <2>1, <4>1, AcceptsRange
      <4>3. StartsWith(PushFrame(hc, Output(part)).ring, hc.ring)
        BY <2>1, <4>2, FrameTypes, PushFrameAppends, Zenon
      <4>4. SameRing(Capture(hc, data), hc) /\ SameRing(hc, hc)
        BY <2>1, Zenon DEF Capture, HostCmdState, SameRing
      <4>5. Appends(hc, Capture(hc, data)) /\ Appends(hc, hc)
        BY <2>1, <4>4, SameRingAppends, Zenon
      <4>6. QED  BY <4>3, <4>5, Zenon DEF SwiOutput, Appends
    <3>3. Appends(hc, SwiStatusEnd(hc, hc.cmd_line))
      <4> DEFINE e == [hc EXCEPT !.cmd_inflight = FALSE]
                 p == PushFrame(hc, Done(hc.cmd_line))
                 q == [p EXCEPT !.cmd_inflight = FALSE]
      <4>0. hc.cmd_line \in Cmd \union {None}
        BY <2>1, Zenon DEF HostCmdState
      <4>1. e \in HostCmdState /\ SameRing(e, hc)
            /\ SameRing([hc EXCEPT !.orphaned = @ - 1], hc)
        BY <2>1, ZenonT(40) DEF HostCmdState, SameRing
      <4>2. p \in HostCmdState /\ StartsWith(p.ring, hc.ring)
        BY <2>1, <4>0, FrameTypes, PushFrameType, PushFrameAppends, Zenon
      <4> HIDE DEF e, p
      <4>3. SameRing(q, p) /\ SameRing(InternalFinish(e, hc.cmd_line), e)
        BY <4>1, <4>2, InternalFinishCommand, Zenon DEF HostCmdState, SameRing
      <4> HIDE DEF q
      <4>4. /\ Appends(hc, q) /\ Appends(hc, [hc EXCEPT !.orphaned = @ - 1])
            /\ Appends(hc, InternalFinish(e, hc.cmd_line))
        <5>1. SameRing(InternalFinish(e, hc.cmd_line), hc)
          BY <4>1, <4>3, Zenon DEF SameRing
        <5>2. QED
          BY <2>1, <4>1, <4>2, <4>3, <5>1, SameRingAppends, Zenon
             DEF Appends, SameRing
      <4>5. QED  BY <4>4, Zenon DEF SwiStatusEnd, q, p, e
    <3>4. QED
      BY <2>1, <2>6, <3>1, <3>2, <3>3, SameRingAppends, Zenon
         DEF AnyGuest, Emulator
  <2>7. CASE SubmitFresh \/ Tick
    <3>1. SameRing(hc', hc)
      BY <2>1, <2>7, Zenon
         DEF SubmitFresh, Emulator, InternalSubmit, Tick, HostCmdState, SameRing
    <3>2. QED  BY <2>1, <3>1, SameRingAppends, Zenon
  <2>8. CASE Abandon \/ HostReset
    BY <2>1, <2>8, InternalAbandonSameRing, ResetStateAppends, SameRingAppends,
       Zenon DEF Abandon, HostReset, Emulator
  <2>9. CASE Close
    <3>1. hc'.client = None
      BY <2>1, <2>9, Zenon DEF Close, CloseState, Emulator, HostCmdState
    <3>2. QED  BY <3>1, Zenon
  <2>10. QED
    BY <2>4, <2>5, <2>6, <2>7, <2>8, <2>9 DEF HostNext
<1>2. Kept => [hc.client # None /\ hc'.client = hc.client =>
         \E old \in {hc.ring, SubSeq(hc.ring, 2, Len(hc.ring))} :
            /\ Len(old) =< Len(hc'.ring)
            /\ \A i \in 1 .. Len(old) :
                  /\ hc'.ring[i].data = old[i].data
                  /\ hc'.ring[i].left = old[i].left
                     \/ (i = 1 /\ hc'.ring[1].left < old[1].left)]_hostVars
  BY Zenon DEF Consumes
<1>3. QED  BY <1>1, <1>2, HostTypeCorrect, PTL DEF HostSpec, FramesKept
-----------------------------------------------------------------------------
(* Internal commands *)

SameInternal(g, h) ==
    /\ g.internal_active = h.internal_active
    /\ g.internal_done = h.internal_done
    /\ g.posted = h.posted

(* The internal command is closed and its caller told, if there is one. *)
Finishes(h, g, status) ==
    /\ g.internal_active = FALSE /\ g.internal_done = None
    /\ \/ h.internal_done = None /\ g.posted = h.posted
       \/ \E ok \in BOOLEAN, out \in Seq(Cmd) :
             /\ h.internal_done # None
             /\ g.posted = Append(h.posted, [token |-> h.internal_done, ok |-> ok,
                                             out |-> out, status |-> status])

(* It is closed without a word. *)
Silences(h, g) ==
    /\ g.internal_active = FALSE /\ g.internal_done = None
    /\ g.posted = h.posted

LEMMA PushFrameInternal ==
    ASSUME NEW h \in HostCmdState, NEW f
    PROVE  SameInternal(PushFrame(h, f), h)
BY Zenon DEF PushFrame, SameInternal, HostCmdState

LEMMA InternalFinishInternal ==
    ASSUME NEW h \in HostCmdState, NEW s
    PROVE  Finishes(h, InternalFinish(h, s), s)
<1> DEFINE g == InternalFinish(h, s)
<1>1. /\ g.internal_active = FALSE /\ g.internal_done = None
      /\ g.posted = IF h.internal_done = None THEN h.posted
                    ELSE Append(h.posted, [token |-> h.internal_done, ok |-> TRUE,
                                           out |-> h.internal_out, status |-> s])
  BY Zenon DEF InternalFinish, HostCmdState
<1>2. h.internal_out \in Seq(Cmd)
  BY Zenon DEF HostCmdState
<1> HIDE DEF g
<1>3. QED  BY <1>1, <1>2, Zenon DEF Finishes, g

LEMMA ExpireInternal ==
    ASSUME NEW h \in HostCmdState
    PROVE  \/ SameInternal(Expire(h), h) /\ (~h.internal_active \/ ~GivenUp(h))
           \/ h.internal_active /\ Finishes(h, Expire(h), None)
<1> DEFINE g == [h EXCEPT !.cmd_pending = FALSE, !.cmd_line = None]
           a == PushFrame(g, Notice)
           b == PushFrame(a, Done(h.cmd_line))
<1>1. g \in HostCmdState /\ SameInternal(g, h)
  BY Zenon DEF HostCmdState, SameInternal
<1> HIDE DEF g
<1>2. a \in HostCmdState /\ SameInternal(a, g)
  BY <1>1, FrameTypes, PushFrameType, PushFrameInternal, Zenon
<1> HIDE DEF a
<1>3. SameInternal(b, a)
  BY <1>2, PushFrameInternal, Zenon
<1>4. SameInternal(b, h)
  BY <1>1, <1>2, <1>3, Zenon DEF SameInternal
<1>5. Finishes(g, InternalFinish(g, None), None)
  BY <1>1, InternalFinishInternal, Zenon
<1>6. Finishes(h, InternalFinish(g, None), None)
  BY <1>1, <1>5, Zenon DEF Finishes, SameInternal
<1> HIDE DEF b
<1>7. Expire(h) = IF ~GivenUp(h) THEN h
                  ELSE IF h.internal_active THEN InternalFinish(g, None) ELSE b
  BY Zenon DEF Expire, g, a, b
<1>8. QED  BY <1>4, <1>6, <1>7, Zenon DEF SameInternal

LEMMA SwiStatusEndInternal ==
    ASSUME NEW h \in HostCmdState, NEW c \in Cmd \union {None}
    PROVE  \/ SameInternal(SwiStatusEnd(h, c), h)
                /\ (~h.internal_active \/ (~h.cmd_inflight /\ h.orphaned > 0))
           \/ /\ h.internal_active /\ Finishes(h, SwiStatusEnd(h, c), c)
              /\ h.cmd_inflight \/ ~(h.orphaned > 0)
<1> DEFINE e == [h EXCEPT !.cmd_inflight = FALSE]
           p == PushFrame(h, Done(c))
           q == [p EXCEPT !.cmd_inflight = FALSE]
           d == [h EXCEPT !.orphaned = @ - 1]
<1>1. e \in HostCmdState /\ SameInternal(e, h) /\ SameInternal(d, h)
  BY Zenon DEF HostCmdState, SameInternal
<1>2. p \in HostCmdState /\ SameInternal(p, h)
  BY FrameTypes, PushFrameType, PushFrameInternal, Zenon
<1> HIDE DEF e, p, d
<1>3. SameInternal(q, p)
  BY <1>2, Zenon DEF HostCmdState, SameInternal
<1>4. Finishes(e, InternalFinish(e, c), c)
  BY <1>1, InternalFinishInternal, Zenon
<1>5. Finishes(h, InternalFinish(e, c), c)
  BY <1>1, <1>4, Zenon DEF Finishes, SameInternal
<1> HIDE DEF q
<1>6. SwiStatusEnd(h, c) = IF ~h.cmd_inflight /\ h.orphaned > 0 THEN d
                           ELSE IF h.internal_active THEN InternalFinish(e, c)
                           ELSE q
  BY Zenon DEF SwiStatusEnd, e, p, q, d
<1>7. SameInternal(q, h)
  BY <1>2, <1>3, Zenon DEF SameInternal
<1>8. QED  BY <1>1, <1>5, <1>6, <1>7, Zenon

LEMMA InternalAbandonInternal ==
    ASSUME NEW h \in HostCmdState
    PROVE  IF h.internal_active THEN Silences(h, InternalAbandon(h))
                                ELSE InternalAbandon(h) = h
<1> DEFINE silent == [h EXCEPT !.internal_done = None]
           unqueued == [silent EXCEPT !.cmd_pending = FALSE, !.cmd_line = None]
           freed == IF h.cmd_pending THEN unqueued
                    ELSE IF h.cmd_inflight THEN Orphan(silent) ELSE silent
<1>0. silent \in HostCmdState
  BY Zenon DEF HostCmdState
<1>1. silent.internal_done = None /\ silent.posted = h.posted
  BY Zenon DEF HostCmdState
<1> HIDE DEF silent
<1>2. unqueued \in HostCmdState /\ SameInternal(unqueued, silent)
  <2>1. unqueued \in HostCmdState
    BY <1>0, ZenonT(40) DEF HostCmdState
  <2>2. SameInternal(unqueued, silent)
    BY <1>0, ZenonT(40) DEF HostCmdState, SameInternal
  <2>3. QED  BY <2>1, <2>2
<1>3. Orphan(silent) \in HostCmdState /\ SameInternal(Orphan(silent), silent)
  <2>1. Orphan(silent) \in HostCmdState
    BY <1>0, OrphanType, Zenon
  <2>2. SameInternal(Orphan(silent), silent)
    BY <1>0, ZenonT(40) DEF Orphan, HostCmdState, SameInternal
  <2>3. QED  BY <2>1, <2>2
<1> HIDE DEF unqueued
<1>4. freed \in HostCmdState /\ SameInternal(freed, silent)
  BY <1>0, <1>2, <1>3, Zenon DEF SameInternal
<1> HIDE DEF freed
<1>5. Finishes(freed, InternalFinish(freed, None), None)
  BY <1>4, InternalFinishInternal, Zenon
<1>6. Silences(h, InternalFinish(freed, None))
  BY <1>1, <1>4, <1>5, Zenon DEF Finishes, Silences, SameInternal
<1>7. QED  BY <1>6, Zenon DEF InternalAbandon, freed, unqueued, silent

LEMMA ResetStateInternal ==
    ASSUME NEW h \in HostCmdState, h.initialised
    PROVE  IF h.internal_active THEN Silences(h, ResetState(h))
                                ELSE SameInternal(ResetState(h), h)
<1> DEFINE told == IF h.client # None /\ h.cmd_inflight
                     THEN PushFrame(PushFrame(h, Notice), Done(h.cmd_line))
                     ELSE h
           idle == [told EXCEPT !.cmd_pending = FALSE, !.cmd_inflight = FALSE,
                                !.cmd_line = None, !.orphaned = 0,
                                !.registered = FALSE]
           quiet == [idle EXCEPT !.internal_done = None]
<1>1. told \in HostCmdState /\ SameInternal(told, h)
  <2>0. h.cmd_line \in Cmd \union {None}
    BY Zenon DEF HostCmdState
  <2>1. PushFrame(h, Notice) \in HostCmdState
        /\ PushFrame(PushFrame(h, Notice), Done(h.cmd_line)) \in HostCmdState
    BY <2>0, FrameTypes, PushFrameType, Zenon
  <2>2. SameInternal(PushFrame(h, Notice), h)
        /\ SameInternal(PushFrame(PushFrame(h, Notice), Done(h.cmd_line)),
                        PushFrame(h, Notice))
    BY <2>1, PushFrameInternal, Zenon
  <2>3. QED  BY <2>1, <2>2, Zenon DEF SameInternal
<1> HIDE DEF told
<1>2. 0 \in Nat
  OBVIOUS
<1>3. idle \in HostCmdState
  BY <1>1, <1>2, ZenonT(40) DEF HostCmdState
<1>4. SameInternal(idle, told)
  BY <1>1, ZenonT(40) DEF HostCmdState, SameInternal
<1> HIDE DEF idle
<1>5. quiet \in HostCmdState /\ quiet.internal_done = None
      /\ quiet.posted = idle.posted
  BY <1>3, ZenonT(40) DEF HostCmdState
<1> HIDE DEF quiet
<1>6. Finishes(quiet, InternalFinish(quiet, None), None)
  BY <1>5, InternalFinishInternal, Zenon
<1>7. ResetState(h) = IF h.internal_active THEN InternalFinish(quiet, None) ELSE idle
  BY Zenon DEF ResetState, quiet, idle, told
<1>8. QED
  BY <1>1, <1>4, <1>5, <1>6, <1>7, Zenon DEF SameInternal, Finishes, Silences

(* The remaining functions leave the internal command alone. *)
LEMMA OtherInternal ==
    ASSUME NEW h \in HostCmdState
    PROVE  /\ SameInternal(SwiRegister(h), h)
           /\ \A fits : SameInternal(SwiPoll(h, fits), h)
           /\ \A data : SameInternal(SwiOutput(h, data), h)
           /\ \A n : SameInternal(SendBytes(h, n), h)
           /\ SameInternal(DropClient(h), h)
           /\ \A c \in Conn : SameInternal(AcceptClient(h, c), h)
<1>1. /\ SameInternal(SwiRegister(h), h)
      /\ \A n : SameInternal(SendBytes(h, n), h)
  BY ZenonT(40) DEF SwiRegister, SendBytes, HostCmdState, SameInternal
<1>2. \A fits : SameInternal(SwiPoll(h, fits), h)
  BY ZenonT(40) DEF SwiPoll, HostCmdState, SameInternal
<1>3. \A data : SameInternal(SwiOutput(h, data), h)
  <2>1. \A data : SameInternal(Capture(h, data), h)
    BY ZenonT(40) DEF Capture, HostCmdState, SameInternal
  <2>2. QED
    BY <2>1, PushFrameInternal, Zenon DEF SwiOutput, SameInternal
<1>4. SameInternal(DropClient(h), h)
  BY ZenonT(40) DEF DropClient, Orphan, HostCmdState, SameInternal
<1>5. ASSUME NEW c \in Conn PROVE SameInternal(AcceptClient(h, c), h)
  <2> DEFINE g == [h EXCEPT !.client = c, !.in_buf = None,
                            !.in_overflow = FALSE, !.ring = <<>>, !.used = 0]
  <2>1. <<>> \in Seq(Frame) /\ 0 \in Int
    OBVIOUS
  <2>2. g \in HostCmdState /\ SameInternal(g, h)
    BY <2>1, ZenonT(40) DEF HostCmdState, SameInternal
  <2> HIDE DEF g
  <2>3. SameInternal(PushFrame(g, Notice), g)
    BY <2>2, PushFrameInternal, Zenon
  <2>4. QED  BY <2>2, <2>3, Zenon DEF AcceptClient, SameInternal, g
<1>6. QED  BY <1>1, <1>2, <1>3, <1>4, <1>5, Zenon

LEMMA ReadItemInternal ==
    ASSUME NEW h \in HostCmdState, NEW b
    PROVE  SameInternal(ReadItem(h, b), h)
<1> DEFINE g == [h EXCEPT !.in_buf = None]
           drop == [h EXCEPT !.in_overflow = FALSE]
           queued == [g EXCEPT !.cmd_line = h.in_buf, !.cmd_pending = TRUE,
                               !.queued_age = 0]
<1>1. /\ g \in HostCmdState /\ SameInternal(g, h)
      /\ drop \in HostCmdState /\ SameInternal(drop, h)
  BY ZenonT(40) DEF HostCmdState, SameInternal
<1> HIDE DEF g, drop
<1>2. SameInternal(queued, g)
  BY <1>1, ZenonT(40) DEF HostCmdState, SameInternal
<1>3. /\ SameInternal(PushFrame(g, Notice), g)
      /\ SameInternal(PushFrame(drop, Notice), drop)
  BY <1>1, PushFrameInternal, Zenon
<1> HIDE DEF queued
<1>4. SameInternal(EndOfLine(h), h)
  BY <1>1, <1>2, <1>3, Zenon DEF EndOfLine, SameInternal, g, drop, queued
<1>5. /\ SameInternal([h EXCEPT !.in_overflow = TRUE, !.in_buf = None], h)
      /\ SameInternal([h EXCEPT !.in_buf = b], h)
      /\ SameInternal(h, h)
  BY ZenonT(40) DEF HostCmdState, SameInternal
<1>6. QED  BY <1>4, <1>5, Zenon DEF ReadItem

(* The emulator may be about to let its client go. *)
ClientLeft == hc.client # None /\ peer[hc.client] \in {"half", "closed"}

(* What a step of the emulator or of the guest does to an internal command: *)
(* it leaves it as it is, queued or running under its line unless a client  *)
(* leaves, or it closes it with the status of that line.                    *)
InternalKept ==
    /\ SameInternal(hc', hc)
    /\ hc.internal_active /\ Busy(hc)
         => (Busy(hc') /\ hc'.cmd_line = hc.cmd_line) \/ ClientLeft

InternalClosed ==
    /\ hc.internal_active
    /\ \E s \in {hc.cmd_line, None} : Finishes(hc, hc', s)

LEMMA SameInternalKept ==
    ASSUME SameCommand(hc', hc), SameInternal(hc', hc)
    PROVE  InternalKept
BY Zenon DEF SameCommand, SameInternal, InternalKept, Busy

LEMMA NoStepInternal == hc' = hc => InternalKept
BY Zenon DEF SameInternal, InternalKept

(* hostcmd_poll: the give-up, and then what it finds to do. *)
LEMMA ExpireThenInternal ==
    ASSUME hc \in HostCmdState, SameInternal(hc', Expire(hc)),
           SameCommand(hc', Expire(hc)) \/ ClientLeft
    PROVE  InternalKept \/ InternalClosed
<1> DEFINE h == Expire(hc)
<1>1. CASE SameInternal(h, hc) /\ (~hc.internal_active \/ ~GivenUp(hc))
  <2>1. SameInternal(hc', hc)
    BY <1>1, Zenon DEF SameInternal
  <2>2. hc.internal_active => h = hc
    BY <1>1, ExpireCommand, Zenon
  <2>3. QED
    BY <2>1, <2>2, Zenon DEF InternalKept, SameCommand, Busy
<1>2. CASE hc.internal_active /\ Finishes(hc, h, None)
  BY <1>2, Zenon DEF InternalClosed, Finishes, SameInternal
<1>3. QED  BY <1>1, <1>2, ExpireInternal, Zenon

LEMMA ServiceInternal ==
    ASSUME HostTypeOK, Service
    PROVE  InternalKept \/ InternalClosed
<1> DEFINE h == Expire(hc)
<1>1. hc \in HostCmdState /\ h \in HostCmdState
  BY ExpireType, Zenon DEF HostTypeOK
<1>2. h.client = hc.client
  BY <1>1, ExpireAppends, Zenon
<1>3. SameInternal(DropClient(h), h) /\ \A n : SameInternal(SendBytes(h, n), h)
  BY <1>1, OtherInternal, Zenon
<1>4. CASE PollHup \/ PollWriteFails
  <2>1. hc' = DropClient(h) /\ ClientLeft
    BY <1>2, <1>4, Zenon DEF PollHup, PollWriteFails, Emulator, ClientLeft
  <2>2. QED  BY <1>1, <1>3, <2>1, ExpireThenInternal, Zenon
<1>5. CASE PollAccept
  <2>1. hc' = AcceptClient(h, Head(backlog)) /\ backlog # <<>>
    BY <1>5, Zenon DEF PollAccept, Emulator
  <2>2. Head(backlog) \in Conn
    BY <2>1 DEF HostTypeOK
  <2>3. SameInternal(hc', h) /\ SameCommand(hc', h)
    BY <1>1, <2>1, <2>2, OtherInternal, AcceptClientCommand, Zenon
  <2>4. QED  BY <1>1, <2>3, ExpireThenInternal, Zenon
<1>6. CASE PollRead \/ PollQuiet
  <2>1. hc' = h \/ (hc' = DropClient(h) /\ ClientLeft)
    BY <1>2, <1>6, Zenon DEF PollRead, PollQuiet, Emulator, ClientLeft
  <2>2. SameInternal(h, h) /\ SameCommand(h, h)
    BY Zenon DEF SameInternal, SameCommand
  <2>3. QED  BY <1>1, <1>3, <2>1, <2>2, ExpireThenInternal, Zenon
<1>7. CASE ReadLoop
  <2>1. hc' = ReadItem(hc, Head(tmp))
    BY <1>7, Zenon DEF ReadLoop
  <2>2. SameInternal(hc', hc) /\ (SameCommand(hc', hc) \/ ~Busy(hc))
    BY <1>1, <2>1, ReadItemInternal, ReadItemCommand, Zenon
  <2>3. QED  BY <2>2, SameInternalKept, Zenon DEF InternalKept
<1>8. CASE \E n \in 1 .. RingSize : PollWrite(n)
  <2>1. PICK n : hc' = SendBytes(h, n)
    BY <1>8, Zenon DEF PollWrite, Emulator
  <2>2. SameInternal(hc', h) /\ SameCommand(hc', h)
    BY <1>1, <1>3, <2>1, OtherCommand, Zenon
  <2>3. QED  BY <1>1, <2>2, ExpireThenInternal, Zenon
<1>9. QED  BY <1>4, <1>5, <1>6, <1>7, <1>8, Zenon DEF Service

(* A STATUS END closes an internal command only if it is the guest's. *)
LEMMA EndInternal ==
    ASSUME ChannelInv, Owes, hc' = SwiStatusEnd(hc, gcmd)
    PROVE  InternalKept \/ InternalClosed
<1>1. hc \in HostCmdState /\ gcmd \in Cmd \union {None}
  BY Zenon DEF ChannelInv, TypeOK, HostTypeOK
<1>2. hc.cmd_inflight \/ hc.orphaned > 0
  BY Zenon DEF ChannelInv, EndExpected
<1>3. hc.cmd_inflight => gcmd = hc.cmd_line
  BY Zenon DEF ChannelInv, InflightIsRunning
<1>4. CASE SameInternal(hc', hc)
             /\ (~hc.internal_active \/ (~hc.cmd_inflight /\ hc.orphaned > 0))
  <2>1. hc'.cmd_pending = hc.cmd_pending /\ hc'.cmd_line = hc.cmd_line
    BY <1>1, SwiStatusEndCommand, Zenon
  <2>2. QED  BY <1>4, <2>1, Zenon DEF InternalKept, Busy
<1>5. CASE /\ hc.internal_active /\ Finishes(hc, hc', gcmd)
           /\ hc.cmd_inflight \/ ~(hc.orphaned > 0)
  BY <1>2, <1>3, <1>5, Zenon DEF InternalClosed
<1>6. QED  BY <1>1, <1>4, <1>5, SwiStatusEndInternal, Zenon

LEMMA GuestInternal ==
    ASSUME ChannelInv, Guest
    PROVE  InternalKept \/ InternalClosed
<1>0. HostTypeOK /\ GuestTypeOK /\ hc \in HostCmdState
  BY TypeParts, Zenon DEF ChannelInv, HostTypeOK
<1>1. CASE ModuleInit
  <2>1. hc' = SwiRegister(hc)
    BY <1>1, Zenon DEF ModuleInit, Swi, Emulator
  <2>2. QED  BY <1>0, <2>1, OtherCommand, OtherInternal, SameInternalKept, Zenon
<1>2. CASE FlushRing
  <2>1. PICK n : hc' = SwiOutput(hc, SubSeq(gring, 1, n))
    BY <1>2, Zenon DEF FlushRing, Swi, Emulator
  <2>2. QED  BY <1>0, <2>1, OtherCommand, OtherInternal, SameInternalKept, Zenon
<1>3. CASE TickerPoll
  <2>1. hc' = SwiPoll(hc, TRUE)
    BY <1>3, Zenon DEF TickerPoll, Swi, Emulator
  <2>2. SameInternal(hc', hc)
    BY <1>0, <2>1, OtherInternal, Zenon
  <2>3. hc'.cmd_line = hc.cmd_line /\ (hc'.cmd_inflight \/ SameCommand(hc', hc))
    BY <1>0, <2>1, SwiPollCommand, Zenon
  <2>4. QED  BY <2>2, <2>3, Zenon DEF InternalKept, SameCommand, Busy
<1>4. CASE TickerEnd
  <2>1. Owes
    BY <1>4 DEF TickerEnd, Owes
  <2>2. QED  BY <1>4, <2>1, EndInternal, Zenon DEF TickerEnd, Swi, Emulator
<1>5. CASE PollWord \/ TwQuit
  <2>1. \/ AbortCommand /\ gstate \in {"TW_PENDING", "TW_RUNNING"}
        \/ unchangedHost
    BY <1>5, Zenon DEF PollWord, TwQuit
  <2>2. CASE AbortCommand /\ gstate \in {"TW_PENDING", "TW_RUNNING"}
    <3>1. Owes
      BY <2>2 DEF Owes
    <3>2. QED  BY <2>2, <3>1, EndInternal, Zenon DEF AbortCommand, Swi, Emulator
  <2>3. CASE unchangedHost
    BY <2>3, NoStepInternal, Zenon DEF unchangedHost, hostVars
  <2>4. QED  BY <2>1, <2>2, <2>3
<1>6. CASE \/ TickerEntry \/ FlushDone \/ TickerDone \/ ModuleFinal
           \/ Wrch \/ TwOutput \/ RunCommand \/ RunReturns \/ TwMorio
           \/ StartWimp \/ TaskStarts \/ TaskStartFails
  <2>1. unchangedHost
    BY <1>6, Zenon
       DEF TickerEntry, FlushDone, TickerDone, ModuleFinal, Wrch, TwOutput,
           RunCommand, RunReturns, TwMorio, PutByte, Become, StartWimp,
           TaskStarts, TaskStartFails
  <2>2. QED  BY <2>1, NoStepInternal, Zenon DEF unchangedHost, hostVars
<1>7. QED
  BY <1>1, <1>2, <1>3, <1>4, <1>5, <1>6, Zenon
     DEF Guest, Ticker, Headless, Desktop

(* Together: every step but a reset's and the caller's. *)
LEMMA HostInternal ==
    ASSUME ChannelInv,
           Service \/ SystemClients \/ Time \/ Guest \/ UNCHANGED vars
    PROVE  InternalKept \/ InternalClosed
<1>0. HostTypeOK /\ hc \in HostCmdState
  BY TypeParts, Zenon DEF ChannelInv, HostTypeOK
<1>1. CASE SystemClients \/ UNCHANGED vars
  <2>1. hc' = hc
    BY <1>1, Zenon DEF SystemClients, Connect, SendLine, TypeAhead, SendBlank,
                       Hangup, HalfClose, vars, hostVars
  <2>2. QED  BY <2>1, NoStepInternal
<1>2. CASE Time
  <2>1. SameCommand(hc', hc) /\ SameInternal(hc', hc)
    BY <1>0, <1>2, Zenon
       DEF Time, Tick, HostCmdState, SameCommand, SameInternal
  <2>2. QED  BY <2>1, SameInternalKept
<1>3. QED  BY <1>0, <1>1, <1>2, ServiceInternal, GuestInternal, Zenon
-----------------------------------------------------------------------------
(* The caller and its requests *)

(* A token that has been used is never used again, and while somebody waits *)
(* the queue is empty or ends with the request waited for, which has not    *)
(* been submitted: no abandon can be behind it.                             *)
CallerInv ==
    /\ waiting \notin fresh
    /\ hc.internal_done \notin fresh
    /\ \A i \in 1 .. Len(queue) : queue[i].token \notin fresh
    /\ waiting # None /\ queue # <<>> =>
          /\ queue[Len(queue)] = [op |-> "run", token |-> waiting]
          /\ hc.internal_done # waiting
          /\ \A i \in 1 .. Len(queue) - 1 :
                queue[i].op = "run" => queue[i].token # waiting

(* No command line is made fresh again. *)
LEMMA FreshShrinks ==
    ASSUME [Next]_vars
    PROVE  fresh' \subseteq fresh
<1>1. (Service \/ SystemClients \/ Time) => fresh' \subseteq fresh
  BY Zenon DEF Service, PollHup, PollAccept, PollRead, ReadLoop, PollWrite,
               PollWriteFails, PollQuiet, netVars, SystemClients, Connect,
               SendLine, TypeAhead, SendBlank, Hangup, HalfClose, Time, Tick
<1>2. Guest => fresh' \subseteq fresh
  <2>1. Ticker => fresh' = fresh
    BY Zenon DEF Ticker, TickerEntry, FlushRing, FlushDone, TickerPoll, TickerEnd,
                 TickerDone, Swi, unchangedHost, hostVars, netVars
  <2>2. (Headless \/ Desktop) => fresh' = fresh
    BY Zenon DEF Headless, Desktop, RunCommand, Wrch, RunReturns, StartWimp,
                 TaskStarts, PollWord, TwOutput, TwMorio, PutByte, Become,
                 AbortCommand, Swi, unchangedHost, hostVars, netVars
  <2>3. (ModuleInit \/ TwQuit \/ TaskStartFails \/ ModuleFinal) => fresh' = fresh
    BY Zenon DEF ModuleInit, TwQuit, TaskStartFails, ModuleFinal, AbortCommand,
                 Swi, unchangedHost, hostVars, netVars
  <2>4. QED  BY <2>1, <2>2, <2>3, Zenon DEF Guest
<1>3. (MachineReset \/ Caller) => fresh' \subseteq fresh
  BY Zenon DEF MachineReset, HostReset, Caller, GuestCommandRun, RunRequest,
               AbandonRequest, Abandon, GuestCommandDeliver, GuestCommandTimeout,
               netVars, hostVars
<1>4. UNCHANGED vars => fresh' \subseteq fresh
  BY Zenon DEF vars, hostVars
<1>5. QED  BY <1>1, <1>2, <1>3, <1>4, Zenon DEF Next

(* A step that leaves the caller alone and submits nothing. *)
LEMMA CallerInvKept ==
    ASSUME ChannelInv, CallerInv, UNCHANGED callerVars, fresh' \subseteq fresh,
           hc'.internal_done \in {hc.internal_done, None}
    PROVE  CallerInv'
<1>1. None \notin fresh
  BY IdentityAssumption, Zenon DEF ChannelInv, TypeOK, HostTypeOK
<1>2. queue' = queue /\ waiting' = waiting
  BY Zenon DEF callerVars
<1>3. QED  BY <1>1, <1>2, Zenon DEF CallerInv

LEMMA CallerStepInv ==
    ASSUME ChannelInv, CallerInv, Caller
    PROVE  CallerInv'
<1>0. /\ hc \in HostCmdState /\ queue \in Seq(Request) /\ None \notin fresh
      /\ waiting \in InternalCmd \union {None}
  BY IdentityAssumption, Zenon DEF ChannelInv, TypeOK, HostTypeOK
<1>1. ASSUME NEW c \in InternalCmd, GuestCommandRun(c)
      PROVE  CallerInv'
  <2> DEFINE r == [op |-> "run", token |-> c]
  <2>1. /\ waiting' = c /\ queue' = Append(queue, r) /\ fresh' = fresh \ {c}
        /\ hc' = hc /\ c \in fresh
    BY <1>1, Zenon DEF GuestCommandRun
  <2>2. r \in Request /\ r.token = c
    BY Zenon DEF Request
  <2> HIDE DEF r
  <2>3. /\ Len(queue') = Len(queue) + 1 /\ queue'[Len(queue')] = r
        /\ \A i \in 1 .. Len(queue) : queue'[i] = queue[i]
        /\ Len(queue) \in Nat
    BY <1>0, <2>1, <2>2
  <2>4. \A i \in 1 .. Len(queue) : queue[i].token \notin fresh
    BY Zenon DEF CallerInv
  <2>5. \A i \in 1 .. Len(queue') : i = Len(queue') \/ i \in 1 .. Len(queue)
    BY <2>3
  <2>6. \A i \in 1 .. Len(queue') : queue'[i].token \notin fresh'
    BY <2>1, <2>2, <2>3, <2>4, <2>5, Zenon
  <2>7. \A i \in 1 .. Len(queue') - 1 : queue'[i].token # c
    <3>1. \A i \in 1 .. Len(queue') - 1 : i \in 1 .. Len(queue)
      BY <2>3
    <3>2. QED  BY <2>1, <2>3, <2>4, <3>1, Zenon
  <2>8. hc'.internal_done \notin fresh' /\ hc'.internal_done # c
    BY <2>1, Zenon DEF CallerInv
  <2>9. QED  BY <2>1, <2>3, <2>6, <2>7, <2>8, Zenon DEF CallerInv, r
<1>2. ASSUME queue # <<>>, queue' = Tail(queue), waiting' = waiting, fresh' = fresh,
             hc'.internal_done \in {hc.internal_done, None}
               \/ (Head(queue).op = "run" /\ hc'.internal_done = Head(queue).token)
      PROVE  CallerInv'
  <2>1. /\ Len(queue') = Len(queue) - 1 /\ Len(queue) \in Nat /\ Len(queue) >= 1
        /\ \A i \in 1 .. Len(queue') : queue'[i] = queue[i + 1]
        /\ Head(queue) = queue[1]
    BY <1>0, <1>2
  <2>2. \A i \in 1 .. Len(queue') : i + 1 \in 1 .. Len(queue)
    BY <2>1
  <2>3. 1 \in 1 .. Len(queue)
    BY <2>1
  <2>4. \A i \in 1 .. Len(queue') : queue'[i].token \notin fresh'
    BY <1>2, <2>1, <2>2, Zenon DEF CallerInv
  <2>5. hc'.internal_done \notin fresh'
    BY <1>0, <1>2, <2>1, <2>3, Zenon DEF CallerInv
  <2>6. ASSUME waiting' # None, queue' # <<>>
        PROVE  /\ queue'[Len(queue')] = [op |-> "run", token |-> waiting']
               /\ hc'.internal_done # waiting'
               /\ \A i \in 1 .. Len(queue') - 1 :
                     queue'[i].op = "run" => queue'[i].token # waiting'
    <3>0. queue' \in Seq(Request)
      BY <1>0, <1>2
    <3>1. Len(queue') >= 1 /\ Len(queue') \in Nat
      BY <2>6, <3>0
    <3>2. Len(queue') \in 1 .. Len(queue') /\ Len(queue') + 1 = Len(queue)
          /\ 1 \in 1 .. Len(queue) - 1
      BY <2>1, <3>1
    <3>3. \A i \in 1 .. Len(queue') - 1 :
             i + 1 \in 1 .. Len(queue) - 1 /\ i \in 1 .. Len(queue')
      BY <2>1
    <3>4. /\ queue[Len(queue)] = [op |-> "run", token |-> waiting]
          /\ hc.internal_done # waiting
          /\ \A i \in 1 .. Len(queue) - 1 :
                queue[i].op = "run" => queue[i].token # waiting
      BY <1>2, <2>6, Zenon DEF CallerInv
    <3>5. queue'[Len(queue')] = [op |-> "run", token |-> waiting']
      BY <1>2, <2>1, <3>2, <3>4, Zenon
    <3>6. hc'.internal_done # waiting'
      BY <1>2, <2>1, <2>6, <3>2, <3>4, Zenon
    <3>7. \A i \in 1 .. Len(queue') - 1 :
             queue'[i].op = "run" => queue'[i].token # waiting'
      BY <1>2, <2>1, <3>3, <3>4, Zenon
    <3>8. QED  BY <3>5, <3>6, <3>7
  <2>7. waiting' \notin fresh'
    BY <1>2, Zenon DEF CallerInv
  <2>8. QED  BY <2>4, <2>5, <2>6, <2>7, Zenon DEF CallerInv
<1>3. CASE RunRequest
  <2>1. /\ queue # <<>> /\ queue' = Tail(queue) /\ waiting' = waiting
        /\ fresh' = fresh /\ Head(queue).op = "run"
    BY <1>3, Zenon DEF RunRequest, netVars
  <2>2. hc'.internal_done \in {hc.internal_done, Head(queue).token}
    <3>1. InternalSubmit(hc, Head(queue).token).internal_done = Head(queue).token
      BY <1>0, Zenon DEF InternalSubmit, HostCmdState
    <3>2. \A p : [hc EXCEPT !.posted = p].internal_done = hc.internal_done
      BY <1>0, Zenon DEF HostCmdState
    <3>3. QED  BY <1>3, <3>1, <3>2, Zenon DEF RunRequest, Emulator
  <2>3. QED  BY <1>2, <2>1, <2>2, Zenon
<1>4. CASE AbandonRequest
  <2>1. queue # <<>> /\ queue' = Tail(queue) /\ waiting' = waiting /\ fresh' = fresh
    BY <1>4, Zenon DEF AbandonRequest, Abandon, netVars
  <2>2. hc' = InternalAbandon(hc)
    BY <1>4, Zenon DEF AbandonRequest, Abandon, Emulator
  <2>3. hc'.internal_done \in {hc.internal_done, None}
    BY <1>0, <2>2, InternalAbandonInternal, Zenon DEF Silences
  <2>4. QED  BY <1>2, <2>1, <2>3, Zenon
<1>5. CASE GuestCommandDeliver
  <2>1. /\ queue' = queue /\ fresh' = fresh /\ waiting' \in {waiting, None}
        /\ hc'.internal_done = hc.internal_done
    BY <1>0, <1>5, Zenon DEF GuestCommandDeliver, netVars, HostCmdState
  <2>2. QED  BY <1>0, <2>1, Zenon DEF CallerInv
<1>6. CASE GuestCommandTimeout
  <2> DEFINE r == [op |-> "abandon", token |-> waiting]
  <2>1. /\ waiting' = None /\ queue' = Append(queue, r) /\ fresh' = fresh
        /\ hc' = hc /\ waiting # None
    BY <1>6, Zenon DEF GuestCommandTimeout, hostVars
  <2>2. r \in Request /\ r.token = waiting
    BY <1>0, <2>1, Zenon DEF Request
  <2> HIDE DEF r
  <2>3. /\ Len(queue') = Len(queue) + 1 /\ queue'[Len(queue')] = r
        /\ \A i \in 1 .. Len(queue) : queue'[i] = queue[i]
        /\ Len(queue) \in Nat
    BY <1>0, <2>1, <2>2
  <2>4. \A i \in 1 .. Len(queue') : i = Len(queue') \/ i \in 1 .. Len(queue)
    BY <2>3
  <2>5. \A i \in 1 .. Len(queue') : queue'[i].token \notin fresh'
    BY <2>1, <2>2, <2>3, <2>4, Zenon DEF CallerInv
  <2>6. QED  BY <1>0, <2>1, <2>5, Zenon DEF CallerInv
<1>7. QED  BY <1>1, <1>3, <1>4, <1>5, <1>6, Zenon DEF Caller

(* Internal callbacks across a step that is not the caller's. *)
LEMMA ClosedDone ==
    ASSUME InternalKept \/ InternalClosed
    PROVE  hc'.internal_done \in {hc.internal_done, None}
BY Zenon DEF InternalKept, InternalClosed, SameInternal, Finishes

LEMMA InitCaller == Init => CallerInv
<1> SUFFICES ASSUME Init PROVE CallerInv
  OBVIOUS
<1>1. queue = <<>> /\ waiting = None /\ fresh = Cmd
  BY Zenon DEF Init, CallerInit, HostInit
<1>2. hc.internal_done = None
  <2>1. InitialState.internal_done = None
        /\ [InitialState EXCEPT !.listening = FALSE].internal_done = None
    BY Zenon DEF InitialState
  <2>2. QED  BY <2>1, Zenon DEF Init, HostInit
<1>3. \A i \in 1 .. Len(queue) : FALSE
  BY <1>1
<1>4. QED  BY <1>1, <1>2, <1>3, IdentityAssumption, Zenon DEF CallerInv

LEMMA NextCaller == ChannelInv /\ CallerInv /\ [Next]_vars => CallerInv'
<1> SUFFICES ASSUME ChannelInv, CallerInv, [Next]_vars PROVE CallerInv'
  OBVIOUS
<1>0. fresh' \subseteq fresh
  BY FreshShrinks
<1>1. CASE /\ Service \/ SystemClients \/ Time \/ Guest \/ UNCHANGED vars
           /\ UNCHANGED callerVars
  BY <1>0, <1>1, HostInternal, ClosedDone, CallerInvKept, Zenon
<1>2. CASE MachineReset /\ UNCHANGED callerVars
  <2>1. hc \in HostCmdState /\ hc.initialised
    BY Zenon DEF ChannelInv, LinesKnown, TypeOK, HostTypeOK
  <2>2. hc' = ResetState(hc)
    BY <1>2, Zenon DEF MachineReset, HostReset, Emulator
  <2>3. hc'.internal_done \in {hc.internal_done, None}
    BY <2>1, <2>2, ResetStateInternal, Zenon DEF Silences, SameInternal
  <2>4. QED  BY <1>0, <1>2, <2>3, CallerInvKept, Zenon
<1>3. CASE Caller
  BY <1>3, CallerStepInv
<1>4. UNCHANGED vars => UNCHANGED callerVars
  BY Zenon DEF vars
<1>5. QED  BY <1>1, <1>2, <1>3, <1>4, Zenon DEF Next

(* A caller that still waits is told when its command is closed, unless the *)
(* machine is reset: the guest may be unloaded, clients may leave and the   *)
(* clock may jump, and an earlier call's abandon never closes a later call. *)
THEOREM CallersAreTold == "reset" \notin Upsets => (Spec => CallerIsTold)
<1> SUFFICES ASSUME "reset" \notin Upsets PROVE Spec => CallerIsTold
  OBVIOUS
<1> DEFINE Told == waiting # None /\ hc.internal_done = waiting
                     => hc'.internal_done = waiting
                        \/ Len(hc'.posted) > Len(hc.posted)
<1>1. ChannelInv /\ CallerInv /\ [Next]_vars => Told
  <2> SUFFICES ASSUME ChannelInv, CallerInv, [Next]_vars,
                      waiting # None, hc.internal_done = waiting
               PROVE  hc'.internal_done = waiting
                      \/ Len(hc'.posted) > Len(hc.posted)
    BY Zenon
  <2>1. queue = <<>>
    BY Zenon DEF CallerInv
  <2>2. CASE Service \/ SystemClients \/ Time \/ Guest \/ UNCHANGED vars
    <3>1. InternalKept \/ InternalClosed
      BY <2>2, HostInternal
    <3>2. CASE InternalKept
      BY <3>2, Zenon DEF InternalKept, SameInternal
    <3>3. CASE InternalClosed
      <4>1. PICK r : hc'.posted = Append(hc.posted, r)
        BY <3>3, Zenon DEF InternalClosed, Finishes
      <4>2. hc.posted \in Seq(Result)
        BY Zenon DEF ChannelInv, TypeOK, HostTypeOK, HostCmdState
      <4>3. QED  BY <4>1, <4>2
    <3>4. QED  BY <3>1, <3>2, <3>3
  <2>3. CASE Caller
    <3>1. hc \in HostCmdState
      BY Zenon DEF ChannelInv, TypeOK, HostTypeOK
    <3>2. GuestCommandDeliver \/ GuestCommandTimeout
      BY <2>1, <2>3, Zenon
         DEF Caller, GuestCommandRun, RunRequest, AbandonRequest
    <3>3. hc'.internal_done = hc.internal_done
      BY <3>1, <3>2, Zenon
         DEF GuestCommandDeliver, GuestCommandTimeout, hostVars, HostCmdState
    <3>4. QED  BY <3>3
  <2>4. QED  BY <2>2, <2>3, Zenon DEF Next
<1>2. Told => [Told]_vars
  OBVIOUS
<1>3. QED
  BY <1>1, InitChannel, NextChannel, InitCaller, NextCaller, PTL
     DEF Spec, CallerIsTold

(* The status a posted result carries is that of its own command, or none. *)
PostedOwn(p) == \A i \in 1 .. Len(p) : p[i].status \in {p[i].token, None}

(* No client leaves. *)
ClientsStay == Upsets \intersect {"hangup", "halfclose"} = {}

(* While clients stay, an internal command that is active is the one that   *)
(* is queued or with the guest, and what has been posted is right.          *)
StatusInv ==
    /\ \A c \in Conn : peer[c] \notin {"half", "closed"}
    /\ ~hc.internal_active => hc.internal_done = None
    /\ hc.internal_active => Busy(hc) /\ hc.internal_done = hc.cmd_line
    /\ PostedOwn(hc.posted)
    /\ InternalStatusIsOwn

LEMMA AppendPosted ==
    ASSUME NEW p \in Seq(Result), NEW r \in Result, PostedOwn(p),
           r.status \in {r.token, None}
    PROVE  PostedOwn(Append(p, r))
<1> DEFINE q == Append(p, r)
<1>1. /\ \A i \in 1 .. Len(p) : q[i] = p[i]
      /\ q[Len(q)] = r
      /\ \A i \in 1 .. Len(q) : i = Len(q) \/ i \in 1 .. Len(p)
  OBVIOUS
<1> HIDE DEF q
<1>2. PostedOwn(q)
  BY <1>1, Zenon DEF PostedOwn
<1>3. QED  BY <1>2, Zenon DEF q

LEMMA TailPosted ==
    ASSUME NEW p \in Seq(Result), p # <<>>, PostedOwn(p)
    PROVE  PostedOwn(Tail(p)) /\ Head(p).status \in {Head(p).token, None}
<1>1. /\ Head(p) = p[1] /\ 1 \in 1 .. Len(p)
      /\ \A i \in 1 .. Len(Tail(p)) : Tail(p)[i] = p[i + 1] /\ i + 1 \in 1 .. Len(p)
  OBVIOUS
<1>2. QED  BY <1>1, Zenon DEF PostedOwn

(* Only the clients themselves come and go. *)
LEMMA OnlyClientsMove == [Next]_vars => SystemClients \/ peer' = peer
<1>1. Service \/ Time \/ MachineReset \/ Caller \/ UNCHANGED vars => peer' = peer
  BY Zenon DEF Service, PollHup, PollAccept, PollRead, ReadLoop, PollWrite,
     PollWriteFails, PollQuiet, netVars, Time, Tick, MachineReset, HostReset,
     Caller, GuestCommandRun, RunRequest, AbandonRequest, Abandon,
     GuestCommandDeliver, GuestCommandTimeout, hostVars, vars
<1>2. Ticker => peer' = peer
  BY Zenon DEF Ticker, TickerEntry, FlushRing, FlushDone, TickerPoll, TickerEnd,
               TickerDone, Swi, unchangedHost, hostVars, netVars
<1>3. (Headless \/ Desktop) => peer' = peer
  BY Zenon DEF Headless, Desktop, RunCommand, Wrch, RunReturns, StartWimp,
               TaskStarts, PollWord, TwOutput, TwMorio, PutByte, Become,
               AbortCommand, Swi, unchangedHost, hostVars, netVars
<1>4. (ModuleInit \/ TwQuit \/ TaskStartFails \/ ModuleFinal) => peer' = peer
  BY Zenon DEF ModuleInit, TwQuit, TaskStartFails, ModuleFinal, AbortCommand,
               Swi, unchangedHost, hostVars, netVars
<1>5. QED  BY <1>1, <1>2, <1>3, <1>4, Zenon DEF Next, Guest

(* Clients that stay never reach the state of one that has left. *)
LEMMA PeersStay ==
    ASSUME ClientsStay, HostTypeOK, [Next]_vars,
           \A c \in Conn : peer[c] \notin {"half", "closed"}
    PROVE  \A c \in Conn : peer'[c] \notin {"half", "closed"}
<1>0. peer \in [Conn -> PeerStates]
  BY Zenon DEF HostTypeOK
<1>1. CASE SystemClients
  <2>1. "hangup" \notin Upsets /\ "halfclose" \notin Upsets
    BY Zenon DEF ClientsStay
  <2>2. PICK d \in Conn : peer' = peer \/ peer' = [peer EXCEPT ![d] = "open"]
    BY <1>1, <2>1, Zenon
       DEF SystemClients, Connect, SendLine, TypeAhead, SendBlank
  <2>3. \A c \in Conn : peer'[c] \in {peer[c], "open"}
    BY <1>0, <2>2, Zenon
  <2>4. "open" \notin {"half", "closed"}
    OBVIOUS
  <2>5. QED  BY <2>3, <2>4, Zenon
<1>2. QED  BY <1>1, OnlyClientsMove, Zenon

LEMMA InitStatus == Init => StatusInv
<1> SUFFICES ASSUME Init PROVE StatusInv
  OBVIOUS
<1>1. /\ InitialState.internal_active = FALSE /\ InitialState.internal_done = None
      /\ InitialState.posted = <<>>
      /\ [InitialState EXCEPT !.listening = FALSE].internal_active = FALSE
      /\ [InitialState EXCEPT !.listening = FALSE].internal_done = None
      /\ [InitialState EXCEPT !.listening = FALSE].posted = <<>>
  BY Zenon DEF InitialState
<1>2. hc.internal_active = FALSE /\ hc.internal_done = None /\ hc.posted = <<>>
  BY <1>1, Zenon DEF Init, HostInit
<1>3. \A i \in 1 .. Len(hc.posted) : FALSE
  BY <1>2
<1>4. \A c \in Conn : peer[c] \notin {"half", "closed"}
  <2>1. peer = [c \in Conn |-> "absent"]
    BY Zenon DEF Init, HostInit
  <2>2. QED  BY <2>1
<1>5. InternalStatusIsOwn
  BY Zenon DEF Init, CallerInit, NoOutcome, InternalStatusIsOwn
<1>6. QED  BY <1>2, <1>3, <1>4, <1>5, Zenon DEF StatusInv, PostedOwn

LEMMA NextStatus ==
    ClientsStay => (ChannelInv /\ StatusInv /\ [Next]_vars => StatusInv')
<1> SUFFICES ASSUME ClientsStay, ChannelInv, StatusInv, [Next]_vars
             PROVE  StatusInv'
  OBVIOUS
<1>0. /\ HostTypeOK /\ CallerTypeOK /\ hc \in HostCmdState
      /\ hc.posted \in Seq(Result) /\ hc.initialised /\ CommandInOnePlace
  BY TypeParts, Zenon
     DEF ChannelInv, HostTypeOK, HostCmdState, LinesKnown
<1>1. \A c \in Conn : peer'[c] \notin {"half", "closed"}
  BY <1>0, PeersStay, Zenon DEF StatusInv
<1>2. PostedOwn(hc.posted) /\ InternalStatusIsOwn
  BY Zenon DEF StatusInv
<1>3. UNCHANGED callerVars => InternalStatusIsOwn'
  BY <1>2, Zenon DEF callerVars, InternalStatusIsOwn
<1>4. ASSUME PostedOwn(hc'.posted), InternalStatusIsOwn',
             ~hc'.internal_active => hc'.internal_done = None,
             hc'.internal_active => Busy(hc') /\ hc'.internal_done = hc'.cmd_line
      PROVE  StatusInv'
  BY <1>1, <1>4, Zenon DEF StatusInv
<1>5. ~ClientLeft
  BY <1>0, Zenon DEF ClientLeft, StatusInv, HostCmdState
<1>6. CASE /\ Service \/ SystemClients \/ Time \/ Guest \/ UNCHANGED vars
           /\ UNCHANGED callerVars
  <2>1. InternalKept \/ InternalClosed
    BY <1>6, HostInternal, Zenon
  <2>2. CASE InternalKept
    BY <1>2, <1>3, <1>4, <1>5, <1>6, <2>2, Zenon
       DEF InternalKept, SameInternal, StatusInv
  <2>3. CASE InternalClosed
    <3>1. hc.internal_done = hc.cmd_line /\ hc.internal_done \in Cmd
      BY <2>3, Zenon DEF InternalClosed, StatusInv, ChannelInv, LinesKnown
    <3>2. PICK s \in {hc.cmd_line, None} : Finishes(hc, hc', s)
      BY <2>3, Zenon DEF InternalClosed
    <3>3. PostedOwn(hc'.posted)
      <4>1. CASE hc'.posted = hc.posted
        BY <1>2, <4>1, Zenon
      <4>2. ASSUME NEW ok \in BOOLEAN, NEW out \in Seq(Cmd),
                   hc'.posted = Append(hc.posted,
                                  [token |-> hc.internal_done, ok |-> ok,
                                   out |-> out, status |-> s])
            PROVE  PostedOwn(hc'.posted)
        <5> DEFINE r == [token |-> hc.internal_done, ok |-> ok,
                         out |-> out, status |-> s]
        <5>1. r \in Result /\ r.status \in {r.token, None}
          BY <3>1, <3>2, Zenon DEF Result
        <5> HIDE DEF r
        <5>2. QED  BY <1>0, <1>2, <4>2, <5>1, AppendPosted, Zenon DEF r
      <4>3. QED  BY <3>2, <4>1, <4>2, Zenon DEF Finishes
    <3>4. QED  BY <1>3, <1>4, <1>6, <3>2, <3>3, Zenon DEF Finishes
  <2>4. QED  BY <2>1, <2>2, <2>3
<1>7. CASE MachineReset /\ UNCHANGED callerVars
  <2>1. hc' = ResetState(hc)
    BY <1>7, Zenon DEF MachineReset, HostReset, Emulator
  <2>2. Silences(hc, hc') \/ (SameInternal(hc', hc) /\ ~hc.internal_active)
    BY <1>0, <2>1, ResetStateInternal, Zenon
  <2>3. QED
    BY <1>2, <1>3, <1>4, <1>7, <2>2, Zenon
       DEF Silences, SameInternal, StatusInv
<1>8. CASE Caller
  <2>1. CASE (\E c \in InternalCmd : GuestCommandRun(c)) \/ GuestCommandTimeout
    <3>1. hc' = hc /\ outcome' = outcome
      BY <2>1, Zenon DEF GuestCommandRun, GuestCommandTimeout, hostVars
    <3>2. InternalStatusIsOwn'
      BY <1>2, <3>1, Zenon DEF InternalStatusIsOwn
    <3>3. QED  BY <1>2, <1>4, <3>1, <3>2, Zenon DEF StatusInv
  <2>2. CASE RunRequest
    <3> DEFINE c == Head(queue).token
               res == [token |-> c, ok |-> FALSE, out |-> <<>>, status |-> None]
    <3>1. c \in Cmd
      <4>1. Head(queue) \in Request
        BY <1>0, <2>2 DEF RunRequest, CallerTypeOK
      <4>2. c \in InternalCmd
        BY <4>1, Zenon DEF Request
      <4>3. QED  BY <4>2, IdentityAssumption
    <3>2. InternalStatusIsOwn'
      BY <1>2, <2>2, Zenon DEF RunRequest, InternalStatusIsOwn
    <3>3. CASE CanSubmit(hc, c)
      <4>1. hc' = InternalSubmit(hc, c)
        BY <2>2, <3>3, Zenon DEF RunRequest, Emulator
      <4>2. /\ hc'.internal_active /\ hc'.internal_done = c /\ hc'.cmd_line = c
            /\ hc'.cmd_pending /\ hc'.posted = hc.posted
        BY <1>0, <4>1, Zenon DEF InternalSubmit, HostCmdState
      <4>3. QED  BY <1>2, <1>4, <3>2, <4>2, Zenon DEF Busy
    <3>4. CASE ~CanSubmit(hc, c)
      <4>1. hc' = [hc EXCEPT !.posted = Append(@, res)]
        BY <2>2, <3>4, Zenon DEF RunRequest, Emulator
      <4>2. <<>> \in Seq(Cmd)
        OBVIOUS
      <4>3. res \in Result /\ res.status \in {res.token, None}
        BY <3>1, <4>2, Zenon DEF Result
      <4> HIDE DEF res
      <4>4. PostedOwn(Append(hc.posted, res))
        BY <1>0, <1>2, <4>3, AppendPosted, Zenon
      <4>5. /\ hc'.posted = Append(hc.posted, res) /\ SameCommand(hc', hc)
            /\ hc'.internal_active = hc.internal_active
            /\ hc'.internal_done = hc.internal_done
        BY <1>0, <4>1, Zenon DEF HostCmdState, SameCommand
      <4>6. QED
        BY <1>4, <3>2, <4>4, <4>5, Zenon DEF SameCommand, Busy, StatusInv
    <3>5. QED  BY <3>3, <3>4
  <2>3. CASE AbandonRequest
    <3>1. hc' = InternalAbandon(hc)
      BY <2>3, Zenon DEF AbandonRequest, Abandon, Emulator
    <3>2. Silences(hc, hc') \/ hc' = hc
      BY <1>0, <3>1, InternalAbandonInternal, Zenon
    <3>3. InternalStatusIsOwn'
      BY <1>2, <2>3, Zenon DEF AbandonRequest, InternalStatusIsOwn
    <3>4. QED  BY <1>2, <1>4, <3>2, <3>3, Zenon DEF Silences, StatusInv
  <2>4. CASE GuestCommandDeliver
    <3>1. hc.posted # <<>> /\ hc' = [hc EXCEPT !.posted = Tail(@)]
          /\ outcome' \in {outcome, Head(hc.posted)}
      BY <2>4, Zenon DEF GuestCommandDeliver
    <3>2. PostedOwn(Tail(hc.posted))
          /\ Head(hc.posted).status \in {Head(hc.posted).token, None}
      BY <1>0, <1>2, <3>1, TailPosted, Zenon
    <3>3. /\ hc'.posted = Tail(hc.posted) /\ SameCommand(hc', hc)
          /\ hc'.internal_active = hc.internal_active
          /\ hc'.internal_done = hc.internal_done
      BY <1>0, <3>1, Zenon DEF HostCmdState, SameCommand
    <3>4. InternalStatusIsOwn'
      BY <1>2, <3>1, <3>2, Zenon DEF InternalStatusIsOwn
    <3>5. QED
      BY <1>4, <3>2, <3>3, <3>4, Zenon DEF SameCommand, Busy, StatusInv
  <2>5. QED  BY <1>8, <2>1, <2>2, <2>3, <2>4, Zenon DEF Caller
<1>9. UNCHANGED vars => UNCHANGED callerVars
  BY Zenon DEF vars
<1>10. QED  BY <1>6, <1>7, <1>8, <1>9, Zenon DEF Next

(* The status an internal caller is given is its own command's, provided    *)
(* that no client leaves: hc_drop_client clears cmd_pending whoever queued  *)
(* it, and then the next END is credited to a command that never ran.       *)
THEOREM CallersStatusIsTheirOwn ==
    ClientsStay \/ InternalCmd = {} => (Spec => []InternalStatusIsOwn)
<1>1. ASSUME ClientsStay PROVE Spec => []InternalStatusIsOwn
  <2>1. ChannelInv /\ StatusInv /\ [Next]_vars => StatusInv'
    BY <1>1, NextStatus
  <2>2. StatusInv => InternalStatusIsOwn
    BY DEF StatusInv
  <2>3. QED
    BY <2>1, <2>2, InitChannel, NextChannel, InitStatus, PTL DEF Spec
<1>2. ASSUME InternalCmd = {} PROVE Spec => []InternalStatusIsOwn
  <2>1. ChannelInv /\ InternalStatusIsOwn /\ [Next]_vars => InternalStatusIsOwn'
    <3> SUFFICES ASSUME ChannelInv, InternalStatusIsOwn, [Next]_vars
                 PROVE  InternalStatusIsOwn'
      OBVIOUS
    <3>1. waiting = None
      BY <1>2, Zenon DEF ChannelInv, TypeOK
    <3>2. CASE Caller
      <4>1. CASE GuestCommandDeliver
        <5>1. hc.posted \in Seq(Result) /\ hc.posted # <<>>
          BY <4>1, Zenon
             DEF GuestCommandDeliver, ChannelInv, TypeOK, HostTypeOK, HostCmdState
        <5>2. Head(hc.posted) \in Result
          BY <5>1
        <5>3. Head(hc.posted).token # None
          BY <5>2, IdentityAssumption, Zenon DEF Result
        <5>4. outcome' = outcome
          BY <3>1, <4>1, <5>3, Zenon DEF GuestCommandDeliver
        <5>5. QED  BY <5>4, Zenon DEF InternalStatusIsOwn
      <4>2. CASE ~GuestCommandDeliver
        BY <3>2, <4>2, Zenon
           DEF Caller, GuestCommandRun, RunRequest, AbandonRequest,
               GuestCommandTimeout, InternalStatusIsOwn
      <4>3. QED  BY <4>1, <4>2
    <3>3. CASE ~Caller
      <4>1. outcome' = outcome
        BY <3>3, Zenon DEF Next, callerVars, vars
      <4>2. QED  BY <4>1, Zenon DEF InternalStatusIsOwn
    <3>4. QED  BY <3>2, <3>3
  <2>2. Init => InternalStatusIsOwn
    BY InitStatus DEF StatusInv
  <2>3. QED  BY <2>1, <2>2, InitChannel, NextChannel, PTL DEF Spec
<1>3. QED  BY <1>1, <1>2

-----------------------------------------------------------------------------
(* Where a client's line is *)

Text == Seq(Cmd \union {NL})

HasLine(s) == \E i \in 1 .. Len(s) : s[i] \in Cmd

OneLine(s) == \A i, j \in 1 .. Len(s) : s[i] \in Cmd /\ s[j] \in Cmd => i = j

LinesAre(s, x) == \A i \in 1 .. Len(s) : s[i] \in Cmd => s[i] = x

HasDone(r) == \E i \in 1 .. Len(r) : r[i].type = "D"

DoneIsLast(r) ==
    \A i, j \in 1 .. Len(r) : i < j /\ r[i].type = "D" => r[j].type = "X"

(* A frame for the client that waits for x. *)
FrameIsFor(f, x) ==
    \/ f.type = "X"
    \/ f.type = "D" /\ x # None /\ f.data = <<x>>
    \/ f.type = "O" /\ x # None /\ \A i \in 1 .. Len(f.data) : f.data[i] = x

(* The line of the connected client is in one place at a time: in the       *)
(* kernel (w), in what recv returned (t), in in_buf, queued or with the     *)
(* guest (mine), or answered by a done frame that is the last but for       *)
(* notices.                                                                 *)
Placed(buf, mine, ring, t, w) ==
    /\ OneLine(t)
    /\ HasLine(t) => ~HasLine(w)
    /\ buf # None => ~HasLine(t) /\ ~HasLine(w)
    /\ mine => ~HasLine(t) /\ ~HasLine(w) /\ buf = None
    /\ HasDone(ring) => ~HasLine(t) /\ ~HasLine(w) /\ buf = None /\ ~mine
    /\ DoneIsLast(ring)

(* Wherever it is, it is the one the client waits for. *)
IsFor(buf, mine, line, ring, t, x) ==
    /\ LinesAre(t, x)
    /\ buf # None => buf = x
    /\ mine => line = x
    /\ \A i \in 1 .. Len(ring) : FrameIsFor(ring[i], x)

ClientOwn(buf, mine, line, ring, t, w, x) ==
    /\ Placed(buf, mine, ring, t, w)
    /\ IsFor(buf, mine, line, ring, t, x)

(* The client's command ends, or stays. *)
LEMMA KeepOwn ==
    ASSUME NEW buf, NEW line, NEW ring, NEW t, NEW w, NEW x,
           NEW mine, NEW mine2, NEW line2, mine2 => mine /\ line2 = line,
           ClientOwn(buf, mine, line, ring, t, w, x)
    PROVE  ClientOwn(buf, mine2, line2, ring, t, w, x)
BY Zenon DEF ClientOwn, Placed, IsFor

LEMMA AppendFrame ==
    ASSUME NEW ring \in Seq(Frame), NEW f \in Frame
    PROVE  /\ Append(ring, f) \in Seq(Frame)
           /\ Len(Append(ring, f)) = Len(ring) + 1 /\ Len(ring) \in Nat
           /\ \A i \in 1 .. Len(ring) :
                 Append(ring, f)[i] = ring[i] /\ i \in 1 .. Len(Append(ring, f))
           /\ Append(ring, f)[Len(ring) + 1] = f
           /\ Len(ring) + 1 \in 1 .. Len(Append(ring, f))
           /\ \A i \in 1 .. Len(Append(ring, f)) :
                 i \in 1 .. Len(ring) \/ i = Len(ring) + 1
OBVIOUS

(* A frame behind the others. *)
LEMMA AppendDone ==
    ASSUME NEW ring \in Seq(Frame), NEW f \in Frame
    PROVE  /\ HasDone(Append(ring, f)) <=> HasDone(ring) \/ f.type = "D"
           /\ DoneIsLast(ring) /\ (f.type = "X" \/ ~HasDone(ring))
                => DoneIsLast(Append(ring, f))
<1> DEFINE s == Append(ring, f)
           n == Len(ring) + 1
<1>1. /\ Len(s) = n /\ Len(ring) \in Nat
      /\ \A i \in 1 .. Len(ring) : s[i] = ring[i] /\ i \in 1 .. Len(s)
      /\ s[n] = f /\ n \in 1 .. Len(s)
      /\ \A i \in 1 .. Len(s) : i \in 1 .. Len(ring) \/ i = n
  BY AppendFrame
<1>2. \A i \in 1 .. Len(s), j \in 1 .. Len(s) :
         i < j => i \in 1 .. Len(ring)
  BY <1>1
<1> HIDE DEF s, n
<1>3. HasDone(s) <=> HasDone(ring) \/ f.type = "D"
  BY <1>1, Zenon DEF HasDone
<1>4. ASSUME DoneIsLast(ring), f.type = "X" \/ ~HasDone(ring)
      PROVE  DoneIsLast(s)
  <2> SUFFICES ASSUME NEW i \in 1 .. Len(s), NEW j \in 1 .. Len(s),
                      i < j, s[i].type = "D"
               PROVE  s[j].type = "X"
    BY Zenon DEF DoneIsLast
  <2>1. i \in 1 .. Len(ring) /\ ring[i].type = "D"
    BY <1>1, <1>2, Zenon
  <2>2. f.type = "X"
    BY <1>4, <2>1, Zenon DEF HasDone
  <2>3. CASE j = n
    BY <1>1, <2>2, <2>3, Zenon
  <2>4. CASE j \in 1 .. Len(ring)
    BY <1>1, <1>4, <2>1, <2>4, Zenon DEF DoneIsLast
  <2>5. QED  BY <1>1, <2>3, <2>4, Zenon
<1>5. QED  BY <1>3, <1>4, Zenon DEF s

LEMMA AppendIsFor ==
    ASSUME NEW ring \in Seq(Frame), NEW f \in Frame, NEW x,
           \A i \in 1 .. Len(ring) : FrameIsFor(ring[i], x), FrameIsFor(f, x)
    PROVE  \A i \in 1 .. Len(Append(ring, f)) : FrameIsFor(Append(ring, f)[i], x)
BY AppendFrame

(* A notice is pushed. *)
LEMMA NoticeOwn ==
    ASSUME NEW buf, NEW line, NEW ring \in Seq(Frame), NEW t, NEW w, NEW x,
           NEW mine, NEW f \in Frame, f.type = "X",
           ClientOwn(buf, mine, line, ring, t, w, x)
    PROVE  ClientOwn(buf, mine, line, Append(ring, f), t, w, x)
<1>1. HasDone(Append(ring, f)) <=> HasDone(ring)
  <2>1. f.type # "D"
    OBVIOUS
  <2>2. QED  BY <2>1, AppendDone, Zenon
<1>2. DoneIsLast(ring) => DoneIsLast(Append(ring, f))
  BY AppendDone, Zenon
<1>3. FrameIsFor(f, x)
  BY Zenon DEF FrameIsFor
<1>4. QED
  BY <1>1, <1>2, <1>3, AppendIsFor, Zenon DEF ClientOwn, Placed, IsFor

(* Output of the client's own command is pushed. *)
LEMMA OutputOwn ==
    ASSUME NEW buf, NEW line \in Cmd, NEW ring \in Seq(Frame), NEW t, NEW w,
           NEW x, NEW f \in Frame, f.type = "O",
           \A i \in 1 .. Len(f.data) : f.data[i] = line,
           ClientOwn(buf, TRUE, line, ring, t, w, x)
    PROVE  ClientOwn(buf, TRUE, line, Append(ring, f), t, w, x)
<1>0. f.type # "D" /\ line # None
  BY IdentityAssumption
<1>1. ~HasDone(ring)
  BY Zenon DEF ClientOwn, Placed
<1>2. ~HasDone(Append(ring, f))
  BY <1>0, <1>1, AppendDone, Zenon
<1>3. DoneIsLast(ring) => DoneIsLast(Append(ring, f))
  BY <1>1, AppendDone, Zenon
<1>4. FrameIsFor(f, x)
  BY <1>0, Zenon DEF ClientOwn, IsFor, FrameIsFor
<1>5. QED
  BY <1>2, <1>3, <1>4, AppendIsFor, Zenon DEF ClientOwn, Placed, IsFor

(* Its done frame is pushed, and with that the command is over. *)
LEMMA DoneOwn ==
    ASSUME NEW buf, NEW line \in Cmd, NEW line2, NEW ring \in Seq(Frame), NEW t,
           NEW w, NEW x, NEW f \in Frame, f.type = "D",
           f.data = <<line>>,
           ClientOwn(buf, TRUE, line, ring, t, w, x)
    PROVE  ClientOwn(buf, FALSE, line2, Append(ring, f), t, w, x)
<1>0. line # None
  BY IdentityAssumption
<1>1. ~HasDone(ring)
  BY Zenon DEF ClientOwn, Placed
<1>2. DoneIsLast(ring) => DoneIsLast(Append(ring, f))
  BY <1>1, AppendDone, Zenon
<1>3. FrameIsFor(f, x)
  BY <1>0, Zenon DEF ClientOwn, IsFor, FrameIsFor
<1>4. QED
  BY <1>2, <1>3, AppendIsFor, Zenon DEF ClientOwn, Placed, IsFor

(* The oldest frame has been sent. *)
LEMMA SentOwn ==
    ASSUME NEW buf, NEW line, NEW ring \in Seq(Frame), ring # <<>>, NEW t \in Text,
           NEW w, NEW x \in Cmd \union {None}, NEW mine,
           ClientOwn(buf, mine, line, ring, t, w, x)
    PROVE  /\ ClientOwn(buf, mine, line, Tail(ring), t, w, x)
           /\ Head(ring).type = "D"
                => ClientOwn(buf, mine, line, Tail(ring), t, w, None)
<1> DEFINE s == Tail(ring)
<1>1. /\ Head(ring) = ring[1] /\ 1 \in 1 .. Len(ring)
      /\ \A i \in 1 .. Len(s) : s[i] = ring[i + 1] /\ i + 1 \in 1 .. Len(ring)
                                /\ 1 < i + 1
      /\ \A i \in 1 .. Len(s), j \in 1 .. Len(s) : i < j => i + 1 < j + 1
  OBVIOUS
<1> HIDE DEF s
<1>2. HasDone(s) => HasDone(ring)
  BY <1>1, Zenon DEF HasDone
<1>3. DoneIsLast(ring) => DoneIsLast(s)
  BY <1>1 DEF DoneIsLast
<1>4. (\A i \in 1 .. Len(ring) : FrameIsFor(ring[i], x))
         => \A i \in 1 .. Len(s) : FrameIsFor(s[i], x)
  BY <1>1, Zenon
<1>5. ClientOwn(buf, mine, line, s, t, w, x)
  BY <1>2, <1>3, <1>4, Zenon DEF ClientOwn, Placed, IsFor
<1>6. ASSUME Head(ring).type = "D"
      PROVE  ClientOwn(buf, mine, line, s, t, w, None)
  <2>1. HasDone(ring)
    BY <1>1, <1>6, Zenon DEF HasDone
  <2>2. ~HasLine(t) /\ buf = None /\ ~mine
    BY <2>1, Zenon DEF ClientOwn, Placed
  <2>3. LinesAre(t, None)
    BY <2>2, Zenon DEF HasLine, LinesAre
  <2>4. \A i \in 1 .. Len(s) : s[i].type = "X"
    BY <1>1, <1>6, Zenon DEF ClientOwn, Placed, DoneIsLast
  <2>5. \A i \in 1 .. Len(s) : FrameIsFor(s[i], None)
    BY <2>4, Zenon DEF FrameIsFor
  <2>6. QED
    BY <1>5, <2>2, <2>3, <2>5, Zenon DEF ClientOwn, IsFor
<1>7. QED  BY <1>5, <1>6, Zenon DEF s

(* A part of it has. *)
LEMMA PartOwn ==
    ASSUME NEW buf, NEW line, NEW ring \in Seq(Frame), ring # <<>>, NEW t,
           NEW w, NEW x, NEW mine, NEW f \in Frame,
           f.type = Head(ring).type, f.data = Head(ring).data,
           ClientOwn(buf, mine, line, ring, t, w, x)
    PROVE  ClientOwn(buf, mine, line, <<f>> \o Tail(ring), t, w, x)
<1> DEFINE s == <<f>> \o Tail(ring)
<1>1. /\ Head(ring) = ring[1] /\ 1 \in 1 .. Len(ring) /\ Len(s) = Len(ring)
      /\ s[1] = f /\ \A i \in 1 .. Len(ring) : i # 1 => s[i] = ring[i]
  OBVIOUS
<1> HIDE DEF s
<1>2. \A i \in 1 .. Len(ring) : s[i].type = ring[i].type /\ s[i].data = ring[i].data
  BY <1>1, Zenon
<1>3. HasDone(s) <=> HasDone(ring)
  BY <1>1, <1>2, Zenon DEF HasDone
<1>4. DoneIsLast(ring) => DoneIsLast(s)
  BY <1>1, <1>2 DEF DoneIsLast
<1>5. (\A i \in 1 .. Len(ring) : FrameIsFor(ring[i], x))
         => \A i \in 1 .. Len(s) : FrameIsFor(s[i], x)
  BY <1>1, <1>2 DEF FrameIsFor
<1>6. ClientOwn(buf, mine, line, s, t, w, x)
  BY <1>3, <1>4, <1>5, Zenon DEF ClientOwn, Placed, IsFor
<1>7. QED  BY <1>6, Zenon DEF s

(* recv moves the first bytes of what the client has sent. *)
LEMMA TakeLines ==
    ASSUME NEW w \in Text, NEW n \in 1 .. Len(w), OneLine(w)
    PROVE  LET a == SubSeq(w, 1, n)
               b == SubSeq(w, n + 1, Len(w))
           IN  /\ a \in Text /\ b \in Text
               /\ OneLine(a) /\ OneLine(b)
               /\ HasLine(a) => HasLine(w) /\ ~HasLine(b)
               /\ HasLine(b) => HasLine(w)
               /\ \A x : LinesAre(w, x) => LinesAre(a, x) /\ LinesAre(b, x)
               /\ HasLine(w) => HasLine(a) \/ HasLine(b)
<1> DEFINE a == SubSeq(w, 1, n)
           b == SubSeq(w, n + 1, Len(w))
           S == Cmd \union {NL}
<1>0. w \in Seq(S)
  BY DEF Text
<1>1. /\ a \in Seq(S) /\ b \in Seq(S)
      /\ \A i \in 1 .. Len(a) : a[i] = w[i] /\ i \in 1 .. Len(w)
      /\ \A i \in 1 .. Len(b) : b[i] = w[n + i] /\ n + i \in 1 .. Len(w)
      /\ \A i \in 1 .. Len(a), j \in 1 .. Len(b) : i # n + j
      /\ \A i \in 1 .. Len(b), j \in 1 .. Len(b) : n + i = n + j => i = j
      /\ \A i \in 1 .. Len(w) : i \in 1 .. Len(a) \/ i - n \in 1 .. Len(b)
      /\ \A i \in 1 .. Len(w) : n + (i - n) = i
  <2> HIDE DEF S
  <2>1. /\ a \in Seq(S) /\ Len(a) = n /\ Len(w) \in Nat
        /\ \A i \in 1 .. n : a[i] = w[i]
    BY <1>0
  <2>2. /\ b \in Seq(S) /\ Len(b) = Len(w) - n
        /\ \A i \in 1 .. Len(w) - n : b[i] = w[n + i]
    BY <1>0
  <2> HIDE DEF a, b
  <2>3. \A i \in 1 .. Len(a) : a[i] = w[i] /\ i \in 1 .. Len(w)
    BY <2>1
  <2>4. \A i \in 1 .. Len(b) : b[i] = w[n + i] /\ n + i \in 1 .. Len(w)
    BY <2>1, <2>2
  <2>5. /\ \A i \in 1 .. Len(a), j \in 1 .. Len(b) : i # n + j
        /\ \A i \in 1 .. Len(b), j \in 1 .. Len(b) : n + i = n + j => i = j
        /\ \A i \in 1 .. Len(w) : i \in 1 .. Len(a) \/ i - n \in 1 .. Len(b)
        /\ \A i \in 1 .. Len(w) : n + (i - n) = i
    BY <2>1, <2>2
  <2>6. QED  BY <2>1, <2>2, <2>3, <2>4, <2>5, Zenon
<1> HIDE DEF a, b
<1>2. OneLine(a) /\ OneLine(b)
  BY <1>1, Zenon DEF OneLine
<1>3. HasLine(a) => HasLine(w) /\ ~HasLine(b)
  BY <1>1, Zenon DEF HasLine, OneLine
<1>4. HasLine(b) => HasLine(w)
  BY <1>1, Zenon DEF HasLine
<1>5. \A x : LinesAre(w, x) => LinesAre(a, x) /\ LinesAre(b, x)
  BY <1>1, Zenon DEF LinesAre
<1>6. HasLine(w) => HasLine(a) \/ HasLine(b)
  BY <1>1, Zenon DEF HasLine
<1>7. QED  BY <1>1, <1>2, <1>3, <1>4, <1>5, <1>6, Zenon DEF Text, a, b

LEMMA RecvOwn ==
    ASSUME NEW buf, NEW line, NEW ring, NEW w \in Text, NEW n \in 1 .. Len(w),
           NEW x, NEW mine, OneLine(w),
           LinesAre(w, x),
           ClientOwn(buf, mine, line, ring, <<>>, w, x)
    PROVE  ClientOwn(buf, mine, line, ring, SubSeq(w, 1, n),
                     SubSeq(w, n + 1, Len(w)), x)
BY TakeLines, Zenon DEF ClientOwn, Placed, IsFor

(* The read loop takes an item. *)
LEMMA TailLines ==
    ASSUME NEW t \in Text, t # <<>>, OneLine(t)
    PROVE  /\ Tail(t) \in Text /\ Head(t) \in Cmd \union {NL}
           /\ OneLine(Tail(t))
           /\ HasLine(Tail(t)) => HasLine(t)
           /\ Head(t) \in Cmd => HasLine(t) /\ ~HasLine(Tail(t))
           /\ HasLine(t) => Head(t) \in Cmd \/ HasLine(Tail(t))
           /\ \A x : LinesAre(t, x) => LinesAre(Tail(t), x)
                                       /\ (Head(t) \in Cmd => Head(t) = x)
<1> DEFINE s == Tail(t)
           S == Cmd \union {NL}
<1>0. t \in Seq(S)
  BY DEF Text
<1>1. /\ s \in Seq(S) /\ Head(t) = t[1] /\ Head(t) \in S /\ 1 \in 1 .. Len(t)
      /\ \A i \in 1 .. Len(s) : s[i] = t[i + 1] /\ i + 1 \in 1 .. Len(t) /\ i + 1 # 1
      /\ \A i \in 1 .. Len(s), j \in 1 .. Len(s) : i + 1 = j + 1 => i = j
      /\ \A i \in 1 .. Len(t) :
            t[i] = Head(t) \/ (i - 1 \in 1 .. Len(s) /\ s[i - 1] = t[i])
  <2> HIDE DEF S
  <2>1. QED  BY <1>0
<1> HIDE DEF s
<1>2. OneLine(s)
  BY <1>1 DEF OneLine
<1>3. HasLine(s) => HasLine(t)
  BY <1>1, Zenon DEF HasLine
<1>4. Head(t) \in Cmd => HasLine(t) /\ ~HasLine(s)
  BY <1>1 DEF HasLine, OneLine
<1>5. ASSUME HasLine(t)  PROVE  Head(t) \in Cmd \/ HasLine(s)
  <2>1. PICK i \in 1 .. Len(t) : t[i] \in Cmd
    BY <1>5, Zenon DEF HasLine
  <2>2. QED  BY <1>1, <2>1, Zenon DEF HasLine
<1>6. \A x : LinesAre(t, x) => LinesAre(s, x) /\ (Head(t) \in Cmd => Head(t) = x)
  BY <1>1 DEF LinesAre
<1>7. QED  BY <1>1, <1>2, <1>3, <1>4, <1>5, <1>6, Zenon DEF Text, s

(* It is dropped, or the end of an empty line. *)
LEMMA SkipOwn ==
    ASSUME NEW buf, NEW buf2, NEW line, NEW ring, NEW t \in Text, t # <<>>, NEW w,
           NEW x, NEW mine, buf2 = buf \/ buf2 = None,
           ClientOwn(buf, mine, line, ring, t, w, x)
    PROVE  ClientOwn(buf2, mine, line, ring, Tail(t), w, x)
<1>1. OneLine(t)
  BY Zenon DEF ClientOwn, Placed
<1>2. QED  BY <1>1, TailLines, Zenon DEF ClientOwn, Placed, IsFor

(* It is the text of a line. *)
LEMMA TextOwn ==
    ASSUME NEW buf, NEW line, NEW ring, NEW t \in Text, t # <<>>, NEW w,
           NEW x, NEW mine, Head(t) \in Cmd,
           ClientOwn(buf, mine, line, ring, t, w, x)
    PROVE  ClientOwn(Head(t), mine, line, ring, Tail(t), w, x)
<1>1. OneLine(t)
  BY Zenon DEF ClientOwn, Placed
<1>2. HasLine(t) /\ ~HasLine(Tail(t)) /\ OneLine(Tail(t))
  BY <1>1, TailLines, Zenon
<1>3. LinesAre(t, x) => LinesAre(Tail(t), x) /\ Head(t) = x
  BY <1>1, TailLines, Zenon
<1>4. QED  BY <1>2, <1>3, Zenon DEF ClientOwn, Placed, IsFor

(* It is the end of one, which is queued. *)
LEMMA QueueOwn ==
    ASSUME NEW buf, buf # None, NEW line, NEW ring, NEW t \in Text, t # <<>>, NEW w,
           NEW x, NEW mine,
           ClientOwn(buf, FALSE, line, ring, t, w, x)
    PROVE  ClientOwn(None, mine, buf, ring, Tail(t), w, x)
<1>1. OneLine(t) /\ ~HasLine(t) /\ ~HasLine(w) /\ ~HasDone(ring)
  BY Zenon DEF ClientOwn, Placed
<1>2. ~HasLine(Tail(t)) /\ OneLine(Tail(t))
      /\ (LinesAre(t, x) => LinesAre(Tail(t), x))
  BY <1>1, TailLines, Zenon
<1>3. QED  BY <1>1, <1>2, Zenon DEF ClientOwn, Placed, IsFor

(* The client sends a line: nothing of it is on its way. *)
LEMMA SendOwn ==
    ASSUME NEW buf, NEW line, NEW ring \in Seq(Frame), NEW t \in Text, NEW w,
           NEW w2, NEW x \in Cmd, NEW mine, mine => line # None,
           ClientOwn(buf, mine, line, ring, t, w, None)
    PROVE  ClientOwn(buf, mine, line, ring, t, w2, x)
<1>0. None \notin Cmd
  BY IdentityAssumption
<1>1. IsFor(buf, mine, line, ring, t, None)
  BY Zenon DEF ClientOwn
<1>2. ~HasLine(t) /\ buf = None /\ ~mine
  BY <1>0, <1>1, Zenon DEF IsFor, LinesAre, HasLine
<1>3. \A i \in 1 .. Len(ring) : ring[i].type = "X"
  BY <1>1, Zenon DEF IsFor, FrameIsFor
<1>4. ~HasDone(ring)
  <2>1. "X" # "D"
    OBVIOUS
  <2>2. QED  BY <1>3, <2>1, Zenon DEF HasDone
<1>5. \A i \in 1 .. Len(ring) : FrameIsFor(ring[i], x)
  BY <1>3, Zenon DEF FrameIsFor
<1>6. LinesAre(t, x)
  BY <1>2, Zenon DEF HasLine, LinesAre
<1>7. QED
  BY <1>2, <1>4, <1>5, <1>6, Zenon DEF ClientOwn, Placed, IsFor
-----------------------------------------------------------------------------
(* What a function of hostcmd.c does to the connected client *)

(* The command queued or with the guest is the client's. *)
Mine(h) == Busy(h) /\ ~h.internal_active

Running(h) == h.cmd_inflight /\ ~h.internal_active

SameInput(g, h) == g.in_buf = h.in_buf /\ g.in_overflow = h.in_overflow

(* hc_push_frame(f). *)
Pushed(g, h, f) ==
    /\ g.client = h.client
    /\ \/ /\ g.ring = h.ring /\ g.used = h.used
          /\ h.client = None \/ Free(h) < f.left
       \/ g.ring = Append(h.ring, f) /\ g.used = h.used + f.left

(* Nothing, *)
Quiet(h, g) ==
    /\ SameInput(g, h) /\ SameRing(g, h)
    /\ Mine(g) <=> Mine(h)
    /\ Mine(h) => g.cmd_line = h.cmd_line
    /\ Running(h) => Running(g)

(* or it forgets the command, *)
Silenced(h, g) == SameInput(g, h) /\ SameRing(g, h) /\ ~Mine(g)

(* or it sends n bytes of the command's output, *)
Prints(h, g, n) ==
    /\ SameInput(g, h)
    /\ Mine(h) /\ Mine(g) /\ g.cmd_line = h.cmd_line
    /\ Running(h) /\ Running(g)
    /\ \E data \in Seq(Cmd) :
          /\ Len(data) = n /\ n >= 1
          /\ \A i \in 1 .. Len(data) : data[i] = h.cmd_line
          /\ Pushed(g, h, Output(data))

(* or it ends the command: it has ended, or it is given up with a notice.   *)
Answers(h, g) ==
    /\ SameInput(g, h)
    /\ Mine(h) /\ ~Mine(g) /\ Pushed(g, h, Done(h.cmd_line))

GivesUp(h, g) ==
    /\ SameInput(g, h)
    /\ Mine(h) /\ ~Mine(g)
    /\ \E m \in HostCmdState : /\ Pushed(m, h, Notice)
                               /\ Pushed(g, m, Done(h.cmd_line))

LEMMA PushFramePushed ==
    ASSUME NEW h \in HostCmdState, NEW f
    PROVE  Pushed(PushFrame(h, f), h, f) /\ SameInput(PushFrame(h, f), h)
<1>1. CASE h.client = None \/ Free(h) < f.left
  BY <1>1, Zenon DEF PushFrame, Pushed, SameInput
<1>2. CASE ~(h.client = None \/ Free(h) < f.left)
  <2> DEFINE g == [h EXCEPT !.ring = Append(@, f), !.used = @ + f.left]
  <2>1. /\ g.ring = Append(h.ring, f) /\ g.used = h.used + f.left
        /\ g.client = h.client /\ g.in_buf = h.in_buf
        /\ g.in_overflow = h.in_overflow
    BY ZenonT(40) DEF HostCmdState
  <2>2. PushFrame(h, f) = g
    BY <1>2, Zenon DEF PushFrame
  <2> HIDE DEF g
  <2>3. QED  BY <2>1, <2>2, Zenon DEF Pushed, SameInput
<1>3. QED  BY <1>1, <1>2

LEMMA InternalFinishSame ==
    ASSUME NEW h \in HostCmdState, NEW s
    PROVE  SameInput(InternalFinish(h, s), h) /\ SameRing(InternalFinish(h, s), h)
BY ZenonT(40) DEF InternalFinish, HostCmdState, SameInput, SameRing

(* A command that is given up. *)
LEMMA ExpireClient ==
    ASSUME NEW h \in HostCmdState
    PROVE  Quiet(h, Expire(h)) \/ (~h.cmd_inflight /\ GivesUp(h, Expire(h)))
<1> DEFINE g == [h EXCEPT !.cmd_pending = FALSE, !.cmd_line = None]
           m == PushFrame(g, Notice)
<1>1. CASE ~GivenUp(h)
  BY <1>1, Zenon DEF Expire, Quiet, SameInput, SameRing
<1>2. ASSUME GivenUp(h)
      PROVE  ~Busy(Expire(h)) /\ Busy(h) /\ ~h.cmd_inflight
  BY <1>2, ExpireCommand, Zenon DEF GivenUp, Busy
<1>3. g \in HostCmdState /\ SameRing(g, h) /\ SameInput(g, h)
  BY ZenonT(40) DEF HostCmdState, SameInput, SameRing
<1>4. Notice \in Frame
  BY FrameTypes
<1> HIDE DEF g
<1>5. CASE GivenUp(h) /\ h.internal_active
  <2>1. Expire(h) = InternalFinish(g, None)
    BY <1>5, Zenon DEF Expire, g
  <2>2. SameRing(Expire(h), g) /\ SameInput(Expire(h), g)
    BY <1>3, <2>1, InternalFinishSame, Zenon
  <2>3. SameRing(Expire(h), h) /\ SameInput(Expire(h), h)
    BY <1>3, <2>2, Zenon DEF SameRing, SameInput
  <2>4. QED  BY <1>2, <1>5, <2>3, Zenon DEF Quiet, Mine, Running
<1>6. CASE GivenUp(h) /\ ~h.internal_active
  <2>1. Expire(h) = PushFrame(m, Done(h.cmd_line))
    BY <1>6, Zenon DEF Expire, g
  <2>2. m \in HostCmdState /\ Pushed(m, g, Notice) /\ SameInput(m, g)
    BY <1>3, <1>4, PushFrameType, PushFramePushed, Zenon
  <2> HIDE DEF m
  <2>3. Pushed(m, h, Notice)
    BY <1>3, <2>2, Zenon DEF Pushed, SameRing, Free
  <2>4. Pushed(Expire(h), m, Done(h.cmd_line)) /\ SameInput(Expire(h), m)
    BY <2>1, <2>2, PushFramePushed, Zenon
  <2>5. SameInput(Expire(h), h)
    BY <1>3, <2>2, <2>4, Zenon DEF SameInput
  <2>6. QED  BY <1>2, <1>6, <2>2, <2>3, <2>4, <2>5, Zenon DEF GivesUp, Mine
<1>7. QED  BY <1>1, <1>5, <1>6

LEMMA SwiPollClient ==
    ASSUME NEW h \in HostCmdState, NEW fits \in BOOLEAN
    PROVE  Quiet(h, SwiPoll(h, fits))
<1> DEFINE g == [h EXCEPT !.registered = TRUE, !.seen_age = 0]
           d == [g EXCEPT !.cmd_pending = FALSE, !.cmd_inflight = TRUE]
<1>1. g \in HostCmdState /\ SameRing(g, h) /\ SameInput(g, h)
      /\ g.internal_active = h.internal_active
  <2>1. 0 \in 0 .. GuestQuiet
    BY SizeAssumption
  <2>2. QED  BY <2>1, ZenonT(40) DEF HostCmdState, SameInput, SameRing
<1> HIDE DEF g
<1>2. SameRing(d, g) /\ SameInput(d, g) /\ d.internal_active = g.internal_active
  BY <1>1, ZenonT(40) DEF HostCmdState, SameInput, SameRing
<1> HIDE DEF d
<1>3. SwiPoll(h, fits) \in {g, d}
  BY Zenon DEF SwiPoll, g, d
<1>4. /\ SameRing(SwiPoll(h, fits), h) /\ SameInput(SwiPoll(h, fits), h)
      /\ SwiPoll(h, fits).internal_active = h.internal_active
  BY <1>1, <1>2, <1>3, Zenon DEF SameRing, SameInput
<1>5. Busy(SwiPoll(h, fits)) <=> Busy(h)
  <2>1. CASE Deliverable(h) /\ fits
    <3>1. SwiPoll(h, fits).cmd_inflight
      BY <2>1, SwiPollCommand, Zenon
    <3>2. QED  BY <2>1, <3>1, Zenon DEF Busy, Deliverable
  <2>2. CASE ~(Deliverable(h) /\ fits)
    <3>1. SameCommand(SwiPoll(h, fits), h)
      BY <2>2, SwiPollCommand, Zenon
    <3>2. QED  BY <3>1, Zenon DEF Busy, SameCommand
  <2>3. QED  BY <2>1, <2>2
<1>6. SwiPoll(h, fits).cmd_line = h.cmd_line
  BY SwiPollCommand, Zenon
<1>7. h.cmd_inflight => SwiPoll(h, fits).cmd_inflight
  BY SwiPollCommand, Zenon DEF SameCommand, Deliverable
<1>8. QED  BY <1>4, <1>5, <1>6, <1>7, Zenon DEF Quiet, Mine, Running

(* OUTPUT: what the guest prints is the output of the command it runs. *)
LEMMA SwiOutputClient ==
    ASSUME NEW h \in HostCmdState, NEW data \in Seq(Cmd),
           h.cmd_inflight \/ h.orphaned > 0,
           h.cmd_inflight => \A i \in 1 .. Len(data) : data[i] = h.cmd_line
    PROVE  \/ Quiet(h, SwiOutput(h, data))
           \/ Prints(h, SwiOutput(h, data), Accepts(h, data))
<1> DEFINE g == SwiOutput(h, data)
           k == Accepts(h, data)
           out == SubSeq(data, 1, k)
<1>1. SameCommand(g, h) /\ g.internal_active = h.internal_active
  BY OtherCommand, OtherInternal, Zenon DEF SameInternal
<1>2. (Mine(g) <=> Mine(h)) /\ g.cmd_line = h.cmd_line
      /\ (Running(g) <=> Running(h))
  BY <1>1, Zenon DEF SameCommand, Mine, Busy, Running
<1>3. CASE h.internal_active
  <2>1. g = Capture(h, data)
    BY <1>3, Zenon DEF SwiOutput
  <2>2. SameInput(Capture(h, data), h) /\ SameRing(Capture(h, data), h)
    BY ZenonT(40) DEF Capture, HostCmdState, SameInput, SameRing
  <2>3. QED  BY <1>2, <2>1, <2>2, Zenon DEF Quiet
<1>4. CASE ~h.internal_active /\ (Discards(h) \/ k = 0)
  <2>1. g = h
    BY <1>4, Zenon DEF SwiOutput
  <2>2. QED  BY <2>1, Zenon DEF Quiet, SameInput, SameRing
<1>5. CASE ~h.internal_active /\ ~Discards(h) /\ k # 0
  <2>1. g = PushFrame(h, Output(out))
    BY <1>5, Zenon DEF SwiOutput
  <2>2. h.cmd_inflight
    BY <1>5, Zenon DEF Discards
  <2>3. k \in 1 .. Len(data)
    BY <1>5, AcceptsRange
  <2>4. out \in Seq(Cmd) /\ Len(out) = k /\ k >= 1
        /\ \A i \in 1 .. Len(out) : out[i] = h.cmd_line
    <3> HIDE DEF k
    <3>1. QED  BY <2>2, <2>3
  <2> HIDE DEF out
  <2>5. Pushed(g, h, Output(out)) /\ SameInput(g, h)
    BY <2>1, PushFramePushed, Zenon
  <2>6. Mine(h) /\ Running(h)
    BY <1>5, <2>2, Zenon DEF Mine, Busy, Running
  <2>7. QED  BY <1>2, <2>4, <2>5, <2>6, Zenon DEF Prints
<1>6. QED  BY <1>3, <1>4, <1>5

(* STATUS END, which is expected. *)
LEMMA SwiStatusEndClient ==
    ASSUME NEW h \in HostCmdState, NEW c \in Cmd \union {None},
           ~(h.cmd_pending /\ h.cmd_inflight),
           h.cmd_inflight \/ h.orphaned > 0,
           h.cmd_inflight => c = h.cmd_line
    PROVE  \/ Quiet(h, SwiStatusEnd(h, c))
           \/ h.cmd_inflight /\ Answers(h, SwiStatusEnd(h, c))
<1> DEFINE g == SwiStatusEnd(h, c)
           p == PushFrame(h, Done(c))
<1>0. /\ g.cmd_pending = h.cmd_pending /\ g.cmd_line = h.cmd_line
      /\ ~g.cmd_inflight
  BY SwiStatusEndCommand, Zenon
<1>1. CASE ~h.cmd_inflight /\ h.orphaned > 0
  <2> DEFINE d == [h EXCEPT !.orphaned = @ - 1]
  <2>1. g = d
    BY <1>1, Zenon DEF SwiStatusEnd
  <2>2. /\ SameInput(d, h) /\ SameRing(d, h)
        /\ d.internal_active = h.internal_active
    BY ZenonT(40) DEF HostCmdState, SameInput, SameRing
  <2> HIDE DEF d
  <2>3. (Mine(g) <=> Mine(h)) /\ ~Running(h) /\ SameInput(g, h) /\ SameRing(g, h)
    BY <1>0, <1>1, <2>1, <2>2, Zenon DEF Mine, Busy, Running
  <2>4. QED  BY <1>0, <2>3, Zenon DEF Quiet
<1>2. CASE h.cmd_inflight /\ h.internal_active
  <2> DEFINE d == [h EXCEPT !.cmd_inflight = FALSE]
  <2>1. g = InternalFinish(d, c)
    BY <1>2, Zenon DEF SwiStatusEnd
  <2>2. d \in HostCmdState /\ SameInput(d, h) /\ SameRing(d, h)
    BY ZenonT(40) DEF HostCmdState, SameInput, SameRing
  <2> HIDE DEF d
  <2>3. SameInput(g, d) /\ SameRing(g, d)
    BY <2>1, <2>2, InternalFinishSame, Zenon
  <2>4. SameInput(g, h) /\ SameRing(g, h)
    BY <2>2, <2>3, Zenon DEF SameInput, SameRing
  <2>5. ~Mine(g) /\ ~Mine(h) /\ ~Running(h)
    BY <1>0, <1>2, Zenon DEF Mine, Busy, Running
  <2>6. QED  BY <2>4, <2>5, Zenon DEF Quiet
<1>3. CASE h.cmd_inflight /\ ~h.internal_active
  <2>1. g = [p EXCEPT !.cmd_inflight = FALSE] /\ c = h.cmd_line
    BY <1>3, Zenon DEF SwiStatusEnd
  <2>2. p \in HostCmdState
    BY FrameTypes, PushFrameType, Zenon
  <2>3. Pushed(p, h, Done(c)) /\ SameInput(p, h)
    BY PushFramePushed, Zenon
  <2> HIDE DEF p
  <2>4. SameInput(g, p) /\ SameRing(g, p)
    BY <2>1, <2>2, ZenonT(40) DEF HostCmdState, SameInput, SameRing
  <2>5. Pushed(g, h, Done(h.cmd_line)) /\ SameInput(g, h)
    BY <2>1, <2>3, <2>4, Zenon DEF Pushed, SameInput, SameRing
  <2>6. ~Mine(g) /\ Mine(h)
    BY <1>0, <1>3, Zenon DEF Mine, Busy
  <2>7. QED  BY <1>3, <2>5, <2>6, Zenon DEF Answers
<1>4. QED  BY <1>1, <1>2, <1>3

LEMMA InternalAbandonClient ==
    ASSUME NEW h \in HostCmdState, ~(h.cmd_pending /\ h.cmd_inflight)
    PROVE  Quiet(h, InternalAbandon(h))
<1> DEFINE g == InternalAbandon(h)
           silent == [h EXCEPT !.internal_done = None]
           unqueued == [silent EXCEPT !.cmd_pending = FALSE, !.cmd_line = None]
           freed == IF h.cmd_pending THEN unqueued
                    ELSE IF h.cmd_inflight THEN Orphan(silent) ELSE silent
<1>1. CASE ~h.internal_active
  BY <1>1, Zenon DEF InternalAbandon, Quiet, SameInput, SameRing
<1>2. CASE h.internal_active
  <2>1. g = InternalFinish(freed, None)
    BY <1>2, Zenon DEF InternalAbandon
  <2>2. silent \in HostCmdState
    BY ZenonT(40) DEF HostCmdState
  <2>3. SameInput(silent, h)
    BY ZenonT(40) DEF HostCmdState, SameInput
  <2> HIDE DEF silent
  <2>4. unqueued \in HostCmdState
    BY <2>2, ZenonT(40) DEF HostCmdState
  <2>5. SameInput(unqueued, silent)
    BY <2>2, ZenonT(40) DEF HostCmdState, SameInput
  <2>6. Orphan(silent) \in HostCmdState
    BY <2>2, OrphanType, Zenon
  <2>7. SameInput(Orphan(silent), silent)
    BY <2>2, ZenonT(40) DEF HostCmdState, SameInput, Orphan
  <2> HIDE DEF unqueued
  <2>8. freed \in HostCmdState /\ SameInput(freed, silent)
    <3>1. freed \in {unqueued, Orphan(silent), silent}
      BY Zenon
    <3> HIDE DEF freed
    <3>2. QED  BY <2>2, <2>4, <2>5, <2>6, <2>7, <3>1, Zenon DEF SameInput
  <2> HIDE DEF freed
  <2>9. SameInput(g, freed)
    BY <2>1, <2>8, InternalFinishSame, Zenon
  <2>10. SameInput(g, h)
    BY <2>3, <2>8, <2>9, Zenon DEF SameInput
  <2>11. SameRing(g, h)
    BY InternalAbandonSameRing, Zenon
  <2>12. ~Busy(g)
    BY <1>2, InternalAbandonCommand, Zenon DEF Busy
  <2>13. QED  BY <1>2, <2>10, <2>11, <2>12, Zenon DEF Quiet, Mine, Running
<1>3. QED  BY <1>1, <1>2

(* A reset, unless an internal command is running. *)
LEMMA ResetStateClient ==
    ASSUME NEW h \in HostCmdState, h.initialised, ~h.internal_active
    PROVE  Silenced(h, ResetState(h)) \/ GivesUp(h, ResetState(h))
<1> DEFINE g == ResetState(h)
           m == PushFrame(h, Notice)
           d == PushFrame(m, Done(h.cmd_line))
           told == IF h.client # None /\ h.cmd_inflight THEN d ELSE h
           idle == [told EXCEPT !.cmd_pending = FALSE, !.cmd_inflight = FALSE,
                                !.cmd_line = None, !.orphaned = 0,
                                !.registered = FALSE]
<1>1. g = idle
  BY Zenon DEF ResetState
<1>2. m \in HostCmdState /\ Pushed(m, h, Notice) /\ SameInput(m, h)
  BY FrameTypes, PushFrameType, PushFramePushed, Zenon
<1> HIDE DEF m
<1>3. h.cmd_line \in Cmd \union {None}
  BY Zenon DEF HostCmdState
<1>4. /\ d \in HostCmdState /\ Pushed(d, m, Done(h.cmd_line))
      /\ SameInput(d, m)
  BY <1>2, <1>3, FrameTypes, PushFrameType, PushFramePushed, Zenon
<1> HIDE DEF d
<1>5. told \in HostCmdState
  BY <1>4, Zenon
<1>6. ~Busy(g)
  BY ResetStateCommand, Zenon
<1>7. CASE h.client # None /\ h.cmd_inflight
  <2>1. told = d
    BY <1>7, Zenon
  <2> HIDE DEF told
  <2>2. SameInput(g, told) /\ SameRing(g, told)
    BY <1>1, <1>5, ZenonT(40) DEF HostCmdState, SameInput, SameRing
  <2>3. SameInput(g, h)
    BY <1>2, <1>4, <2>1, <2>2, Zenon DEF SameInput
  <2>4. Pushed(g, m, Done(h.cmd_line))
    BY <1>4, <2>1, <2>2, Zenon DEF Pushed, SameRing
  <2>5. Mine(h) /\ ~Mine(g)
    BY <1>6, <1>7, Zenon DEF Mine, Busy
  <2>6. QED  BY <1>2, <2>3, <2>4, <2>5, Zenon DEF GivesUp
<1>8. CASE ~(h.client # None /\ h.cmd_inflight)
  <2>1. told = h
    BY <1>8, Zenon
  <2> HIDE DEF told
  <2>2. SameInput(g, told) /\ SameRing(g, told)
    BY <1>1, <1>5, ZenonT(40) DEF HostCmdState, SameInput, SameRing
  <2>3. QED  BY <1>6, <2>1, <2>2, Zenon DEF Silenced, Mine
<1>9. QED  BY <1>7, <1>8

(* The rest of what the emulator does leaves the client alone. *)
LEMMA OtherClient ==
    ASSUME NEW h \in HostCmdState
    PROVE  /\ Quiet(h, SwiRegister(h))
           /\ \A a, b : Quiet(h, [h EXCEPT !.queued_age = a, !.seen_age = b])
           /\ \A p : Quiet(h, [h EXCEPT !.posted = p])
           /\ \A c : ~Busy(h) => Quiet(h, InternalSubmit(h, c))
<1>1. ASSUME NEW g, SameInput(g, h), SameRing(g, h), g.cmd_pending = h.cmd_pending,
             g.cmd_inflight = h.cmd_inflight, g.cmd_line = h.cmd_line,
             g.internal_active = h.internal_active
      PROVE  Quiet(h, g)
  BY <1>1, Zenon DEF Quiet, Mine, Busy, Running
<1>2. Quiet(h, SwiRegister(h))
  <2> DEFINE g == SwiRegister(h)
  <2>1. /\ SameInput(g, h) /\ SameRing(g, h) /\ g.cmd_pending = h.cmd_pending
        /\ g.cmd_inflight = h.cmd_inflight /\ g.cmd_line = h.cmd_line
        /\ g.internal_active = h.internal_active
    BY ZenonT(40) DEF SwiRegister, HostCmdState, SameInput, SameRing
  <2> HIDE DEF g
  <2>2. Quiet(h, g)
    BY <1>1, <2>1, Zenon
  <2>3. QED  BY <2>2, Zenon DEF g
<1>3. ASSUME NEW a, NEW b PROVE Quiet(h, [h EXCEPT !.queued_age = a, !.seen_age = b])
  <2> DEFINE g == [h EXCEPT !.queued_age = a, !.seen_age = b]
  <2>1. /\ SameInput(g, h) /\ SameRing(g, h) /\ g.cmd_pending = h.cmd_pending
        /\ g.cmd_inflight = h.cmd_inflight /\ g.cmd_line = h.cmd_line
        /\ g.internal_active = h.internal_active
    BY ZenonT(40) DEF HostCmdState, SameInput, SameRing
  <2> HIDE DEF g
  <2>2. Quiet(h, g)
    BY <1>1, <2>1, Zenon
  <2>3. QED  BY <2>2, Zenon DEF g
<1>4. ASSUME NEW p PROVE Quiet(h, [h EXCEPT !.posted = p])
  <2> DEFINE g == [h EXCEPT !.posted = p]
  <2>1. /\ SameInput(g, h) /\ SameRing(g, h) /\ g.cmd_pending = h.cmd_pending
        /\ g.cmd_inflight = h.cmd_inflight /\ g.cmd_line = h.cmd_line
        /\ g.internal_active = h.internal_active
    BY ZenonT(40) DEF HostCmdState, SameInput, SameRing
  <2> HIDE DEF g
  <2>2. Quiet(h, g)
    BY <1>1, <2>1, Zenon
  <2>3. QED  BY <2>2, Zenon DEF g
<1>5. ASSUME NEW c, ~Busy(h) PROVE Quiet(h, InternalSubmit(h, c))
  <2> DEFINE g == InternalSubmit(h, c)
  <2>1. SameInput(g, h) /\ SameRing(g, h) /\ g.internal_active
    BY ZenonT(40) DEF InternalSubmit, HostCmdState, SameInput, SameRing
  <2> HIDE DEF g
  <2>2. Quiet(h, g)
    BY <1>5, <2>1, Zenon DEF Quiet, Mine, Running, Busy
  <2>3. QED  BY <2>2, Zenon DEF g
<1>6. QED  BY <1>2, <1>3, <1>4, <1>5, Zenon

SameLine(g, h) ==
    /\ g.client = h.client
    /\ Mine(g) <=> Mine(h)
    /\ Running(h) => Running(g)
    /\ Busy(g) => Busy(h)
    /\ Mine(h) => g.cmd_line = h.cmd_line

(* The read loop skips what it reads: the rest of a line that is too long,  *)
(* a blank line, or the end of a line that comes while a command is there.  *)
Skips(h, b, g) ==
    /\ SameLine(g, h) /\ g.in_buf \in {h.in_buf, None}
    /\ SameRing(g, h) \/ Pushed(g, h, Notice)
    /\ \/ h.in_overflow \/ b \in LongCmd
       \/ b = NL /\ h.in_buf = None /\ SameRing(g, h) /\ ~g.in_overflow
       \/ b = NL /\ h.in_buf # None /\ Busy(h) /\ ~g.in_overflow

(* It keeps the text of a line, *)
Holds(h, b, g) ==
    /\ SameLine(g, h) /\ SameRing(g, h) /\ ~g.in_overflow
    /\ b # NL /\ g.in_buf = b

(* or queues it. *)
Queues(h, b, g) ==
    /\ SameRing(g, h) /\ ~g.in_overflow
    /\ b = NL /\ h.in_buf # None /\ ~Busy(h)
    /\ g.in_buf = None /\ g.cmd_line = h.in_buf
    /\ g.cmd_pending /\ g.internal_active = h.internal_active

LEMMA PushSameLine ==
    ASSUME NEW h \in HostCmdState, NEW f
    PROVE  SameLine(PushFrame(h, f), h)
<1> DEFINE g == PushFrame(h, f)
<1>1. /\ SameCommand(g, h) /\ g.client = h.client
      /\ g.internal_active = h.internal_active
  BY PushFrameCommand, PushFrameInternal, Zenon DEF SameInternal
<1> HIDE DEF g
<1>2. SameLine(g, h)
  BY <1>1, Zenon DEF SameLine, Mine, Busy, SameCommand, Running
<1>3. QED  BY <1>2, Zenon DEF g

LEMMA ReadItemClient ==
    ASSUME NEW h \in HostCmdState, NEW b
    PROVE  \/ Skips(h, b, ReadItem(h, b))
           \/ Holds(h, b, ReadItem(h, b))
           \/ Queues(h, b, ReadItem(h, b))
<1> DEFINE r == ReadItem(h, b)
           g == [h EXCEPT !.in_buf = None]
           o == [h EXCEPT !.in_overflow = FALSE]
           l == [h EXCEPT !.in_overflow = TRUE, !.in_buf = None]
           k == [h EXCEPT !.in_buf = b]
           q == [g EXCEPT !.cmd_line = h.in_buf, !.cmd_pending = TRUE,
                          !.queued_age = 0]
<1>0. h.in_overflow \in BOOLEAN
  BY Zenon DEF HostCmdState
<1>1. /\ SameRing(g, h) /\ g.in_buf = None /\ g.in_overflow = h.in_overflow
      /\ SameCommand(g, h) /\ g.internal_active = h.internal_active
  BY ZenonT(40) DEF HostCmdState, SameRing, SameCommand
<1>2. g \in HostCmdState
  BY ZenonT(40) DEF HostCmdState
<1>3. /\ SameRing(o, h) /\ o.in_buf = h.in_buf /\ o.in_overflow = FALSE
      /\ SameCommand(o, h) /\ o.internal_active = h.internal_active
  BY ZenonT(40) DEF HostCmdState, SameRing, SameCommand
<1>4. o \in HostCmdState
  BY ZenonT(40) DEF HostCmdState
<1>5. /\ SameRing(l, h) /\ l.in_buf = None
      /\ SameCommand(l, h) /\ l.internal_active = h.internal_active
  BY ZenonT(40) DEF HostCmdState, SameRing, SameCommand
<1>6. /\ SameRing(k, h) /\ k.in_buf = b /\ k.in_overflow = h.in_overflow
      /\ SameCommand(k, h) /\ k.internal_active = h.internal_active
  BY ZenonT(40) DEF HostCmdState, SameRing, SameCommand
<1> HIDE DEF g
<1>7. /\ SameRing(q, g) /\ q.in_buf = g.in_buf /\ q.in_overflow = g.in_overflow
      /\ q.cmd_line = h.in_buf /\ q.cmd_pending = TRUE
      /\ q.internal_active = g.internal_active
  BY <1>2, ZenonT(40) DEF HostCmdState, SameRing
<1>8. \A x : SameCommand(x, h) /\ x.internal_active = h.internal_active
             /\ SameRing(x, h) => SameLine(x, h)
  BY Zenon DEF SameCommand, SameLine, SameRing, Mine, Busy, Running
<1> HIDE DEF o, l, k, q
<1>9. CASE b = NL /\ h.in_overflow
  <2>1. r = PushFrame(o, Notice)
    BY <1>9, Zenon DEF ReadItem, EndOfLine, o
  <2>2. SameLine(r, o) /\ Pushed(r, o, Notice) /\ SameInput(r, o)
    BY <1>4, <2>1, PushSameLine, PushFramePushed, Zenon
  <2>3. SameLine(o, h)
    BY <1>3, <1>8, Zenon
  <2>4. SameLine(r, h)
    BY <2>2, <2>3, Zenon DEF SameLine
  <2>5. Pushed(r, h, Notice)
    BY <1>3, <2>2, Zenon DEF Pushed, SameRing, Free
  <2>6. r.in_buf = h.in_buf
    BY <1>3, <2>2, Zenon DEF SameInput
  <2>7. QED  BY <1>9, <2>4, <2>5, <2>6, Zenon DEF Skips
<1>10. CASE b = NL /\ ~h.in_overflow /\ h.in_buf = None
  <2>1. r = g
    BY <1>10, Zenon DEF ReadItem, EndOfLine, g
  <2>2. SameLine(g, h)
    BY <1>1, <1>8, Zenon
  <2>3. QED  BY <1>1, <1>10, <2>1, <2>2, Zenon DEF Skips
<1>11. CASE b = NL /\ ~h.in_overflow /\ h.in_buf # None /\ Busy(h)
  <2>1. r = PushFrame(g, Notice)
    BY <1>11, Zenon DEF ReadItem, EndOfLine, g
  <2>2. SameLine(r, g) /\ Pushed(r, g, Notice) /\ SameInput(r, g)
    BY <1>2, <2>1, PushSameLine, PushFramePushed, Zenon
  <2>3. SameLine(g, h)
    BY <1>1, <1>8, Zenon
  <2>4. SameLine(r, h)
    BY <2>2, <2>3, Zenon DEF SameLine
  <2>5. Pushed(r, h, Notice)
    BY <1>1, <2>2, Zenon DEF Pushed, SameRing, Free
  <2>6. r.in_buf = None /\ ~r.in_overflow
    BY <1>1, <1>11, <2>2, Zenon DEF SameInput
  <2>7. QED  BY <1>11, <2>4, <2>5, <2>6, Zenon DEF Skips
<1>12. CASE b = NL /\ ~h.in_overflow /\ h.in_buf # None /\ ~Busy(h)
  <2>1. r = q
    BY <1>12, Zenon DEF ReadItem, EndOfLine, q, g
  <2>2. SameRing(q, h)
    BY <1>1, <1>7, Zenon DEF SameRing
  <2>3. QED  BY <1>1, <1>7, <1>12, <2>1, <2>2, Zenon DEF Queues
<1>13. CASE b # NL /\ h.in_overflow
  <2>1. r = h
    BY <1>13, Zenon DEF ReadItem
  <2>2. QED  BY <1>13, <2>1, Zenon DEF Skips, SameLine, SameRing
<1>14. CASE b # NL /\ ~h.in_overflow /\ b \in LongCmd
  <2>1. r = l
    BY <1>14, Zenon DEF ReadItem, l
  <2>2. SameLine(l, h)
    BY <1>5, <1>8, Zenon
  <2>3. QED  BY <1>5, <1>14, <2>1, <2>2, Zenon DEF Skips
<1>15. CASE b # NL /\ ~h.in_overflow /\ b \notin LongCmd
  <2>1. r = k
    BY <1>15, Zenon DEF ReadItem, k
  <2>2. SameLine(k, h)
    BY <1>6, <1>8, Zenon
  <2>3. QED  BY <1>6, <1>15, <2>1, <2>2, Zenon DEF Holds
<1>16. QED
  BY <1>9, <1>10, <1>11, <1>12, <1>13, <1>14, <1>15, Zenon

=============================================================================
