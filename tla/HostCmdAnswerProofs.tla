------------------------ MODULE HostCmdAnswerProofs ------------------------
(***************************************************************************)
(* No client of the HostCmd channel is forgotten: while it waits, its line, *)
(* its command or its answer is in one of the places hostcmd.c keeps it,    *)
(* and there is room in the ring for the answer that is still to come.      *)
(***************************************************************************)
EXTENDS HostCmdClientProofs

LEMMA NoFrames ==
    ASSUME NEW r \in Seq(Frame), Len(r) = 0
    PROVE  r = <<>>
<1>1. r # <<>> => Len(r) >= 1
  OBVIOUS
<1>2. QED  BY <1>1

LEMMA RoomSent ==
    ASSUME NEW h, NEW g, NEW n \in Nat, NEW k \in Nat, h.used \in Int,
           g.used = h.used - n, SameLine(g, h), RoomLeft(h, k),
           ~HasDone(g.ring) => ~HasDone(h.ring)
    PROVE  RoomLeft(g, k)
<1> SUFFICES ASSUME ~HasDone(h.ring)
             PROVE  g.used =< Notice.left
                      + (IF Running(g) THEN (HeaderLen + 1) * k ELSE 0)
  BY Zenon DEF RoomLeft
<1>1. Running(h) => Running(g)
  BY Zenon DEF SameLine
<1>2. Notice.left \in Nat /\ (HeaderLen + 1) * k \in Nat
  BY Paces
<1>3. h.used =< Notice.left + (IF Running(h) THEN (HeaderLen + 1) * k ELSE 0)
  BY Zenon DEF RoomLeft
<1>4. QED  BY <1>1, <1>2, <1>3

(* A done frame that has been sent was the last, and ends the wait. *)
LEMMA SendBytesKept ==
    ASSUME NEW h \in HostCmdState, RingInv(h), h.ring # <<>>, h.client # None,
           NEW n \in 1 .. Head(h.ring).left,
           NEW w, NEW a \in [Conn -> Cmd \union {None}], NEW p, NEW k \in Nat,
           Kept(h, <<>>, w, a, p, k), NEW b,
           b = IF n # Head(h.ring).left \/ p[h.client] = "closed"
                  \/ Head(h.ring).type # "D"
               THEN a ELSE [a EXCEPT ![h.client] = None]
    PROVE  Kept(SendBytes(h, n), <<>>, w, b, p, k)
<1> DEFINE g == SendBytes(h, n)
           c == h.client
           f == Head(h.ring)
           part == [f EXCEPT !.left = @ - n]
           cut == <<part>> \o Tail(h.ring)
<1>1. /\ SameLine(g, h) /\ SameInput(g, h) /\ g.used = h.used - n
      /\ g.ring = IF n = f.left THEN Tail(h.ring) ELSE cut
  BY SendFields, Zenon
<1>2. /\ h.ring \in Seq(Frame) /\ h.used \in Int /\ c \in Conn
  BY Zenon DEF HostCmdState
<1>3. /\ f \in Frame /\ f = h.ring[1] /\ 1 \in 1 .. Len(h.ring)
      /\ Len(Tail(h.ring)) = Len(h.ring) - 1 /\ Len(h.ring) \in Nat
      /\ \A i \in 1 .. Len(Tail(h.ring)) :
            /\ Tail(h.ring)[i] = h.ring[i + 1]
            /\ i + 1 \in 1 .. Len(h.ring)
      /\ \A i \in 1 .. Len(h.ring) :
            i = 1 \/ (i - 1 \in 1 .. Len(Tail(h.ring))
                      /\ Tail(h.ring)[i - 1] = h.ring[i])
  BY <1>2
<1>4. f.left \in Nat /\ n \in Nat /\ n =< f.left
  <2>1. f.left \in Nat
    BY <1>3, Zenon DEF Frame
  <2>2. QED  BY <2>1
<1>5. \A d \in Conn : b[d] # None => a[d] # None /\ b[d] = a[d]
  BY Zenon
<1>6. CASE p[c] = "closed"
  BY <1>1, <1>5, <1>6, Zenon DEF Kept, SameLine, SameInput
<1>7. CASE p[c] # "closed"
  <2>1. DoneEnds(h.ring) /\ RoomLeft(h, k) /\ ReadsIdle(h, <<>>)
    BY <1>7, Zenon DEF Kept
  <2>2. ReadsIdle(g, <<>>)
    BY NoLines, Zenon DEF ReadsIdle
  <2>3. CASE n = f.left
    <3>1. g.ring = Tail(h.ring)
      BY <1>1, <2>3
    <3>2. DoneEnds(g.ring)
      <4>1. \A i \in 1 .. Len(Tail(h.ring)) :
               Tail(h.ring)[i].type = "D" => i = Len(Tail(h.ring))
        BY <1>3, <2>1 DEF DoneEnds
      <4>2. QED  BY <3>1, <4>1, Zenon DEF DoneEnds
    <3>3. f.type # "D" /\ HasDone(h.ring) => HasDone(g.ring)
      <4>1. \A i \in 1 .. Len(h.ring) : i = 1 \/
               \E j \in 1 .. Len(Tail(h.ring)) : Tail(h.ring)[j] = h.ring[i]
        BY <1>3
      <4>2. f = h.ring[1]
        BY <1>3
      <4>3. f.type # "D" /\ HasDone(h.ring) => HasDone(Tail(h.ring))
        BY <4>1, <4>2, Zenon DEF HasDone
      <4>4. QED  BY <3>1, <4>3, Zenon
    <3>4. f.type = "D" => g.ring = <<>>
      <4> SUFFICES ASSUME f.type = "D" PROVE g.ring = <<>>
        OBVIOUS
      <4>1. 1 = Len(h.ring)
        BY <1>3, <2>1, Zenon DEF DoneEnds
      <4>2. Tail(h.ring) \in Seq(Frame) /\ Len(Tail(h.ring)) = 0
        BY <1>2, <1>3, <4>1
      <4>3. Tail(h.ring) = <<>>
        BY <4>2, NoFrames, Zenon
      <4>4. QED  BY <3>1, <4>3, Zenon
    <3>5. g \in HostCmdState /\ RingInv(g)
      BY <1>2, <1>3, <1>4, SendBytesType, SendBytesRing, Zenon
    <3>6. RoomLeft(g, k)
      <4>1. CASE f.type = "D"
        <5>1. g.used = 0
          BY <3>4, <3>5, <4>1, TotalsBound, Zenon DEF RingInv, HostCmdState
        <5>2. Notice.left \in Nat /\ (HeaderLen + 1) * k \in Nat
          BY Paces
        <5>3. 0 =< Notice.left + (IF Running(g) THEN (HeaderLen + 1) * k ELSE 0)
          BY <5>2
        <5>4. QED  BY <5>1, <5>3, Zenon DEF RoomLeft
      <4>2. CASE f.type # "D"
        <5>1. ~HasDone(g.ring) => ~HasDone(h.ring)
          BY <3>3, <4>2
        <5>2. QED  BY <1>1, <1>2, <1>4, <2>1, <5>1, RoomSent, Zenon
      <4>3. QED  BY <4>1, <4>2
    <3>7. f.type = "D" => b[c] = None
      BY <1>2, <1>7, <2>3, Zenon
    <3>8. f.type # "D" => (Held(h, <<>>) => Held(g, <<>>))
      BY <1>1, <3>3, Zenon DEF Held, SameLine, SameInput
    <3>9. QED
      BY <1>1, <1>5, <2>2, <3>2, <3>6, <3>7, <3>8, Zenon
         DEF Kept, SameLine, SameInput
  <2>4. CASE n # f.left
    <3>1. g.ring = cut /\ b = a
      BY <1>1, <2>4, Zenon
    <3>2. part \in Frame /\ part.type = f.type
      <4>1. f.left - n \in Nat
        BY <1>4
      <4>2. QED  BY <1>3, <4>1, Zenon DEF Frame
    <3>3. Len(cut) = Len(h.ring)
          /\ \A i \in 1 .. Len(h.ring) : cut[i].type = h.ring[i].type
      <4> HIDE DEF part
      <4>1. Len(cut) = Len(h.ring) /\ cut[1] = part
            /\ \A i \in 1 .. Len(h.ring) : i # 1 => cut[i] = h.ring[i]
        BY <1>2, <3>2
      <4>2. QED  BY <1>3, <3>2, <4>1, Zenon
    <3> HIDE DEF cut
    <3>4. DoneEnds(g.ring) /\ (HasDone(g.ring) <=> HasDone(h.ring))
      BY <2>1, <3>1, <3>3, Zenon DEF DoneEnds, HasDone
    <3>5. RoomLeft(g, k)
      BY <1>1, <1>2, <1>4, <2>1, <3>4, RoomSent, Zenon
    <3>6. Held(h, <<>>) => Held(g, <<>>)
      BY <1>1, <3>4, Zenon DEF Held, SameLine, SameInput
    <3>7. QED
      BY <1>1, <2>2, <3>1, <3>4, <3>5, <3>6, Zenon
         DEF Kept, SameLine, SameInput
  <2>5. QED  BY <2>3, <2>4
<1>8. QED  BY <1>6, <1>7

(* Every frame the whole channel pushes fits. *)
LEMMA NextRing == ChannelInv /\ RingInv(hc) /\ [Next]_vars => RingInv(hc')
<1> SUFFICES ASSUME ChannelInv, RingInv(hc), [Next]_vars PROVE RingInv(hc')
  OBVIOUS
<1>0. /\ HostTypeOK /\ hc \in HostCmdState /\ gring \in Seq(Cmd)
      /\ gcmd \in Cmd \union {None}
  BY TypeParts, Zenon DEF ChannelInv, HostTypeOK, GuestTypeOK
<1>1. CASE hc' = hc
  BY <1>1, Zenon
<1>2. CASE Service
  BY <1>0, <1>2, ServiceRing
<1>3. CASE SystemClients \/ UNCHANGED vars
  <2>1. hc' = hc
    BY <1>3, Zenon DEF SystemClients, Connect, SendLine, TypeAhead, SendBlank,
                       Hangup, HalfClose, vars, hostVars
  <2>2. QED  BY <1>1, <2>1
<1>4. CASE Time
  <2>1. PICK a, b : hc' = [hc EXCEPT !.queued_age = a, !.seen_age = b]
    BY <1>4, Zenon DEF Time, Tick
  <2>2. SameRing(hc', hc)
    BY <1>0, <2>1, OtherClient, Zenon DEF Quiet
  <2>3. QED  BY <2>2, SameRingInv, Zenon
<1>5. CASE Guest
  <2>1. Swi(SwiStatusEnd(hc, gcmd)) => RingInv(hc')
    BY <1>0, SwiRing, Zenon DEF Swi, Emulator
  <2>2. CASE ModuleInit \/ TickerPoll
    <3>1. hc' = SwiRegister(hc) \/ hc' = SwiPoll(hc, TRUE)
      BY <2>2, Zenon DEF ModuleInit, TickerPoll, Swi, Emulator
    <3>2. QED  BY <1>0, <3>1, SwiRing, Zenon
  <2>3. CASE FlushRing
    <3>1. PICK n \in 1 .. Len(gring) : hc' = SwiOutput(hc, SubSeq(gring, 1, n))
      BY <2>3, Zenon DEF FlushRing, Swi, Emulator
    <3>2. SubSeq(gring, 1, n) \in Seq(Cmd)
      BY <1>0
    <3>3. QED  BY <1>0, <3>1, <3>2, SwiRing, Zenon
  <2>4. CASE TickerEnd
    BY <2>1, <2>4, Zenon DEF TickerEnd
  <2>5. CASE PollWord \/ TwQuit
    <3>1. Swi(SwiStatusEnd(hc, gcmd)) \/ unchangedHost
      BY <2>5, Zenon DEF PollWord, TwQuit, AbortCommand
    <3>2. QED  BY <1>1, <2>1, <3>1, Zenon DEF unchangedHost, hostVars
  <2>6. CASE \/ TickerEntry \/ FlushDone \/ TickerDone \/ Headless
             \/ StartWimp \/ TaskStarts \/ TwOutput \/ TwMorio
             \/ TaskStartFails \/ ModuleFinal
    <3>1. hc' = hc
      BY <2>6, Zenon DEF TickerEntry, FlushDone, TickerDone, Headless, RunCommand,
         Wrch, RunReturns, StartWimp, TaskStarts, TwOutput, TwMorio, PutByte,
         Become, TaskStartFails, ModuleFinal, unchangedHost, hostVars
    <3>2. QED  BY <1>1, <3>1
  <2>7. QED
    BY <1>5, <2>2, <2>3, <2>4, <2>5, <2>6, Zenon DEF Guest, Ticker, Desktop
<1>6. CASE MachineReset
  BY <1>0, <1>6, ResetStateRing, Zenon DEF MachineReset, HostReset, Emulator
<1>7. CASE Caller
  <2>1. \/ hc' = hc
        \/ \E c : hc' = InternalSubmit(hc, c) /\ ~Busy(hc)
        \/ \E p : hc' = [hc EXCEPT !.posted = p]
        \/ hc' = InternalAbandon(hc)
    BY <1>7, Zenon DEF Caller, GuestCommandRun, RunRequest, AbandonRequest,
       Abandon, GuestCommandDeliver, GuestCommandTimeout, Emulator, CanSubmit,
       hostVars
  <2>2. QED
    BY <1>0, <2>1, OtherClient, SameRingInv, InternalAbandonRing, Zenon DEF Quiet
<1>8. QED
  BY <1>2, <1>3, <1>4, <1>5, <1>6, <1>7, Zenon DEF Next
-----------------------------------------------------------------------------
(* The emulator's steps. *)
LEMMA ServiceKept ==
    ASSUME RoomForDone, LongCmd = {}, HostTypeOK, OwnInv, RingInv(hc), Service,
           \A c \in Conn : peer[c] # "half", hc.internal_active => Busy(hc),
           NEW k \in Nat, Kept(hc, tmp, wire, await, peer, k)
    PROVE  Kept(hc', tmp', wire', await', peer', k)
<1> DEFINE h == Expire(hc)
<1>1. /\ hc \in HostCmdState /\ h \in HostCmdState /\ tmp \in Text
      /\ wire \in [Conn -> Text] /\ await \in [Conn -> Cmd \union {None}]
  BY ExpireType, Zenon DEF HostTypeOK, Text
<1>2. tmp = <<>> => Kept(h, <<>>, wire, await, peer, k)
  BY <1>1, ExpireKept, Zenon DEF OwnInv
<1>3. RingInv(h)
  BY <1>1, ExpireRing, Zenon
<1> HIDE DEF h
<1>4. CASE /\ hc' = DropClient(h) /\ tmp = <<>> /\ peer[h.client] = "closed"
           /\ UNCHANGED <<tmp, wire, await, peer>>
  BY <1>1, <1>2, <1>4, DropKept, Zenon
<1>5. CASE PollHup \/ PollWriteFails
  BY <1>4, <1>5, Zenon DEF PollHup, PollWriteFails, Emulator, netVars, h
<1>6. CASE PollAccept
  <2>1. hc' = AcceptClient(h, Head(backlog)) /\ tmp = <<>> /\ tmp' = tmp
        /\ UNCHANGED <<wire, peer, await>> /\ backlog # <<>> /\ h.client = None
    BY <1>6, Zenon DEF PollAccept, Emulator, h
  <2>2. Head(backlog) \in Conn
    BY <2>1 DEF HostTypeOK
  <2>3. QED  BY <1>1, <1>2, <2>1, <2>2, AcceptKept, Zenon
<1>7. CASE PollRead
  <2>1. h.client # None /\ tmp = <<>> /\ ~Busy(h) /\ UNCHANGED <<peer, await>>
    BY <1>7, Zenon DEF PollRead, Emulator, h
  <2>2. CASE hc' = DropClient(h) /\ UNCHANGED <<tmp, wire>>
             /\ peer[h.client] \in {"half", "closed"}
    <3>1. peer[h.client] = "closed"
      BY <1>1, <2>1, <2>2, Zenon DEF HostCmdState
    <3>2. QED  BY <1>4, <2>1, <2>2, <3>1, Zenon
  <2>3. ASSUME NEW n \in 1 .. Len(wire[h.client]),
               hc' = h, tmp' = SubSeq(wire[h.client], 1, n),
               wire' = [wire EXCEPT ![h.client] = SubSeq(@, n + 1, Len(@))]
        PROVE  Kept(hc', tmp', wire', await', peer', k)
    <3>1. WiresOwn(wire, await, peer)
      BY Zenon DEF OwnInv
    <3>2. Kept(h, tmp', wire', await, peer, k)
      BY <1>1, <1>2, <2>1, <2>3, <3>1, RecvKept, Zenon
    <3>3. QED  BY <2>1, <2>3, <3>2, Zenon
  <2>4. QED  BY <1>7, <2>2, <2>3, Zenon DEF PollRead, Emulator, h
<1>8. CASE ReadLoop
  <2>1. /\ tmp # <<>> /\ hc' = ReadItem(hc, Head(tmp)) /\ tmp' = Tail(tmp)
        /\ UNCHANGED <<wire, peer, await>>
    BY <1>8, Zenon DEF ReadLoop, netVars
  <2>2. Kept(ReadItem(hc, Head(tmp)), Tail(tmp), wire, await, peer, k)
    BY <1>1, <2>1, ReadItemKept, Zenon DEF OwnInv
  <2>3. QED  BY <2>1, <2>2, Zenon
<1>9. CASE PollQuiet
  <2>1. hc' = h /\ tmp = <<>> /\ UNCHANGED <<tmp, wire, peer, await>>
    BY <1>9, Zenon DEF PollQuiet, Emulator, netVars, h
  <2>2. QED  BY <1>2, <2>1, Zenon
<1>10. ASSUME NEW n, PollWrite(n)
       PROVE  Kept(hc', tmp', wire', await', peer', k)
  <2>1. /\ h.client # None /\ h.ring # <<>> /\ n \in 1 .. Head(h.ring).left
        /\ hc' = SendBytes(h, n) /\ tmp = <<>>
        /\ tmp' = tmp /\ wire' = wire /\ peer' = peer
    BY <1>10, Zenon DEF PollWrite, Emulator, h
  <2>2. await' = IF n # Head(h.ring).left \/ peer[h.client] = "closed"
                    \/ Head(h.ring).type # "D"
                 THEN await ELSE [await EXCEPT ![h.client] = None]
    BY <1>10, Zenon DEF PollWrite, h
  <2>3. Kept(SendBytes(h, n), <<>>, wire, await', peer, k)
    BY <1>1, <1>2, <1>3, <2>1, <2>2, SendBytesKept, Zenon
  <2>4. QED  BY <2>1, <2>3, Zenon
<1>11. QED  BY <1>5, <1>6, <1>7, <1>8, <1>9, <1>10, Zenon DEF Service

(* The clients'. *)
LEMMA ClientsKept ==
    ASSUME HostTypeOK, NEW d \in Conn, NEW k,
           \/ Connect(d) \/ Hangup(d) \/ HalfClose(d) \/ SendBlank(d)
           \/ \E x \in Cmd : SendLine(d, x),
           Kept(hc, tmp, wire, await, peer, k)
    PROVE  Kept(hc', tmp', wire', await', peer', k)
<1>1. /\ hc \in HostCmdState /\ wire \in [Conn -> Text]
      /\ await \in [Conn -> Cmd \union {None}]
  BY Zenon DEF HostTypeOK, Text
<1>2. hc.client # None => hc.client \in Conn
  BY <1>1, Zenon DEF HostCmdState
<1>3. CASE Connect(d) \/ Hangup(d) \/ HalfClose(d)
  <2>1. hc' = hc /\ tmp' = tmp /\ wire' = wire
        /\ \A c \in Conn : peer'[c] # "closed" =>
              peer[c] # "closed" /\ await'[c] = await[c]
    BY <1>3, PeersLeave, Zenon
  <2>2. QED  BY <1>2, <2>1, Zenon DEF Kept
<1>4. CASE SendBlank(d)
  <2>1. /\ wire[d] = <<>> /\ \A c \in Conn : c # d => wire'[c] = wire[c]
        /\ hc' = hc /\ tmp' = tmp /\ await' = await /\ peer' = peer
    BY <1>1, <1>4, Zenon DEF SendBlank
  <2>2. \A c \in Conn : HasLine(wire[c]) => HasLine(wire'[c])
    BY <2>1, NoLines, Zenon
  <2>3. QED  BY <2>1, <2>2, Zenon DEF Kept
<1>5. ASSUME NEW x \in Cmd, SendLine(d, x)
      PROVE  Kept(hc', tmp', wire', await', peer', k)
  <2>1. /\ wire' = [wire EXCEPT ![d] = @ \o <<x, NL>>]
        /\ await' = [await EXCEPT ![d] = x]
        /\ hc' = hc /\ tmp' = tmp /\ peer' = peer
    BY <1>5, Zenon DEF SendLine
  <2>2. wire'[d] = wire[d] \o <<x, NL>> /\ wire[d] \in Text
        /\ \A c \in Conn : c # d => wire'[c] = wire[c] /\ await'[c] = await[c]
    BY <1>1, <2>1, Zenon
  <2>3. HasLine(wire[d] \o <<x, NL>>)
    <3> DEFINE S == Cmd \union {NL}
               s == wire[d] \o <<x, NL>>
               n == Len(wire[d]) + 1
    <3>1. wire[d] \in Seq(S) /\ x \in S /\ NL \in S
      BY <2>2 DEF Text
    <3> HIDE DEF S
    <3>2. n \in 1 .. Len(s) /\ s[n] = x
      BY <3>1
    <3> HIDE DEF n, s
    <3>3. HasLine(s)
      BY <1>5, <3>2, Zenon DEF HasLine
    <3>4. QED  BY <3>3, Zenon DEF s
  <2>4. \A c \in Conn : HasLine(wire'[c]) \/ (wire'[c] = wire[c] /\ await'[c] = await[c])
    BY <2>2, <2>3, Zenon
  <2>5. QED  BY <2>1, <2>4, Zenon DEF Kept
<1>6. QED  BY <1>3, <1>4, <1>5

(* The same of this state, and of the next one. *)
HostKept(k) == Kept(hc, tmp, wire, await, peer, k)

HostKeeps(k) == Kept(hc', tmp', wire', await', peer', k)

LEMMA HostStutterKept ==
    ASSUME hc \in HostCmdState, unchangedHost, NEW k \in Nat, NEW k2 \in Nat, k =< k2,
           HostKept(k)
    PROVE  HostKeeps(k2)
<1>1. /\ hc' = hc /\ tmp' = tmp /\ wire' = wire /\ await' = await /\ peer' = peer
  BY Zenon DEF unchangedHost, hostVars
<1>2. Quiet(hc, hc)
  BY Zenon DEF Quiet, SameInput, SameRing
<1>3. Kept(hc, tmp, wire, await, peer, k2)
  BY <1>2, QuietKept, Zenon DEF HostKept
<1>4. QED  BY <1>1, <1>3, Zenon DEF HostKeeps

LEMMA QuietStepKept ==
    ASSUME hc \in HostCmdState, UNCHANGED <<tmp, netVars>>, Quiet(hc, hc'),
           tmp = <<>> \/ (Busy(hc') => Busy(hc)),
           NEW k \in Nat, NEW k2 \in Nat, Running(hc) => k =< k2, HostKept(k)
    PROVE  HostKeeps(k2)
<1>1. /\ tmp' = tmp /\ wire' = wire /\ await' = await /\ peer' = peer
  BY Zenon DEF netVars
<1>2. Kept(hc', tmp, wire, await, peer, k2)
  BY QuietKept, Zenon DEF HostKept
<1>3. QED  BY <1>1, <1>2, Zenon DEF HostKeeps

LEMMA EndKept ==
    ASSUME RoomForDone, ChannelInv, OwnInv, Owes, Swi(SwiStatusEnd(hc, gcmd)),
           NEW k \in 0 .. MaxPrint, MaxPrint \in Nat, HostKept(k)
    PROVE  HostKeeps(k)
<1>1. hc \in HostCmdState /\ gcmd \in Cmd \union {None}
  BY Zenon DEF ChannelInv, TypeOK, HostTypeOK
<1>2. /\ hc.cmd_inflight \/ hc.orphaned > 0
      /\ hc.cmd_inflight => gcmd = hc.cmd_line
      /\ ~(hc.cmd_pending /\ hc.cmd_inflight)
  BY Zenon DEF ChannelInv, EndExpected, InflightIsRunning, CommandInOnePlace
<1>3. Quiet(hc, hc') \/ Answers(hc, hc')
  BY <1>1, <1>2, SwiStatusEndClient, Zenon DEF Swi, Emulator
<1>4. tmp = <<>> /\ UNCHANGED <<tmp, netVars>>
  BY Zenon DEF Swi, Emulator
<1>5. k \in Nat /\ k =< k
  OBVIOUS
<1>6. CASE Quiet(hc, hc')
  BY <1>1, <1>4, <1>5, <1>6, QuietStepKept, Zenon
<1>7. CASE Answers(hc, hc')
  <2>1. Kept(hc', <<>>, wire, await, peer, k)
    BY <1>1, <1>4, <1>7, EndsKept, Zenon DEF HostKept, OwnInv
  <2>2. QED  BY <1>4, <2>1, Zenon DEF HostKeeps, netVars
<1>8. QED  BY <1>3, <1>6, <1>7

(* What the guest has passed on is what it has printed, but for what is     *)
(* still in its ring.                                                       *)
PassedOn == printed - Len(gring)

LEMMA FlushKept ==
    ASSUME ChannelInv, OwnInv, GuestOwn, FlushRing, Len(gring) =< printed,
           HostKept(PassedOn)
    PROVE  Len(gring') =< printed' /\ HostKeeps(PassedOn')
<1>1. hc \in HostCmdState /\ gring \in Seq(Cmd) /\ printed \in 0 .. MaxPrint
  BY Zenon DEF ChannelInv, TypeOK, HostTypeOK
<1>2. PICK n \in 1 .. Len(gring) :
         /\ hc' = SwiOutput(hc, SubSeq(gring, 1, n))
         /\ gring' = SubSeq(gring, Accepts(hc, SubSeq(gring, 1, n)) + 1, Len(gring))
         /\ UNCHANGED <<tmp, netVars>> /\ gring # <<>> /\ tmp = <<>>
         /\ printed' = printed
  BY Zenon DEF FlushRing, Swi, Emulator
<1> DEFINE run == SubSeq(gring, 1, n)
           k == PassedOn
           m == Accepts(hc, run)
<1>3. run \in Seq(Cmd) /\ Len(run) = n /\ \A i \in 1 .. Len(run) : run[i] = gcmd
  BY <1>1, <1>2 DEF GuestOwn
<1>4. m \in 0 .. n
  BY <1>1, <1>3, AcceptsRange, ZenonT(40)
<1>5. Owes
  <2>1. gstate \in {"RUNNING", "TW_RUNNING", "FLUSHING"}
    BY <1>2, Zenon DEF GuestOwn
  <2>2. QED  BY <2>1 DEF Owes
<1>6. hc.cmd_inflight \/ hc.orphaned > 0
  BY <1>5, Zenon DEF ChannelInv, EndExpected
<1>7. hc.cmd_inflight => \A i \in 1 .. Len(run) : run[i] = hc.cmd_line
  BY <1>3, Zenon DEF ChannelInv, InflightIsRunning
<1>8. gring' = SubSeq(gring, m + 1, Len(gring))
  BY <1>2, Zenon
<1> HIDE DEF run
<1>9. Quiet(hc, hc') \/ Prints(hc, hc', m)
  BY <1>1, <1>2, <1>3, <1>6, <1>7, SwiOutputClient, Zenon DEF run, m
<1> HIDE DEF m
<1>10. /\ Len(gring') = Len(gring) - m /\ k \in Nat /\ m \in Nat
       /\ k + m \in Nat /\ k =< k + m
  BY <1>1, <1>4, <1>8 DEF PassedOn
<1>11. Len(gring') =< printed' /\ PassedOn' = k + m
  <2>1. printed' = printed /\ printed \in Nat /\ Len(gring) \in Nat
    BY <1>1, <1>2
  <2>2. k = printed - Len(gring) /\ PassedOn' = printed' - Len(gring')
    BY Zenon DEF PassedOn
  <2> HIDE DEF k
  <2>3. QED  BY <1>10, <2>1, <2>2
<1> HIDE DEF k
<1>12. HostKeeps(k + m)
  <2>1. CASE Quiet(hc, hc')
    BY <1>1, <1>2, <1>10, <2>1, QuietStepKept, Zenon DEF k
  <2>2. CASE Prints(hc, hc', m)
    <3>1. Kept(hc', <<>>, wire, await, peer, k + m)
      BY <1>1, <1>2, <1>10, <2>2, PrintsKept, Zenon DEF HostKept, OwnInv, k
    <3>2. QED  BY <1>2, <3>1, Zenon DEF HostKeeps, netVars
  <2>3. QED  BY <1>9, <2>1, <2>2
<1>13. QED  BY <1>11, <1>12, Zenon

LEMMA GuestStepKept ==
    ASSUME RoomForDone, ChannelInv, OwnInv, GuestOwn, Guest, "quit" \notin Upsets,
           Len(gring) =< printed, HostKept(PassedOn)
    PROVE  Len(gring') =< printed' /\ HostKeeps(PassedOn')
<1> DEFINE k == PassedOn
           k2 == PassedOn'
<1>0. /\ hc \in HostCmdState /\ gring \in Seq(Cmd) /\ printed \in 0 .. MaxPrint
  BY TypeParts, Zenon DEF ChannelInv, HostTypeOK, GuestTypeOK
<1>1. /\ Len(gring) \in Nat /\ k \in 0 .. MaxPrint /\ k \in Nat /\ MaxPrint \in Nat
      /\ k =< k /\ k =< printed /\ printed \in Nat
  BY <1>0, GuestAssumption DEF PassedOn
<1>2. k = printed - Len(gring) /\ k2 = printed' - Len(gring')
  BY Zenon DEF PassedOn
<1> HIDE DEF k, k2
<1>3. gring' = gring /\ printed' = printed => Len(gring') =< printed' /\ k2 = k
  BY <1>2, Zenon
<1>4. gring' = <<>> /\ printed' = printed =>
         Len(gring') =< printed' /\ k2 \in Nat /\ k =< k2
  BY <1>1, <1>2
<1>5. ASSUME UNCHANGED <<gring, printed>>, unchangedHost
      PROVE  Len(gring') =< printed' /\ HostKeeps(k2)
  BY <1>0, <1>1, <1>3, <1>5, HostStutterKept, Zenon DEF k
<1>6. gstate \notin {"RUNNING", "TW_RUNNING", "FLUSHING"} => gring = <<>>
  BY Zenon DEF GuestOwn
<1>7. CASE ModuleInit
  <2>1. /\ hc' = SwiRegister(hc) /\ tmp = <<>> /\ UNCHANGED <<tmp, netVars>>
        /\ gring' = <<>> /\ printed' = printed
    BY <1>7, Zenon DEF ModuleInit, Swi, Emulator
  <2>2. Quiet(hc, hc')
    BY <1>0, <2>1, OtherClient, Zenon
  <2>3. HostKeeps(k2)
    BY <1>0, <1>1, <1>4, <2>1, <2>2, QuietStepKept, Zenon DEF k
  <2>4. QED  BY <1>4, <2>1, <2>3, Zenon DEF k2
<1>8. CASE FlushRing
  BY <1>8, FlushKept, Zenon
<1>9. CASE TickerPoll
  <2>1. /\ hc' = SwiPoll(hc, TRUE) /\ tmp = <<>> /\ UNCHANGED <<tmp, netVars>>
        /\ gring' = gring /\ gstate = "IDLE"
        /\ printed' = IF Deliverable(hc) THEN 0 ELSE printed
    BY <1>9, Zenon DEF TickerPoll, Swi, Emulator
  <2>2. TRUE \in BOOLEAN /\ gstate \notin {"RUNNING", "TW_RUNNING", "FLUSHING"}
    BY <2>1
  <2>3. gring' = <<>> /\ gring = <<>>
    BY <1>6, <2>1, <2>2, Zenon
  <2>4. Quiet(hc, hc')
    BY <1>0, <2>1, <2>2, SwiPollClient, Zenon
  <2>5. Running(hc) => printed' = printed
    BY <2>1, Zenon DEF Running, Deliverable
  <2>6. k2 \in Nat /\ (Running(hc) => k =< k2) /\ Len(gring') =< printed'
    <3>1. printed' \in Nat /\ Len(<<>>) = 0
      BY <1>1, <2>1
    <3>2. Len(gring') = 0 /\ Len(gring) = 0
      BY <2>3
    <3>3. k = printed /\ k2 = printed'
      <4>1. k = printed - 0 /\ k2 = printed' - 0
        BY <1>2, <3>2, Zenon
      <4>2. \A n \in Nat : n - 0 = n
        OBVIOUS
      <4>3. QED  BY <1>1, <3>1, <4>1, <4>2, Zenon
    <3>4. QED  BY <1>1, <2>5, <3>1, <3>2, <3>3
  <2>7. HostKeeps(k2)
    BY <1>0, <1>1, <2>1, <2>4, <2>6, QuietStepKept, Zenon DEF k
  <2>8. QED  BY <2>6, <2>7, Zenon DEF k2
<1>10. ASSUME Owes, Swi(SwiStatusEnd(hc, gcmd)), UNCHANGED <<gring, printed>>
       PROVE  Len(gring') =< printed' /\ HostKeeps(k2)
  <2>1. HostKeeps(k)
    BY <1>1, <1>10, EndKept, Zenon DEF k
  <2>2. QED  BY <1>3, <1>10, <2>1, Zenon
<1>11. CASE TickerEnd
  <2>1. Owes
    BY <1>11 DEF TickerEnd, Owes
  <2>2. QED  BY <1>10, <1>11, <2>1, Zenon DEF TickerEnd, k2
<1>12. CASE PollWord
  <2>1. CASE gstate = "TW_PENDING"
    <3>1. Owes
      BY <2>1 DEF Owes
    <3>2. QED  BY <1>5, <1>10, <1>12, <3>1, Zenon DEF PollWord, AbortCommand, k2
  <2>2. CASE gstate # "TW_PENDING"
    BY <1>5, <1>12, <2>2, Zenon DEF PollWord, k2
  <2>3. QED  BY <2>1, <2>2
<1>13. CASE Wrch \/ TwOutput
  <2>1. unchangedHost /\ printed' = printed + 1
        /\ (gring' = gring \/ gring' = Append(gring, gcmd))
    BY <1>13, Zenon DEF Wrch, TwOutput, PutByte
  <2>2. Len(gring') = Len(gring) \/ Len(gring') = Len(gring) + 1
    BY <1>0, <2>1
  <2>3. k2 \in Nat /\ k =< k2 /\ Len(gring') =< printed'
    BY <1>1, <1>2, <2>1, <2>2
  <2>4. HostKeeps(k2)
    BY <1>0, <1>1, <2>1, <2>3, HostStutterKept, Zenon DEF k
  <2>5. QED  BY <2>3, <2>4, Zenon DEF k2
<1>14. CASE ModuleFinal
  <2>1. unchangedHost /\ gring' = <<>> /\ printed' = printed
    BY <1>14, Zenon DEF ModuleFinal
  <2>2. HostKeeps(k2)
    BY <1>0, <1>1, <1>4, <2>1, HostStutterKept, Zenon DEF k
  <2>3. QED  BY <1>4, <2>1, <2>2, Zenon DEF k2
<1>15. CASE \/ TickerEntry \/ FlushDone \/ TickerDone \/ RunCommand \/ RunReturns
            \/ TwMorio \/ StartWimp \/ TaskStarts \/ TaskStartFails
  <2>1. unchangedHost /\ UNCHANGED <<gring, printed>>
    BY <1>15, Zenon
       DEF TickerEntry, FlushDone, TickerDone, RunCommand, RunReturns, TwMorio,
           Become, StartWimp, TaskStarts, TaskStartFails
  <2>2. QED  BY <1>5, <2>1, Zenon DEF k2
<1>16. QED
  BY <1>7, <1>8, <1>9, <1>11, <1>12, <1>13, <1>14, <1>15, Zenon
     DEF Guest, Ticker, Headless, Desktop

(* The caller inside the emulator leaves the client's answer its room. *)
LEMMA CallerKept ==
    ASSUME ChannelInv, Caller, NEW k \in Nat, HostKept(k)
    PROVE  HostKeeps(k)
<1>k. k =< k
  OBVIOUS
<1>0. /\ hc \in HostCmdState /\ k =< k
      /\ ~(hc.cmd_pending /\ hc.cmd_inflight)
  BY <1>k, Zenon DEF ChannelInv, TypeOK, HostTypeOK, CommandInOnePlace
<1>1. CASE \E c \in InternalCmd : GuestCommandRun(c)
  <2>1. /\ hc' = hc /\ tmp' = tmp /\ peer' = peer /\ wire' = wire
        /\ await' = await
    BY <1>1, Zenon DEF GuestCommandRun
  <2>2. QED  BY <2>1, Zenon DEF HostKept, HostKeeps
<1>2. CASE GuestCommandTimeout
  BY <1>0, <1>2, HostStutterKept, Zenon DEF GuestCommandTimeout, unchangedHost
<1>3. CASE RunRequest
  <2> DEFINE c == Head(queue).token
             res == [token |-> c, ok |-> FALSE, out |-> <<>>, status |-> None]
  <2>1. /\ UNCHANGED <<tmp, netVars>> /\ tmp = <<>>
        /\ \/ hc' = InternalSubmit(hc, c) /\ ~Busy(hc)
           \/ hc' = [hc EXCEPT !.posted = Append(hc.posted, res)]
    BY <1>3, Zenon DEF RunRequest, Emulator, CanSubmit
  <2>2. Quiet(hc, hc')
    BY <1>0, <2>1, OtherClient, Zenon
  <2>3. QED  BY <1>0, <2>1, <2>2, QuietStepKept, Zenon
<1>4. CASE AbandonRequest
  <2>1. hc' = InternalAbandon(hc) /\ UNCHANGED <<tmp, netVars>> /\ tmp = <<>>
    BY <1>4, Zenon DEF AbandonRequest, Abandon, Emulator
  <2>2. QED  BY <1>0, <2>1, InternalAbandonClient, QuietStepKept, Zenon
<1>5. CASE GuestCommandDeliver
  <2>1. hc' = [hc EXCEPT !.posted = Tail(hc.posted)] /\ UNCHANGED <<tmp, netVars>>
    BY <1>5, Zenon DEF GuestCommandDeliver
  <2>2. Busy(hc') => Busy(hc)
    BY <1>0, <2>1, Zenon DEF HostCmdState, Busy
  <2>3. QED  BY <1>0, <2>1, <2>2, OtherClient, QuietStepKept, Zenon
<1>6. QED  BY <1>1, <1>2, <1>3, <1>4, <1>5, Zenon DEF Caller
-----------------------------------------------------------------------------
(* The inductive invariant behind NeverForgotten, over ChannelInv and       *)
(* ReadInv.                                                                 *)
KeptInv ==
    /\ RingInv(hc)
    /\ \A c \in Conn : peer[c] # "half"
    /\ Len(gring) =< printed
    /\ HostKept(PassedOn)

(* The clients keep their connections open for the answer and send one line *)
(* that is short enough at a time, nobody quits the desktop task, the       *)
(* machine is not reset, and the ring has room for an answer.  A client     *)
(* that leaves while the emulator runs a command of its own takes that one  *)
(* from the queue.                                                          *)
Undisturbed ==
    /\ "reset" \notin Upsets /\ "halfclose" \notin Upsets
    /\ "typeahead" \notin Upsets /\ "quit" \notin Upsets
    /\ LongCmd = {} /\ RoomForDone
    /\ "hangup" \notin Upsets \/ InternalCmd = {}

LEMMA InitKept == Init => KeptInv
<1> SUFFICES ASSUME Init PROVE KeptInv
  OBVIOUS
<1>1. \A h \in {InitialState, [InitialState EXCEPT !.listening = FALSE]} :
         h.client = None /\ h.in_overflow = FALSE /\ h.ring = <<>> /\ h.used = 0
  BY DEF InitialState
<1>2. hc.client = None /\ ~hc.in_overflow /\ hc.ring = <<>> /\ hc.used = 0
  BY <1>1, Zenon DEF Init, HostInit
<1>3. RingInv(hc)
  BY <1>2, EmptyRing, Zenon
<1>4. \A c \in Conn : peer[c] = "absent" /\ await[c] = None
  BY Zenon DEF Init, HostInit
<1>5. \A c \in Conn : peer[c] # "half"
  BY <1>4
<1>6. Len(gring) =< printed
  BY DEF Init, GuestInit
<1>7. HostKept(PassedOn)
  BY <1>2, <1>4, Zenon DEF HostKept, Kept
<1>8. QED  BY <1>3, <1>5, <1>6, <1>7, Zenon DEF KeptInv

LEMMA NoneHalf ==
    ASSUME HostTypeOK, "halfclose" \notin Upsets, [Next]_vars,
           \A c \in Conn : peer[c] # "half"
    PROVE  \A c \in Conn : peer'[c] # "half"
<1>1. CASE SystemClients
  <2>1. peer \in [Conn -> PeerStates]
    BY Zenon DEF HostTypeOK
  <2>2. PICK d \in Conn : \/ peer' = peer
                          \/ peer' = [peer EXCEPT ![d] = "open"]
                          \/ peer' = [peer EXCEPT ![d] = "closed"]
    BY <1>1, Zenon DEF SystemClients, Connect, SendLine, TypeAhead, SendBlank, Hangup
  <2>3. \A c \in Conn : peer'[c] = peer[c] \/ peer'[c] = "open" \/ peer'[c] = "closed"
    BY <2>1, <2>2, Zenon
  <2>4. QED  BY <2>3
<1>2. QED  BY <1>1, OnlyClientsMove, Zenon

LEMMA NextKept ==
    ASSUME Undisturbed, ChannelInv, ReadInv, KeptInv, [Next]_vars,
           hc.internal_active => Busy(hc)
    PROVE  KeptInv'
<1>0. /\ HostTypeOK /\ hc \in HostCmdState /\ OwnInv /\ GuestOwn /\ RoomForDone
      /\ LongCmd = {} /\ gring \in Seq(Cmd) /\ printed \in 0 .. MaxPrint
      /\ RingInv(hc) /\ Len(gring) =< printed /\ HostKept(PassedOn)
      /\ \A c \in Conn : peer[c] # "half"
  BY TypeParts, Zenon
     DEF ChannelInv, HostTypeOK, GuestTypeOK, ReadInv, KeptInv, Undisturbed
<1>1. PassedOn \in Nat /\ PassedOn =< PassedOn
  BY <1>0 DEF PassedOn
<1>2. RingInv(hc')
  BY <1>0, NextRing, Zenon
<1>3. \A c \in Conn : peer'[c] # "half"
  BY <1>0, NoneHalf, Zenon DEF Undisturbed
<1>4. ASSUME Len(gring') =< printed', HostKeeps(PassedOn') PROVE KeptInv'
  BY <1>2, <1>3, <1>4, Zenon DEF KeptInv, HostKept, HostKeeps
<1>5. ASSUME UNCHANGED guestVars, HostKeeps(PassedOn) PROVE KeptInv'
  <2>1. gring' = gring /\ printed' = printed
    BY <1>5, Zenon DEF guestVars
  <2>2. PassedOn' = PassedOn /\ Len(gring') =< printed'
    BY <1>0, <2>1, Zenon DEF PassedOn
  <2>3. QED  BY <1>4, <1>5, <2>2, Zenon
<1>6. CASE Service /\ UNCHANGED guestVars
  <2>1. HostKeeps(PassedOn)
    BY <1>0, <1>1, <1>6, ServiceKept, Zenon DEF HostKept, HostKeeps
  <2>2. QED  BY <1>5, <1>6, <2>1
<1>7. CASE SystemClients /\ UNCHANGED guestVars
  <2>1. PICK d \in Conn :
           \/ Connect(d) \/ Hangup(d) \/ HalfClose(d) \/ SendBlank(d)
           \/ \E x \in Cmd : SendLine(d, x)
    BY <1>7, Zenon DEF SystemClients, Undisturbed
  <2>2. HostKeeps(PassedOn)
    BY <1>0, <2>1, ClientsKept, Zenon DEF HostKept, HostKeeps
  <2>3. QED  BY <1>5, <1>7, <2>2
<1>8. CASE Time /\ UNCHANGED guestVars
  <2>1. PICK a, b : hc' = [hc EXCEPT !.queued_age = a, !.seen_age = b]
                    /\ UNCHANGED <<tmp, netVars>>
    BY <1>8, Zenon DEF Time, Tick
  <2>2. Quiet(hc, hc')
    BY <1>0, <2>1, OtherClient, Zenon
  <2>3. Busy(hc') => Busy(hc)
    BY <1>0, <2>1, Zenon DEF HostCmdState, Busy
  <2>4. HostKeeps(PassedOn)
    BY <1>0, <1>1, <2>1, <2>2, <2>3, QuietStepKept, Zenon
  <2>5. QED  BY <1>5, <1>8, <2>4
<1>9. CASE Guest
  BY <1>0, <1>4, <1>9, GuestStepKept, Zenon DEF Undisturbed
<1>10. CASE Caller /\ UNCHANGED guestVars
  BY <1>0, <1>1, <1>5, <1>10, CallerKept, Zenon
<1>11. CASE UNCHANGED vars
  <2>1. unchangedHost /\ UNCHANGED guestVars
    BY <1>11, Zenon DEF vars, unchangedHost
  <2>2. QED  BY <1>0, <1>1, <1>5, <2>1, HostStutterKept, Zenon
<1>12. QED
  BY <1>6, <1>7, <1>8, <1>9, <1>10, <1>11, Zenon DEF Next, Undisturbed

LEMMA KeptNeverForgotten ==
    ASSUME ChannelInv, OwnInv, KeptInv
    PROVE  NeverForgotten
<1> SUFFICES ASSUME NEW c \in Conn, peer[c] # "closed", await[c] # None
             PROVE  \/ LineIsComing(c, await[c])
                    \/ hc.client = c /\ Busy(hc) /\ hc.cmd_line = await[c]
                    \/ hc.client = c /\ DoneIsComing(await[c])
  BY Zenon DEF NeverForgotten
<1>1. HasLine(wire[c]) \/ (hc.client = c /\ Held(hc, tmp))
  BY Zenon DEF KeptInv, HostKept, Kept
<1>2. CASE HasLine(wire[c])
  <2>1. LinesAre(wire[c], await[c])
    BY Zenon DEF OwnInv, WiresOwn
  <2>2. QED  BY <1>2, <2>1, Zenon DEF HasLine, LinesAre, LineIsComing
<1>3. CASE hc.client = c /\ Held(hc, tmp)
  <2>1. c # None
    BY IdentityAssumption
  <2>2. IsFor(hc.in_buf, Mine(hc), hc.cmd_line, hc.ring, tmp, await[c])
    BY <1>3, <2>1, Zenon DEF OwnInv, Own, ClientOwn
  <2>3. CASE HasLine(tmp) \/ hc.in_buf # None
    BY <2>2, <2>3, Zenon DEF IsFor, HasLine, LinesAre, LineIsComing
  <2>4. CASE Mine(hc)
    BY <1>3, <2>2, <2>4, Zenon DEF IsFor, Mine
  <2>5. CASE HasDone(hc.ring)
    <3>1. PICK i \in 1 .. Len(hc.ring) : hc.ring[i].type = "D"
      BY <2>5, Zenon DEF HasDone
    <3>2. FrameIsFor(hc.ring[i], await[c])
      BY <2>2, Zenon DEF IsFor
    <3>3. hc.ring[i].data = <<await[c]>>
      <4>1. hc.ring[i].type # "X" /\ hc.ring[i].type # "O"
        BY <3>1
      <4>2. QED  BY <3>2, <4>1, Zenon DEF FrameIsFor
    <3>4. QED  BY <1>3, <3>1, <3>3, Zenon DEF DoneIsComing
  <2>6. QED  BY <1>3, <2>3, <2>4, <2>5, Zenon DEF Held
<1>4. QED  BY <1>1, <1>2, <1>3

(* A client that waits is never forgotten: from the moment it has sent its  *)
(* line until it has read the done frame, the line or the answer is in one  *)
(* of the places where hostcmd.c keeps it, and hc_push_frame never has to   *)
(* drop the done frame for lack of room.                                    *)
THEOREM NobodyIsForgotten == Undisturbed => (Spec => []NeverForgotten)
<1>1. OneAtATime \/ ~Undisturbed
  BY Zenon DEF Undisturbed, OneAtATime
<1>2. ChannelInv /\ ReadInv /\ KeptInv => NeverForgotten
  BY KeptNeverForgotten, Zenon DEF ReadInv
<1>3. ASSUME Undisturbed, InternalCmd = {} PROVE Spec => []NeverForgotten
  <2>1. ChannelInv /\ ReadInv /\ [Next]_vars => ReadInv'
    BY <1>1, <1>3, NextRead
  <2>2. ChannelInv /\ ReadInv /\ KeptInv /\ [Next]_vars => KeptInv'
    BY <1>3, NextKept, Zenon DEF ReadInv, NoInternal
  <2>3. QED
    BY <1>2, <2>1, <2>2, InitChannel, NextChannel, InitRead, InitKept, PTL DEF Spec
<1>4. ASSUME Undisturbed, InternalCmd # {} PROVE Spec => []NeverForgotten
  <2>1. ChannelInv /\ ReadInv /\ [Next]_vars => ReadInv'
    BY <1>1, <1>4, NextRead
  <2>2. ClientsStay
    <3>1. "hangup" \notin Upsets /\ "halfclose" \notin Upsets
      BY <1>4, Zenon DEF Undisturbed
    <3>2. QED  BY <3>1 DEF ClientsStay
  <2>3. ChannelInv /\ StatusInv /\ [Next]_vars => StatusInv'
    BY <2>2, NextStatus
  <2>4. ChannelInv /\ ReadInv /\ StatusInv /\ KeptInv /\ [Next]_vars => KeptInv'
    BY <1>4, NextKept, Zenon DEF StatusInv
  <2>5. QED
    BY <1>2, <2>1, <2>3, <2>4, InitChannel, NextChannel, InitRead, InitStatus,
       InitKept, PTL DEF Spec
<1>5. QED  BY <1>3, <1>4
-----------------------------------------------------------------------------
(* What a client is told when its command ends *)

DoneIn(ring, c) ==
    \E i \in 1 .. Len(ring) : ring[i].type = "D" /\ ring[i].data = <<c>>

(* The client's command is with the guest and the ring has room for the     *)
(* notice and the done frame of a reset.                                    *)
Answerable(h) ==
    /\ h.client # None /\ h.cmd_inflight /\ ~h.internal_active
    /\ Free(h) >= Notice.left + Done(h.cmd_line).left

(* A done frame that fits is in the ring. *)
LEMMA PushedDone ==
    ASSUME NEW h \in HostCmdState, NEW c \in Cmd \union {None},
           h.client # None, Free(h) >= Done(c).left
    PROVE  DoneIn(PushFrame(h, Done(c)).ring, c)
<1>1. h.ring \in Seq(Frame) /\ h.used \in Int
  BY Zenon DEF HostCmdState
<1>2. Free(h) \in Int /\ Done(c).left \in Int
  BY <1>1, SizeAssumption DEF Free, Done
<1>3. ~(Free(h) < Done(c).left)
  BY <1>2
<1>4. PushFrame(h, Done(c)).ring = Append(h.ring, Done(c))
  BY <1>3, Zenon DEF PushFrame, HostCmdState
<1>5. /\ Len(Append(h.ring, Done(c))) = Len(h.ring) + 1
      /\ Len(h.ring) + 1 \in 1 .. Len(h.ring) + 1
      /\ Append(h.ring, Done(c))[Len(h.ring) + 1] = Done(c)
  BY <1>1
<1>6. Done(c).type = "D" /\ Done(c).data = <<c>>
  BY DEF Done
<1>7. QED  BY <1>4, <1>5, <1>6, Zenon DEF DoneIn

LEMMA EndTells ==
    ASSUME NEW h \in HostCmdState, Answerable(h)
    PROVE  DoneIn(SwiStatusEnd(h, h.cmd_line).ring, h.cmd_line)
<1> DEFINE p == PushFrame(h, Done(h.cmd_line))
<1>1. h.cmd_line \in Cmd \union {None} /\ h.used \in Int
  BY Zenon DEF HostCmdState
<1>2. Free(h) >= Done(h.cmd_line).left
  BY <1>1, SizeAssumption DEF Answerable, Free, Done, Notice
<1>3. p \in HostCmdState /\ DoneIn(p.ring, h.cmd_line)
  BY <1>1, <1>2, FrameTypes, PushFrameType, PushedDone, Zenon DEF Answerable
<1> HIDE DEF p
<1>4. [p EXCEPT !.cmd_inflight = FALSE].ring = p.ring
  BY <1>3, Zenon DEF HostCmdState
<1>5. QED  BY <1>3, <1>4, Zenon DEF SwiStatusEnd, Answerable, p

LEMMA ResetTells ==
    ASSUME NEW h \in HostCmdState, h.initialised, Answerable(h)
    PROVE  DoneIn(ResetState(h).ring, h.cmd_line)
<1> DEFINE n == PushFrame(h, Notice)
           p == PushFrame(n, Done(h.cmd_line))
           idle == [p EXCEPT !.cmd_pending = FALSE, !.cmd_inflight = FALSE,
                             !.cmd_line = None, !.orphaned = 0,
                             !.registered = FALSE]
<1>1. h.cmd_line \in Cmd \union {None} /\ h.used \in Int
  BY Zenon DEF HostCmdState
<1>2. n \in HostCmdState /\ p \in HostCmdState /\ n.client # None
  BY <1>1, FrameTypes, PushFrameType, PushFrameCommand, Zenon DEF Answerable
<1>3. ~(Free(h) < Notice.left)
  BY <1>1, SizeAssumption DEF Answerable, Free, Done, Notice
<1>4. n.used = h.used + Notice.left
  BY <1>3, Zenon DEF PushFrame, HostCmdState, Answerable
<1> HIDE DEF n
<1>5. Free(n) >= Done(h.cmd_line).left
  BY <1>1, <1>4, SizeAssumption DEF Answerable, Free, Done, Notice
<1>6. DoneIn(p.ring, h.cmd_line)
  BY <1>1, <1>2, <1>5, PushedDone, Zenon
<1> HIDE DEF p
<1>7. idle.ring = p.ring
  BY <1>2, Zenon DEF HostCmdState
<1> HIDE DEF idle
<1>8. ResetState(h) = idle
  BY Zenon DEF ResetState, Answerable, idle, p, n
<1>9. QED  BY <1>6, <1>7, <1>8, Zenon

(* The service of the socket does not end a command that the guest has: it  *)
(* only lets go of a client that has gone.                                  *)
LEMMA ServiceHolds ==
    ASSUME HostTypeOK, Service, hc.client # None, hc'.client = hc.client,
           hc.cmd_inflight
    PROVE  hc'.cmd_inflight
<1>1. hc \in HostCmdState /\ Expire(hc) = hc
  BY ExpireCommand, Zenon DEF HostTypeOK, GivenUp
<1>2. ~(PollHup \/ PollWriteFails)
  BY <1>1, DropClientCommand, Zenon DEF PollHup, PollWriteFails, Emulator
<1>3. ~(PollAccept \/ PollRead)
  BY <1>1, Zenon DEF PollAccept, PollRead, Busy
<1>4. CASE ReadLoop
  BY <1>1, <1>4, ReadItemCommand, Zenon DEF ReadLoop, SameCommand, Busy
<1>5. CASE \E n \in 1 .. RingSize : PollWrite(n)
  <2>1. PICK n : hc' = SendBytes(hc, n)
    BY <1>1, <1>5, Zenon DEF PollWrite, Emulator
  <2>2. QED  BY <1>1, <2>1, OtherCommand, Zenon DEF SameCommand
<1>6. CASE PollQuiet
  BY <1>6, Zenon DEF PollQuiet, GivenUp
<1>7. QED  BY <1>2, <1>3, <1>4, <1>5, <1>6, Zenon DEF Service

(* The module ends a command only with a STATUS END. *)
LEMMA GuestHolds ==
    ASSUME HostTypeOK, Guest, hc.cmd_inflight
    PROVE  hc'.cmd_inflight \/ (Owes /\ hc' = SwiStatusEnd(hc, gcmd))
<1>1. hc \in HostCmdState
  BY Zenon DEF HostTypeOK
<1>h. ASSUME hc'.cmd_inflight = hc.cmd_inflight PROVE hc'.cmd_inflight
  BY <1>h, Zenon
<1>2. CASE ModuleInit
  <2>1. SameCommand(hc', hc)
    BY <1>1, <1>2, OtherCommand, Zenon DEF ModuleInit, Swi, Emulator
  <2>2. QED  BY <1>h, <2>1, Zenon DEF SameCommand
<1>3. CASE FlushRing
  <2>1. SameCommand(hc', hc)
    BY <1>1, <1>3, OtherCommand, Zenon DEF FlushRing, Swi, Emulator
  <2>2. QED  BY <1>h, <2>1, Zenon DEF SameCommand
<1>4. CASE TickerPoll
  <2>1. hc' = SwiPoll(hc, TRUE) /\ TRUE \in BOOLEAN
    BY <1>4, Zenon DEF TickerPoll, Swi, Emulator
  <2>2. SameCommand(hc', hc)
    BY <1>1, <2>1, SwiPollCommand, Zenon DEF Deliverable
  <2>3. QED  BY <1>h, <2>2, Zenon DEF SameCommand
<1>5. CASE TickerEnd
  <2>1. Owes
    BY <1>5 DEF TickerEnd, Owes
  <2>2. QED  BY <1>5, <2>1, Zenon DEF TickerEnd, Swi, Emulator
<1>6. CASE PollWord \/ TwQuit
  <2>1. \/ AbortCommand /\ gstate \in {"TW_PENDING", "TW_RUNNING"}
        \/ hc' = hc
    BY <1>6, Zenon DEF PollWord, TwQuit, unchangedHost, hostVars
  <2>2. gstate \in {"TW_PENDING", "TW_RUNNING"} => Owes
    BY DEF Owes
  <2>3. QED  BY <1>h, <2>1, <2>2, Zenon DEF AbortCommand, Swi, Emulator
<1>7. CASE \/ TickerEntry \/ FlushDone \/ TickerDone \/ Headless \/ StartWimp
           \/ TaskStarts \/ TaskStartFails \/ TwOutput \/ TwMorio \/ ModuleFinal
  <2>1. hc' = hc
    BY <1>7, Zenon
       DEF TickerEntry, FlushDone, TickerDone, Headless, RunCommand, Wrch,
           RunReturns, StartWimp, TaskStarts, TaskStartFails, TwOutput, TwMorio,
           ModuleFinal, PutByte, Become, unchangedHost, hostVars
  <2>2. QED  BY <1>h, <2>1, Zenon
<1>8. QED
  BY <1>2, <1>3, <1>4, <1>5, <1>6, <1>7, Zenon DEF Guest, Ticker, Desktop

(* The caller inside the emulator lets go only of a command of its own. *)
LEMMA CallerHolds ==
    ASSUME HostTypeOK, Caller, hc.cmd_inflight, ~hc.internal_active
    PROVE  hc'.cmd_inflight
<1>1. hc \in HostCmdState
  BY Zenon DEF HostTypeOK
<1>2. CASE (\E c \in InternalCmd : GuestCommandRun(c)) \/ GuestCommandTimeout
  BY <1>2, Zenon DEF GuestCommandRun, GuestCommandTimeout, hostVars
<1>3. CASE RunRequest
  <2>1. ~CanSubmit(hc, Head(queue).token)
    BY Zenon DEF CanSubmit, Busy
  <2>2. QED  BY <1>1, <1>3, <2>1, Zenon DEF RunRequest, Emulator, HostCmdState
<1>4. CASE AbandonRequest
  BY <1>1, <1>4, InternalAbandonCommand, Zenon DEF AbandonRequest, Abandon, Emulator
<1>5. CASE GuestCommandDeliver
  BY <1>1, <1>5, Zenon DEF GuestCommandDeliver, HostCmdState
<1>6. QED  BY <1>2, <1>3, <1>4, <1>5, Zenon DEF Caller

(* A client whose command the guest collected is sent its done frame when   *)
(* the command ends, whatever ends it: the guest's END, the desktop task    *)
(* quitting under it or a reset of the machine.  A ring without room for a  *)
(* notice and a done frame is the exception.                                *)
THEOREM EndedCommandsAreTold == Spec => EndedIsTold
<1> DEFINE Step ==
       hc.client # None /\ hc'.client = hc.client
         /\ hc.cmd_inflight /\ ~hc'.cmd_inflight /\ ~hc.internal_active
         /\ Free(hc) >= Notice.left + Done(hc.cmd_line).left
       => \E i \in 1 .. Len(hc'.ring) :
              hc'.ring[i].type = "D" /\ hc'.ring[i].data = <<hc.cmd_line>>
<1>1. ChannelInv /\ [Next]_vars => Step
  <2> SUFFICES ASSUME ChannelInv, [Next]_vars, Answerable(hc),
                      hc'.client = hc.client, ~hc'.cmd_inflight
               PROVE  DoneIn(hc'.ring, hc.cmd_line)
    BY Zenon DEF Answerable, DoneIn
  <2> HIDE DEF Step
  <2>0. /\ HostTypeOK /\ hc \in HostCmdState /\ hc.initialised
        /\ gcmd = hc.cmd_line
    BY TypeParts, Zenon
       DEF ChannelInv, HostTypeOK, LinesKnown, InflightIsRunning, Answerable
  <2>1. ~Service
    BY <2>0, ServiceHolds, Zenon DEF Answerable
  <2>2. ~SystemClients
    <3>1. SystemClients => hc' = hc
      BY Zenon DEF SystemClients, Connect, SendLine, TypeAhead, SendBlank, Hangup,
                   HalfClose
    <3>2. QED  BY <3>1, Zenon DEF Answerable
  <2>3. ~Time
    <3>1. Tick => SameCommand(hc', hc)
      BY <2>0, Zenon DEF Tick, HostCmdState, SameCommand
    <3>2. QED  BY <3>1, Zenon DEF Time, SameCommand, Answerable
  <2>4. CASE Guest
    <3>1. hc' = SwiStatusEnd(hc, hc.cmd_line)
      BY <2>0, <2>4, GuestHolds, Zenon DEF Answerable
    <3>2. QED  BY <2>0, <3>1, EndTells, Zenon
  <2>5. CASE MachineReset
    BY <2>0, <2>5, ResetTells, Zenon DEF MachineReset, HostReset, Emulator
  <2>6. ~Caller
    BY <2>0, CallerHolds, Zenon DEF Answerable
  <2>7. ~UNCHANGED vars
    BY Zenon DEF vars, hostVars, Answerable
  <2>8. QED
    BY <2>1, <2>2, <2>3, <2>4, <2>5, <2>6, <2>7, Zenon DEF Next
<1>2. QED
  BY InitChannel, NextChannel, <1>1, PTL DEF Spec, EndedIsTold
=============================================================================
