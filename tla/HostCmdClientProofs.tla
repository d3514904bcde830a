------------------------ MODULE HostCmdClientProofs ------------------------
(***************************************************************************)
(* What a client of the HostCmd channel reads is for the command it waits   *)
(* for: of every line, frame and byte between a client and the guest, whose *)
(* it is. The last part begins the argument of HostCmdAnswerProofs: where   *)
(* a client's command and its answer are kept.                              *)
(***************************************************************************)
EXTENDS HostCmdProofs

(* What the connected client is sent and what it has sent are its own.      *)
Own(h, t, w, a, p) ==
    /\ h.client = None => t = <<>> /\ ~Mine(h)
    /\ h.client # None /\ p[h.client] # "closed" =>
          ClientOwn(h.in_buf, Mine(h), h.cmd_line, h.ring, t, w[h.client],
                    a[h.client])

PushedRing(g, h, f) == g.ring = h.ring \/ g.ring = Append(h.ring, f)

LEMMA QuietOwn ==
    ASSUME NEW h, NEW g, NEW t, NEW w, NEW a, NEW p, Own(h, t, w, a, p),
           Quiet(h, g) \/ Silenced(h, g)
    PROVE  Own(g, t, w, a, p)
<1>1. /\ g.client = h.client /\ g.in_buf = h.in_buf /\ g.ring = h.ring
      /\ Mine(g) => Mine(h) /\ g.cmd_line = h.cmd_line
  BY Zenon DEF Quiet, Silenced, SameInput, SameRing
<1>2. CASE h.client # None /\ p[h.client] # "closed"
  <2>1. ClientOwn(h.in_buf, Mine(h), h.cmd_line, h.ring, t, w[h.client],
                  a[h.client])
    BY <1>2, Zenon DEF Own
  <2>2. ClientOwn(h.in_buf, Mine(g), g.cmd_line, h.ring, t, w[h.client],
                  a[h.client])
    BY <1>1, <2>1, Zenon DEF ClientOwn, Placed, IsFor
  <2>3. QED  BY <1>1, <1>2, <2>2, Zenon DEF Own
<1>3. QED  BY <1>1, <1>2, Zenon DEF Own

LEMMA FrameKinds ==
    /\ Notice.type = "X"
    /\ \A c : Done(c).type = "D" /\ Done(c).data = <<c>>
    /\ \A d : Output(d).type = "O" /\ Output(d).data = d
BY Zenon DEF Notice, Done, Output

LEMMA PrintsOwn ==
    ASSUME NEW h \in HostCmdState, NEW g, NEW t, NEW w, NEW a, NEW p,
           Own(h, t, w, a, p), Mine(h) => h.cmd_line \in Cmd, NEW n,
           Prints(h, g, n)
    PROVE  Own(g, t, w, a, p)
<1>1. PICK data \in Seq(Cmd) : /\ \A i \in 1 .. Len(data) : data[i] = h.cmd_line
                               /\ Pushed(g, h, Output(data))
  BY Zenon DEF Prints
<1>2. /\ g.client = h.client /\ g.in_buf = h.in_buf /\ g.cmd_line = h.cmd_line
      /\ Mine(g) /\ Mine(h) /\ h.cmd_line \in Cmd
      /\ PushedRing(g, h, Output(data))
  BY <1>1, Zenon DEF Prints, SameInput, Pushed, PushedRing
<1>3. CASE h.client # None /\ p[h.client] # "closed"
  <2>1. ClientOwn(h.in_buf, TRUE, h.cmd_line, h.ring, t, w[h.client], a[h.client])
    BY <1>2, <1>3, Zenon DEF Own, ClientOwn, Placed, IsFor
  <2>2. h.ring \in Seq(Frame) /\ Output(data) \in Frame
    BY FrameTypes, Zenon DEF HostCmdState
  <2>3. /\ Output(data).type = "O"
        /\ \A i \in 1 .. Len(Output(data).data) : Output(data).data[i] = h.cmd_line
    BY <1>1, FrameKinds, Zenon
  <2>4. ClientOwn(h.in_buf, TRUE, h.cmd_line, Append(h.ring, Output(data)), t,
                  w[h.client], a[h.client])
    BY <1>2, <2>1, <2>2, <2>3, OutputOwn, Zenon
  <2>5. ClientOwn(h.in_buf, TRUE, h.cmd_line, g.ring, t, w[h.client], a[h.client])
    BY <1>2, <2>1, <2>4, Zenon DEF PushedRing
  <2>6. ClientOwn(h.in_buf, Mine(g), h.cmd_line, g.ring, t, w[h.client],
                  a[h.client])
    BY <1>2, <2>5, Zenon DEF ClientOwn, Placed, IsFor
  <2>7. QED  BY <1>2, <1>3, <2>6, Zenon DEF Own
<1>4. QED  BY <1>2, <1>3, Zenon DEF Own

(* The done frame, behind the ring r: it is pushed, or does not fit. *)
LEMMA AnswerOwn ==
    ASSUME NEW h \in HostCmdState, NEW g, NEW r \in Seq(Frame), NEW t, NEW w, NEW x,
           h.cmd_line \in Cmd, ~Mine(g),
           ClientOwn(h.in_buf, TRUE, h.cmd_line, r, t, w, x),
           g.ring = r \/ g.ring = Append(r, Done(h.cmd_line))
    PROVE  ClientOwn(h.in_buf, Mine(g), g.cmd_line, g.ring, t, w, x)
<1>1. ClientOwn(h.in_buf, Mine(g), g.cmd_line, r, t, w, x)
  BY KeepOwn, Zenon
<1>2. Done(h.cmd_line) \in Frame /\ Done(h.cmd_line).type = "D"
      /\ Done(h.cmd_line).data = <<h.cmd_line>>
  BY FrameTypes, FrameKinds, Zenon
<1>3. ClientOwn(h.in_buf, FALSE, g.cmd_line, Append(r, Done(h.cmd_line)), t, w, x)
  BY <1>2, DoneOwn, Zenon
<1>4. ClientOwn(h.in_buf, Mine(g), g.cmd_line, Append(r, Done(h.cmd_line)), t, w, x)
  BY <1>3, KeepOwn, Zenon
<1>5. QED  BY <1>1, <1>4, Zenon

LEMMA EndsOwn ==
    ASSUME NEW h \in HostCmdState, NEW g, NEW t, NEW w, NEW a, NEW p,
           Own(h, t, w, a, p), Mine(h) => h.cmd_line \in Cmd,
           Answers(h, g) \/ GivesUp(h, g)
    PROVE  Own(g, t, w, a, p)
<1>1. /\ g.client = h.client /\ g.in_buf = h.in_buf
      /\ ~Mine(g) /\ Mine(h) /\ h.cmd_line \in Cmd
  BY Zenon DEF Answers, GivesUp, SameInput, Pushed
<1>2. CASE h.client # None /\ p[h.client] # "closed"
  <2> DEFINE wc == w[h.client]
             x == a[h.client]
             Good(r) == ClientOwn(h.in_buf, TRUE, h.cmd_line, r, t, wc, x)
  <2>1. Good(h.ring)
    BY <1>1, <1>2, Zenon DEF Own, ClientOwn, Placed, IsFor
  <2>2. h.ring \in Seq(Frame) /\ Notice \in Frame /\ Notice.type = "X"
    BY FrameTypes, FrameKinds, Zenon DEF HostCmdState
  <2>3. Append(h.ring, Notice) \in Seq(Frame)
    BY <2>2
  <2>4. Good(Append(h.ring, Notice))
    BY <2>1, <2>2, NoticeOwn, Zenon
  <2>5. PICK r \in {h.ring, Append(h.ring, Notice)} :
           g.ring = r \/ g.ring = Append(r, Done(h.cmd_line))
    BY Zenon DEF Answers, GivesUp, Pushed
  <2>6. Good(r) /\ r \in Seq(Frame)
    BY <2>1, <2>2, <2>3, <2>4, <2>5, Zenon
  <2>7. ClientOwn(h.in_buf, Mine(g), g.cmd_line, g.ring, t, wc, x)
    BY <1>1, <2>5, <2>6, AnswerOwn, Zenon
  <2>8. QED  BY <1>1, <1>2, <2>7, Zenon DEF Own
<1>3. QED  BY <1>1, <1>2, Zenon DEF Own

LEMMA ExpireOwn ==
    ASSUME NEW h \in HostCmdState, NEW t, NEW w, NEW a, NEW p, Own(h, t, w, a, p),
           Mine(h) => h.cmd_line \in Cmd
    PROVE  Own(Expire(h), t, w, a, p)
BY ExpireClient, QuietOwn, EndsOwn, Zenon

LEMMA DropOwn ==
    ASSUME NEW h \in HostCmdState, NEW w, NEW a, NEW p
    PROVE  Own(DropClient(h), <<>>, w, a, p)
<1> DEFINE g == DropClient(h)
<1>1. g.client = None /\ ~g.cmd_pending
      /\ (g.cmd_inflight => h.internal_active)
  BY DropClientCommand, Zenon
<1>2. g.internal_active = h.internal_active
  BY OtherInternal, Zenon DEF SameInternal
<1> HIDE DEF g
<1>3. ~Mine(g)
  BY <1>1, <1>2, Zenon DEF Mine, Busy
<1>4. Own(g, <<>>, w, a, p)
  BY <1>1, <1>3, Zenon DEF Own
<1>5. QED  BY <1>4, Zenon DEF g

LEMMA AcceptFields ==
    ASSUME NEW h \in HostCmdState, NEW c \in Conn
    PROVE  /\ AcceptClient(h, c).client = c
           /\ AcceptClient(h, c).in_buf = None /\ ~AcceptClient(h, c).in_overflow
           /\ \/ AcceptClient(h, c).ring = <<>> /\ AcceptClient(h, c).used = 0
              \/ /\ AcceptClient(h, c).ring = <<Notice>>
                 /\ AcceptClient(h, c).used = Notice.left
           /\ Mine(AcceptClient(h, c)) <=> Mine(h)
<1> DEFINE g == [h EXCEPT !.client = c, !.in_buf = None, !.in_overflow = FALSE,
                          !.ring = <<>>, !.used = 0]
           r == AcceptClient(h, c)
<1>1. g.client = c /\ g.in_buf = None /\ g.in_overflow = FALSE /\ g.ring = <<>>
      /\ g.used = 0
  BY ZenonT(40) DEF HostCmdState
<1>2. g \in HostCmdState
  <2>1. <<>> \in Seq(Frame) /\ 0 \in Int
    OBVIOUS
  <2>2. QED  BY <2>1, ZenonT(40) DEF HostCmdState
<1> HIDE DEF g
<1>3. r = PushFrame(g, Notice)
  BY Zenon DEF AcceptClient, g
<1>4. Pushed(r, g, Notice) /\ SameInput(r, g)
  BY <1>2, <1>3, PushFramePushed, Zenon
<1>5. SameCommand(r, h) /\ r.internal_active = h.internal_active
  BY AcceptClientCommand, OtherInternal, Zenon DEF SameInternal
<1> HIDE DEF r
<1>6. (Mine(r) <=> Mine(h)) /\ r.client = c /\ r.in_buf = None /\ ~r.in_overflow
  BY <1>1, <1>4, <1>5, Zenon DEF Mine, Busy, SameCommand, SameInput, Pushed
<1>7. Append(<<>>, Notice) = <<Notice>> /\ 0 + Notice.left = Notice.left
  BY SizeAssumption DEF Notice
<1>8. \/ r.ring = <<>> /\ r.used = 0
      \/ r.ring = <<Notice>> /\ r.used = Notice.left
  BY <1>1, <1>4, <1>7, Zenon DEF Pushed
<1>9. QED  BY <1>6, <1>8, Zenon DEF r

LEMMA NoLines ==
    /\ ~HasLine(<<>>) /\ OneLine(<<>>) /\ ~HasDone(<<>>) /\ DoneIsLast(<<>>)
    /\ \A x : LinesAre(<<>>, x)
    /\ ~HasDone(<<Notice>>) /\ DoneIsLast(<<Notice>>)
    /\ \A x : \A i \in 1 .. Len(<<Notice>>) : FrameIsFor(<<Notice>>[i], x)
<1>1. \A i \in 1 .. Len(<<>>) : FALSE
  OBVIOUS
<1>2. \A i \in 1 .. Len(<<Notice>>) : i = 1 /\ <<Notice>>[i] = Notice
  OBVIOUS
<1>3. \A i, j \in 1 .. Len(<<Notice>>) : ~(i < j)
  OBVIOUS
<1>4. Notice.type = "X" /\ Notice.type # "D"
  BY DEF Notice
<1>5. ~HasLine(<<>>) /\ OneLine(<<>>) /\ ~HasDone(<<>>) /\ DoneIsLast(<<>>)
      /\ \A x : LinesAre(<<>>, x)
  BY <1>1, Zenon DEF HasLine, OneLine, HasDone, DoneIsLast, LinesAre
<1>6. ~HasDone(<<Notice>>) /\ DoneIsLast(<<Notice>>)
  BY <1>2, <1>3, <1>4, Zenon DEF HasDone, DoneIsLast
<1>7. \A x : \A i \in 1 .. Len(<<Notice>>) : FrameIsFor(<<Notice>>[i], x)
  BY <1>2, <1>4, Zenon DEF FrameIsFor
<1>8. QED  BY <1>5, <1>6, <1>7, Zenon

LEMMA AcceptOwn ==
    ASSUME NEW h \in HostCmdState, NEW c \in Conn, NEW w, NEW a, NEW p, ~Mine(h)
    PROVE  Own(AcceptClient(h, c), <<>>, w, a, p)
<1> DEFINE g == AcceptClient(h, c)
<1>1. g.client = c /\ g.in_buf = None /\ ~Mine(g)
      /\ g.ring \in {<<>>, <<Notice>>}
  BY AcceptFields, Zenon
<1>2. c # None
  BY IdentityAssumption
<1> HIDE DEF g
<1>3. \A i \in 1 .. Len(<<>>) : FALSE
  OBVIOUS
<1>4. ~HasDone(g.ring) /\ DoneIsLast(g.ring)
      /\ \A x : \A i \in 1 .. Len(g.ring) : FrameIsFor(g.ring[i], x)
  BY <1>1, <1>3, NoLines, Zenon
<1>5. Placed(None, FALSE, g.ring, <<>>, w[c])
      /\ IsFor(None, FALSE, g.cmd_line, g.ring, <<>>, a[c])
  BY <1>4, NoLines, Zenon DEF Placed, IsFor
<1>6. ClientOwn(g.in_buf, Mine(g), g.cmd_line, g.ring, <<>>, w[c], a[c])
  BY <1>1, <1>5, Zenon DEF ClientOwn, Placed, IsFor
<1>7. Own(g, <<>>, w, a, p)
  BY <1>1, <1>2, <1>6, Zenon DEF Own
<1>8. QED  BY <1>7, Zenon DEF g

(* send() takes bytes of the oldest frame. *)
LEMMA SendFields ==
    ASSUME NEW h \in HostCmdState, h.ring # <<>>, NEW n
    PROVE  /\ SameLine(SendBytes(h, n), h) /\ SameInput(SendBytes(h, n), h)
           /\ SendBytes(h, n).cmd_line = h.cmd_line
           /\ SendBytes(h, n).used = h.used - n
           /\ SendBytes(h, n).ring =
                 IF n = Head(h.ring).left THEN Tail(h.ring)
                 ELSE <<[Head(h.ring) EXCEPT !.left = @ - n]>> \o Tail(h.ring)
<1> DEFINE g == SendBytes(h, n)
<1>1. /\ SameInput(g, h) /\ g.client = h.client /\ g.used = h.used - n
      /\ g.ring = IF n = Head(h.ring).left THEN Tail(h.ring)
                  ELSE <<[Head(h.ring) EXCEPT !.left = @ - n]>> \o Tail(h.ring)
  BY ZenonT(40) DEF SendBytes, HostCmdState, SameInput
<1>2. SameCommand(g, h) /\ g.internal_active = h.internal_active
  BY OtherCommand, OtherInternal, Zenon DEF SameInternal
<1> HIDE DEF g
<1>3. SameLine(g, h) /\ g.cmd_line = h.cmd_line
  BY <1>1, <1>2, Zenon DEF SameLine, SameCommand, Mine, Busy, Running
<1>4. QED  BY <1>1, <1>3, Zenon DEF g

LEMMA SendBytesOwn ==
    ASSUME NEW h \in HostCmdState, h.ring # <<>>, h.client # None,
           NEW n \in 1 .. Head(h.ring).left,
           NEW t \in Text, NEW w, NEW a \in [Conn -> Cmd \union {None}], NEW p,
           Own(h, t, w, a, p), NEW b,
           b = IF n # Head(h.ring).left \/ p[h.client] = "closed"
                  \/ Head(h.ring).type # "D"
               THEN a ELSE [a EXCEPT ![h.client] = None]
    PROVE  Own(SendBytes(h, n), t, w, b, p)
<1> DEFINE g == SendBytes(h, n)
           c == h.client
           f == Head(h.ring)
           part == [f EXCEPT !.left = @ - n]
<1>1. c \in Conn /\ h.ring \in Seq(Frame) /\ a[c] \in Cmd \union {None}
  BY Zenon DEF HostCmdState
<1>2. f \in Frame
  BY <1>1
<1>3. /\ SameLine(g, h) /\ SameInput(g, h) /\ g.cmd_line = h.cmd_line
      /\ g.ring = IF n = f.left THEN Tail(h.ring) ELSE <<part>> \o Tail(h.ring)
  BY SendFields, Zenon
<1>4. n # f.left => part \in Frame
  <2>1. f.left \in Nat /\ f.left - n \in Nat
    BY <1>2 DEF Frame
  <2>2. QED  BY <1>2, <2>1, ZenonT(40) DEF Frame
<1>5. part.type = f.type /\ part.data = f.data
  BY <1>2, Zenon DEF Frame
<1> HIDE DEF g, part
<1>6. CASE p[c] # "closed"
  <2> DEFINE Good(r, x) ==
                ClientOwn(h.in_buf, Mine(h), h.cmd_line, r, t, w[c], x)
  <2>1. Good(h.ring, a[c])
    BY <1>6, Zenon DEF Own
  <2>2. Good(Tail(h.ring), a[c])
        /\ (f.type = "D" => Good(Tail(h.ring), None))
    BY <1>1, <2>1, SentOwn, Zenon
  <2>3. n # f.left => Good(<<part>> \o Tail(h.ring), a[c])
    BY <1>1, <1>4, <1>5, <2>1, PartOwn, Zenon
  <2>4. b[c] = IF n = f.left /\ f.type = "D" THEN None ELSE a[c]
    BY <1>1, <1>6, Zenon
  <2>5. Good(g.ring, b[c])
    BY <1>3, <2>2, <2>3, <2>4, Zenon
  <2>6. ClientOwn(g.in_buf, Mine(g), g.cmd_line, g.ring, t, w[c], b[c])
    <3>1. g.in_buf = h.in_buf /\ (Mine(g) <=> Mine(h)) /\ g.cmd_line = h.cmd_line
      BY <1>3, Zenon DEF SameLine, SameInput
    <3>2. QED  BY <2>5, <3>1, Zenon DEF ClientOwn, Placed, IsFor
  <2>7. g.client = c
    BY <1>3, Zenon DEF SameLine
  <2>8. Own(g, t, w, b, p)
    BY <2>6, <2>7, Zenon DEF Own
  <2>9. QED  BY <2>8, Zenon DEF g
<1>7. CASE p[c] = "closed"
  <2>1. g.client = c
    BY <1>3, Zenon DEF SameLine
  <2>2. Own(g, t, w, b, p)
    BY <1>7, <2>1, Zenon DEF Own
  <2>3. QED  BY <2>2, Zenon DEF g
<1>8. QED  BY <1>6, <1>7

(* The read loop. *)
LEMMA ReadItemOwn ==
    ASSUME NEW h \in HostCmdState, NEW t \in Text, t # <<>>, NEW w, NEW a, NEW p,
           Own(h, t, w, a, p)
    PROVE  Own(ReadItem(h, Head(t)), Tail(t), w, a, p)
<1> DEFINE b == Head(t)
           g == ReadItem(h, b)
           c == h.client
<1>1. c # None /\ b \in Cmd \union {NL}
  <2>1. c # None
    BY Zenon DEF Own
  <2>2. QED  BY <2>1 DEF Text
<1>2. Skips(h, b, g) \/ Holds(h, b, g) \/ Queues(h, b, g)
  BY ReadItemClient, Zenon
<1>3. h.ring \in Seq(Frame) /\ Notice \in Frame /\ Notice.type = "X"
  BY FrameTypes, FrameKinds, Zenon DEF HostCmdState
<1>4. g.client = c
  BY <1>2, Zenon DEF Skips, Holds, Queues, SameLine, SameRing
<1> HIDE DEF g
<1>5. CASE p[c] # "closed"
  <2> DEFINE Good(buf, r, s) ==
                ClientOwn(buf, Mine(h), h.cmd_line, r, s, w[c], a[c])
  <2>1. Good(h.in_buf, h.ring, t)
    BY <1>1, <1>5, Zenon DEF Own
  <2>2. CASE Skips(h, b, g)
    <3>1. Good(g.in_buf, h.ring, Tail(t))
      <4>1. g.in_buf = h.in_buf \/ g.in_buf = None
        BY <2>2, Zenon DEF Skips
      <4>2. QED  BY <2>1, <4>1, SkipOwn, Zenon
    <3>2. Good(g.in_buf, Append(h.ring, Notice), Tail(t))
      BY <1>3, <3>1, NoticeOwn, Zenon
    <3>3. g.ring \in {h.ring, Append(h.ring, Notice)}
      BY <2>2, Zenon DEF Skips, SameRing, Pushed
    <3>4. Good(g.in_buf, g.ring, Tail(t))
      BY <3>1, <3>2, <3>3, Zenon
    <3>5. (Mine(g) <=> Mine(h)) /\ (Mine(h) => g.cmd_line = h.cmd_line)
      BY <2>2, Zenon DEF Skips, SameLine
    <3>6. ClientOwn(g.in_buf, Mine(g), g.cmd_line, g.ring, Tail(t), w[c], a[c])
      BY <3>4, <3>5, Zenon DEF ClientOwn, Placed, IsFor
    <3>7. QED  BY <1>1, <1>4, <3>6, Zenon DEF Own, g
  <2>3. CASE Holds(h, b, g)
    <3>1. b \in Cmd /\ g.in_buf = b /\ g.ring = h.ring
      BY <1>1, <2>3, Zenon DEF Holds, SameRing
    <3>2. Good(b, h.ring, Tail(t))
      BY <2>1, <3>1, TextOwn, Zenon
    <3>3. (Mine(g) <=> Mine(h)) /\ (Mine(h) => g.cmd_line = h.cmd_line)
      BY <2>3, Zenon DEF Holds, SameLine
    <3>4. ClientOwn(g.in_buf, Mine(g), g.cmd_line, g.ring, Tail(t), w[c], a[c])
      BY <3>1, <3>2, <3>3, Zenon DEF ClientOwn, Placed, IsFor
    <3>5. QED  BY <1>1, <1>4, <3>4, Zenon DEF Own, g
  <2>4. CASE Queues(h, b, g)
    <3>1. /\ g.in_buf = None /\ g.ring = h.ring /\ g.cmd_line = h.in_buf
          /\ h.in_buf # None /\ ~Mine(h)
      BY <2>4, Zenon DEF Queues, SameRing, Mine
    <3>2. ClientOwn(h.in_buf, FALSE, h.cmd_line, h.ring, t, w[c], a[c])
      BY <2>1, <3>1, Zenon DEF ClientOwn, Placed, IsFor
    <3>3. ClientOwn(None, Mine(g), h.in_buf, h.ring, Tail(t), w[c], a[c])
      BY <3>1, <3>2, QueueOwn, Zenon
    <3>4. ClientOwn(g.in_buf, Mine(g), g.cmd_line, g.ring, Tail(t), w[c], a[c])
      BY <3>1, <3>3, Zenon
    <3>5. QED  BY <1>1, <1>4, <3>4, Zenon DEF Own, g
  <2>5. QED  BY <1>2, <2>2, <2>3, <2>4
<1>6. CASE p[c] = "closed"
  BY <1>1, <1>4, <1>6, Zenon DEF Own, g
<1>7. QED  BY <1>5, <1>6

(* What is still in the kernel is the one line its client waits for.        *)
WiresOwn(w, a, p) ==
    \A c \in Conn : p[c] # "closed" => OneLine(w[c]) /\ LinesAre(w[c], a[c])

(* What is on either side of every socket is for the command its client     *)
(* waits for.                                                               *)
OwnInv ==
    /\ Own(hc, tmp, wire, await, peer)
    /\ WiresOwn(wire, await, peer)
    /\ ReadsItsOwn

(* A step of the emulator that leaves the sockets alone. *)
LEMMA QuietStepOwn ==
    ASSUME hc \in HostCmdState, LinesKnown, OwnInv, UNCHANGED <<tmp, netVars>>,
           \/ Quiet(hc, hc') \/ Silenced(hc, hc') \/ (\E n : Prints(hc, hc', n))
           \/ Answers(hc, hc') \/ GivesUp(hc, hc')
    PROVE  OwnInv'
<1>1. Mine(hc) => hc.cmd_line \in Cmd
  BY Zenon DEF LinesKnown, Mine
<1>2. Own(hc', tmp, wire, await, peer)
  BY <1>1, QuietOwn, PrintsOwn, EndsOwn, Zenon DEF OwnInv
<1>3. /\ tmp' = tmp /\ wire' = wire /\ await' = await /\ peer' = peer
      /\ got' = got
  BY Zenon DEF netVars
<1>4. QED
  BY <1>2, <1>3, Zenon DEF OwnInv, ReadsItsOwn, AnswerIsOwn, OutputIsOwn

(* recv. *)
LEMMA RecvStepOwn ==
    ASSUME NEW h \in HostCmdState, wire \in [Conn -> Text], tmp = <<>>,
           Own(h, tmp, wire, await, peer), WiresOwn(wire, await, peer),
           h.client # None, NEW n \in 1 .. Len(wire[h.client]),
           hc' = h, tmp' = SubSeq(wire[h.client], 1, n),
           wire' = [wire EXCEPT ![h.client] = SubSeq(@, n + 1, Len(@))]
    PROVE  Own(hc', tmp', wire', await, peer) /\ WiresOwn(wire', await, peer)
<1> DEFINE c == h.client
           w == wire[c]
           s == SubSeq(w, 1, n)
           r == SubSeq(w, n + 1, Len(w))
<1>1. c \in Conn /\ w \in Text
  BY Zenon DEF HostCmdState
<1>2. wire'[c] = r /\ \A d \in Conn : d # c => wire'[d] = wire[d]
  BY <1>1, Zenon
<1>3. CASE peer[c] # "closed"
  <2>1. OneLine(w) /\ LinesAre(w, await[c])
    BY <1>1, <1>3, Zenon DEF WiresOwn
  <2>2. ClientOwn(h.in_buf, Mine(h), h.cmd_line, h.ring, <<>>, w, await[c])
    BY <1>3, Zenon DEF Own
  <2>3. ClientOwn(h.in_buf, Mine(h), h.cmd_line, h.ring, s, r, await[c])
    BY <1>1, <2>1, <2>2, RecvOwn, Zenon
  <2>4. OneLine(r) /\ LinesAre(r, await[c])
    BY <1>1, <2>1, TakeLines, Zenon
  <2> HIDE DEF r, s
  <2>5. Own(h, s, wire', await, peer)
    BY <1>2, <2>3, Zenon DEF Own
  <2>6. Own(hc', tmp', wire', await, peer)
    BY <2>5, Zenon DEF s
  <2>7. WiresOwn(wire', await, peer)
    BY <1>2, <2>4, Zenon DEF WiresOwn
  <2>8. QED  BY <2>6, <2>7
<1>4. CASE peer[c] = "closed"
  <2> HIDE DEF r, s
  <2>1. Own(hc', tmp', wire', await, peer)
    BY <1>4, Zenon DEF Own
  <2>2. WiresOwn(wire', await, peer)
    BY <1>2, <1>4, Zenon DEF WiresOwn
  <2>3. QED  BY <2>1, <2>2
<1>5. QED  BY <1>3, <1>4

(* A frame that has been sent whole is read, for what its reader waits for. *)
LEMMA PollWriteOwn ==
    ASSUME HostTypeOK, LinesKnown, OwnInv, NEW n, PollWrite(n)
    PROVE  OwnInv'
<1> DEFINE h == Expire(hc)
           f == Head(h.ring)
           c == h.client
<1>1. hc \in HostCmdState /\ h \in HostCmdState /\ tmp \in Text
      /\ await \in [Conn -> Cmd \union {None}] /\ got \in [Conn -> Got]
  BY ExpireType, Zenon DEF HostTypeOK, Text
<1>2. Own(h, tmp, wire, await, peer)
  BY <1>1, ExpireOwn, Zenon DEF OwnInv, LinesKnown, Mine
<1>3. /\ c # None /\ h.ring # <<>> /\ n \in 1 .. f.left
      /\ hc' = SendBytes(h, n)
      /\ tmp' = tmp /\ wire' = wire /\ peer' = peer
  BY Zenon DEF PollWrite, Emulator
<1>4. await' = IF n # f.left \/ peer[c] = "closed" \/ f.type # "D"
               THEN await ELSE [await EXCEPT ![c] = None]
  BY Zenon DEF PollWrite
<1>5. got' = IF n # f.left \/ peer[c] = "closed" THEN got
             ELSE [got EXCEPT ![c] = [type |-> f.type, data |-> f.data,
                                      as |-> await[c]]]
  BY Zenon DEF PollWrite
<1>6. c \in Conn /\ h.ring \in Seq(Frame)
  BY <1>1, <1>3, Zenon DEF HostCmdState
<1>7. f = h.ring[1] /\ 1 \in 1 .. Len(h.ring) /\ f \in Frame
  BY <1>3, <1>6
<1> HIDE DEF h, f, c
<1>8. Own(hc', tmp', wire', await', peer')
  <2>1. Own(SendBytes(h, n), tmp, wire, await', peer)
    BY <1>1, <1>2, <1>3, <1>4, SendBytesOwn, Zenon DEF c, f
  <2>2. QED  BY <1>3, <2>1, Zenon
<1>9. peer[c] # "closed" =>
         ClientOwn(h.in_buf, Mine(h), h.cmd_line, h.ring, tmp, wire[c], await[c])
  BY <1>2, <1>3, Zenon DEF Own, c
<1>10. WiresOwn(wire', await', peer')
  <2>1. CASE await' = await
    BY <1>3, <2>1, Zenon DEF OwnInv
  <2>2. CASE n = f.left /\ peer[c] # "closed" /\ f.type = "D"
    <3>1. \A d \in Conn : d # c => await'[d] = await[d]
      BY <1>1, <1>4, <2>2, Zenon
    <3>2. HasDone(h.ring)
      BY <1>7, <2>2, Zenon DEF HasDone
    <3>3. ~HasLine(wire[c])
      BY <1>9, <2>2, <3>2, Zenon DEF ClientOwn, Placed
    <3>4. OneLine(wire[c]) /\ LinesAre(wire[c], await'[c])
      BY <3>3, Zenon DEF HasLine, OneLine, LinesAre
    <3>5. QED  BY <1>3, <3>1, <3>4, Zenon DEF OwnInv, WiresOwn
  <2>3. QED  BY <1>4, <2>1, <2>2, Zenon
<1>11. ReadsItsOwn'
  <2>1. CASE n # f.left \/ peer[c] = "closed"
    <3>1. got' = got
      BY <1>5, <2>1, Zenon
    <3>2. QED
      BY <3>1, Zenon DEF OwnInv, ReadsItsOwn, AnswerIsOwn, OutputIsOwn
  <2>2. CASE ~(n # f.left \/ peer[c] = "closed")
    <3>1. got'[c] = [type |-> f.type, data |-> f.data, as |-> await[c]]
          /\ \A d \in Conn : d # c => got'[d] = got[d]
      BY <1>1, <1>5, <1>6, <2>2, Zenon
    <3>2. got'[c].type = f.type /\ got'[c].data = f.data /\ got'[c].as = await[c]
      BY <3>1
    <3>3. FrameIsFor(f, await[c])
      BY <1>7, <1>9, <2>2, Zenon DEF ClientOwn, IsFor
    <3>4. (f.type = "D" => f.data = <<await[c]>>)
          /\ (f.type = "O" => \A i \in 1 .. Len(f.data) : f.data[i] = await[c])
      <4>1. f.type = "D" => f.type # "X" /\ f.type # "O"
        OBVIOUS
      <4>2. f.type = "O" => f.type # "X" /\ f.type # "D"
        OBVIOUS
      <4>3. QED  BY <3>3, <4>1, <4>2, Zenon DEF FrameIsFor
    <3>5. AnswerIsOwn'
      BY <3>1, <3>2, <3>4, ZenonT(60) DEF OwnInv, ReadsItsOwn, AnswerIsOwn
    <3>6. OutputIsOwn'
      BY <3>1, <3>2, <3>4, ZenonT(60) DEF OwnInv, ReadsItsOwn, OutputIsOwn
    <3>7. QED  BY <3>5, <3>6, Zenon DEF ReadsItsOwn
  <2>3. QED  BY <2>1, <2>2
<1>12. QED  BY <1>8, <1>10, <1>11, Zenon DEF OwnInv

LEMMA ServiceOwn ==
    ASSUME HostTypeOK, LinesKnown, OwnInv, Service
    PROVE  OwnInv'
<1> DEFINE h == Expire(hc)
<1>1. /\ hc \in HostCmdState /\ h \in HostCmdState /\ tmp \in Text
      /\ wire \in [Conn -> Text]
  BY ExpireType, Zenon DEF HostTypeOK, Text
<1>2. Own(h, tmp, wire, await, peer)
  BY <1>1, ExpireOwn, Zenon DEF OwnInv, LinesKnown, Mine
<1>3. WiresOwn(wire, await, peer) /\ ReadsItsOwn
  BY Zenon DEF OwnInv
<1>4. ASSUME UNCHANGED <<peer, await, got>>,
             Own(hc', tmp', wire', await, peer), WiresOwn(wire', await, peer)
      PROVE  OwnInv'
  BY <1>3, <1>4, Zenon DEF OwnInv, ReadsItsOwn, AnswerIsOwn, OutputIsOwn
<1> HIDE DEF h
<1>5. CASE PollHup \/ PollWriteFails
  <2>1. hc' = DropClient(h) /\ tmp = <<>> /\ tmp' = tmp
        /\ wire' = wire /\ UNCHANGED <<peer, await, got>>
    BY <1>5, Zenon DEF PollHup, PollWriteFails, Emulator, netVars, h
  <2>2. Own(hc', tmp', wire', await, peer)
    BY <1>1, <2>1, DropOwn, Zenon
  <2>3. QED  BY <1>3, <1>4, <2>1, <2>2, Zenon
<1>6. CASE PollAccept
  <2>1. hc' = AcceptClient(h, Head(backlog)) /\ tmp = <<>> /\ tmp' = tmp
        /\ wire' = wire /\ UNCHANGED <<peer, await, got>>
        /\ backlog # <<>> /\ h.client = None
    BY <1>6, Zenon DEF PollAccept, Emulator, h
  <2>2. Head(backlog) \in Conn
    BY <2>1 DEF HostTypeOK
  <2>3. ~Mine(h)
    BY <1>2, <2>1, Zenon DEF Own
  <2>4. Own(hc', tmp', wire', await, peer)
    BY <1>1, <2>1, <2>2, <2>3, AcceptOwn, Zenon
  <2>5. QED  BY <1>3, <1>4, <2>1, <2>4, Zenon
<1>7. CASE PollRead
  <2>1. h.client # None /\ tmp = <<>> /\ UNCHANGED <<peer, await, got>>
    BY <1>7, Zenon DEF PollRead, Emulator, h
  <2>2. CASE hc' = DropClient(h) /\ UNCHANGED <<tmp, wire>>
    <3>1. Own(hc', tmp', wire', await, peer)
      BY <1>1, <2>1, <2>2, DropOwn, Zenon
    <3>2. QED  BY <1>3, <1>4, <2>1, <2>2, <3>1, Zenon
  <2>3. ASSUME NEW n \in 1 .. Len(wire[h.client]),
               hc' = h, tmp' = SubSeq(wire[h.client], 1, n),
               wire' = [wire EXCEPT ![h.client] = SubSeq(@, n + 1, Len(@))]
        PROVE  OwnInv'
    <3>1. Own(hc', tmp', wire', await, peer) /\ WiresOwn(wire', await, peer)
      BY <1>1, <1>2, <1>3, <2>1, <2>3, RecvStepOwn, Zenon
    <3>2. QED  BY <1>4, <2>1, <3>1, Zenon
  <2>4. QED  BY <1>7, <2>2, <2>3, Zenon DEF PollRead, Emulator, h
<1>8. CASE ReadLoop
  <2>1. /\ tmp # <<>> /\ hc' = ReadItem(hc, Head(tmp)) /\ tmp' = Tail(tmp)
        /\ wire' = wire /\ UNCHANGED <<peer, await, got>>
    BY <1>8, Zenon DEF ReadLoop, netVars
  <2>2. Own(ReadItem(hc, Head(tmp)), Tail(tmp), wire, await, peer)
    BY <1>1, <2>1, ReadItemOwn, Zenon DEF OwnInv
  <2>3. QED  BY <1>3, <1>4, <2>1, <2>2, Zenon
<1>9. CASE PollQuiet
  <2>1. hc' = h /\ tmp' = tmp /\ wire' = wire /\ UNCHANGED <<peer, await, got>>
    BY <1>9, Zenon DEF PollQuiet, Emulator, netVars, h
  <2>2. QED  BY <1>2, <1>3, <1>4, <2>1, Zenon
<1>10. CASE \E n \in 1 .. RingSize : PollWrite(n)
  BY <1>10, PollWriteOwn, Zenon
<1>11. QED  BY <1>5, <1>6, <1>7, <1>8, <1>9, <1>10, Zenon DEF Service

(* The clients. *)
LEMMA SendLineOwn ==
    ASSUME HostTypeOK, LinesKnown, OwnInv, NEW d \in Conn, NEW x \in Cmd,
           SendLine(d, x)
    PROVE  OwnInv'
<1>1. /\ peer[d] = "open" /\ await[d] = None
      /\ wire' = [wire EXCEPT ![d] = @ \o <<x, NL>>]
      /\ await' = [await EXCEPT ![d] = x]
      /\ hc' = hc /\ tmp' = tmp /\ peer' = peer /\ got' = got
  BY Zenon DEF SendLine
<1>2. /\ hc \in HostCmdState /\ wire \in [Conn -> Text] /\ wire[d] \in Text
      /\ await \in [Conn -> Cmd \union {None}] /\ tmp \in Text
  BY Zenon DEF HostTypeOK, Text
<1>3. wire'[d] = wire[d] \o <<x, NL>> /\ await'[d] = x
      /\ \A c \in Conn : c # d => wire'[c] = wire[c] /\ await'[c] = await[c]
  BY <1>1, <1>2, Zenon
<1>4. peer[d] # "closed"
  BY <1>1
<1>5. None \notin Cmd /\ NL \notin Cmd
  BY IdentityAssumption
<1>6. \A i \in 1 .. Len(wire[d]) : wire[d][i] \notin Cmd
  BY <1>1, <1>4, <1>5, Zenon DEF OwnInv, WiresOwn, LinesAre
<1>7. OneLine(wire'[d]) /\ LinesAre(wire'[d], x)
  <2> DEFINE s == wire[d] \o <<x, NL>>
             n == Len(wire[d])
  <2>1. \A i \in 1 .. Len(s) : \/ i \in 1 .. n /\ s[i] = wire[d][i]
                               \/ i = n + 1 /\ s[i] = x
                               \/ s[i] = NL
    <3> DEFINE S == Cmd \union {NL}
    <3>1. wire[d] \in Seq(S) /\ x \in S /\ NL \in S
      BY <1>2 DEF Text
    <3> HIDE DEF S
    <3>2. Len(s) = n + 2 /\ n \in Nat
      BY <3>1
    <3>3. \A i \in 1 .. n : s[i] = wire[d][i]
      BY <3>1
    <3>4. s[n + 1] = x /\ s[n + 2] = NL
      BY <3>1
    <3> HIDE DEF s, n
    <3>5. \A i \in 1 .. Len(s) : i \in 1 .. n \/ i = n + 1 \/ i = n + 2
      BY <3>2
    <3>6. QED  BY <3>3, <3>4, <3>5, Zenon
  <2> HIDE DEF s, n
  <2>2. \A i \in 1 .. Len(s) : s[i] \in Cmd => i = n + 1 /\ s[i] = x
    BY <1>5, <1>6, <2>1, Zenon DEF n
  <2>3. OneLine(s) /\ LinesAre(s, x)
    BY <2>2, Zenon DEF OneLine, LinesAre
  <2>4. QED  BY <1>3, <2>3, Zenon DEF s
<1>8. WiresOwn(wire', await', peer')
  BY <1>1, <1>3, <1>7, Zenon DEF OwnInv, WiresOwn
<1>9. Own(hc', tmp', wire', await', peer')
  <2>1. CASE hc.client # d
    <3>1. hc.client # None => wire'[hc.client] = wire[hc.client]
                              /\ await'[hc.client] = await[hc.client]
      BY <1>2, <1>3, <2>1, Zenon DEF HostCmdState
    <3>2. QED  BY <1>1, <3>1, Zenon DEF OwnInv, Own
  <2>2. CASE hc.client = d
    <3>1. d # None
      BY IdentityAssumption
    <3>2. ClientOwn(hc.in_buf, Mine(hc), hc.cmd_line, hc.ring, tmp, wire[d], None)
      BY <1>1, <1>4, <2>2, <3>1, Zenon DEF OwnInv, Own
    <3>3. hc.ring \in Seq(Frame) /\ (Mine(hc) => hc.cmd_line # None)
      BY <1>2, <1>5, Zenon DEF HostCmdState, LinesKnown, Mine
    <3>4. ClientOwn(hc.in_buf, Mine(hc), hc.cmd_line, hc.ring, tmp, wire'[d], x)
      BY <1>2, <3>2, <3>3, SendOwn, Zenon
    <3>5. QED  BY <1>1, <1>3, <2>2, <3>1, <3>4, Zenon DEF Own
  <2>3. QED  BY <2>1, <2>2
<1>10. QED
  BY <1>1, <1>8, <1>9, Zenon DEF OwnInv, ReadsItsOwn, AnswerIsOwn, OutputIsOwn

(* A blank line, where nothing is in the kernel, holds no command. *)
LEMMA SendBlankOwn ==
    ASSUME HostTypeOK, OwnInv, NEW d \in Conn, SendBlank(d)
    PROVE  OwnInv'
<1>1. /\ wire[d] = <<>> /\ wire' = [wire EXCEPT ![d] = <<NL>>]
      /\ hc' = hc /\ tmp' = tmp /\ peer' = peer /\ got' = got /\ await' = await
  BY Zenon DEF SendBlank
<1>2. hc \in HostCmdState /\ wire \in [Conn -> Text]
  BY Zenon DEF HostTypeOK, Text
<1>3. wire'[d] = <<NL>> /\ \A c \in Conn : c # d => wire'[c] = wire[c]
  BY <1>1, <1>2, Zenon
<1>4. \A i \in 1 .. Len(<<NL>>) : <<NL>>[i] \notin Cmd
  BY IdentityAssumption
<1>5. ~HasLine(<<NL>>) /\ OneLine(<<NL>>) /\ \A x : LinesAre(<<NL>>, x)
  BY <1>4, Zenon DEF HasLine, OneLine, LinesAre
<1>6. WiresOwn(wire', await', peer')
  BY <1>1, <1>3, <1>5, Zenon DEF OwnInv, WiresOwn
<1>7. \A c \in Conn : HasLine(wire'[c]) => HasLine(wire[c])
  BY <1>3, <1>5, Zenon
<1>8. Own(hc', tmp', wire', await', peer')
  <2>1. hc.client # None => hc.client \in Conn
    BY <1>2, Zenon DEF HostCmdState
  <2>2. CASE hc.client # None /\ peer[hc.client] # "closed"
    <3>1. ClientOwn(hc.in_buf, Mine(hc), hc.cmd_line, hc.ring, tmp,
                    wire[hc.client], await[hc.client])
      BY <2>2, Zenon DEF OwnInv, Own
    <3>2. ClientOwn(hc.in_buf, Mine(hc), hc.cmd_line, hc.ring, tmp,
                    wire'[hc.client], await[hc.client])
      BY <1>7, <2>1, <2>2, <3>1, Zenon DEF ClientOwn, Placed
    <3>3. QED  BY <1>1, <2>2, <3>2, Zenon DEF Own
  <2>3. CASE ~(hc.client # None /\ peer[hc.client] # "closed")
    BY <1>1, <2>3, Zenon DEF OwnInv, Own
  <2>4. QED  BY <2>2, <2>3
<1>9. QED
  BY <1>1, <1>6, <1>8, Zenon DEF OwnInv, ReadsItsOwn, AnswerIsOwn, OutputIsOwn

(* A client that goes away waits for nothing. *)
LEMMA PeersLeave ==
    ASSUME HostTypeOK, NEW d \in Conn, Connect(d) \/ Hangup(d) \/ HalfClose(d)
    PROVE  /\ hc' = hc /\ tmp' = tmp /\ wire' = wire /\ got' = got
           /\ \A c \in Conn : peer'[c] # "closed" =>
                 peer[c] # "closed" /\ await'[c] = await[c]
<1>1. hc' = hc /\ tmp' = tmp /\ wire' = wire /\ got' = got
  BY Zenon DEF Connect, Hangup, HalfClose
<1>2. /\ await \in [Conn -> Cmd \union {None}]
      /\ peer \in [Conn -> PeerStates]
  BY Zenon DEF HostTypeOK
<1>3. CASE Connect(d) \/ HalfClose(d)
  <2>1. /\ await' = await
        /\ peer[d] \in {"absent", "open"}
        /\ peer' = [peer EXCEPT ![d] = "open"]
           \/ peer' = [peer EXCEPT ![d] = "half"]
    BY <1>3, Zenon DEF Connect, HalfClose
  <2>2. peer[d] # "closed"
    BY <2>1
  <2>3. \A c \in Conn : c # d => peer'[c] = peer[c]
    BY <1>2, <2>1, Zenon
  <2>4. QED  BY <1>1, <2>1, <2>2, <2>3, Zenon
<1>4. CASE Hangup(d)
  <2>1. peer' = [peer EXCEPT ![d] = "closed"]
        /\ await' = [await EXCEPT ![d] = None]
    BY <1>4, Zenon DEF Hangup
  <2>2. QED  BY <1>1, <1>2, <2>1, Zenon
<1>5. QED  BY <1>3, <1>4

LEMMA PeerOwn ==
    ASSUME HostTypeOK, OwnInv, NEW d \in Conn,
           Connect(d) \/ Hangup(d) \/ HalfClose(d)
    PROVE  OwnInv'
<1>1. hc' = hc /\ tmp' = tmp /\ wire' = wire /\ got' = got
  BY PeersLeave, Zenon
<1>2. hc \in HostCmdState
  BY Zenon DEF HostTypeOK
<1>3. \A c \in Conn : peer'[c] # "closed" =>
         peer[c] # "closed" /\ await'[c] = await[c]
  BY PeersLeave, Zenon
<1>4. WiresOwn(wire', await', peer')
  BY <1>1, <1>3, Zenon DEF OwnInv, WiresOwn
<1>5. hc.client # None => hc.client \in Conn
  BY <1>2, Zenon DEF HostCmdState
<1>6. Own(hc', tmp', wire', await', peer')
  BY <1>1, <1>3, <1>5, Zenon DEF OwnInv, Own
<1>7. QED
  BY <1>1, <1>4, <1>6, Zenon DEF OwnInv, ReadsItsOwn, AnswerIsOwn, OutputIsOwn
-----------------------------------------------------------------------------
(* The bytes the guest holds are the running command's. *)
GuestOwn ==
    /\ gring # <<>> => gstate \in {"RUNNING", "TW_RUNNING", "FLUSHING"}
    /\ \A i \in 1 .. Len(gring) : gring[i] = gcmd

LEMMA FlushOwn ==
    ASSUME ChannelInv, GuestOwn, OwnInv, FlushRing
    PROVE  OwnInv' /\ GuestOwn'
<1>1. hc \in HostCmdState /\ gring \in Seq(Cmd) /\ LinesKnown
  BY Zenon DEF ChannelInv, TypeOK, HostTypeOK
<1>2. PICK n \in 1 .. Len(gring) :
         /\ hc' = SwiOutput(hc, SubSeq(gring, 1, n))
         /\ gring' = SubSeq(gring, Accepts(hc, SubSeq(gring, 1, n)) + 1, Len(gring))
         /\ UNCHANGED <<tmp, netVars>> /\ gring # <<>>
         /\ gstate' = gstate /\ gcmd' = gcmd
  BY Zenon DEF FlushRing, Swi, Emulator
<1> DEFINE run == SubSeq(gring, 1, n)
           k == Accepts(hc, run)
<1>3. run \in Seq(Cmd) /\ Len(run) = n /\ \A i \in 1 .. Len(run) : run[i] = gcmd
  BY <1>1, <1>2 DEF GuestOwn
<1>4. k \in 0 .. n
  BY <1>1, <1>3, AcceptsRange, ZenonT(40)
<1>5. Owes
  <2>1. gstate \in {"RUNNING", "TW_RUNNING", "FLUSHING"}
    BY <1>2, Zenon DEF GuestOwn
  <2>2. QED  BY <2>1 DEF Owes
<1>6. hc.cmd_inflight \/ hc.orphaned > 0
  BY <1>5, Zenon DEF ChannelInv, EndExpected
<1>7. hc.cmd_inflight => \A i \in 1 .. Len(run) : run[i] = hc.cmd_line
  BY <1>3, Zenon DEF ChannelInv, InflightIsRunning
<1> HIDE DEF run
<1>8. Quiet(hc, hc') \/ Prints(hc, hc', k)
  BY <1>1, <1>2, <1>3, <1>6, <1>7, SwiOutputClient, Zenon DEF run, k
<1>9. OwnInv'
  BY <1>1, <1>2, <1>8, QuietStepOwn, Zenon
<1>10. GuestOwn'
  <2>1. \A i \in 1 .. Len(gring') : gring'[i] = gcmd
    <3> HIDE DEF k
    <3>1. gring' = SubSeq(gring, k + 1, Len(gring))
      BY <1>2, Zenon DEF k, run
    <3>2. \A i \in 1 .. Len(gring') :
             gring'[i] = gring[k + i] /\ k + i \in 1 .. Len(gring)
      <4>1. gring \in Seq(Cmd) /\ k \in 0 .. Len(gring)
        BY <1>1, <1>4
      <4>2. \A i \in 1 .. Len(SubSeq(gring, k + 1, Len(gring))) :
               /\ SubSeq(gring, k + 1, Len(gring))[i] = gring[k + i]
               /\ k + i \in 1 .. Len(gring)
        BY <4>1
      <4>3. QED  BY <3>1, <4>2, Zenon
    <3>3. QED  BY <3>2, Zenon DEF GuestOwn
  <2>2. QED  BY <1>2, <2>1, Zenon DEF GuestOwn
<1>11. QED  BY <1>9, <1>10

(* A STATUS END is the client's if the emulator waits for one. *)
LEMMA EndOwn ==
    ASSUME ChannelInv, OwnInv, Owes, Swi(SwiStatusEnd(hc, gcmd))
    PROVE  OwnInv'
<1>1. hc \in HostCmdState /\ gcmd \in Cmd \union {None} /\ LinesKnown
  BY Zenon DEF ChannelInv, TypeOK, HostTypeOK
<1>2. /\ hc.cmd_inflight \/ hc.orphaned > 0
      /\ hc.cmd_inflight => gcmd = hc.cmd_line
      /\ ~(hc.cmd_pending /\ hc.cmd_inflight)
  BY Zenon DEF ChannelInv, EndExpected, InflightIsRunning, CommandInOnePlace
<1>3. Quiet(hc, hc') \/ Answers(hc, hc')
  BY <1>1, <1>2, SwiStatusEndClient, Zenon DEF Swi, Emulator
<1>4. QED  BY <1>1, <1>3, QuietStepOwn, Zenon DEF Swi

LEMMA HostStutterOwn == OwnInv /\ unchangedHost => OwnInv'
BY Zenon DEF unchangedHost, hostVars, OwnInv, ReadsItsOwn, AnswerIsOwn, OutputIsOwn

LEMMA PutByteOwn ==
    ASSUME ChannelInv, GuestOwn, PutByte, gstate \in {"RUNNING", "TW_RUNNING"}
    PROVE  GuestOwn'
<1>1. gring \in Seq(Cmd) /\ gstate' = gstate /\ gcmd' = gcmd
  BY Zenon DEF ChannelInv, TypeOK, PutByte
<1>2. gcmd \in Cmd
  <2>1. Owes
    BY DEF Owes
  <2>2. QED  BY <2>1, Zenon DEF ChannelInv, LinesKnown
<1>3. gring' = gring \/ gring' = Append(gring, gcmd)
  BY Zenon DEF PutByte
<1>4. \A i \in 1 .. Len(gring') : gring'[i] = gcmd
  BY <1>1, <1>2, <1>3 DEF GuestOwn
<1>5. QED
  <2>1. gstate' \in {"RUNNING", "TW_RUNNING", "FLUSHING"}
    BY <1>1
  <2>2. QED  BY <1>1, <1>4, <2>1, Zenon DEF GuestOwn

LEMMA GuestStepOwn ==
    ASSUME ChannelInv, OwnInv, GuestOwn, Guest, "quit" \notin Upsets
    PROVE  OwnInv' /\ GuestOwn'
<1>0. HostTypeOK /\ hc \in HostCmdState /\ LinesKnown /\ gring \in Seq(Cmd)
  BY TypeParts, Zenon DEF ChannelInv, HostTypeOK, GuestTypeOK
<1>1. \A i \in 1 .. Len(<<>>) : FALSE
  OBVIOUS
<1>2. gring' = <<>> => GuestOwn'
  BY <1>1, Zenon DEF GuestOwn
<1>3. gring' = gring /\ gcmd' = gcmd /\ gstate' = gstate => GuestOwn'
  BY Zenon DEF GuestOwn
<1>4. gstate \notin {"RUNNING", "TW_RUNNING", "FLUSHING"} => gring = <<>>
  BY Zenon DEF GuestOwn
<1>5. CASE ModuleInit
  <2>1. hc' = SwiRegister(hc) /\ UNCHANGED <<tmp, netVars>> /\ gring' = <<>>
    BY <1>5, Zenon DEF ModuleInit, Swi, Emulator
  <2>2. OwnInv'
    BY <1>0, <2>1, OtherClient, QuietStepOwn, Zenon
  <2>3. QED  BY <1>2, <2>1, <2>2
<1>6. CASE FlushRing
  BY <1>6, FlushOwn
<1>7. CASE TickerPoll
  <2>1. hc' = SwiPoll(hc, TRUE) /\ UNCHANGED <<tmp, netVars>> /\ gring' = gring
    BY <1>7, Zenon DEF TickerPoll, Swi, Emulator
  <2>2. TRUE \in BOOLEAN
    OBVIOUS
  <2>3. OwnInv'
    BY <1>0, <2>1, <2>2, SwiPollClient, QuietStepOwn, Zenon
  <2>4. gring = <<>>
    <3>1. gstate = "IDLE"
      BY <1>7, Zenon DEF TickerPoll
    <3>2. gstate \notin {"RUNNING", "TW_RUNNING", "FLUSHING"}
      BY <3>1
    <3>3. QED  BY <1>4, <3>2
  <2>5. QED  BY <1>2, <2>1, <2>3, <2>4, Zenon
<1>8. CASE TickerEnd
  <2>1. Owes /\ gring' = <<>>
    BY <1>8 DEF TickerEnd, Owes
  <2>2. OwnInv'
    BY <1>8, <2>1, EndOwn, Zenon DEF TickerEnd
  <2>3. QED  BY <1>2, <2>1, <2>2
<1>9. CASE PollWord
  <2>1. gring' = gring /\ gcmd' = gcmd
    BY <1>9, Zenon DEF PollWord
  <2>2. CASE gstate = "TW_PENDING"
    <3>1. gring = <<>> /\ Owes
      BY <1>4, <2>2 DEF Owes
    <3>2. AbortCommand \/ unchangedHost
      BY <1>9, Zenon DEF PollWord
    <3>3. OwnInv'
      BY <3>1, <3>2, EndOwn, HostStutterOwn, Zenon DEF AbortCommand
    <3>4. QED  BY <1>2, <2>1, <3>1, <3>3, Zenon
  <2>3. CASE gstate # "TW_PENDING"
    <3>1. gstate' = gstate /\ unchangedHost
      BY <1>9, <2>3, Zenon DEF PollWord
    <3>2. QED  BY <1>3, <2>1, <3>1, HostStutterOwn, Zenon
  <2>4. QED  BY <2>2, <2>3
<1>10. CASE Wrch \/ TwOutput
  <2>1. PutByte /\ gstate \in {"RUNNING", "TW_RUNNING"}
    BY <1>10, Zenon DEF Wrch, TwOutput
  <2>2. unchangedHost
    BY <2>1, Zenon DEF PutByte
  <2>3. QED  BY <2>1, <2>2, PutByteOwn, HostStutterOwn, Zenon
<1>11. CASE RunCommand \/ RunReturns \/ TwMorio
  <2>1. /\ unchangedHost /\ gring' = gring /\ gcmd' = gcmd
        /\ gstate' \in {"RUNNING", "FLUSHING"}
    BY <1>11, Zenon DEF RunCommand, RunReturns, TwMorio, Become
  <2>2. gstate' \in {"RUNNING", "TW_RUNNING", "FLUSHING"}
    BY <2>1, Zenon
  <2>3. QED  BY <2>1, <2>2, HostStutterOwn, Zenon DEF GuestOwn
<1>12. CASE ModuleFinal
  BY <1>2, <1>12, HostStutterOwn, Zenon DEF ModuleFinal
<1>13. CASE \/ TickerEntry \/ FlushDone \/ TickerDone
            \/ StartWimp \/ TaskStarts \/ TaskStartFails
  <2>1. unchangedHost /\ gring' = gring /\ gcmd' = gcmd /\ gstate' = gstate
    BY <1>13, Zenon
       DEF TickerEntry, FlushDone, TickerDone, StartWimp, TaskStarts, TaskStartFails
  <2>2. QED  BY <1>3, <2>1, HostStutterOwn, Zenon
<1>14. QED
  BY <1>5, <1>6, <1>7, <1>8, <1>9, <1>10, <1>11, <1>12, <1>13, Zenon
     DEF Guest, Ticker, Headless, Desktop

(* The caller inside the emulator leaves the client alone. *)
LEMMA CallerOwn ==
    ASSUME ChannelInv, OwnInv, Caller
    PROVE  OwnInv'
<1>0. /\ hc \in HostCmdState /\ LinesKnown
      /\ ~(hc.cmd_pending /\ hc.cmd_inflight)
  BY Zenon DEF ChannelInv, TypeOK, HostTypeOK, CommandInOnePlace
<1>1. CASE \E c \in InternalCmd : GuestCommandRun(c)
  <2>1. /\ hc' = hc /\ tmp' = tmp /\ peer' = peer /\ wire' = wire
        /\ await' = await /\ got' = got
    BY <1>1, Zenon DEF GuestCommandRun
  <2>2. QED
    BY <2>1, Zenon DEF OwnInv, ReadsItsOwn, AnswerIsOwn, OutputIsOwn
<1>2. CASE GuestCommandTimeout
  BY <1>2, HostStutterOwn, Zenon DEF GuestCommandTimeout, unchangedHost
<1>3. CASE RunRequest
  <2> DEFINE c == Head(queue).token
             res == [token |-> c, ok |-> FALSE, out |-> <<>>, status |-> None]
  <2>1. /\ UNCHANGED <<tmp, netVars>>
        /\ \/ hc' = InternalSubmit(hc, c) /\ ~Busy(hc)
           \/ hc' = [hc EXCEPT !.posted = Append(hc.posted, res)]
    BY <1>3, Zenon DEF RunRequest, Emulator, CanSubmit
  <2>2. Quiet(hc, hc')
    BY <1>0, <2>1, OtherClient, Zenon
  <2>3. QED  BY <1>0, <2>1, <2>2, QuietStepOwn, Zenon
<1>4. CASE AbandonRequest
  <2>1. hc' = InternalAbandon(hc) /\ UNCHANGED <<tmp, netVars>>
    BY <1>4, Zenon DEF AbandonRequest, Abandon, Emulator
  <2>2. QED  BY <1>0, <2>1, InternalAbandonClient, QuietStepOwn, Zenon
<1>5. CASE GuestCommandDeliver
  <2>1. hc' = [hc EXCEPT !.posted = Tail(hc.posted)] /\ UNCHANGED <<tmp, netVars>>
    BY <1>5, Zenon DEF GuestCommandDeliver
  <2>2. QED  BY <1>0, <2>1, OtherClient, QuietStepOwn, Zenon
<1>6. QED  BY <1>1, <1>2, <1>3, <1>4, <1>5, Zenon DEF Caller

(* Without internal commands none is ever active. *)
NoInternal == InternalCmd = {} => ~hc.internal_active

LEMMA NextNoInternal == ChannelInv /\ NoInternal /\ [Next]_vars => NoInternal'
<1> SUFFICES ASSUME ChannelInv, NoInternal, [Next]_vars, InternalCmd = {}
             PROVE  ~hc'.internal_active
  BY Zenon DEF NoInternal
<1>0. /\ hc \in HostCmdState /\ ~hc.internal_active /\ hc.initialised
      /\ queue \in Seq(Request)
  BY Zenon DEF ChannelInv, NoInternal, LinesKnown, TypeOK, HostTypeOK
<1>1. CASE Service \/ SystemClients \/ Time \/ Guest \/ UNCHANGED vars
  BY <1>0, <1>1, HostInternal, Zenon
     DEF InternalKept, InternalClosed, SameInternal
<1>2. CASE MachineReset
  <2>1. hc' = ResetState(hc)
    BY <1>2, Zenon DEF MachineReset, HostReset, Emulator
  <2>2. QED  BY <1>0, <2>1, ResetStateInternal, Zenon DEF SameInternal
<1>3. CASE Caller
  <2>1. queue = <<>>
    <3>1. queue # <<>> => Head(queue) \in Request
      BY <1>0
    <3>2. \A r \in Request : FALSE
      BY Zenon DEF Request
    <3>3. QED  BY <3>1, <3>2, Zenon
  <2>2. CASE GuestCommandDeliver
    <3>1. hc' = [hc EXCEPT !.posted = Tail(@)]
      BY <2>2, Zenon DEF GuestCommandDeliver
    <3>2. hc'.internal_active = hc.internal_active
      BY <1>0, <3>1, Zenon DEF HostCmdState
    <3>3. QED  BY <1>0, <3>2, Zenon
  <2>3. CASE ~GuestCommandDeliver
    BY <1>0, <1>3, <2>1, <2>3, Zenon
       DEF Caller, GuestCommandRun, RunRequest, AbandonRequest,
           GuestCommandTimeout, hostVars
  <2>4. QED  BY <2>2, <2>3
<1>4. QED  BY <1>1, <1>2, <1>3, Zenon DEF Next

(* The inductive invariant behind ReadsItsOwn, over ChannelInv. *)
ReadInv == OwnInv /\ GuestOwn /\ NoInternal

LEMMA InitRead == Init => ReadInv
<1> SUFFICES ASSUME Init PROVE ReadInv
  OBVIOUS
<1>1. /\ InitialState.client = None /\ InitialState.internal_active = FALSE
      /\ InitialState.cmd_pending = FALSE /\ InitialState.cmd_inflight = FALSE
      /\ [InitialState EXCEPT !.listening = FALSE].client = None
      /\ [InitialState EXCEPT !.listening = FALSE].internal_active = FALSE
      /\ [InitialState EXCEPT !.listening = FALSE].cmd_pending = FALSE
      /\ [InitialState EXCEPT !.listening = FALSE].cmd_inflight = FALSE
  BY Zenon DEF InitialState
<1>2. hc.client = None /\ hc.internal_active = FALSE
      /\ hc.cmd_pending = FALSE /\ hc.cmd_inflight = FALSE
  BY <1>1, Zenon DEF Init, HostInit
<1>3. Own(hc, tmp, wire, await, peer)
  BY <1>2, Zenon DEF Init, HostInit, Own, Mine, Busy
<1>4. WiresOwn(wire, await, peer)
  <2>1. \A c \in Conn : wire[c] = <<>>
    BY Zenon DEF Init, HostInit
  <2>2. QED  BY <2>1, NoLines, Zenon DEF WiresOwn
<1>5. ReadsItsOwn
  <2>1. \A c \in Conn : got[c].type = "-"
    BY Zenon DEF Init, HostInit, NothingRead
  <2>2. "-" # "D" /\ "-" # "O"
    OBVIOUS
  <2>3. QED  BY <2>1, <2>2, Zenon DEF ReadsItsOwn, AnswerIsOwn, OutputIsOwn
<1>6. GuestOwn
  <2>1. \A i \in 1 .. Len(<<>>) : FALSE
    OBVIOUS
  <2>2. QED  BY <2>1, Zenon DEF Init, GuestInit, GuestOwn
<1>7. QED  BY <1>2, <1>3, <1>4, <1>5, <1>6, Zenon DEF ReadInv, OwnInv, NoInternal

(* The clients wait for one command at a time, nobody quits the desktop     *)
(* task, and the machine is not reset under an internal command.            *)
OneAtATime ==
    /\ "typeahead" \notin Upsets /\ "quit" \notin Upsets
    /\ "reset" \notin Upsets \/ InternalCmd = {}

LEMMA NextRead ==
    OneAtATime => (ChannelInv /\ ReadInv /\ [Next]_vars => ReadInv')
<1> SUFFICES ASSUME OneAtATime, ChannelInv, ReadInv, [Next]_vars
             PROVE  ReadInv'
  OBVIOUS
<1>0. /\ HostTypeOK /\ hc \in HostCmdState /\ LinesKnown /\ hc.initialised
      /\ OwnInv /\ GuestOwn
  BY TypeParts, Zenon DEF ChannelInv, HostTypeOK, LinesKnown, ReadInv
<1>1. NoInternal'
  BY NextNoInternal, Zenon DEF ReadInv
<1>2. UNCHANGED guestVars => GuestOwn'
  BY <1>0, Zenon DEF guestVars, GuestOwn
<1>3. CASE Service /\ UNCHANGED guestVars
  BY <1>0, <1>1, <1>2, <1>3, ServiceOwn, Zenon DEF ReadInv
<1>4. CASE SystemClients /\ UNCHANGED guestVars
  <2>1. PICK d \in Conn :
           \/ Connect(d) \/ Hangup(d) \/ HalfClose(d) \/ SendBlank(d)
           \/ \E x \in Cmd : SendLine(d, x)
    BY <1>4, Zenon DEF SystemClients, OneAtATime
  <2>2. OwnInv'
    BY <1>0, <2>1, PeerOwn, SendBlankOwn, SendLineOwn, Zenon
  <2>3. QED  BY <1>1, <1>2, <1>4, <2>2, Zenon DEF ReadInv
<1>5. CASE Time /\ UNCHANGED guestVars
  <2>1. hc' = [hc EXCEPT !.queued_age = Older(hc.queued_age),
                         !.seen_age = Older(hc.seen_age)]
        /\ UNCHANGED <<tmp, netVars>>
    BY <1>5, Zenon DEF Time, Tick
  <2>2. OwnInv'
    BY <1>0, <2>1, OtherClient, QuietStepOwn, Zenon
  <2>3. QED  BY <1>1, <1>2, <1>5, <2>2, Zenon DEF ReadInv
<1>6. CASE Guest
  BY <1>0, <1>1, <1>6, GuestStepOwn, Zenon DEF ReadInv, OneAtATime
<1>7. CASE "reset" \in Upsets /\ MachineReset
  <2>1. hc' = ResetState(hc) /\ UNCHANGED <<tmp, netVars>> /\ gring' = <<>>
    BY <1>7, Zenon DEF MachineReset, HostReset, Emulator
  <2>2. ~hc.internal_active
    BY <1>7, Zenon DEF OneAtATime, ReadInv, NoInternal
  <2>3. OwnInv'
    BY <1>0, <2>1, <2>2, ResetStateClient, QuietStepOwn, Zenon
  <2>4. \A i \in 1 .. Len(<<>>) : FALSE
    OBVIOUS
  <2>5. GuestOwn'
    BY <2>1, <2>4, Zenon DEF GuestOwn
  <2>6. QED  BY <1>1, <2>3, <2>5, Zenon DEF ReadInv
<1>8. CASE Caller /\ UNCHANGED guestVars
  BY <1>0, <1>1, <1>2, <1>8, CallerOwn, Zenon DEF ReadInv
<1>9. CASE UNCHANGED vars
  BY <1>0, <1>1, <1>2, <1>9, HostStutterOwn, Zenon DEF ReadInv, vars, unchangedHost
<1>10. QED
  BY <1>3, <1>4, <1>5, <1>6, <1>7, <1>8, <1>9, Zenon DEF Next

(* What a client reads is its own command's, done frame and output alike:   *)
(* hc_drop_client counts what it abandons, and the SWI handler discards as  *)
(* much of what the guest still says.                                       *)
THEOREM ClientsReadTheirOwn == OneAtATime => (Spec => []ReadsItsOwn)
<1> SUFFICES ASSUME OneAtATime PROVE Spec => []ReadsItsOwn
  OBVIOUS
<1>1. ChannelInv /\ ReadInv /\ [Next]_vars => ReadInv'
  BY NextRead
<1>2. ReadInv => ReadsItsOwn
  BY DEF ReadInv, OwnInv
<1>3. QED  BY <1>1, <1>2, InitChannel, NextChannel, InitRead, PTL DEF Spec

-----------------------------------------------------------------------------
(* Where the answer is *)

(* The ring has room for the two notices and the done frame of a command    *)
(* that is given up, and for a notice, one frame per byte of a command's    *)
(* output and its done frame.                                               *)
RoomForDone ==
    /\ 2 * (HeaderLen + NoticeLen) + HeaderLen + DoneLen < RingSize
    /\ HeaderLen + NoticeLen + (HeaderLen + 1) * MaxPrint + HeaderLen + DoneLen
         < RingSize

(* A done frame is the last frame in the ring. *)
DoneEnds(r) == \A i \in 1 .. Len(r) : r[i].type = "D" => i = Len(r)

(* Without a done frame the ring holds no more than a notice and what the   *)
(* running command has printed and the guest has passed on: k bytes.        *)
RoomLeft(h, k) ==
    ~HasDone(h.ring) =>
        h.used =< Notice.left + (IF Running(h) THEN (HeaderLen + 1) * k ELSE 0)

(* A line is read by an idle channel only. *)
ReadsIdle(h, t) == (HasLine(t) \/ (t # <<>> /\ h.in_buf # None)) => ~Busy(h)

(* The connected client's line, command or done frame is with the emulator. *)
Held(h, t) == HasLine(t) \/ h.in_buf # None \/ Mine(h) \/ HasDone(h.ring)

(* Every client that waits is kept in mind: its line is in the kernel, or   *)
(* it is connected and the emulator holds the line, the command or its      *)
(* answer, with room left in the ring for the answer still to come.         *)
Kept(h, t, w, a, p, k) ==
    /\ ~h.in_overflow
    /\ (h.client # None /\ p[h.client] # "closed")
         => DoneEnds(h.ring) /\ RoomLeft(h, k) /\ ReadsIdle(h, t)
    /\ \A c \in Conn :
          p[c] # "closed" /\ a[c] # None =>
              HasLine(w[c]) \/ (h.client = c /\ Held(h, t))

LEMMA Paces ==
    /\ Notice.left = HeaderLen + NoticeLen /\ Notice.left \in Nat
    /\ \A k \in Nat : (HeaderLen + 1) * k \in Nat
    /\ \A k, j \in Nat :
          k =< j => (HeaderLen + 1) * k =< (HeaderLen + 1) * j
    /\ \A k, j \in Nat :
          j >= 1 => (HeaderLen + 1) * k + HeaderLen + j =< (HeaderLen + 1) * (k + j)
<1>1. Notice.left = HeaderLen + NoticeLen /\ Notice.left \in Nat
  BY SizeAssumption DEF Notice
<1>2. \A k \in Nat : (HeaderLen + 1) * k \in Nat
  BY SizeAssumption
<1>3. ASSUME NEW k \in Nat, NEW j \in Nat, k =< j
      PROVE  (HeaderLen + 1) * k =< (HeaderLen + 1) * j
  <2>1. (HeaderLen + 1) * j = (HeaderLen + 1) * k + (HeaderLen + 1) * (j - k)
    BY SizeAssumption
  <2>2. (HeaderLen + 1) * (j - k) >= 0
    BY <1>3, SizeAssumption
  <2>3. QED  BY <2>1, <2>2, SizeAssumption
<1>4. ASSUME NEW k \in Nat, NEW j \in Nat, j >= 1
      PROVE  (HeaderLen + 1) * k + HeaderLen + j =< (HeaderLen + 1) * (k + j)
  <2>1. (HeaderLen + 1) * (k + j)
          = (HeaderLen + 1) * k + HeaderLen * j + j
    BY SizeAssumption
  <2>2. HeaderLen * j >= HeaderLen
    <3>1. HeaderLen * j = HeaderLen + HeaderLen * (j - 1)
      BY SizeAssumption
    <3>2. HeaderLen * (j - 1) >= 0
      BY <1>4, SizeAssumption
    <3>3. QED  BY <3>1, <3>2, SizeAssumption
  <2>3. QED  BY <2>1, <2>2, SizeAssumption
<1>5. QED  BY <1>1, <1>2, <1>3, <1>4

LEMMA RoomSame ==
    ASSUME NEW h \in HostCmdState, NEW g, NEW k \in Nat, NEW k2 \in Nat,
           g.ring = h.ring, g.used = h.used, Running(h) => Running(g) /\ k =< k2,
           RoomLeft(h, k)
    PROVE  RoomLeft(g, k2)
<1> SUFFICES ASSUME ~HasDone(h.ring)
             PROVE  h.used =< Notice.left
                      + (IF Running(g) THEN (HeaderLen + 1) * k2 ELSE 0)
  BY Zenon DEF RoomLeft
<1>1. h.used \in Int
  BY Zenon DEF HostCmdState
<1>2. h.used =< Notice.left + (IF Running(h) THEN (HeaderLen + 1) * k ELSE 0)
  BY Zenon DEF RoomLeft
<1>3. CASE Running(h)
  <2>1. (HeaderLen + 1) * k =< (HeaderLen + 1) * k2 /\ Notice.left \in Nat
        /\ (HeaderLen + 1) * k \in Nat /\ (HeaderLen + 1) * k2 \in Nat
    BY <1>3, Paces, ZenonT(40)
  <2>2. h.used =< Notice.left + (HeaderLen + 1) * k
    BY <1>2, <1>3
  <2>3. h.used =< Notice.left + (HeaderLen + 1) * k2
    BY <1>1, <2>1, <2>2
  <2>4. QED  BY <1>3, <2>3
<1>4. CASE ~Running(h)
  <2>1. Notice.left \in Nat /\ (HeaderLen + 1) * k2 \in Nat
    BY Paces, ZenonT(40)
  <2>2. h.used =< Notice.left
    BY <1>1, <1>2, <1>4, <2>1
  <2>3. QED  BY <1>1, <2>1, <2>2
<1>5. QED  BY <1>3, <1>4

(* A step that does nothing to the client. *)
LEMMA QuietKept ==
    ASSUME NEW h \in HostCmdState, NEW g, NEW t, NEW w, NEW a, NEW p,
           NEW k \in Nat, NEW k2 \in Nat, Kept(h, t, w, a, p, k), Quiet(h, g),
           Running(h) => k =< k2, t = <<>> \/ (Busy(g) => Busy(h))
    PROVE  Kept(g, t, w, a, p, k2)
<1>1. /\ g.in_buf = h.in_buf /\ g.in_overflow = h.in_overflow
      /\ g.ring = h.ring /\ g.used = h.used /\ g.client = h.client
      /\ Mine(g) <=> Mine(h)
      /\ Running(h) => Running(g)
  BY Zenon DEF Quiet, SameInput, SameRing
<1>2. RoomLeft(h, k) => RoomLeft(g, k2)
  BY <1>1, RoomSame, Zenon
<1>3. ~HasLine(<<>>)
  BY NoLines
<1>4. ReadsIdle(h, t) => ReadsIdle(g, t)
  BY <1>1, <1>3, Zenon DEF ReadsIdle
<1>5. Held(h, t) => Held(g, t)
  BY <1>1, Zenon DEF Held
<1>6. QED
  BY <1>1, <1>2, <1>4, <1>5, Zenon DEF Kept

(* Output goes in as the guest passes it on. *)
LEMMA PrintsKept ==
    ASSUME NEW h \in HostCmdState, NEW g, NEW w, NEW a, NEW p,
           NEW k \in Nat, NEW n \in Nat, Own(h, <<>>, w, a, p),
           Kept(h, <<>>, w, a, p, k), Prints(h, g, n)
    PROVE  Kept(g, <<>>, w, a, p, k + n)
<1>1. PICK data \in Seq(Cmd) : Len(data) = n /\ n >= 1 /\ Pushed(g, h, Output(data))
  BY Zenon DEF Prints
<1>2. /\ g.in_buf = h.in_buf /\ g.in_overflow = h.in_overflow
      /\ g.client = h.client /\ Mine(g) /\ Mine(h)
      /\ Running(h) /\ Running(g)
  BY <1>1, Zenon DEF Prints, SameInput, Pushed
<1>3. h.ring \in Seq(Frame) /\ h.used \in Int
  BY Zenon DEF HostCmdState
<1>4. ~HasLine(<<>>)
  BY NoLines
<1>5. Held(g, <<>>)
  BY <1>2, Zenon DEF Held
<1>6. ReadsIdle(g, <<>>)
  BY <1>4, Zenon DEF ReadsIdle
<1>7. ASSUME h.client # None, p[h.client] # "closed"
      PROVE  DoneEnds(g.ring) /\ RoomLeft(g, k + n)
  <2>1. ~HasDone(h.ring)
    BY <1>2, <1>7, Zenon DEF Own, ClientOwn, Placed
  <2>2. DoneEnds(h.ring) /\ RoomLeft(h, k)
    BY <1>7, Zenon DEF Kept
  <2>3. h.used =< Notice.left + (HeaderLen + 1) * k
    BY <1>2, <2>1, <2>2 DEF RoomLeft
  <2>4. Output(data) \in Frame /\ Output(data).type # "D"
        /\ Output(data).left = HeaderLen + n
    <3>1. Output(data) \in Frame
      BY FrameTypes, Zenon
    <3>2. Output(data).type = "O" /\ Output(data).left = HeaderLen + n
      BY <1>1, Zenon DEF Output
    <3>3. QED  BY <3>1, <3>2
  <2>5. ~HasDone(g.ring)
    BY <1>1, <1>3, <2>1, <2>4, AppendDone, Zenon DEF Pushed
  <2>6. g.used = h.used \/ g.used = h.used + (HeaderLen + n)
    BY <1>1, <2>4, Zenon DEF Pushed
  <2>7. g.used =< Notice.left + (HeaderLen + 1) * (k + n)
    <3>1. /\ (HeaderLen + 1) * k + HeaderLen + n =< (HeaderLen + 1) * (k + n)
          /\ Notice.left \in Nat /\ (HeaderLen + 1) * k \in Nat
          /\ k + n \in Nat
      BY <1>1, Paces
    <3>2. (HeaderLen + 1) * (k + n) \in Nat
      BY <3>1, Paces
    <3> DEFINE u == (HeaderLen + 1) * k
               v == (HeaderLen + 1) * (k + n)
    <3> HIDE DEF u, v
    <3>3. u + HeaderLen + n =< v /\ u \in Nat /\ v \in Nat /\ h.used =< Notice.left + u
      BY <2>3, <3>1, <3>2 DEF u, v
    <3>4. g.used =< Notice.left + v
      BY <1>3, <2>6, <3>1, <3>3, SizeAssumption
    <3>5. QED  BY <3>4 DEF v
  <2>8. DoneEnds(g.ring)
    BY <2>5, Zenon DEF DoneEnds, HasDone
  <2>9. RoomLeft(g, k + n)
    BY <1>2, <2>7 DEF RoomLeft
  <2>10. QED  BY <2>8, <2>9
<1>8. QED
  BY <1>2, <1>5, <1>6, <1>7, Zenon DEF Kept

(* A done frame that finds room. *)
LEMMA DoneFits ==
    ASSUME NEW h \in HostCmdState, NEW g, NEW c, Pushed(g, h, Done(c)),
           h.client # None, h.used + HeaderLen + DoneLen < RingSize
    PROVE  g.ring = Append(h.ring, Done(c))
<1>1. h.used \in Int /\ Done(c).left = HeaderLen + DoneLen
  BY Zenon DEF HostCmdState, Done
<1>2. ~(Free(h) < Done(c).left)
  BY <1>1, SizeAssumption DEF Free
<1>3. QED  BY <1>2, Zenon DEF Pushed

LEMMA AnsweredKept ==
    ASSUME NEW h \in HostCmdState, NEW g, NEW r \in Seq(Frame), NEW w, NEW a, NEW p,
           NEW k, NEW k2, NEW x \in Cmd \union {None}, Kept(h, <<>>, w, a, p, k),
           SameInput(g, h), g.client = h.client,
           (h.client # None /\ p[h.client] # "closed")
              => ~HasDone(r) /\ g.ring = Append(r, Done(x))
    PROVE  Kept(g, <<>>, w, a, p, k2)
<1>1. ~HasLine(<<>>)
  BY NoLines
<1>2. ReadsIdle(g, <<>>) /\ g.in_overflow = h.in_overflow
  BY <1>1, Zenon DEF ReadsIdle, SameInput
<1>3. ASSUME h.client # None, p[h.client] # "closed"
      PROVE  DoneEnds(g.ring) /\ HasDone(g.ring)
  <2>1. Done(x) \in Frame /\ Done(x).type = "D"
    BY FrameTypes, FrameKinds, Zenon
  <2>2. ~HasDone(r) /\ g.ring = Append(r, Done(x))
    BY <1>3
  <2>3. HasDone(g.ring)
    BY <2>1, <2>2, AppendDone, Zenon
  <2>4. /\ Len(g.ring) = Len(r) + 1
        /\ \A i \in 1 .. Len(r) : g.ring[i] = r[i]
        /\ \A i \in 1 .. Len(g.ring) : i \in 1 .. Len(r) \/ i = Len(r) + 1
    <3>1. /\ Len(Append(r, Done(x))) = Len(r) + 1
          /\ \A i \in 1 .. Len(r) : Append(r, Done(x))[i] = r[i]
          /\ \A i \in 1 .. Len(Append(r, Done(x))) :
                i \in 1 .. Len(r) \/ i = Len(r) + 1
      BY <2>1, AppendFrame
    <3>2. QED  BY <2>2, <3>1, Zenon
  <2>5. DoneEnds(g.ring)
    BY <2>2, <2>4, Zenon DEF DoneEnds, HasDone
  <2>6. QED  BY <2>3, <2>5
<1>4. ASSUME NEW c \in Conn, p[c] # "closed", h.client = c
      PROVE  Held(g, <<>>)
  <2>1. c # None
    BY IdentityAssumption
  <2>2. QED  BY <1>3, <1>4, <2>1, Zenon DEF Held
<1>5. QED
  BY <1>2, <1>3, <1>4, Zenon DEF Kept, RoomLeft

LEMMA EndsKept ==
    ASSUME RoomForDone, NEW h \in HostCmdState, NEW g, NEW w, NEW a, NEW p,
           NEW k \in 0 .. MaxPrint, NEW k2, Own(h, <<>>, w, a, p),
           Kept(h, <<>>, w, a, p, k), Answers(h, g), MaxPrint \in Nat
    PROVE  Kept(g, <<>>, w, a, p, k2)
<1>1. /\ SameInput(g, h) /\ g.client = h.client /\ Mine(h)
      /\ Pushed(g, h, Done(h.cmd_line))
  BY Zenon DEF Answers, Pushed
<1>2. /\ h.ring \in Seq(Frame) /\ h.used \in Int
      /\ h.cmd_line \in Cmd \union {None}
  BY Zenon DEF HostCmdState
<1>3. ASSUME h.client # None, p[h.client] # "closed"
      PROVE  ~HasDone(h.ring) /\ g.ring = Append(h.ring, Done(h.cmd_line))
  <2>1. ~HasDone(h.ring)
    BY <1>1, <1>3, Zenon DEF Own, ClientOwn, Placed
  <2>2. RoomLeft(h, k)
    BY <1>3, Zenon DEF Kept
  <2>3. k \in Nat /\ k =< MaxPrint
    OBVIOUS
  <2>4. /\ Notice.left = HeaderLen + NoticeLen /\ Notice.left \in Nat
        /\ (HeaderLen + 1) * k =< (HeaderLen + 1) * MaxPrint
        /\ (HeaderLen + 1) * k \in Nat /\ (HeaderLen + 1) * MaxPrint \in Nat
    BY <2>3, Paces, ZenonT(40)
  <2>5. h.used =< Notice.left + (HeaderLen + 1) * k
    BY <1>2, <2>1, <2>2, <2>4 DEF RoomLeft
  <2>6. h.used + HeaderLen + DoneLen < RingSize
    <3> DEFINE u == (HeaderLen + 1) * k
               v == (HeaderLen + 1) * MaxPrint
    <3>1. HeaderLen + NoticeLen + v + HeaderLen + DoneLen < RingSize
      BY DEF RoomForDone
    <3> HIDE DEF u, v
    <3>2. u =< v /\ u \in Nat /\ v \in Nat /\ h.used =< Notice.left + u
      BY <2>4, <2>5 DEF u, v
    <3>3. Notice.left = HeaderLen + NoticeLen
      BY <2>4
    <3>4. QED  BY <1>2, <3>1, <3>2, <3>3, SizeAssumption
  <2>7. QED  BY <1>1, <1>3, <2>1, <2>6, DoneFits, Zenon
<1>4. QED  BY <1>1, <1>2, <1>3, AnsweredKept, Zenon

LEMMA GivesUpKept ==
    ASSUME RoomForDone, NEW h \in HostCmdState, NEW g, NEW w, NEW a, NEW p,
           NEW k, NEW k2, Own(h, <<>>, w, a, p), ~h.cmd_inflight,
           Kept(h, <<>>, w, a, p, k), GivesUp(h, g)
    PROVE  Kept(g, <<>>, w, a, p, k2)
<1>1. PICK m \in HostCmdState : /\ Pushed(m, h, Notice)
                                /\ Pushed(g, m, Done(h.cmd_line))
  BY Zenon DEF GivesUp
<1>2. SameInput(g, h) /\ g.client = h.client /\ m.client = h.client /\ Mine(h)
  BY <1>1, Zenon DEF GivesUp, Pushed
<1>3. /\ h.ring \in Seq(Frame) /\ m.ring \in Seq(Frame) /\ h.used \in Int
      /\ m.used \in Int /\ h.cmd_line \in Cmd \union {None}
  BY Zenon DEF HostCmdState
<1>4. ASSUME h.client # None, p[h.client] # "closed"
      PROVE  ~HasDone(m.ring) /\ g.ring = Append(m.ring, Done(h.cmd_line))
  <2>1. ~HasDone(h.ring)
    BY <1>2, <1>4, Zenon DEF Own, ClientOwn, Placed
  <2>2. Notice \in Frame /\ Notice.type = "X"
    BY FrameTypes, FrameKinds, Zenon
  <2>3. Notice.type # "D"
    BY <2>2
  <2>4. ~HasDone(m.ring)
    BY <1>1, <1>3, <2>1, <2>2, <2>3, AppendDone, Zenon DEF Pushed
  <2>5. Notice.left = HeaderLen + NoticeLen /\ Notice.left \in Nat
    BY Paces
  <2>6. h.used =< Notice.left
    <3>1. ~Running(h) /\ RoomLeft(h, k)
      BY <1>4, Zenon DEF Running, Kept
    <3>2. QED  BY <2>1, <2>5, <3>1, <1>3 DEF RoomLeft
  <2>7. m.used = h.used \/ m.used = h.used + Notice.left
    BY <1>1, Zenon DEF Pushed
  <2>8. m.used + HeaderLen + DoneLen < RingSize
    <3>1. 2 * (HeaderLen + NoticeLen) + HeaderLen + DoneLen < RingSize
      BY DEF RoomForDone
    <3>2. QED  BY <1>3, <2>5, <2>6, <2>7, <3>1, SizeAssumption
  <2>9. QED  BY <1>1, <1>2, <1>4, <2>4, <2>8, DoneFits, Zenon
<1>5. QED  BY <1>2, <1>3, <1>4, AnsweredKept, Zenon

LEMMA ExpireKept ==
    ASSUME RoomForDone, NEW h \in HostCmdState, NEW w, NEW a, NEW p, NEW k \in Nat,
           Own(h, <<>>, w, a, p), Kept(h, <<>>, w, a, p, k)
    PROVE  Kept(Expire(h), <<>>, w, a, p, k)
<1>1. k =< k
  OBVIOUS
<1>2. Quiet(h, Expire(h)) \/ (~h.cmd_inflight /\ GivesUp(h, Expire(h)))
  BY ExpireClient, Zenon
<1>3. QED  BY <1>1, <1>2, QuietKept, GivesUpKept, Zenon

(* hc_drop_client, for a client that has gone. *)
LEMMA DropKept ==
    ASSUME NEW h \in HostCmdState, NEW w, NEW a, NEW p, NEW k, NEW t,
           Kept(h, t, w, a, p, k), p[h.client] = "closed"
    PROVE  Kept(DropClient(h), t, w, a, p, k)
<1> DEFINE g == DropClient(h)
           e == [h EXCEPT !.client = None, !.in_buf = None,
                          !.in_overflow = FALSE, !.ring = <<>>, !.used = 0,
                          !.cmd_pending = FALSE]
<1>1. e.client = None /\ e.in_overflow = FALSE
  BY Zenon DEF HostCmdState
<1>2. Orphan(e).client = e.client /\ Orphan(e).in_overflow = e.in_overflow
  <2>1. "client" \in DOMAIN e /\ "in_overflow" \in DOMAIN e
    BY Zenon DEF HostCmdState
  <2> HIDE DEF e
  <2>2. QED  BY <2>1, Zenon DEF Orphan
<1>3. g.client = None /\ g.in_overflow = FALSE
  BY <1>1, <1>2, Zenon DEF DropClient
<1>4. QED  BY <1>3, Zenon DEF Kept

LEMMA AcceptKept ==
    ASSUME NEW h \in HostCmdState, NEW c \in Conn, NEW w, NEW a, NEW p, NEW k \in Nat,
           Kept(h, <<>>, w, a, p, k), h.client = None
    PROVE  Kept(AcceptClient(h, c), <<>>, w, a, p, k)
<1> DEFINE g == AcceptClient(h, c)
<1>1. /\ g.client = c /\ ~g.in_overflow
      /\ \/ g.ring = <<>> /\ g.used = 0
         \/ g.ring = <<Notice>> /\ g.used = Notice.left
  BY AcceptFields, Zenon
<1> HIDE DEF g
<1>2. ~HasDone(g.ring)
  BY <1>1, NoLines, Zenon
<1>3. DoneEnds(g.ring) /\ ReadsIdle(g, <<>>)
  BY <1>2, NoLines, Zenon DEF DoneEnds, HasDone, ReadsIdle
<1>4. RoomLeft(g, k)
  <2>1. Notice.left \in Nat /\ (HeaderLen + 1) * k \in Nat
    BY Paces
  <2>2. QED  BY <1>1, <2>1 DEF RoomLeft
<1>5. \A d \in Conn : h.client # d
  BY IdentityAssumption
<1>6. Kept(g, <<>>, w, a, p, k)
  BY <1>1, <1>3, <1>4, <1>5, Zenon DEF Kept
<1>7. QED  BY <1>6, Zenon DEF g

(* recv, by an idle channel. *)
LEMMA RecvKept ==
    ASSUME NEW h \in HostCmdState, NEW w \in [Conn -> Text], NEW a, NEW p, NEW k,
           NEW v, NEW s,
           Kept(h, <<>>, w, a, p, k), WiresOwn(w, a, p), h.client # None, ~Busy(h),
           NEW n \in 1 .. Len(w[h.client]), s = SubSeq(w[h.client], 1, n),
           v = [w EXCEPT ![h.client] = SubSeq(@, n + 1, Len(@))]
    PROVE  Kept(h, s, v, a, p, k)
<1> DEFINE c == h.client
           r == SubSeq(w[c], n + 1, Len(w[c]))
<1>1. c \in Conn /\ w[c] \in Text
  BY Zenon DEF HostCmdState
<1>2. v[c] = r /\ \A d \in Conn : d # c => v[d] = w[d]
  BY <1>1, Zenon
<1>3. p[c] # "closed" /\ HasLine(w[c]) => HasLine(s) \/ HasLine(r)
  <2> SUFFICES ASSUME p[c] # "closed", HasLine(w[c]) PROVE HasLine(s) \/ HasLine(r)
    OBVIOUS
  <2>1. OneLine(w[c])
    BY <1>1, Zenon DEF WiresOwn
  <2>2. QED  BY <1>1, <2>1, TakeLines, Zenon
<1>4. ReadsIdle(h, s)
  BY Zenon DEF ReadsIdle
<1> HIDE DEF r
<1>5. ~HasLine(<<>>)
  BY NoLines
<1>6. Held(h, <<>>) => Held(h, s)
  BY <1>5, Zenon DEF Held
<1>7. HasLine(s) => Held(h, s)
  BY Zenon DEF Held
<1>8. ASSUME NEW d \in Conn, p[d] # "closed", a[d] # None
      PROVE  HasLine(v[d]) \/ (h.client = d /\ Held(h, s))
  <2>1. HasLine(w[d]) \/ (h.client = d /\ Held(h, <<>>))
    BY <1>8, Zenon DEF Kept
  <2>2. CASE d # c
    BY <1>2, <2>1, <2>2, Zenon
  <2>3. CASE d = c
    BY <1>2, <1>3, <1>6, <1>7, <1>8, <2>1, <2>3, Zenon
  <2>4. QED  BY <2>2, <2>3
<1>9. QED  BY <1>4, <1>8, Zenon DEF Kept

(* The read loop: with nothing queued, a line is kept or queued. *)
LEMMA ReadItemKept ==
    ASSUME LongCmd = {}, NEW h \in HostCmdState, NEW t \in Text, t # <<>>, NEW w, NEW a,
           NEW p, NEW k \in Nat, Own(h, t, w, a, p), Kept(h, t, w, a, p, k),
           h.internal_active => Busy(h)
    PROVE  Kept(ReadItem(h, Head(t)), Tail(t), w, a, p, k)
<1> DEFINE b == Head(t)
           g == ReadItem(h, b)
           s == Tail(t)
<1>1. \/ Skips(h, b, g) \/ Holds(h, b, g) \/ Queues(h, b, g)
  BY ReadItemClient, Zenon
<1>2. Own(g, s, w, a, p)
  BY ReadItemOwn, Zenon
<1>3. h.client # None /\ ~h.in_overflow /\ b \notin LongCmd
  BY Zenon DEF Own, Kept
<1>4. b \in Cmd \union {NL} /\ NL \notin Cmd /\ None \notin Cmd
  BY IdentityAssumption DEF Text
<1>5. ~g.in_overflow /\ g.client = h.client
  <2>1. ~g.in_overflow
    BY <1>1, <1>3, Zenon DEF Skips, Holds, Queues
  <2>2. g.client = h.client
    BY <1>1, Zenon DEF Skips, Holds, Queues, SameLine, SameRing, Pushed
  <2>3. QED  BY <2>1, <2>2
<1>6. CASE p[h.client] = "closed"
  <2>1. \A c \in Conn : p[c] # "closed" => h.client # c
    BY <1>6, Zenon
  <2>2. QED  BY <1>5, <1>6, <2>1, Zenon DEF Kept
<1>7. CASE p[h.client] # "closed"
  <2>1. DoneEnds(h.ring) /\ RoomLeft(h, k) /\ ReadsIdle(h, t) /\ OneLine(t)
    BY <1>3, <1>7, Zenon DEF Kept, Own, ClientOwn, Placed
  <2>2. /\ HasLine(s) => HasLine(t)
        /\ b \in Cmd => HasLine(t)
        /\ HasLine(t) => b \in Cmd \/ HasLine(s)
    BY <2>1, TailLines, Zenon
  <2>3. SameRing(g, h)
    <3>1. ~(b = NL /\ h.in_buf # None /\ Busy(h))
      BY <2>1, Zenon DEF ReadsIdle
    <3>2. QED  BY <1>1, <1>3, <3>1, Zenon DEF Skips, Holds, Queues
  <2>4. Running(h) => Running(g)
    BY <1>1, Zenon DEF Skips, Holds, Queues, SameLine, Running, Busy
  <2>5. DoneEnds(g.ring) /\ RoomLeft(g, k)
    <3>1. k =< k
      OBVIOUS
    <3>2. QED  BY <2>1, <2>3, <2>4, <3>1, RoomSame, Zenon DEF SameRing
  <2>6. ReadsIdle(g, s) /\ (Held(h, t) => Held(g, s))
    <3>1. CASE b = NL /\ h.in_buf = None /\ SameLine(g, h) /\ g.in_buf = None
      <4>1. ReadsIdle(g, s)
        BY <2>1, <2>2, <3>1, Zenon DEF ReadsIdle, SameLine
      <4>2. Held(h, t) => Held(g, s)
        BY <1>4, <2>2, <2>3, <3>1, Zenon DEF Held, SameLine, SameRing
      <4>3. QED  BY <4>1, <4>2
    <3>2. CASE Holds(h, b, g)
      <4>1. b \in Cmd /\ g.in_buf # None /\ ~Busy(g)
        <5>1. b \in Cmd
          BY <1>4, <3>2, Zenon DEF Holds
        <5>2. QED  BY <1>4, <2>1, <2>2, <3>2, <5>1, Zenon DEF Holds, ReadsIdle, SameLine
      <4>2. QED  BY <4>1, Zenon DEF ReadsIdle, Held
    <3>3. CASE Queues(h, b, g)
      <4>1. Mine(g) /\ g.in_buf = None
        BY <3>3, Zenon DEF Queues, Mine, Busy
      <4>2. ~HasLine(s)
        BY <1>2, <1>3, <1>5, <1>7, <4>1, Zenon DEF Own, ClientOwn, Placed
      <4>3. QED  BY <4>1, <4>2, Zenon DEF ReadsIdle, Held
    <3>4. CASE Skips(h, b, g)
      <4>1. b = NL /\ h.in_buf = None
        BY <1>3, <2>1, <3>4, Zenon DEF Skips, ReadsIdle
      <4>2. SameLine(g, h) /\ g.in_buf = None
        BY <3>4, <4>1, Zenon DEF Skips
      <4>3. QED  BY <3>1, <4>1, <4>2
    <3>5. QED  BY <1>1, <3>2, <3>3, <3>4
  <2>7. QED  BY <1>5, <2>5, <2>6, Zenon DEF Kept
<1>8. QED  BY <1>6, <1>7

=============================================================================
