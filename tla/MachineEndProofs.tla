-------------------------- MODULE MachineEndProofs --------------------------
(* What a machine offers its Manager and its own window: the queue of commands   *)
(* to the emulator thread (EmulatorHost), at any length; the framebuffer, which  *)
(* implements LatestFrame (SharedFramebuffer), for any sizes, any slot height    *)
(* and any ranges of rows that the drawing reports; and the pool of frames       *)
(* posted to the window, which implements FrameStream (FramePool), for any       *)
(* number of buffers.                                                            *)
EXTENDS EmulatorHost, SharedFramebuffer, FramePool, TLAPS

(* What appending does to a sequence. *)
LEMMA AppendFacts ==
    ASSUME NEW S, NEW s \in Seq(S), NEW e \in S
    PROVE  /\ Append(s, e) \in Seq(S) /\ Len(Append(s, e)) = Len(s) + 1 /\ Len(s) \in Nat
           /\ \A i \in 1 .. Len(s) : Append(s, e)[i] = s[i]
           /\ Append(s, e)[Len(s) + 1] = e
  OBVIOUS

(* Sequences with the same entries are the same. *)
LEMMA SameSequence ==
    ASSUME NEW S, NEW s \in Seq(S), NEW t \in Seq(S), Len(s) = Len(t),
           \A i \in 1 .. Len(s) : s[i] = t[i]
    PROVE  s = t
  OBVIOUS

(* The front of a sequence, element by element. *)
LEMMA FrontOfSequence ==
    ASSUME NEW S, NEW s \in Seq(S), NEW k \in Nat, k <= Len(s)
    PROVE  /\ SubSeq(s, 1, k) \in Seq(S) /\ Len(SubSeq(s, 1, k)) = k
           /\ \A n \in 1 .. k : SubSeq(s, 1, k)[n] = s[n]
  OBVIOUS

-----------------------------------------------------------------------------
(* The queue of commands *)

USE HostAssumption

CommandsOK ==
    /\ commands \in Seq(HostCommand) /\ Len(commands) <= CommandMax
    /\ g_commands_pending \in BOOLEAN
    /\ posting \in [Poster -> HostCommand \cup {NoCommand}]

EmuOK ==
    /\ emu \in [at : {"loop", "swap", "handle", "run", "idle", "fatal", "wake", "spin",
                      "sound_close", "sound_join", "closevideo", "video_join", "ended"},
                taken : Seq(HostCommand)]
    /\ emu.taken # <<>> => emu.at \in {"handle", "wake", "spin"}

HostInv == CommandsOK /\ EmuOK /\ QueuedIsSignalled /\ state_ready \in BOOLEAN

(* A request that the emulator thread has yet to handle. *)
Asked(q) == \E i \in 1 .. Len(q) : q[i] = "ask"

(* A GUI thread that waits for an answer, or is about to, has one to wait     *)
(* for: its request is in the queue or with the emulator thread, or has been  *)
(* answered; and it goes to sleep only if it has not.                         *)
AnswerIsOnItsWay ==
    /\ gui_thread \in {"ask", "test", "commit", "asleep"} =>
         state_ready \/ Asked(commands) \/ Asked(emu.taken)
    /\ gui_thread \in {"commit", "asleep"} => ~state_ready

LEMMA HostStart == EmuHostInit => HostInv /\ AnswerIsOnItsWay
<1> SUFFICES ASSUME EmuHostInit PROVE HostInv /\ AnswerIsOnItsWay
  OBVIOUS
<1>1. CommandsOK
  <2>1. commands = <<>> /\ commands \in Seq(HostCommand) /\ Len(commands) = 0
    BY DEF EmuHostInit
  <2>2. posting \in [Poster -> HostCommand \cup {NoCommand}] /\ g_commands_pending \in BOOLEAN
    BY ZenonT(40) DEF EmuHostInit
  <2>3. QED
    BY <2>1, <2>2 DEF CommandsOK
<1>2. EmuOK
  BY DEF EmuHostInit, EmuOK
<1>3. QED
  BY <1>1, <1>2, ZenonT(40) DEF EmuHostInit, HostInv, QueuedIsSignalled, AnswerIsOnItsWay

(* A command is queued. *)
LEMMA PushKeeps ==
    ASSUME HostInv, NEW p \in Poster, NEW c \in HostCommand, Push(p, c),
           UNCHANGED <<g_commands_pending, emu>>, state_ready' \in BOOLEAN
    PROVE  HostInv' /\ (Asked(commands) => Asked(commands')) /\ (c = "ask" => Asked(commands'))
<1>1. /\ commands \in Seq(HostCommand) /\ Len(commands) \in Nat /\ Len(commands) < CommandMax
      /\ commands' = Append(commands, c)
  BY SMTT(30) DEF HostInv, CommandsOK, Push
<1>2. /\ commands' \in Seq(HostCommand) /\ Len(commands') = Len(commands) + 1
      /\ commands'[Len(commands) + 1] = c
      /\ \A i \in 1 .. Len(commands) : commands'[i] = commands[i]
  BY <1>1, AppendFacts
<1>3. posting' \in [Poster -> HostCommand \cup {NoCommand}] /\ posting'[p] # NoCommand
  BY DEF HostInv, CommandsOK, Push, HostCommand, NoCommand
<1>4. CommandsOK'
  BY <1>1, <1>2, <1>3 DEF HostInv, CommandsOK
<1>5. EmuOK' /\ QueuedIsSignalled'
  BY <1>3 DEF HostInv, EmuOK, QueuedIsSignalled
<1>6. (Asked(commands) => Asked(commands')) /\ (c = "ask" => Asked(commands'))
  BY <1>1, <1>2, SMTT(30) DEF Asked
<1>7. QED
  BY <1>4, <1>5, <1>6 DEF HostInv

(* A step that neither posts nor is of the emulator thread. *)
LEMMA QueueAlone ==
    ASSUME HostInv, UNCHANGED <<commands, g_commands_pending, posting, emu>>, state_ready' \in BOOLEAN
    PROVE  HostInv'
  BY SMTT(30) DEF HostInv, CommandsOK, EmuOK, QueuedIsSignalled

LEMMA HostStep == HostInv /\ AnswerIsOnItsWay /\ [HostNext]_emuVars => HostInv' /\ AnswerIsOnItsWay'
<1> SUFFICES ASSUME HostInv, AnswerIsOnItsWay, [HostNext]_emuVars
             PROVE  HostInv' /\ AnswerIsOnItsWay'
  OBVIOUS
<1>t. /\ commands \in Seq(HostCommand) /\ emu.taken \in Seq(HostCommand) /\ state_ready \in BOOLEAN
      /\ posting \in [Poster -> HostCommand \cup {NoCommand}]
  BY DEF HostInv, CommandsOK, EmuOK
<1>1. ASSUME NEW p \in Poster, SetPending(p) PROVE HostInv' /\ AnswerIsOnItsWay'
  <2>1. posting' \in [Poster -> HostCommand \cup {NoCommand}]
    BY <1>1, <1>t DEF SetPending
  <2>2. HostInv'
    BY <1>1, <2>1 DEF SetPending, HostInv, CommandsOK, EmuOK, QueuedIsSignalled
  <2>3. AnswerIsOnItsWay'
    BY <1>1 DEF SetPending, AnswerIsOnItsWay, Asked
  <2>4. QED
    BY <2>2, <2>3
<1>2. ASSUME NEW p \in Poster, NEW c \in HostCommand, PostPlain(p, c) PROVE HostInv' /\ AnswerIsOnItsWay'
  <2>1. HostInv' /\ (Asked(commands) => Asked(commands'))
    BY <1>2, <1>t, PushKeeps DEF PostPlain
  <2>2. QED
    BY <1>2, <2>1 DEF PostPlain, AnswerIsOnItsWay
<1>3. CASE Request
  <2>1. "gui" \in Poster /\ "ask" \in HostCommand
    BY DEF Poster, HostCommand
  <2>2. HostInv' /\ Asked(commands')
    BY <1>3, <2>1, PushKeeps, ZenonT(40) DEF Request
  <2>3. QED
    BY <1>3, <2>2 DEF Request, AnswerIsOnItsWay
<1>4. CASE PostExit
  <2>1. "gui" \in Poster /\ "exit" \in HostCommand
    BY DEF Poster, HostCommand
  <2>2. HostInv'
    BY <1>4, <1>t, <2>1, PushKeeps DEF PostExit
  <2>3. QED
    BY <1>4, <2>2 DEF PostExit, AnswerIsOnItsWay
<1>5. CASE GuiWaits \/ GuiStops \/ \E t \in {"sound", "video"} : ThreadLoop(t)
  <2>1. UNCHANGED <<commands, g_commands_pending, posting, emu, state_ready>>
    BY <1>5 DEF GuiWaits, GuiStops, TestAnswer, FallAsleep, StopQuited, StopSound, StopVideo, Join, ProcessEnds,
                ThreadLoop
  <2>2. HostInv'
    BY <1>t, <2>1, QueueAlone, SMTT(30)
  <2>3. AnswerIsOnItsWay'
    BY <1>5, <2>1, SMTT(30) DEF GuiWaits, GuiStops, TestAnswer, FallAsleep, StopQuited, StopSound, StopVideo, Join,
                      ProcessEnds, ThreadLoop, AnswerIsOnItsWay, Asked
  <2>4. QED
    BY <2>2, <2>3, SMTT(30)
<1>6. CASE LoopTop
  <2>1. HostInv'
    BY <1>6, ZenonT(40) DEF LoopTop, EmuAt, HostInv, CommandsOK, EmuOK, QueuedIsSignalled
  <2>2. emu'.taken = emu.taken
    BY <1>6 DEF LoopTop, EmuAt, HostInv, EmuOK
  <2>3. QED
    BY <1>6, <2>1, <2>2, ZenonT(40) DEF LoopTop, AnswerIsOnItsWay, Asked
<1>7. CASE SwapCommands
  <2>1. commands' = <<>> /\ emu' = [at |-> "handle", taken |-> commands] /\ emu.taken = <<>>
        /\ UNCHANGED <<g_commands_pending, posting, gui_thread, state_ready>>
    BY <1>7, SMTT(30) DEF SwapCommands, HostInv, EmuOK
  <2>2. HostInv'
    BY <1>t, <2>1 DEF HostInv, CommandsOK, EmuOK, QueuedIsSignalled
  <2>3. ~Asked(emu.taken) /\ emu'.taken = commands
    BY <2>1 DEF Asked
  <2>4. QED
    BY <2>1, <2>2, <2>3, ZenonT(40) DEF AnswerIsOnItsWay
<1>8. CASE HandleCommand
  <2>1. /\ emu.taken # <<>> /\ emu.at = "handle" /\ emu' = [emu EXCEPT !.taken = Tail(emu.taken)]
        /\ UNCHANGED <<commands, g_commands_pending, posting>>
    BY <1>8 DEF HandleCommand
  <2>2. /\ Tail(emu.taken) \in Seq(HostCommand) /\ Len(emu.taken) \in Nat /\ Len(emu.taken) >= 1
        /\ Len(Tail(emu.taken)) = Len(emu.taken) - 1 /\ Head(emu.taken) = emu.taken[1]
        /\ \A i \in 1 .. Len(emu.taken) - 1 : Tail(emu.taken)[i] = emu.taken[i + 1]
    BY <1>t, <2>1
  <2>3. emu'.taken = Tail(emu.taken) /\ emu'.at = "handle"
    BY <2>1 DEF HostInv, EmuOK
  <2>4. state_ready' \in BOOLEAN
    BY <1>8, <1>t DEF HandleCommand
  <2>5. EmuOK'
    BY <2>1, <2>2, <2>3, ZenonT(40) DEF HostInv, EmuOK
  <2>6. HostInv'
    BY <2>1, <2>3, <2>4, <2>5 DEF HostInv, CommandsOK, QueuedIsSignalled
  <2>7. CASE Head(emu.taken) = "ask"
    BY <1>8, <2>6, <2>7, ZenonT(40) DEF HandleCommand, Notified, AnswerIsOnItsWay
  <2>8. CASE Head(emu.taken) # "ask"
    <3>1. Asked(emu.taken) => Asked(emu'.taken)
      <4>1. ASSUME NEW i \in 1 .. Len(emu.taken), emu.taken[i] = "ask"
            PROVE  i - 1 \in 1 .. Len(emu'.taken) /\ emu'.taken[i - 1] = "ask"
        BY <2>2, <2>3, <2>8, <4>1
      <4>2. QED
        BY <4>1 DEF Asked
    <3>2. UNCHANGED <<gui_thread, commands, state_ready>>
      BY <1>8, <1>t, <2>8 DEF HandleCommand
    <3>3. QED
      BY <2>6, <3>1, <3>2, SMTT(30) DEF AnswerIsOnItsWay
  <2>9. QED
    BY <2>7, <2>8
<1>9. CASE Drained \/ LeaveIdle \/ Interrupt \/ endrpcemu \/ GoesIdle \/ BudgetSpent
  <2>1. /\ UNCHANGED <<commands, g_commands_pending, posting, gui_thread, state_ready>>
        /\ emu.at \notin {"swap", "wake", "spin"} /\ emu.taken = <<>>
        /\ \E there \in {"loop", "run", "idle", "sound_join", "closevideo", "video_join", "ended"} : EmuAt(there)
    BY <1>9 DEF Drained, LeaveIdle, Interrupt, endrpcemu, EndThread, GoesIdle, BudgetSpent, RunGuest, HostInv, EmuOK
  <2>2. emu'.taken = emu.taken
    BY <2>1 DEF EmuAt, HostInv, EmuOK
  <2>3. HostInv'
    BY <1>t, <2>1, <2>2, SMTT(30) DEF EmuAt, HostInv, CommandsOK, EmuOK, QueuedIsSignalled
  <2>4. QED
    BY <2>1, <2>2, <2>3, SMTT(30) DEF AnswerIsOnItsWay, Asked
<1>10. CASE Fatal
  <2>1. /\ UNCHANGED <<commands, g_commands_pending, posting, state_ready>>
        /\ emu.at # "swap" /\ (EmuAt("wake") \/ EmuAt("spin")) /\ gui_thread' \in {gui_thread, Notified}
    BY <1>10, ZenonT(40) DEF Fatal
  <2>2. emu'.taken = emu.taken
    BY <2>1 DEF EmuAt, HostInv, EmuOK
  <2>3. HostInv'
    BY <1>t, <2>1, <2>2, SMTT(30) DEF EmuAt, HostInv, CommandsOK, EmuOK, QueuedIsSignalled
  <2>4. QED
    BY <2>1, <2>2, <2>3, SMTT(30) DEF AnswerIsOnItsWay, Asked, Notified
<1>11. CASE UNCHANGED emuVars
  BY <1>11 DEF emuVars, HostInv, CommandsOK, EmuOK, QueuedIsSignalled, AnswerIsOnItsWay, Asked
<1>12. QED
  BY <1>1, <1>2, <1>3, <1>4, <1>5, <1>6, <1>7, <1>8, <1>9, <1>10, <1>11 DEF HostNext, EmuThread

(* PostCommand and DrainCommands never leave a command behind a lowered flag, *)
(* whichever threads post and in whatever order: a queue that is not empty    *)
(* has been announced, is about to be, or is about to be taken.               *)
THEOREM CommandIsSignalled == HostSpec => []QueuedIsSignalled
<1>1. HostInv => QueuedIsSignalled
  BY ZenonT(20) DEF HostInv
<1>2. QED
  BY HostStart, HostStep, <1>1, PTL DEF HostSpec

(* No answer is lost: a GUI thread in the wait of TakeSnapshot, SaveState or  *)
(* LoadState has a request queued, in hand or answered, and is never asleep   *)
(* on an answer that was given before it slept.                               *)
THEOREM NoAnswerIsLost == HostSpec => []AnswerIsOnItsWay
  BY HostStart, HostStep, PTL DEF HostSpec

-----------------------------------------------------------------------------
(* The shared framebuffer *)

HIDE HostAssumption

Pixel == Row \cup {BlankRow}

(* What slot i holds, where the writer does not owe it anything: the rows of  *)
(* the emulator's bitmap, at the size of the last publication.                *)
Holds(i) ==
    ~stale[i].all =>
      /\ screen # NoFrame /\ slot_size[i] = write_size
      /\ stale[i].top \in 0 .. write_size.h /\ stale[i].bottom \in 0 .. write_size.h
      /\ \A r \in Rows(write_size.h) :
           r < stale[i].top \/ r >= stale[i].bottom => slot[i][r] = screen.px[r]

ShapeOK ==
    /\ screen \in Screen \cup {NoFrame}
    /\ slot \in [Slot -> [Rows(kMaxHeight) -> Pixel]]
    /\ slot_size \in [Slot -> StoredSize \cup {NoSize}]
    /\ front_slot \in Slot /\ prev_slot \in Slot \ {front_slot}
    /\ stale \in [Slot -> [all : BOOLEAN, top : Int, bottom : Int]]
    /\ write_size = IF screen = NoFrame THEN NoSize ELSE Stored(screen.size)
    /\ publish \in Slot \cup {NoFrame}

(* Between publications the front slot is up to date; during one, the slot    *)
(* that is being published is, and it is neither of the two in use.           *)
WriterOK ==
    /\ \A i \in Slot : Holds(i)
    /\ screen = NoFrame => \A i \in Slot : slot_size[i] = NoSize
    /\ publish = NoFrame /\ screen # NoFrame => stale[front_slot] = UpToDate
    /\ publish # NoFrame => /\ screen # NoFrame /\ publish \notin {front_slot, prev_slot}
                            /\ stale[publish] = UpToDate

(* What slot i would be read as. *)
Held(i) == IF slot_size[i].h = 0 THEN NoFrame ELSE Picture(slot_size[i], slot[i])

Reading == [step : {"idle", "size", "copy"}, slot : Slot, size : StoredSize \cup {NoSize}, px : Seq(Pixel)]

(* A reading is about the slot it loaded, which stays as it was until a third *)
(* publication begins, and has copied its first rows.                         *)
ReaderOK ==
    /\ read \in Reading /\ passed \in 0 .. 3
    /\ read.step = "idle" => passed = 0
    /\ read.step = "size" => read.px = <<>>
    /\ read.step = "copy" => read.size \in StoredSize /\ Len(read.px) < read.size.h
    /\ read.step # "idle" /\ passed < 3 =>
         /\ owed = Held(read.slot)
         /\ passed = 0 => read.slot = front_slot
         /\ passed = 1 => read.slot = prev_slot
         /\ passed = 2 => publish = NoFrame
         /\ read.step = "copy" => /\ read.size = slot_size[read.slot]
                                  /\ \A k \in 1 .. Len(read.px) : read.px[k] = slot[read.slot][k - 1]

FbInv == ShapeOK /\ WriterOK /\ ReaderOK

----------------------------------------------------------------------------
USE SizeAssumption, NoFrameAssumption

LEMMA StoredFacts ==
    ASSUME NEW s \in GuestSize
    PROVE  /\ Stored(s) \in StoredSize
           /\ Stored(s).h \in 1 .. kMaxHeight /\ Stored(s).h <= s.h /\ Stored(s).w \in 1 .. kMaxWidth
           /\ s.h \in Nat
  BY DEF StoredSize, Stored, Lesser

LEMMA StoredSizes ==
    ASSUME NEW s \in StoredSize
    PROVE  s.h \in 1 .. kMaxHeight /\ s.w \in 1 .. kMaxWidth
<1>1. PICK g \in GuestSize : s = Stored(g)
  BY DEF StoredSize
<1>2. QED
  BY <1>1, StoredFacts

LEMMA SizeOfNone == NoSize.h = 0 /\ NoSize.w = 0 /\ NoSize \notin StoredSize
<1>1. NoSize.h = 0 /\ NoSize.w = 0
  BY DEF NoSize
<1>2. QED
  BY <1>1, StoredSizes

LEMMA ScreenFacts ==
    ASSUME NEW f \in Screen
    PROVE  f.size \in GuestSize /\ f.px \in [Rows(f.size.h) -> Row] /\ f # NoFrame
  BY DEF Screen

LEMMA PictureIsFrame ==
    ASSUME NEW s \in StoredSize, NEW px, \A r \in Rows(s.h) : px[r] \in Pixel
    PROVE  Picture(s, px) \in Frame
<1>1. [r \in Rows(s.h) |-> px[r]] \in [Rows(s.h) -> Pixel]
  OBVIOUS
<1>2. Picture(s, px) \in [size : {s}, px : [Rows(s.h) -> Pixel]]
  BY <1>1, SMTT(30) DEF Picture
<1>3. QED
  BY <1>2 DEF Frame, Pixel

LEMMA HeldIsFrame ==
    ASSUME ShapeOK, NEW i \in Slot
    PROVE  /\ Held(i) \in Frame \cup {NoFrame}
           /\ slot_size[i] \in StoredSize => Held(i) = Picture(slot_size[i], slot[i]) /\ Held(i) \in Frame
           /\ slot_size[i].h = 0 \/ slot_size[i].w = 0 => Held(i) = NoFrame
<1>1. slot_size[i] \in StoredSize \cup {NoSize} /\ slot[i] \in [Rows(kMaxHeight) -> Pixel]
  BY ZenonT(20) DEF ShapeOK
<1>2. CASE slot_size[i] = NoSize
  BY <1>2, SizeOfNone DEF Held
<1>3. CASE slot_size[i] \in StoredSize
  <2>1. slot_size[i].h \in 1 .. kMaxHeight /\ slot_size[i].w \in 1 .. kMaxWidth
    BY <1>3, StoredSizes
  <2>2. \A r \in Rows(slot_size[i].h) : slot[i][r] \in Pixel
    BY <1>1, <2>1 DEF Rows
  <2>3. Picture(slot_size[i], slot[i]) \in Frame
    BY <1>3, <2>2, PictureIsFrame
  <2>4. Held(i) = Picture(slot_size[i], slot[i])
    BY <2>1 DEF Held
  <2>5. QED
    BY <1>3, <2>1, <2>3, <2>4
<1>4. QED
  BY <1>1, <1>2, <1>3, ZenonT(20)

(* Between publications the front slot holds the last frame handed over. *)
LEMMA NewestIsHandedOver ==
    ASSUME FbInv
    PROVE  HandedOver = Newest /\ Newest = Held(front_slot)
<1>1. Newest = Held(front_slot)
  BY ZenonT(20) DEF Newest, Held
<1>2. CASE publish = NoFrame /\ screen # NoFrame
  <2>1. stale[front_slot] = UpToDate /\ Holds(front_slot) /\ front_slot \in Slot
    BY <1>2 DEF FbInv, WriterOK, ShapeOK
  <2>2. ~stale[front_slot].all /\ stale[front_slot].top = 0 /\ stale[front_slot].bottom = 0
    BY <2>1 DEF UpToDate
  <2>3. /\ slot_size[front_slot] = write_size /\ write_size = Stored(screen.size)
        /\ \A r \in Rows(write_size.h) : slot[front_slot][r] = screen.px[r]
    BY <1>2, <2>1, <2>2 DEF Holds, FbInv, ShapeOK, Rows
  <2>4. screen.size \in GuestSize
    BY <1>2, ScreenFacts DEF FbInv, ShapeOK
  <2>5. write_size.h # 0
    BY <2>3, <2>4, StoredFacts, SMTT(30)
  <2>6. Picture(write_size, slot[front_slot]) = Picture(write_size, screen.px)
    BY <2>3 DEF Picture
  <2>7. QED
    BY <1>1, <1>2, <2>3, <2>5, <2>6, ZenonT(20) DEF HandedOver, Held
<1>3. CASE ~(publish = NoFrame /\ screen # NoFrame)
  BY <1>1, <1>3 DEF HandedOver
<1>4. QED
  BY <1>2, <1>3

----------------------------------------------------------------------------
(* What is outside the range that joins two is outside both. *)
LEMMA MergedCovers ==
    ASSUME NEW s \in [all : BOOLEAN, top : Int, bottom : Int], NEW top \in Int, NEW bottom \in Int, NEW r \in Int,
           r < Merged(s, top, bottom).top \/ r >= Merged(s, top, bottom).bottom
    PROVE  (r < top \/ r >= bottom) /\ (r < s.top \/ r >= s.bottom)
  BY DEF Merged, Lesser, Greater

LEMMA MergedFacts ==
    ASSUME NEW s \in [all : BOOLEAN, top : Int, bottom : Int], NEW top \in Int, NEW bottom \in Int
    PROVE  /\ Merged(s, top, bottom) \in [all : BOOLEAN, top : Int, bottom : Int]
           /\ Merged(s, top, bottom).all = s.all
           /\ \A h \in Nat : top \in 0 .. h /\ bottom \in 0 .. h /\ s.top \in 0 .. h /\ s.bottom \in 0 .. h
                => Merged(s, top, bottom).top \in 0 .. h /\ Merged(s, top, bottom).bottom \in 0 .. h
  BY ZenonT(40) DEF Merged, Lesser, Greater

(* The rows that Publish takes as changed. *)
Whole(d) == d[1] < 0 \/ d[2] <= d[1]
Top(d, h) == IF Whole(d) THEN 0 ELSE Lesser(d[1], h)
Bottom(d, h) == IF Whole(d) THEN h ELSE Lesser(d[2], h)

(* Rows outside the clamped range are those of the last frame, unless the     *)
(* size changes: what the drawing promises survives the crop.                 *)
LEMMA UnchangedOutside ==
    ASSUME ShapeOK, NEW d \in DirtyRange, NEW f \in Drawn(d[1], d[2]), Stored(f.size) = write_size
    PROVE  /\ screen # NoFrame
           /\ \A r \in Rows(write_size.h) :
                r < Top(d, write_size.h) \/ r >= Bottom(d, write_size.h) => f.px[r] = screen.px[r]
<1>1. f \in Screen /\ f.size \in GuestSize
  BY ScreenFacts DEF Drawn
<1>2. write_size.h \in 1 .. kMaxHeight /\ write_size.h <= f.size.h /\ f.size.h \in Nat
  BY <1>1, StoredFacts
<1>3. screen # NoFrame
  BY <1>2, SizeOfNone DEF ShapeOK
<1>4. d[1] \in Int /\ d[2] \in Int
  BY SMTT(30)
<1>5. ASSUME NEW r \in Rows(write_size.h), r < Top(d, write_size.h) \/ r >= Bottom(d, write_size.h)
      PROVE  f.px[r] = screen.px[r]
  <2>1. r \in Rows(f.size.h) /\ r \in Nat /\ r < write_size.h
    BY <1>2 DEF Rows
  <2>2. ~Whole(d)
    BY <1>2, <1>5, <2>1 DEF Top, Bottom
  <2>3. r < d[1] \/ r >= d[2]
    BY <1>2, <1>4, <1>5, <2>1, <2>2 DEF Top, Bottom, Lesser
  <2>4. ~(d[1] = 0 /\ d[2] = f.size.h)
    BY <1>2, <2>1, <2>3
  <2>5. \A q \in Rows(f.size.h) : q < d[1] \/ q >= d[2] => f.px[q] = screen.px[q]
    BY <1>3, <2>2, <2>4 DEF Drawn, Whole
  <2>6. QED
    BY <2>1, <2>3, <2>5
<1>6. QED
  BY <1>3, <1>5

LEMMA TargetFacts ==
    ASSUME ShapeOK
    PROVE  Target \in Slot /\ Target # front_slot /\ Target # prev_slot
<1>1. \E i \in Slot : i # front_slot /\ i # prev_slot
  <2>1. front_slot \in {0, 1, 2} /\ prev_slot \in {0, 1, 2}
    BY DEF ShapeOK, Slot
  <2>2. \E i \in {0, 1, 2} : i # front_slot /\ i # prev_slot
    BY <2>1
  <2>3. QED
    BY <2>2 DEF Slot
<1>2. QED
  BY <1>1 DEF Target

(* Publish up to its last store. *)
LEMMA PublishKeeps ==
    ASSUME FbInv, NEW d \in DirtyRange, NEW f \in Drawn(d[1], d[2]), Publish(f, d[1], d[2])
    PROVE  /\ ShapeOK' /\ WriterOK'
           /\ \A i \in Slot \ {Target} : slot'[i] = slot[i] /\ slot_size'[i] = slot_size[i]
<1>0. PICK t \in Slot : t = Target
  BY TargetFacts, ZenonT(40) DEF FbInv
<1> DEFINE size == Stored(f.size)
           top == Top(d, size.h)
           bottom == Bottom(d, size.h)
           fresh == size # write_size
           owing == Merged(stale[t], top, bottom)
           rows == IF fresh \/ stale[t].all THEN Rows(size.h) ELSE owing.top .. owing.bottom - 1
<1>1. /\ publish = NoFrame /\ publish' = t /\ screen' = f /\ write_size' = size
      /\ slot' = [slot EXCEPT ![t] = [r \in Rows(kMaxHeight) |-> IF r \in rows THEN f.px[r] ELSE slot[t][r]]]
      /\ slot_size' = [slot_size EXCEPT ![t] = size]
      /\ stale' = [i \in Slot |-> IF i = t THEN UpToDate
                                  ELSE [Merged(stale[i], top, bottom) EXCEPT !.all = @ \/ fresh]]
      /\ UNCHANGED <<front_slot, prev_slot, read, answer>>
  BY <1>0 DEF Publish, Top, Bottom, Whole
<1>2. /\ ShapeOK /\ WriterOK /\ t \in Slot /\ t # front_slot /\ t # prev_slot
      /\ stale \in [Slot -> [all : BOOLEAN, top : Int, bottom : Int]]
  BY <1>0, TargetFacts, ZenonT(40) DEF FbInv, ShapeOK
<1>3. /\ f \in Screen /\ f.size \in GuestSize /\ f.px \in [Rows(f.size.h) -> Row] /\ f # NoFrame
      /\ d[1] \in Int /\ d[2] \in Int
  BY ScreenFacts DEF Drawn
<1>4. size \in StoredSize /\ size.h \in 1 .. kMaxHeight /\ size.h <= f.size.h /\ f.size.h \in Nat
  BY <1>3, StoredFacts, ZenonT(20)
<1>5. top \in 0 .. size.h /\ bottom \in 0 .. size.h
  BY <1>3, <1>4 DEF Top, Bottom, Whole, Lesser
<1>6. ASSUME ~fresh
      PROVE  /\ screen # NoFrame /\ write_size = size
             /\ \A r \in Rows(size.h) : r < top \/ r >= bottom => f.px[r] = screen.px[r]
  BY <1>2, <1>6, UnchangedOutside, SMTT(30)
<1> HIDE DEF size, top, bottom, fresh
<1>7. /\ owing \in [all : BOOLEAN, top : Int, bottom : Int] /\ owing.all = stale[t].all
      /\ rows \subseteq Rows(size.h)
  <2>1. stale[t] \in [all : BOOLEAN, top : Int, bottom : Int] /\ top \in Int /\ bottom \in Int
    BY <1>2, <1>5, SMTT(30)
  <2>2. owing \in [all : BOOLEAN, top : Int, bottom : Int] /\ owing.all = stale[t].all
    BY <2>1, MergedFacts, SMTT(30)
  <2>3. CASE fresh \/ stale[t].all
    BY <2>2, <2>3, ZenonT(40)
  <2>4. CASE ~fresh /\ ~stale[t].all
    <3>1. stale[t].top \in 0 .. size.h /\ stale[t].bottom \in 0 .. size.h
      BY <1>2, <1>6, <2>4, ZenonT(20) DEF WriterOK, Holds
    <3>2. owing.top \in 0 .. size.h /\ owing.bottom \in 0 .. size.h
      BY <1>4, <1>5, <2>1, <3>1, MergedFacts
    <3>3. QED
      BY <1>4, <2>2, <2>4, <3>2 DEF Rows
  <2>5. QED
    BY <2>2, <2>3, <2>4
<1>8. /\ slot'[t] = [r \in Rows(kMaxHeight) |-> IF r \in rows THEN f.px[r] ELSE slot[t][r]]
      /\ \A i \in Slot \ {t} : slot'[i] = slot[i] /\ slot_size'[i] = slot_size[i]
      /\ slot_size'[t] = size /\ stale'[t] = UpToDate
      /\ \A i \in Slot \ {t} : stale'[i] = [Merged(stale[i], top, bottom) EXCEPT !.all = @ \/ fresh]
  BY <1>1, <1>2, ZenonT(20) DEF ShapeOK
<1>9. ShapeOK'
  <2>1. slot'[t] \in [Rows(kMaxHeight) -> Pixel]
    <3>1. ASSUME NEW r \in Rows(kMaxHeight) PROVE (IF r \in rows THEN f.px[r] ELSE slot[t][r]) \in Pixel
      <4>1. r \in rows => r \in Rows(f.size.h)
        BY <1>4, <1>7 DEF Rows
      <4>2. slot[t][r] \in Pixel
        BY <1>2 DEF ShapeOK
      <4>3. QED
        BY <1>3, <4>1, <4>2, ZenonT(20) DEF Pixel
    <3>2. QED
      BY <1>8, <3>1, SMTT(30)
  <2>2. slot' \in [Slot -> [Rows(kMaxHeight) -> Pixel]]
    BY <1>1, <1>2, <1>8, <2>1 DEF ShapeOK
  <2>3. slot_size' \in [Slot -> StoredSize \cup {NoSize}]
    BY <1>1, <1>2, <1>4 DEF ShapeOK
  <2>4. stale' \in [Slot -> [all : BOOLEAN, top : Int, bottom : Int]]
    <3>1. UpToDate \in [all : BOOLEAN, top : Int, bottom : Int]
      BY DEF UpToDate
    <3>2. ASSUME NEW i \in Slot
          PROVE  [Merged(stale[i], top, bottom) EXCEPT !.all = @ \/ fresh] \in [all : BOOLEAN, top : Int, bottom : Int]
      <4>1. Merged(stale[i], top, bottom) \in [all : BOOLEAN, top : Int, bottom : Int]
        BY <1>2, <1>5, MergedFacts
      <4>2. (Merged(stale[i], top, bottom).all \/ fresh) \in BOOLEAN
        BY <4>1, ZenonT(20)
      <4>3. QED
        BY <4>1, <4>2, ZenonT(40)
    <3>3. QED
      BY <1>1, <3>1, <3>2
  <2>5. QED
    BY <1>1, <1>2, <1>3, <2>2, <2>3, <2>4, ZenonT(20) DEF ShapeOK, size
<1>10. Holds(t)'
  <2>1. stale'[t].all = FALSE /\ stale'[t].top = 0 /\ stale'[t].bottom = 0
    BY <1>8 DEF UpToDate
  <2>2. ASSUME NEW r \in Rows(size.h) PROVE slot'[t][r] = f.px[r]
    <3>1. r \in Rows(kMaxHeight) /\ r \in Int
      BY <1>4 DEF Rows
    <3>2. CASE r \in rows
      BY <1>8, <3>1, <3>2, ZenonT(20)
    <3>3. CASE r \notin rows
      <4>1. ~fresh /\ ~stale[t].all /\ ~(r \in owing.top .. owing.bottom - 1)
        BY <3>3, ZenonT(20)
      <4>2. r < owing.top \/ r >= owing.bottom
        BY <1>7, <3>1, <4>1
      <4>3. (r < top \/ r >= bottom) /\ (r < stale[t].top \/ r >= stale[t].bottom)
        BY <1>2, <1>5, <3>1, <4>2, MergedCovers, SMTT(30)
      <4>4. slot[t][r] = screen.px[r]
        BY <1>2, <1>6, <4>1, <4>3, ZenonT(40) DEF WriterOK, Holds
      <4>5. f.px[r] = screen.px[r]
        BY <1>6, <4>1, <4>3, ZenonT(20)
      <4>6. slot'[t][r] = slot[t][r]
        BY <1>8, <3>1, <3>3, ZenonT(20)
      <4>7. QED
        BY <4>4, <4>5, <4>6, ZenonT(20)
    <3>4. QED
      BY <3>2, <3>3, ZenonT(20)
  <2>3. screen' # NoFrame /\ slot_size'[t] = write_size' /\ 0 \in 0 .. write_size'.h
    BY <1>1, <1>3, <1>4, <1>8
  <2>4. \A r \in Rows(write_size'.h) : slot'[t][r] = screen'.px[r]
    BY <1>1, <2>2, ZenonT(40)
  <2>5. QED
    BY <2>1, <2>3, <2>4 DEF Holds
<1>11. ASSUME NEW i \in Slot \ {t} PROVE Holds(i)'
  <2> DEFINE m == Merged(stale[i], top, bottom)
  <2>1. stale[i] \in [all : BOOLEAN, top : Int, bottom : Int] /\ Holds(i)
    BY <1>2, ZenonT(20) DEF WriterOK
  <2>2. m \in [all : BOOLEAN, top : Int, bottom : Int] /\ m.all = stale[i].all
    <3>1. top \in Int /\ bottom \in Int
      BY <1>5
    <3>2. PICK s \in [all : BOOLEAN, top : Int, bottom : Int] : s = stale[i]
      BY <2>1, Zenon
    <3>3. /\ Merged(s, top, bottom) \in [all : BOOLEAN, top : Int, bottom : Int]
          /\ Merged(s, top, bottom).all = s.all
      BY <3>1, MergedFacts
    <3>4. QED
      BY <3>2, <3>3, ZenonT(40)
  <2>3. stale'[i] = [m EXCEPT !.all = @ \/ fresh]
    BY <1>8, ZenonT(40)
  <2> HIDE DEF m
  <2>4. stale'[i].all = (stale[i].all \/ fresh) /\ stale'[i].top = m.top /\ stale'[i].bottom = m.bottom
    BY <2>2, <2>3
  <2>5. SUFFICES ASSUME ~stale[i].all, ~fresh
                 PROVE  /\ slot_size'[i] = size /\ m.top \in 0 .. size.h /\ m.bottom \in 0 .. size.h
                        /\ \A r \in Rows(size.h) : r < m.top \/ r >= m.bottom => slot'[i][r] = f.px[r]
    BY <1>1, <1>3, <2>4, ZenonT(40) DEF Holds
  <2>6. /\ slot_size[i] = size /\ stale[i].top \in 0 .. size.h /\ stale[i].bottom \in 0 .. size.h
        /\ \A r \in Rows(size.h) : r < stale[i].top \/ r >= stale[i].bottom => slot[i][r] = screen.px[r]
    BY <1>6, <2>1, <2>5, ZenonT(40) DEF Holds
  <2>7. m.top \in 0 .. size.h /\ m.bottom \in 0 .. size.h
    BY <1>4, <1>5, <2>1, <2>6, MergedFacts DEF m
  <2>8. ASSUME NEW r \in Rows(size.h), r < m.top \/ r >= m.bottom PROVE slot'[i][r] = f.px[r]
    <3>1. r \in Int
      BY DEF Rows
    <3>2. (r < top \/ r >= bottom) /\ (r < stale[i].top \/ r >= stale[i].bottom)
      BY <1>5, <2>1, <2>8, <3>1, MergedCovers, SMTT(30) DEF m
    <3>3. QED
      BY <1>6, <1>8, <2>5, <2>6, <3>2, ZenonT(20)
  <2>9. QED
    BY <1>8, <2>6, <2>7, <2>8, ZenonT(20)
<1>12. WriterOK'
  <2>1. \A i \in Slot : Holds(i)'
    BY <1>10, <1>11
  <2>2. publish' # NoFrame /\ screen' # NoFrame /\ publish' \notin {front_slot', prev_slot'}
        /\ stale'[publish'] = UpToDate
    BY <1>1, <1>2, <1>3, <1>8, ZenonT(20)
  <2>3. QED
    BY <2>1, <2>2, ZenonT(20) DEF WriterOK
<1>13. QED
  BY <1>0, <1>8, <1>9, <1>12

----------------------------------------------------------------------------
LEMMA NotReadingFacts ==
    /\ NotReading \in Reading /\ NotReading.step = "idle" /\ NotReading.px = <<>>
    /\ NotReading.size = NoSize
  BY DEF NotReading, Reading, Slot

LEMMA ReadingFacts ==
    ASSUME ReaderOK
    PROVE  /\ read.step \in {"idle", "size", "copy"} /\ read.slot \in Slot /\ read.px \in Seq(Pixel)
           /\ Len(read.px) \in Nat /\ read.size \in StoredSize \cup {NoSize}
  BY DEF ReaderOK, Reading

LEMMA FbStart == FbInit => FbInv
<1> SUFFICES ASSUME FbInit PROVE FbInv
  OBVIOUS
<1>1. \A i \in Slot : stale[i].all
  BY DEF FbInit, UpToDate
<1>2. ShapeOK
  <2>1. slot \in [Slot -> [Rows(kMaxHeight) -> Pixel]]
    BY DEF FbInit, Pixel
  <2>2. stale \in [Slot -> [all : BOOLEAN, top : Int, bottom : Int]]
    <3>1. UpToDate \in [all : BOOLEAN, top : Int, bottom : Int]
      BY DEF UpToDate
    <3>2. [UpToDate EXCEPT !.all = TRUE] \in [all : BOOLEAN, top : Int, bottom : Int]
      BY <3>1, ZenonT(40)
    <3>3. QED
      BY <3>2 DEF FbInit
  <2>3. front_slot \in Slot /\ prev_slot \in Slot \ {front_slot}
    BY DEF FbInit, Slot
  <2>4. QED
    BY <2>1, <2>2, <2>3, ZenonT(40) DEF FbInit, ShapeOK
<1>3. WriterOK
  BY <1>1, ZenonT(40) DEF FbInit, WriterOK, Holds
<1>4. ReaderOK
  BY NotReadingFacts DEF FbInit, ReaderOK
<1>5. QED
  BY <1>2, <1>3, <1>4 DEF FbInv

(* A reading is not disturbed by a publication until it has been passed twice. *)
LEMMA PublishSparesReader ==
    ASSUME FbInv, NEW d \in DirtyRange, NEW f \in Drawn(d[1], d[2]), Publish(f, d[1], d[2])
    PROVE  FbInv'
<1>1. ShapeOK' /\ WriterOK' /\ \A i \in Slot \ {Target} : slot'[i] = slot[i] /\ slot_size'[i] = slot_size[i]
  BY PublishKeeps, ZenonT(20)
<1>2. /\ UNCHANGED <<front_slot, prev_slot, read, answer>>
      /\ passed' = (IF passed = 2 THEN 3 ELSE passed) /\ owed' = IF passed = 2 THEN NoFrame ELSE owed
  BY ZenonT(20) DEF Publish
<1>3. passed \in 0 .. 3 /\ passed' \in 0 .. 3 /\ (passed' < 3 => passed' = passed /\ passed \in {0, 1} /\ owed' = owed)
  BY <1>2, SMTT(30) DEF FbInv, ReaderOK
<1>4. ASSUME read.step # "idle", passed' < 3
      PROVE  slot'[read.slot] = slot[read.slot] /\ slot_size'[read.slot] = slot_size[read.slot]
  <2>1. read.slot \in {front_slot, prev_slot}
    BY <1>3, <1>4 DEF FbInv, ReaderOK
  <2>2. read.slot \in Slot \ {Target}
    BY <2>1, ReadingFacts, TargetFacts, ZenonT(40) DEF FbInv
  <2>3. QED
    BY <1>1, <2>2, SMTT(30)
<1>5. ASSUME read.step # "idle", passed' < 3 PROVE owed' = Held(read.slot)'
  BY <1>2, <1>3, <1>4, <1>5, SMTT(30) DEF FbInv, ReaderOK, Held
<1>6. passed' < 3 /\ read.step # "idle" => /\ passed' = 0 => read.slot = front_slot
                                           /\ passed' = 1 => read.slot = prev_slot
                                           /\ passed' # 2
  <2>1. passed < 3 /\ read.step # "idle" => (passed = 0 => read.slot = front_slot) /\ (passed = 1 => read.slot = prev_slot)
    BY ZenonT(40) DEF FbInv, ReaderOK
  <2>2. QED
    BY <1>3, <2>1
<1>7. passed' < 3 /\ read.step = "copy" =>
          /\ read.size = slot_size'[read.slot]
          /\ \A k \in 1 .. Len(read.px) : read.px[k] = slot'[read.slot][k - 1]
  <2>1. SUFFICES ASSUME passed' < 3, read.step = "copy"
                 PROVE  /\ read.size = slot_size'[read.slot]
                        /\ \A k \in 1 .. Len(read.px) : read.px[k] = slot'[read.slot][k - 1]
    BY Zenon
  <2>2. passed < 3 /\ slot'[read.slot] = slot[read.slot] /\ slot_size'[read.slot] = slot_size[read.slot]
    BY <1>3, <1>4, <2>1
  <2>3. QED
    BY <2>1, <2>2, ZenonT(40) DEF FbInv, ReaderOK
<1>8. read.step = "idle" => passed' = 0
  <2>1. read.step = "idle" => passed = 0
    BY ZenonT(40) DEF FbInv, ReaderOK
  <2>2. QED
    BY <1>2, <2>1
<1>9. ReaderOK'
  BY <1>2, <1>3, <1>5, <1>6, <1>7, <1>8, ZenonT(40) DEF FbInv, ReaderOK
<1>10. QED
  BY <1>1, <1>9, ZenonT(20) DEF FbInv

LEMMA StoreFrontKeeps ==
    ASSUME FbInv, StoreFront
    PROVE  FbInv'
<1>1. /\ publish # NoFrame /\ prev_slot' = front_slot /\ front_slot' = publish /\ publish' = NoFrame
      /\ passed' = (IF read.step # "idle" /\ passed < 2 THEN passed + 1 ELSE passed)
      /\ UNCHANGED <<screen, slot, slot_size, stale, write_size, read, owed, answer>>
  BY ZenonT(20) DEF StoreFront
<1>2. publish \in Slot /\ publish # front_slot /\ screen # NoFrame /\ stale[publish] = UpToDate
  BY <1>1 DEF FbInv, WriterOK, ShapeOK
<1>3. ShapeOK'
  BY <1>1, <1>2, ZenonT(40) DEF FbInv, ShapeOK
<1>4. WriterOK'
  BY <1>1, <1>2, ZenonT(20) DEF FbInv, WriterOK, Holds
<1>5. Held(read.slot)' = Held(read.slot)
  BY <1>1, ZenonT(20) DEF Held
<1>6. /\ passed \in 0 .. 3 /\ (read.step = "idle" => passed = 0)
      /\ read.step # "idle" => passed # 2
  <2>1. /\ passed \in 0 .. 3 /\ (read.step = "idle" => passed = 0)
        /\ read.step # "idle" /\ passed < 3 => (passed = 2 => publish = NoFrame)
    BY ZenonT(20) DEF FbInv, ReaderOK
  <2>2. QED
    BY <1>1, <2>1
<1>7. /\ passed' \in 0 .. 3
      /\ read.step = "idle" => passed' = 0
      /\ read.step # "idle" /\ passed' < 3 => passed < 2 /\ passed' = passed + 1
  BY <1>1, <1>6
<1>8. ASSUME read.step # "idle", passed' < 3
      PROVE  /\ owed = Held(read.slot)
             /\ passed' # 0
             /\ passed' = 1 => read.slot = front_slot
             /\ read.step = "copy" => /\ read.size = slot_size[read.slot]
                                      /\ \A k \in 1 .. Len(read.px) : read.px[k] = slot[read.slot][k - 1]
  BY <1>7, <1>8 DEF FbInv, ReaderOK
<1>9. ReaderOK'
  <2>1. /\ read \in Reading
        /\ read.step = "size" => read.px = <<>>
        /\ read.step = "copy" => read.size \in StoredSize /\ Len(read.px) < read.size.h
    BY DEF FbInv, ReaderOK
  <2>2. QED
    BY <1>1, <1>5, <1>7, <1>8, <2>1, ZenonT(40) DEF ReaderOK
<1>10. QED
  BY <1>3, <1>4, <1>9 DEF FbInv

LEMMA LoadFrontKeeps ==
    ASSUME FbInv, LoadFront
    PROVE  FbInv'
<1>1. /\ read.step = "idle" /\ read' = [NotReading EXCEPT !.step = "size", !.slot = front_slot] /\ owed' = Newest
      /\ UNCHANGED <<screen, slot, slot_size, front_slot, prev_slot, stale, write_size, publish, passed>>
  BY DEF LoadFront
<1>2. ShapeOK' /\ WriterOK'
  BY <1>1 DEF FbInv, ShapeOK, WriterOK, Holds
<1>3. read'.step = "size" /\ read'.slot = front_slot /\ read'.size = NoSize /\ read'.px = <<>>
      /\ read' \in Reading
  <2>1. front_slot \in Slot
    BY DEF FbInv, ShapeOK
  <2>2. QED
    BY <1>1, <2>1, NotReadingFacts, ZenonT(40) DEF Reading
<1>4. owed' = Held(read.slot)'
  BY <1>1, <1>3, ZenonT(20) DEF Newest, Held
<1>5. ReaderOK'
  <2>1. passed = 0 /\ passed' = 0 /\ front_slot' = front_slot
    BY <1>1 DEF FbInv, ReaderOK
  <2>2. QED
    BY <1>3, <1>4, <2>1 DEF ReaderOK
<1>6. QED
  BY <1>2, <1>5 DEF FbInv

LEMMA LoadSizeKeeps ==
    ASSUME FbInv, LoadSize
    PROVE  FbInv'
<1> DEFINE size == slot_size[read.slot]
<1>1. /\ read.step = "size" /\ size.h # 0 /\ read' = [read EXCEPT !.step = "copy", !.size = size]
      /\ UNCHANGED <<screen, slot, slot_size, front_slot, prev_slot, stale, write_size, publish, owed, passed, answer>>
  BY DEF LoadSize
<1>2. ShapeOK' /\ WriterOK'
  BY <1>1, ZenonT(20) DEF FbInv, ShapeOK, WriterOK, Holds
<1>3. size \in StoredSize /\ size.h \in 1 .. kMaxHeight
  <2>1. read.slot \in Slot
    BY ReadingFacts DEF FbInv
  <2>2. size \in StoredSize
    BY <1>1, <2>1, SizeOfNone DEF FbInv, ShapeOK
  <2>3. QED
    BY <2>2, StoredSizes
<1>4. read.px = <<>> /\ Len(read.px) = 0
  BY <1>1 DEF FbInv, ReaderOK
<1> HIDE DEF size
<1>5. read'.step = "copy" /\ read'.slot = read.slot /\ read'.size = size /\ read'.px = read.px
      /\ read' \in Reading
  <2>1. read \in Reading
    BY DEF FbInv, ReaderOK
  <2>2. QED
    BY <1>1, <1>3, <2>1, ZenonT(40) DEF Reading
<1>6. Held(read.slot)' = Held(read.slot)
  BY <1>1, <1>5 DEF Held
<1>7. ReaderOK'
  <2>1. passed' = passed /\ owed' = owed /\ passed \in 0 .. 3
    BY <1>1 DEF FbInv, ReaderOK
  <2>2. ASSUME passed < 3
        PROVE  /\ owed' = Held(read.slot)' /\ (passed = 0 => read.slot = front_slot)
               /\ (passed = 1 => read.slot = prev_slot) /\ (passed = 2 => publish = NoFrame)
    BY <1>1, <1>5, <1>6, <2>1, <2>2, ZenonT(20) DEF FbInv, ReaderOK
  <2>3. \A k \in 1 .. Len(read'.px) : FALSE
    BY <1>4, <1>5
  <2>4. size = slot_size'[read'.slot]
    BY <1>1, <1>5 DEF size
  <2>5. QED
    BY <1>1, <1>3, <1>4, <1>5, <2>1, <2>2, <2>3, <2>4 DEF ReaderOK
<1>8. QED
  BY <1>2, <1>7 DEF FbInv

(* A reading ends. *)
LEMMA AnsweredKeeps ==
    ASSUME FbInv, NEW frame, Answered(frame),
           UNCHANGED <<screen, slot, slot_size, front_slot, prev_slot, stale, write_size, publish>>
    PROVE  FbInv'
<1>1. ShapeOK' /\ WriterOK'
  BY ZenonT(60) DEF FbInv, ShapeOK, WriterOK, Holds
<1>2. ReaderOK'
  BY NotReadingFacts DEF Answered, ReaderOK
<1>3. QED
  BY <1>1, <1>2, ZenonT(40) DEF FbInv

(* The next row that a reading copies. *)
LEMMA NextRow ==
    ASSUME FbInv, read.step = "copy"
    PROVE  LET row == slot[read.slot][Len(read.px)]
               px == Append(read.px, row)
           IN /\ row \in Pixel /\ px \in Seq(Pixel) /\ Len(px) = Len(read.px) + 1
              /\ px[Len(read.px) + 1] = row /\ Len(read.px) \in Nat
              /\ \A k \in 1 .. Len(read.px) : px[k] = read.px[k] /\ read.px[k] \in Pixel
              /\ read.size.h \in 1 .. kMaxHeight
<1>1. /\ read.px \in Seq(Pixel) /\ Len(read.px) \in Nat /\ Len(read.px) < read.size.h
      /\ read.slot \in Slot /\ read.size \in StoredSize
  BY ReadingFacts, ZenonT(40) DEF FbInv, ReaderOK
<1>2. read.size.h \in 1 .. kMaxHeight
  BY <1>1, StoredSizes, ZenonT(20)
<1>3. slot[read.slot][Len(read.px)] \in Pixel
  <2>1. Len(read.px) \in Rows(kMaxHeight)
    BY <1>1, <1>2, SMTT(30) DEF Rows
  <2>2. slot[read.slot] \in [Rows(kMaxHeight) -> Pixel]
    BY <1>1, ZenonT(20) DEF FbInv, ShapeOK
  <2>3. QED
    BY <2>1, <2>2, ZenonT(20)
<1>4. /\ \A k \in 1 .. Len(read.px) : read.px[k] \in Pixel
      /\ Append(read.px, slot[read.slot][Len(read.px)]) \in Seq(Pixel)
  BY <1>1, <1>3, AppendFacts
<1>5. QED
  BY <1>1, <1>2, <1>3, <1>4, AppendFacts, SMTT(30)

LEMMA CopyOutKeeps ==
    ASSUME FbInv, CopyOut
    PROVE  FbInv'
<1> DEFINE row == slot[read.slot][Len(read.px)]
           px == Append(read.px, row)
<1>1. read.step = "copy" /\ UNCHANGED <<screen, slot, slot_size, front_slot, prev_slot, stale, write_size, publish>>
  BY DEF CopyOut
<1>2. CASE Len(px) < read.size.h
  <2>1. read' = [read EXCEPT !.px = px] /\ UNCHANGED <<owed, passed, answer>>
    BY <1>2, ZenonT(40) DEF CopyOut
  <2>2. ShapeOK' /\ WriterOK'
    BY <1>1, SMTT(30) DEF FbInv, ShapeOK, WriterOK, Holds
  <2>3. /\ px \in Seq(Pixel) /\ Len(px) = Len(read.px) + 1 /\ px[Len(read.px) + 1] = row /\ Len(read.px) \in Nat
        /\ \A k \in 1 .. Len(read.px) : px[k] = read.px[k]
    BY <1>1, NextRow, ZenonT(40)
  <2> HIDE DEF px
  <2>4. /\ read'.step = "copy" /\ read'.slot = read.slot /\ read'.size = read.size /\ read'.px = px
        /\ read' \in Reading
    <3>1. read \in Reading
      BY DEF FbInv, ReaderOK
    <3>2. QED
      BY <1>1, <2>1, <2>3, <3>1, ZenonT(40) DEF Reading
  <2>5. Held(read.slot)' = Held(read.slot)
    BY <1>1, <2>4, ZenonT(40) DEF Held
  <2>6. ASSUME passed < 3, NEW k \in 1 .. Len(px) PROVE px[k] = slot[read.slot][k - 1]
    <3>1. \A j \in 1 .. Len(read.px) : read.px[j] = slot[read.slot][j - 1]
      BY <1>1, <2>6, ZenonT(40) DEF FbInv, ReaderOK
    <3>2. CASE k \in 1 .. Len(read.px)
      BY <2>3, <3>1, <3>2, ZenonT(20)
    <3>3. CASE k = Len(read.px) + 1
      BY <2>3, <3>3
    <3>4. QED
      BY <2>3, <2>6, <3>2, <3>3
  <2>7. ReaderOK'
    BY <1>1, <1>2, <2>1, <2>3, <2>4, <2>5, <2>6, ZenonT(20) DEF FbInv, ReaderOK
  <2>8. QED
    BY <2>2, <2>7 DEF FbInv
<1>3. CASE ~(Len(px) < read.size.h)
  BY <1>1, <1>3, AnsweredKeeps DEF CopyOut
<1>4. QED
  BY <1>2, <1>3

LEMMA FbStep == FbInv /\ [FbNext]_fbVars => FbInv'
<1> SUFFICES ASSUME FbInv, [FbNext]_fbVars PROVE FbInv'
  OBVIOUS
<1>1. CASE \E d \in DirtyRange : \E f \in Drawn(d[1], d[2]) : Publish(f, d[1], d[2])
  BY <1>1, PublishSparesReader
<1>2. CASE StoreFront \/ LoadFront \/ LoadSize \/ CopyOut
  BY <1>2, StoreFrontKeeps, LoadFrontKeeps, LoadSizeKeeps, CopyOutKeeps, ZenonT(40)
<1>3. CASE ReturnFalse
  BY <1>3, AnsweredKeeps, SMTT(30) DEF ReturnFalse
<1>4. CASE UNCHANGED fbVars
  BY <1>4, ZenonT(40) DEF fbVars, FbInv, ShapeOK, WriterOK, Holds, ReaderOK, Held
<1>5. QED
  BY <1>1, <1>2, <1>3, <1>4, ZenonT(20) DEF FbNext, Read

----------------------------------------------------------------------------
(* Each step of the framebuffer is one of LatestFrame's, or none. *)
LEMMA StartOfPromise == FbInit => Promise!LatestInit
<1> SUFFICES ASSUME FbInit PROVE Promise!LatestInit
  OBVIOUS
<1>1. HandedOver = NoFrame
  BY SizeOfNone DEF FbInit, HandedOver, Newest, Slot
<1>2. QED
  BY <1>1, NotReadingFacts DEF FbInit, Promise!LatestInit

(* Publish before its last store shows a reader nothing new, and may overtake *)
(* one.                                                                       *)
LEMMA PublishPromise ==
    ASSUME FbInv, NEW d \in DirtyRange, NEW f \in Drawn(d[1], d[2]), Publish(f, d[1], d[2])
    PROVE  [Promise!LatestNext]_(Promise!latestVars)
<1>1. \A i \in Slot \ {Target} : slot'[i] = slot[i] /\ slot_size'[i] = slot_size[i]
  BY PublishKeeps, ZenonT(40)
<1>2. /\ front_slot' = front_slot /\ UNCHANGED <<read, answer>>
      /\ passed' = (IF passed = 2 THEN 3 ELSE passed) /\ owed' = IF passed = 2 THEN NoFrame ELSE owed
  BY DEF Publish
<1>3. front_slot \in Slot \ {Target}
  BY TargetFacts DEF FbInv, ShapeOK
<1>4. Newest' = Newest
  BY <1>1, <1>2, <1>3, ZenonT(40) DEF Newest
<1>5. HandedOver' = HandedOver
  BY <1>4, NewestIsHandedOver, TargetFacts DEF Publish, HandedOver, FbInv
<1>6. CASE passed = 2
  BY <1>2, <1>5, <1>6, ZenonT(20) DEF Promise!LatestNext, Promise!Overtake
<1>7. CASE passed # 2
  BY <1>2, <1>5, <1>7 DEF Promise!latestVars
<1>8. QED
  BY <1>6, <1>7

LEMMA StoreFrontPromise ==
    ASSUME FbInv, StoreFront
    PROVE  Promise!Replace
<1>1. /\ publish' = NoFrame /\ screen' = screen /\ screen # NoFrame /\ UNCHANGED <<read, owed, answer>>
      /\ passed' = (IF read.step # "idle" /\ passed < 2 THEN passed + 1 ELSE passed)
  BY DEF StoreFront, FbInv, WriterOK
<1>2. HandedOver' = Picture(Stored(screen.size), screen.px)
  BY <1>1, ZenonT(40) DEF HandedOver
<1>3. screen \in Screen /\ screen.size \in GuestSize /\ screen.px \in [Rows(screen.size.h) -> Row]
  BY <1>1, ScreenFacts, ZenonT(40) DEF FbInv, ShapeOK
<1>4. /\ Stored(screen.size) \in StoredSize /\ Stored(screen.size).h \in Nat
      /\ Stored(screen.size).h <= screen.size.h /\ screen.size.h \in Nat
  BY <1>3, StoredFacts
<1>5. \A r \in Rows(Stored(screen.size).h) : screen.px[r] \in Pixel
  BY <1>3, <1>4, SMTT(30) DEF Rows, Pixel
<1>6. HandedOver' \in Frame
  BY <1>2, <1>4, <1>5, PictureIsFrame
<1>7. QED
  BY <1>1, <1>6, ZenonT(40) DEF Promise!Replace

LEMMA LoadFrontPromise ==
    ASSUME FbInv, LoadFront
    PROVE  Promise!Ask
<1>1. read.step = "idle" /\ read'.step = "size" /\ answer' = NoFrame /\ passed' = passed /\ owed' = HandedOver
  BY NewestIsHandedOver DEF LoadFront, NotReading
<1>2. HandedOver' = HandedOver
  BY SMTT(30) DEF LoadFront, HandedOver, Newest
<1>3. QED
  BY <1>1, <1>2 DEF Promise!Ask

LEMMA AnswerPromise ==
    ASSUME FbInv, read.step # "idle", NEW frame \in Frame \cup {NoFrame}, Answered(frame),
           passed < 3 => frame = owed,
           UNCHANGED <<screen, slot, slot_size, front_slot, prev_slot, stale, write_size, publish>>
    PROVE  Promise!Answer
<1>1. HandedOver' = HandedOver
  BY DEF HandedOver, Newest
<1>2. QED
  BY <1>1, NotReadingFacts, ZenonT(40) DEF Promise!Answer, Answered

LEMMA ReturnFalsePromise ==
    ASSUME FbInv, ReturnFalse
    PROVE  Promise!Answer
<1>1. /\ read.step = "size" /\ read.slot \in Slot /\ Answered(NoFrame)
      /\ slot_size[read.slot].w = 0 \/ slot_size[read.slot].h = 0
      /\ UNCHANGED <<screen, slot, slot_size, front_slot, prev_slot, stale, write_size, publish>>
  BY ReadingFacts, ZenonT(40) DEF ReturnFalse, FbInv
<1>2. Held(read.slot) = NoFrame
  BY <1>1, HeldIsFrame, ZenonT(40) DEF FbInv
<1>3. passed < 3 => NoFrame = owed
  BY <1>1, <1>2, ZenonT(20) DEF FbInv, ReaderOK
<1>4. QED
  BY <1>1, <1>3, AnswerPromise, ZenonT(40)

(* With the last row, a reading that was not overtaken has copied all of the  *)
(* frame it was owed; one that was has some picture of the size it loaded.    *)
LEMMA CopyOutPromise ==
    ASSUME FbInv, CopyOut
    PROVE  [Promise!LatestNext]_(Promise!latestVars)
<1> DEFINE row == slot[read.slot][Len(read.px)]
           px == Append(read.px, row)
           copied == [size |-> read.size, px |-> [r \in Rows(read.size.h) |-> px[r + 1]]]
<1>1. /\ read.step = "copy" /\ read.slot \in Slot /\ read.size \in StoredSize /\ Len(read.px) < read.size.h
      /\ UNCHANGED <<screen, slot, slot_size, front_slot, prev_slot, stale, write_size, publish>>
  BY ReadingFacts, ZenonT(40) DEF CopyOut, FbInv, ReaderOK
<1>2. /\ row \in Pixel /\ Len(px) = Len(read.px) + 1 /\ px[Len(read.px) + 1] = row /\ Len(read.px) \in Nat
      /\ \A k \in 1 .. Len(read.px) : px[k] = read.px[k] /\ read.px[k] \in Pixel
      /\ read.size.h \in 1 .. kMaxHeight
  BY <1>1, NextRow
<1>3. CASE Len(px) < read.size.h
  <2>1. UNCHANGED <<owed, passed, answer>> /\ read'.step = read.step
    BY <1>3 DEF CopyOut, FbInv, ReaderOK, Reading
  <2>2. HandedOver' = HandedOver
    BY <1>1, ZenonT(40) DEF HandedOver, Newest
  <2>3. QED
    BY <2>1, <2>2 DEF Promise!latestVars
<1>4. CASE ~(Len(px) < read.size.h)
  <2>1. Answered(copied) /\ read.size.h = Len(read.px) + 1
    <3>1. Answered(copied)
      BY <1>4, ZenonT(40) DEF CopyOut
    <3> HIDE DEF px, copied
    <3>2. read.size.h = Len(read.px) + 1
      BY <1>1, <1>2, <1>4, SMTT(30)
    <3>3. QED
      BY <3>1, <3>2
  <2> HIDE DEF px, row
  <2>r. ASSUME NEW r \in Rows(read.size.h)
        PROVE  \/ r + 1 \in 1 .. Len(read.px) /\ (r + 1) - 1 = r
               \/ r = Len(read.px)
    <3>1. r \in Int /\ 0 <= r /\ r < Len(read.px) + 1
      BY <1>2, <2>1 DEF Rows
    <3>2. QED
      BY <1>2, <3>1
  <2>2. \A r \in Rows(read.size.h) : px[r + 1] \in Pixel
    BY <1>2, <2>r, ZenonT(40)
  <2>3. copied = Picture(read.size, [r \in Rows(read.size.h) |-> px[r + 1]])
    BY DEF Picture
  <2>4. copied \in Frame
    BY <1>1, <2>2, <2>3, PictureIsFrame, ZenonT(40)
  <2>5. ASSUME passed < 3 PROVE copied = owed
    <3>1. /\ owed = Held(read.slot) /\ read.size = slot_size[read.slot]
          /\ \A k \in 1 .. Len(read.px) : read.px[k] = slot[read.slot][k - 1]
      <4>1. read.step # "idle" /\ read.step = "copy" /\ passed < 3
        BY <1>1, <2>5, ZenonT(40)
      <4>2. QED
        BY <4>1, ZenonT(40) DEF FbInv, ReaderOK
    <3>2. owed = Picture(read.size, slot[read.slot])
      BY <1>1, <3>1, HeldIsFrame, ZenonT(40) DEF FbInv
    <3>3. \A r \in Rows(read.size.h) : px[r + 1] = slot[read.slot][r]
      BY <1>2, <2>r, <3>1, ZenonT(40) DEF row
    <3>4. QED
      BY <3>2, <3>3, ZenonT(40) DEF Picture
  <2>6. QED
    BY <1>1, <2>1, <2>4, <2>5, AnswerPromise, ZenonT(20) DEF Promise!LatestNext
<1>5. QED
  BY <1>3, <1>4

LEMMA StepOfPromise == FbInv /\ [FbNext]_fbVars => [Promise!LatestNext]_(Promise!latestVars)
<1> SUFFICES ASSUME FbInv, [FbNext]_fbVars PROVE [Promise!LatestNext]_(Promise!latestVars)
  OBVIOUS
<1>1. CASE \E d \in DirtyRange : \E f \in Drawn(d[1], d[2]) : Publish(f, d[1], d[2])
  BY <1>1, PublishPromise
<1>2. CASE StoreFront \/ LoadFront \/ ReturnFalse
  BY <1>2, StoreFrontPromise, LoadFrontPromise, ReturnFalsePromise, ZenonT(20) DEF Promise!LatestNext
<1>3. CASE CopyOut
  BY <1>3, CopyOutPromise
<1>4. CASE LoadSize
  <2>1. UNCHANGED <<owed, passed, answer>> /\ read'.step # "idle" /\ read.step # "idle" /\ HandedOver' = HandedOver
    BY <1>4, ZenonT(40) DEF LoadSize, FbInv, ReaderOK, Reading, HandedOver, Newest
  <2>2. QED
    BY <2>1 DEF Promise!latestVars
<1>5. CASE UNCHANGED fbVars
  BY <1>5 DEF fbVars, Promise!latestVars, HandedOver, Newest
<1>6. QED
  BY <1>1, <1>2, <1>3, <1>4, <1>5, ZenonT(20) DEF FbNext, Read

(* The shared framebuffer keeps the promise of machine_ipc.h, for frames and  *)
(* slots of any size and whatever rows the drawing reports: a reading returns *)
(* the whole of the frame that was newest when it began, unless a third       *)
(* Publish begins before it ends.                                             *)
THEOREM FramebufferKeepsItsPromise == FbSpec => LatestFrameKept
<1>1. FbSpec => []FbInv
  BY FbStart, FbStep, PTL DEF FbSpec
<1>2. QED
  BY <1>1, StartOfPromise, StepOfPromise, PTL DEF FbSpec, LatestFrameKept, Promise!LatestSpec

-----------------------------------------------------------------------------
(* The frames posted to the window *)

HIDE SizeAssumption
HIDE NoFrameAssumption

(* A buffer, and what is said of the one that a frame went into. *)
Buffer == [px : {<<>>} \cup UNION {[Lines(z.h) -> PoolRow] : z \in FrameSize}, count : Nat, in_use : BOOLEAN,
           all : BOOLEAN, top : Int, bottom : Int]

(* What a buffer holds, where it has missed nothing: the rows of the guest's  *)
(* screen.                                                                    *)
Keeps(i) ==
    ~frame_pool[i].all =>
      /\ guest_screen # Unset
      /\ frame_pool[i].px \in [Lines(guest_screen.size.h) -> PoolRow]
      /\ \A r \in Lines(guest_screen.size.h) :
           r < frame_pool[i].top \/ r >= frame_pool[i].bottom => frame_pool[i].px[r] = guest_screen.px[r]

PoolOK ==
    /\ guest_screen \in ScreenFrame \cup {Unset} /\ display_image \in ScreenFrame \cup {Unset}
    /\ frame_pool_size = IF guest_screen = Unset THEN NoArea ELSE guest_screen.size
    /\ frame_pool \in [PoolSlot -> Buffer]
    /\ \A i \in PoolSlot : Keeps(i)

Update == [slot : PoolSlot \cup {0}, size : FrameSize, yl : Int, yh : Int,
           own : {<<>>} \cup UNION {[Lines(z.h) -> PoolRow] : z \in FrameSize}]

(* What is on its way: whole frames, each buffer on loan once. *)
PostedOK ==
    /\ posted \in Seq(Update)
    /\ \A n \in 1 .. Len(posted) : /\ PostedFrame(posted[n]) \in ScreenFrame
                                   /\ posted[n].slot # 0 => frame_pool[posted[n].slot].in_use
    /\ \A n, m \in 1 .. Len(posted) : posted[n].slot # 0 /\ posted[n].slot = posted[m].slot => n = m

(* A frame differs from the one before it only in the rows that go with it. *)
Follows(f, g, yl, yh) ==
    f # Unset /\ f.size = g.size => \A r \in Lines(g.size.h) : r < yl \/ r >= yh => g.px[r] = f.px[r]

Before(n) == IF n = 1 THEN display_image ELSE PostedFrame(posted[n - 1])

ChainOK ==
    /\ \A n \in 1 .. Len(posted) : Follows(Before(n), PostedFrame(posted[n]), posted[n].yl, posted[n].yh)
    /\ guest_screen = IF posted = <<>> THEN display_image ELSE PostedFrame(posted[Len(posted)])

PoolInv == PoolOK /\ PostedOK /\ ChainOK

----------------------------------------------------------------------------
(* A post adds one entry behind those that wait. *)
LEMMA PostedGrows ==
    ASSUME NEW e \in Update, posted \in Seq(Update), posted' = Append(posted, e)
    PROVE  /\ posted' \in Seq(Update) /\ Len(posted') = Len(posted) + 1
           /\ posted'[Len(posted) + 1] = e
           /\ \A n \in 1 .. Len(posted) : posted'[n] = posted[n]
           /\ \A n \in 1 .. Len(posted') : n \in 1 .. Len(posted) \/ n = Len(posted) + 1
<1>1. /\ Len(posted) \in Nat /\ posted' \in Seq(Update) /\ Len(posted') = Len(posted) + 1
      /\ posted'[Len(posted) + 1] = e
      /\ \A n \in 1 .. Len(posted) : posted'[n] = posted[n]
  BY AppendFacts
<1>2. \A n \in 1 .. Len(posted) + 1 : n \in 1 .. Len(posted) \/ n = Len(posted) + 1
  BY <1>1
<1>3. QED
  BY <1>1, <1>2, Zenon

LEMMA PoolStart == PoolInit => PoolInv
<1> SUFFICES ASSUME PoolInit PROVE PoolInv
  OBVIOUS
<1>1. frame_pool \in [PoolSlot -> Buffer]
  <2>1. 0 \in Nat /\ 0 \in Int
    OBVIOUS
  <2>2. [px |-> <<>>, count |-> 0, in_use |-> FALSE, all |-> TRUE, top |-> 0, bottom |-> 0] \in Buffer
    BY <2>1, ZenonT(40) DEF Buffer
  <2>3. QED
    BY <2>2, ZenonT(40) DEF PoolInit
<1>2. PoolOK
  BY <1>1, ZenonT(20) DEF PoolInit, PoolOK, Keeps
<1>3. posted = <<>> /\ posted \in Seq(Update) /\ Len(posted) = 0
  BY DEF PoolInit
<1>4. 1 .. Len(posted) = {}
  BY <1>3
<1>5. PostedOK /\ ChainOK
  BY <1>3, <1>4, ZenonT(40) DEF PoolInit, PostedOK, ChainOK
<1>6. QED
  BY <1>2, <1>5, ZenonT(40) DEF PoolInv

LEMMA ScreenFrameFacts ==
    ASSUME NEW f \in ScreenFrame
    PROVE  /\ f.size \in FrameSize /\ f.px \in [Lines(f.size.h) -> PoolRow] /\ f # Unset /\ f.size.h \in Nat
           /\ f = [size |-> f.size, px |-> f.px]
<1>1. PICK s \in FrameSize : f \in [size : {s}, px : [Lines(s.h) -> PoolRow]]
  BY ZenonT(40) DEF ScreenFrame
<1>2. f.size = s /\ f.px \in [Lines(s.h) -> PoolRow] /\ f = [size |-> f.size, px |-> f.px]
  BY <1>1, ZenonT(40)
<1>3. s.h \in Nat
  <2>1. s \in [w : Nat \ {0}, h : Nat \ {0}]
    BY PoolAssumption, ZenonT(40)
  <2>2. QED
    BY <2>1, ZenonT(40)
<1>4. f # Unset
  BY UnsetAssumption, ZenonT(40)
<1>5. QED
  BY <1>1, <1>2, <1>3, <1>4, ZenonT(40)

LEMMA FrameOf ==
    ASSUME NEW z \in FrameSize, NEW px \in [Lines(z.h) -> PoolRow]
    PROVE  [size |-> z, px |-> px] \in ScreenFrame
<1>1. [size |-> z, px |-> px] \in [size : {z}, px : [Lines(z.h) -> PoolRow]]
  BY Zenon
<1>2. QED
  BY <1>1, ZenonT(40) DEF ScreenFrame

(* What the video thread draws follows the frame before. *)
LEMMA NextFollows ==
    ASSUME PoolOK, NEW d \in ChangedRows, NEW f \in NextScreen(d[1], d[2])
    PROVE  f \in ScreenFrame /\ Follows(guest_screen, f, d[1], d[2])
<1>1. f \in ScreenFrame /\ f.size.h \in Nat /\ d[1] \in Int /\ d[2] \in Int
  BY PoolAssumption, ScreenFrameFacts, ZenonT(20) DEF NextScreen
<1>2. CASE d[1] = 0 /\ d[2] = f.size.h
  BY <1>1, <1>2 DEF Follows, Lines
<1>3. CASE \A r \in Lines(f.size.h) : r < d[1] \/ r >= d[2] => f.px[r] = guest_screen.px[r]
  BY <1>1, <1>3, ZenonT(20) DEF Follows
<1>4. QED
  BY <1>1, <1>2, <1>3, ZenonT(20) DEF NextScreen

(* A buffer that is filled holds the whole frame, although only the rows that *)
(* changed and those it missed are copied.                                    *)
LEMMA FilledIsWhole ==
    ASSUME NEW s \in Buffer, NEW f \in ScreenFrame, NEW yl \in Int, NEW yh \in Int,
           ~s.all => /\ s.px \in [Lines(f.size.h) -> PoolRow]
                     /\ \A r \in Lines(f.size.h) : (r < s.top \/ r >= s.bottom) /\ (r < yl \/ r >= yh)
                                                      => s.px[r] = f.px[r]
    PROVE  Filled(s, f, yl, yh).px = f.px /\ Filled(s, f, yl, yh) \in Buffer
<1> DEFINE whole == TakesAll(s, f)
           late == s.bottom > s.top
           top == IF late /\ s.top < yl THEN s.top ELSE yl
           bottom == IF late /\ s.bottom > yh THEN s.bottom ELSE yh
           row(r) == IF whole \/ (r >= top /\ r < bottom) THEN f.px[r]
                     ELSE IF r \in DOMAIN s.px THEN s.px[r] ELSE Unset
<1>1. /\ f.size \in FrameSize /\ f.px \in [Lines(f.size.h) -> PoolRow] /\ f.size.h \in Nat
      /\ s.top \in Int /\ s.bottom \in Int
  BY ScreenFrameFacts, ZenonT(20) DEF Buffer
<1>2. ASSUME NEW r \in Lines(f.size.h) PROVE row(r) = f.px[r]
  <2>1. r \in Int
    BY DEF Lines
  <2>2. CASE whole \/ (r >= top /\ r < bottom)
    BY <2>2, ZenonT(20)
  <2>3. CASE ~(whole \/ (r >= top /\ r < bottom))
    <3>1. ~s.all
      BY <2>3, ZenonT(20) DEF TakesAll
    <3>2. (r < s.top \/ r >= s.bottom) /\ (r < yl \/ r >= yh)
      BY <1>1, <2>1, <2>3
    <3>3. r \in DOMAIN s.px /\ s.px[r] = f.px[r]
      BY <3>1, <3>2, ZenonT(20)
    <3>4. QED
      BY <2>3, <3>3, ZenonT(20)
  <2>4. QED
    BY <2>2, <2>3, ZenonT(20)
<1>3. /\ Filled(s, f, yl, yh) = [px |-> [r \in Lines(f.size.h) |-> row(r)], count |-> npixels(f.size),
                                 in_use |-> TRUE, all |-> FALSE, top |-> 0, bottom |-> 0]
  BY ZenonT(20) DEF Filled
<1> HIDE DEF row
<1>4. [r \in Lines(f.size.h) |-> row(r)] = f.px
  BY <1>1, <1>2, ZenonT(20)
<1>5. npixels(f.size) \in Nat
  BY <1>1, PoolAssumption DEF npixels
<1>6. QED
  BY <1>1, <1>3, <1>4, <1>5 DEF Buffer

LEMMA BehindFacts ==
    ASSUME NEW s \in Buffer, NEW yl \in Int, NEW yh \in Int
    PROVE  /\ Behind(s, yl, yh) \in Buffer /\ Behind(s, yl, yh).px = s.px /\ Behind(s, yl, yh).all = s.all
           /\ Behind(s, yl, yh).in_use = s.in_use
           /\ \A r \in Int : r < Behind(s, yl, yh).top \/ r >= Behind(s, yl, yh).bottom
                               => (r < s.top \/ r >= s.bottom) /\ (r < yl \/ r >= yh)
<1> DEFINE b == Behind(s, yl, yh)
<1>1. CASE s.bottom > s.top
  <2>1. b = [s EXCEPT !.top = IF yl < s.top THEN yl ELSE s.top, !.bottom = IF yh > s.bottom THEN yh ELSE s.bottom]
    BY <1>1, ZenonT(20) DEF Behind
  <2>2. s \in Buffer /\ s.top \in Int /\ s.bottom \in Int
    BY DEF Buffer
  <2> HIDE DEF b
  <2>3. b \in Buffer
    BY <2>1, <2>2, ZenonT(40) DEF Buffer
  <2>4. b.px = s.px /\ b.all = s.all /\ b.in_use = s.in_use
    BY <2>1, <2>2 DEF Buffer
  <2>5. b.top = (IF yl < s.top THEN yl ELSE s.top) /\ b.bottom = (IF yh > s.bottom THEN yh ELSE s.bottom)
    BY <2>1, <2>2, ZenonT(20) DEF Buffer
  <2>6. \A r \in Int : r < b.top \/ r >= b.bottom => (r < s.top \/ r >= s.bottom) /\ (r < yl \/ r >= yh)
    BY <1>1, <2>2, <2>5
  <2>7. QED
    BY <2>3, <2>4, <2>6 DEF b
<1>2. CASE ~(s.bottom > s.top)
  <2>1. b = [s EXCEPT !.top = yl, !.bottom = yh]
    BY <1>2 DEF Behind
  <2>2. s \in Buffer /\ s.top \in Int /\ s.bottom \in Int
    BY DEF Buffer
  <2> HIDE DEF b
  <2>3. b \in Buffer
    BY <2>1, <2>2, ZenonT(40) DEF Buffer
  <2>4. b.px = s.px /\ b.all = s.all /\ b.in_use = s.in_use
    BY <2>1, <2>2 DEF Buffer
  <2>5. b.top = (yl) /\ b.bottom = (yh)
    BY <2>1, <2>2, ZenonT(20) DEF Buffer
  <2>6. \A r \in Int : r < b.top \/ r >= b.bottom => (r < s.top \/ r >= s.bottom) /\ (r < yl \/ r >= yh)
    BY <1>2, <2>2, <2>5
  <2>7. QED
    BY <2>3, <2>4, <2>6 DEF b
<1>3. QED
  BY <1>1, <1>2, ZenonT(20)

LEMMA LineBound ==
    ASSUME NEW n \in Nat, NEW r \in Lines(n)
    PROVE  r \in Int
  BY DEF Lines

(* PostVideoUpdate. *)
LEMMA PostKeeps ==
    ASSUME PoolInv, NEW d \in ChangedRows, NEW f \in NextScreen(d[1], d[2]), PostVideoUpdate(f, d[1], d[2])
    PROVE  /\ PoolInv' /\ display_image' = display_image
           /\ Len(posted') = Len(posted) + 1 /\ PostedFrame(posted[Len(posted)])' \in ScreenFrame
           /\ \A n \in 1 .. Len(posted) : PostedFrame(posted[n])' = PostedFrame(posted[n])
<1> DEFINE yl == d[1]
           yh == d[2]
           pool == IF f.size = frame_pool_size THEN frame_pool
                   ELSE [i \in PoolSlot |-> [frame_pool[i] EXCEPT !.all = TRUE]]
<1>1. PICK taken \in Takable :
          /\ guest_screen' = f /\ frame_pool_size' = f.size
          /\ frame_pool' = [i \in PoolSlot |-> IF i = taken THEN Filled(pool[i], f, yl, yh)
                                               ELSE Behind(pool[i], yl, yh)]
          /\ posted' = Append(posted, [slot |-> taken, size |-> f.size, yl |-> yl, yh |-> yh,
                                       own |-> IF taken = 0 THEN f.px ELSE <<>>])
          /\ display_image' = display_image
  BY ZenonT(20) DEF PostVideoUpdate
<1> DEFINE u == [slot |-> taken, size |-> f.size, yl |-> yl, yh |-> yh, own |-> IF taken = 0 THEN f.px ELSE <<>>]
<1>2. /\ PoolOK /\ PostedOK /\ ChainOK /\ yl \in Int /\ yh \in Int
      /\ taken \in PoolSlot \cup {0} /\ (taken # 0 => ~frame_pool[taken].in_use)
      /\ \A i \in PoolSlot : i # 0
  BY PoolAssumption DEF PoolInv, Takable, PoolSlot
<1>3. /\ f \in ScreenFrame /\ Follows(guest_screen, f, yl, yh) /\ f.size \in FrameSize
      /\ f.px \in [Lines(f.size.h) -> PoolRow] /\ f # Unset /\ f.size.h \in Nat
      /\ f = [size |-> f.size, px |-> f.px]
  BY <1>2, NextFollows, ScreenFrameFacts, ZenonT(20)
<1>4. \A i \in PoolSlot : /\ pool[i] \in Buffer /\ pool[i].px = frame_pool[i].px
                          /\ pool[i].in_use = frame_pool[i].in_use
                          /\ ~pool[i].all => pool[i] = frame_pool[i] /\ f.size = frame_pool_size
  <2>1. frame_pool \in [PoolSlot -> Buffer]
    BY <1>2 DEF PoolOK
  <2>2. CASE f.size = frame_pool_size
    BY <2>1, <2>2
  <2>3. CASE f.size # frame_pool_size
    BY <2>1, <2>3, ZenonT(40) DEF Buffer
  <2>4. QED
    BY <2>2, <2>3, ZenonT(20)
<1> HIDE DEF yl, yh, pool
<1>5. ASSUME NEW i \in PoolSlot, ~pool[i].all
      PROVE  /\ pool[i].px \in [Lines(f.size.h) -> PoolRow]
             /\ \A r \in Lines(f.size.h) : (r < pool[i].top \/ r >= pool[i].bottom) /\ (r < yl \/ r >= yh)
                                              => pool[i].px[r] = f.px[r]
  <2>1. pool[i] = frame_pool[i] /\ f.size = frame_pool_size /\ Keeps(i)
    BY <1>2, <1>4, <1>5, ZenonT(20) DEF PoolOK
  <2>2. guest_screen # Unset /\ guest_screen.size = f.size
    BY <1>2, <1>5, <2>1, ZenonT(40) DEF PoolOK, Keeps
  <2>3. \A r \in Lines(f.size.h) : r < yl \/ r >= yh => f.px[r] = guest_screen.px[r]
    BY <1>3, <2>2, ZenonT(40) DEF Follows
  <2>4. QED
    BY <1>5, <2>1, <2>2, <2>3, ZenonT(20) DEF Keeps
<1>6. ASSUME NEW i \in PoolSlot
      PROVE  /\ Filled(pool[i], f, yl, yh).px = f.px /\ Filled(pool[i], f, yl, yh) \in Buffer
             /\ Filled(pool[i], f, yl, yh).in_use
             /\ Filled(pool[i], f, yl, yh).top = 0 /\ Filled(pool[i], f, yl, yh).bottom = 0
  <2>1. Filled(pool[i], f, yl, yh).px = f.px /\ Filled(pool[i], f, yl, yh) \in Buffer
    BY <1>2, <1>3, <1>4, <1>5, FilledIsWhole, ZenonT(40)
  <2>2. QED
    BY <2>1, ZenonT(20) DEF Filled
<1>7. frame_pool' \in [PoolSlot -> Buffer]
  BY <1>1, <1>2, <1>4, <1>6, BehindFacts, ZenonT(20)
<1>8. ASSUME NEW i \in PoolSlot PROVE Keeps(i)'
  <2>1. CASE i = taken
    <3>1. frame_pool'[i].px = f.px
      BY <1>1, <1>6, <2>1, ZenonT(40)
    <3>2. guest_screen' = f /\ f # Unset /\ f.px \in [Lines(f.size.h) -> PoolRow]
      BY <1>1, <1>3, ZenonT(40)
    <3>3. QED
      BY <3>1, <3>2, ZenonT(40) DEF Keeps
  <2>2. CASE i # taken
    <3> DEFINE b == Behind(pool[i], yl, yh)
    <3>1. frame_pool'[i] = b
      BY <1>1, <2>2, ZenonT(20)
    <3>2. /\ b.px = pool[i].px /\ b.all = pool[i].all
          /\ \A r \in Int : r < b.top \/ r >= b.bottom => (r < pool[i].top \/ r >= pool[i].bottom) /\ (r < yl \/ r >= yh)
      <4>1. pool[i] \in Buffer /\ yl \in Int /\ yh \in Int
        BY <1>2, <1>4, ZenonT(40)
      <4>2. QED
        BY <4>1, BehindFacts, ZenonT(60)
    <3> HIDE DEF b
    <3>3. ASSUME ~b.all, NEW r \in Lines(f.size.h), r < b.top \/ r >= b.bottom PROVE b.px[r] = f.px[r]
      <4>1. r \in Int
        BY <1>3, LineBound, ZenonT(20)
      <4>2. QED
        BY <1>5, <3>2, <3>3, <4>1, ZenonT(20)
    <3>4. ~b.all => b.px \in [Lines(f.size.h) -> PoolRow]
      BY <1>5, <3>2, ZenonT(40)
    <3>5. QED
      BY <1>1, <1>3, <3>1, <3>3, <3>4, ZenonT(20) DEF Keeps
  <2>3. QED
    BY <2>1, <2>2
<1>9. PoolOK'
  BY <1>1, <1>2, <1>3, <1>7, <1>8, ZenonT(40) DEF PoolOK
<1>10. /\ posted \in Seq(Update) /\ Len(posted) \in Nat /\ u \in Update /\ posted' = Append(posted, u)
       /\ u.slot = taken /\ u.size = f.size /\ u.yl = yl /\ u.yh = yh
  <2>1. (IF taken = 0 THEN f.px ELSE <<>>) \in {<<>>} \cup UNION {[Lines(z.h) -> PoolRow] : z \in FrameSize}
    BY <1>3
  <2>2. u \in Update
    BY <1>2, <1>3, <2>1, ZenonT(40) DEF Update
  <2>3. posted \in Seq(Update)
    BY <1>2, ZenonT(40) DEF PostedOK
  <2>4. Len(posted) \in Nat
    BY <2>3
  <2>5. u.slot = taken /\ u.size = f.size /\ u.yl = yl /\ u.yh = yh
    BY ZenonT(40)
  <2>6. QED
    BY <1>1, <2>2, <2>3, <2>4, <2>5, ZenonT(40)
<1>11. /\ posted' \in Seq(Update) /\ Len(posted') = Len(posted) + 1 /\ posted'[Len(posted) + 1] = u
       /\ \A n \in 1 .. Len(posted) : posted'[n] = posted[n]
       /\ \A n \in 1 .. Len(posted') : n \in 1 .. Len(posted) \/ n = Len(posted) + 1
  <2> HIDE DEF u
  <2>1. posted \in Seq(Update) /\ u \in Update /\ posted' = Append(posted, u)
    BY <1>10, Zenon
  <2>2. QED
    BY <2>1, PostedGrows, ZenonT(40)
<1>12. ASSUME NEW n \in 1 .. Len(posted)
       PROVE  /\ PostedFrame(posted[n])' = PostedFrame(posted[n]) /\ posted'[n] = posted[n]
              /\ posted[n].slot # 0 => posted[n].slot # taken /\ frame_pool'[posted[n].slot].in_use
  <2>1. posted[n] \in Update /\ posted[n].slot \in PoolSlot \cup {0} /\ posted'[n] = posted[n]
    <3>1. posted[n] \in Update
      BY <1>10
    <3>2. QED
      BY <1>11, <3>1, ZenonT(40) DEF Update
  <2>2. CASE posted[n].slot = 0
    BY <2>1, <2>2, ZenonT(40) DEF PostedFrame
  <2>3. CASE posted[n].slot # 0
    <3>1. frame_pool[posted[n].slot].in_use /\ posted[n].slot # taken /\ posted[n].slot \in PoolSlot
      BY <1>2, <2>1, <2>3, ZenonT(40) DEF PostedOK
    <3>2. frame_pool'[posted[n].slot] = Behind(pool[posted[n].slot], yl, yh)
      BY <1>1, <3>1, ZenonT(40)
    <3>3. /\ frame_pool'[posted[n].slot].px = frame_pool[posted[n].slot].px
          /\ frame_pool'[posted[n].slot].in_use = frame_pool[posted[n].slot].in_use
      <4>1. PICK i \in PoolSlot : i = posted[n].slot
        BY <3>1, ZenonT(20)
      <4>2. /\ Behind(pool[i], yl, yh).px = pool[i].px /\ Behind(pool[i], yl, yh).in_use = pool[i].in_use
            /\ pool[i].px = frame_pool[i].px /\ pool[i].in_use = frame_pool[i].in_use
        <5>1. pool[i] \in Buffer /\ yl \in Int /\ yh \in Int
          BY <1>2, <1>4, ZenonT(40)
        <5>2. QED
          BY <1>4, <5>1, BehindFacts, ZenonT(60)
      <4>3. QED
        BY <3>2, <4>1, <4>2, ZenonT(20)
    <3>4. QED
      BY <2>1, <2>3, <3>1, <3>3, ZenonT(40) DEF PostedFrame
  <2>4. QED
    BY <2>2, <2>3, ZenonT(20)
<1>13. PostedFrame(posted[Len(posted)])' = f
  <2>1. posted'[Len(posted')] = u
    BY <1>11, ZenonT(20)
  <2>2. CASE taken = 0
    BY <1>3, <2>1, <2>2 DEF PostedFrame
  <2>3. CASE taken # 0
    <3>1. taken \in PoolSlot /\ frame_pool'[taken].px = f.px
      <4>1. taken \in PoolSlot
        BY <1>2, <2>3, ZenonT(40)
      <4>2. frame_pool'[taken] = Filled(pool[taken], f, yl, yh)
        BY <1>1, <4>1, ZenonT(40)
      <4>3. QED  BY <1>6, <4>1, <4>2, ZenonT(40)
    <3>2. QED
      BY <1>3, <2>1, <2>3, <3>1, SMTT(30) DEF PostedFrame
  <2>4. QED
    BY <2>2, <2>3, ZenonT(20)
<1> HIDE DEF u
<1>14. PostedOK'
  <2>1. ASSUME NEW n \in 1 .. Len(posted')
        PROVE  PostedFrame(posted[n])' \in ScreenFrame /\ (posted'[n].slot # 0 => frame_pool'[posted'[n].slot].in_use)
    <3>1. CASE n \in 1 .. Len(posted)
      BY <1>2, <1>12, <3>1 DEF PostedOK
    <3>2. CASE n = Len(posted) + 1
      <4>1. taken # 0 => frame_pool'[taken].in_use
        BY <1>1, <1>2, <1>6, ZenonT(20)
      <4>2. PostedFrame(posted[n])' = f
        BY <1>11, <1>13, <3>2, ZenonT(40)
      <4>3. QED
        BY <1>3, <1>10, <1>11, <3>2, <4>1, <4>2, ZenonT(40)
    <3>3. n \in 1 .. Len(posted) \/ n = Len(posted) + 1
      BY <1>11, ZenonT(40)
    <3>4. QED
      BY <3>1, <3>2, <3>3, ZenonT(40)
  <2>2. ASSUME NEW n \in 1 .. Len(posted'), NEW m \in 1 .. Len(posted'), posted'[n].slot # 0,
               posted'[n].slot = posted'[m].slot
        PROVE  n = m
    <3>1. n \in 1 .. Len(posted) \/ n = Len(posted) + 1
      BY <1>11, ZenonT(40)
    <3>2. m \in 1 .. Len(posted) \/ m = Len(posted) + 1
      BY <1>11, ZenonT(40)
    <3>3. CASE n \in 1 .. Len(posted) /\ m \in 1 .. Len(posted)
      <4>1. posted[n].slot # 0 /\ posted[n].slot = posted[m].slot
        BY <1>11, <2>2, <3>3
      <4>2. QED
        BY <1>2, <3>3, <4>1, ZenonT(40) DEF PostedOK
    <3>4. CASE n \in 1 .. Len(posted) /\ m = Len(posted) + 1
      BY <1>10, <1>11, <1>12, <2>2, <3>4, ZenonT(40)
    <3>5. CASE n = Len(posted) + 1 /\ m \in 1 .. Len(posted)
      BY <1>10, <1>11, <1>12, <2>2, <3>5, ZenonT(40)
    <3>6. QED
      BY <3>1, <3>2, <3>3, <3>4, <3>5, ZenonT(20)
  <2>3. QED
    BY <1>11, <2>1, <2>2, ZenonT(40) DEF PostedOK
<1>15. ChainOK'
  <2>1. ASSUME NEW n \in 1 .. Len(posted')
        PROVE  Follows(Before(n), PostedFrame(posted[n]), posted[n].yl, posted[n].yh)'
    <3>1. CASE n \in 1 .. Len(posted)
      <4>1. Before(n)' = Before(n)
        <5>1. CASE n = 1
          BY <1>1, <5>1, ZenonT(40) DEF Before
        <5>2. CASE n # 1
          <6>1. n - 1 \in 1 .. Len(posted)
            BY <1>10, <3>1, <5>2
          <6>2. QED
            BY <1>12, <5>2, <6>1, ZenonT(20) DEF Before
        <5>3. QED
          BY <5>1, <5>2
      <4>2. Follows(Before(n), PostedFrame(posted[n]), posted[n].yl, posted[n].yh)
        BY <1>2, <3>1, ZenonT(20) DEF ChainOK
      <4>3. PostedFrame(posted[n])' = PostedFrame(posted[n]) /\ posted'[n] = posted[n]
        BY <1>12, <3>1, ZenonT(20)
      <4>4. QED
        BY <4>1, <4>2, <4>3, ZenonT(20) DEF Follows
    <3>2. CASE n = Len(posted) + 1
      <4>1. Before(n)' = guest_screen
        <5>1. CASE posted = <<>>
          BY <1>1, <1>2, <3>2, <5>1 DEF Before, ChainOK
        <5>2. CASE posted # <<>>
          <6>1. n # 1 /\ n - 1 = Len(posted) /\ Len(posted) \in 1 .. Len(posted)
            BY <1>10, <3>2, <5>2
          <6>2. Before(n)' = PostedFrame(posted[n - 1])'
            BY <6>1, ZenonT(20) DEF Before
          <6>3. PostedFrame(posted[n - 1])' = PostedFrame(posted[n - 1])
            BY <1>12, <6>1, ZenonT(20)
          <6>4. QED
            BY <1>2, <5>2, <6>1, <6>2, <6>3, ZenonT(40) DEF ChainOK
        <5>3. QED
          BY <5>1, <5>2, ZenonT(20)
      <4>2. PostedFrame(posted[n])' = f /\ posted'[n].yl = yl /\ posted'[n].yh = yh
        BY <1>10, <1>11, <1>13, <3>2, ZenonT(20)
      <4>3. QED
        BY <1>3, <4>1, <4>2, ZenonT(20) DEF Follows
    <3>3. n \in 1 .. Len(posted) \/ n = Len(posted) + 1
      <4>1. Len(posted) \in Nat /\ Len(posted') = Len(posted) + 1
        BY <1>10, <1>11, ZenonT(40)
      <4>2. QED  BY <4>1
    <3>4. QED
      BY <3>1, <3>2, <3>3, ZenonT(40)
  <2>2. posted' # <<>>
    <3>1. Len(posted') # 0
      BY <1>10, <1>11
    <3>2. QED
      BY <3>1
  <2>3. QED
    BY <1>1, <1>13, <2>1, <2>2 DEF ChainOK
<1>16. QED
  BY <1>1, <1>3, <1>9, <1>11, <1>12, <1>13, <1>14, <1>15, ZenonT(20) DEF PoolInv

(* ApplyVideoUpdate: the panel's picture becomes the next frame, whole. *)
LEMMA ApplyKeeps ==
    ASSUME PoolInv, ApplyVideoUpdate
    PROVE  /\ PoolInv' /\ posted # <<>> /\ display_image' = PostedFrame(posted[1]) /\ posted' = Tail(posted)
           /\ \A n \in 1 .. Len(posted) : n # 1 => PostedFrame(posted[n]) = PostedFrame(posted[n - 1])'
<1> DEFINE u == posted[1]
           f == PostedFrame(u)
<1>1. PoolOK /\ PostedOK /\ ChainOK
  BY DEF PoolInv
<1>2. /\ posted # <<>> /\ posted \in Seq(Update) /\ Len(posted) \in Nat /\ Len(posted) >= 1 /\ Head(posted) = u
  BY <1>1 DEF PostedOK, ApplyVideoUpdate
<1>3. /\ Tail(posted) \in Seq(Update) /\ Len(Tail(posted)) = Len(posted) - 1 /\ posted' = Tail(posted)
      /\ \A n \in 1 .. Len(posted) - 1 : Tail(posted)[n] = posted[n + 1] /\ n + 1 \in 1 .. Len(posted)
  BY <1>2 DEF ApplyVideoUpdate
<1>4. /\ u \in Update /\ f \in ScreenFrame /\ Follows(display_image, f, u.yl, u.yh)
      /\ u.slot \in PoolSlot \cup {0} /\ u.yl \in Int /\ u.yh \in Int
  <2>1. 1 \in 1 .. Len(posted)
    BY <1>2
  <2>2. u \in Update
    BY <1>2, <2>1
  <2>3. f \in ScreenFrame
    BY <1>1, <2>1, ZenonT(20) DEF PostedOK
  <2>4. Follows(display_image, f, u.yl, u.yh)
    BY <1>1, <2>1, ZenonT(20) DEF ChainOK, Before
  <2>5. QED
    BY <2>2, <2>3, <2>4, ZenonT(20) DEF Update
<1>5. f.size \in FrameSize /\ f.px \in [Lines(f.size.h) -> PoolRow] /\ f.size.h \in Nat /\ f = [size |-> f.size, px |-> f.px]
  BY <1>4, ScreenFrameFacts
<1>6. /\ display_image' = IF display_image = Unset \/ display_image.size # f.size THEN f
                          ELSE [f EXCEPT !.px = [r \in DOMAIN f.px |-> IF r >= u.yl /\ r < u.yh THEN f.px[r]
                                                                      ELSE display_image.px[r]]]
      /\ frame_pool' = [i \in PoolSlot |-> IF i = u.slot THEN [frame_pool[i] EXCEPT !.in_use = FALSE] ELSE frame_pool[i]]
      /\ UNCHANGED <<guest_screen, frame_pool_size>>
  BY <1>2, ZenonT(40) DEF ApplyVideoUpdate
<1> HIDE DEF f
<1>7. display_image' = f
  <2>1. CASE display_image = Unset \/ display_image.size # f.size
    BY <1>6, <2>1
  <2>2. CASE ~(display_image = Unset \/ display_image.size # f.size)
    <3>1. \A r \in Lines(f.size.h) : (IF r >= u.yl /\ r < u.yh THEN f.px[r] ELSE display_image.px[r]) = f.px[r]
      <4>1. ASSUME NEW r \in Lines(f.size.h), ~(r >= u.yl /\ r < u.yh) PROVE display_image.px[r] = f.px[r]
        <5>1. r < u.yl \/ r >= u.yh
          BY <1>4, <1>5, <4>1, LineBound
        <5>2. QED
          BY <1>4, <2>2, <5>1, ZenonT(40) DEF Follows
      <4>2. QED
        BY <4>1
    <3>2. [r \in DOMAIN f.px |-> IF r >= u.yl /\ r < u.yh THEN f.px[r] ELSE display_image.px[r]] = f.px
      BY <1>5, <3>1
    <3>3. [f EXCEPT !.px = f.px] = f
      BY <1>5, ZenonT(20)
    <3>4. QED
      BY <1>6, <2>2, <3>2, <3>3, ZenonT(20)
  <2>3. QED
    BY <2>1, <2>2
<1>8. frame_pool \in [PoolSlot -> Buffer]
  BY <1>1 DEF PoolOK
<1>9. \A i \in PoolSlot : /\ frame_pool'[i] \in Buffer /\ frame_pool'[i].px = frame_pool[i].px
                          /\ frame_pool'[i].all = frame_pool[i].all /\ frame_pool'[i].top = frame_pool[i].top
                          /\ frame_pool'[i].bottom = frame_pool[i].bottom
                          /\ i # u.slot => frame_pool'[i] = frame_pool[i]
  BY <1>6, <1>8, ZenonT(40) DEF Buffer
<1>10. PoolOK'
  <2>1. frame_pool' \in [PoolSlot -> Buffer]
    BY <1>6, <1>9
  <2>2. \A i \in PoolSlot : Keeps(i)'
    BY <1>1, <1>6, <1>9 DEF PoolOK, Keeps
  <2>3. QED
    BY <1>1, <1>4, <1>6, <1>7, <2>1, <2>2 DEF PoolOK
<1>11. ASSUME NEW n \in 1 .. Len(posted)
       PROVE  /\ posted[n] \in Update /\ posted[n].slot \in PoolSlot \cup {0}
              /\ PostedFrame(posted[n]) = [size |-> posted[n].size,
                                           px |-> IF posted[n].slot = 0 THEN posted[n].own
                                                  ELSE frame_pool'[posted[n].slot].px]
  <2>1. posted[n] \in Update
    BY <1>2
  <2>2. posted[n].slot \in PoolSlot \cup {0}
    BY <2>1, ZenonT(40) DEF Update
  <2>3. QED
    BY <1>9, <2>1, <2>2, ZenonT(20) DEF PostedFrame
<1>12. ASSUME NEW n \in 1 .. Len(posted) - 1
       PROVE  /\ n + 1 \in 1 .. Len(posted) /\ posted'[n] = posted[n + 1]
              /\ PostedFrame(posted[n])' = PostedFrame(posted[n + 1])
  <2>1. n + 1 \in 1 .. Len(posted) /\ posted'[n] = posted[n + 1]
    BY <1>3
  <2>2. QED
    BY <1>11, <2>1, ZenonT(20) DEF PostedFrame
<1>13. PostedOK'
  <2>1. ASSUME NEW n \in 1 .. Len(posted')
        PROVE  PostedFrame(posted[n])' \in ScreenFrame /\ (posted'[n].slot # 0 => frame_pool'[posted'[n].slot].in_use)
    <3>1. n \in 1 .. Len(posted) - 1 /\ n + 1 \in 1 .. Len(posted) /\ posted'[n] = posted[n + 1]
      BY <1>2, <1>3, ZenonT(20)
    <3>2. PostedFrame(posted[n])' = PostedFrame(posted[n + 1])
      BY <1>12, <3>1, ZenonT(20)
    <3>3. ASSUME posted[n + 1].slot # 0 PROVE frame_pool'[posted[n + 1].slot].in_use
      <4>1. posted[n + 1].slot \in PoolSlot /\ frame_pool[posted[n + 1].slot].in_use
        BY <1>1, <1>11, <3>1, <3>3, ZenonT(40) DEF PostedOK
      <4>2. posted[n + 1].slot # u.slot
        <5>1. 1 \in 1 .. Len(posted) /\ n + 1 # 1
          BY <1>2, <3>1
        <5>2. QED
          BY <1>1, <3>1, <3>3, <5>1, ZenonT(20) DEF PostedOK
      <4>3. QED
        BY <1>9, <4>1, <4>2
    <3>4. QED
      BY <1>1, <3>1, <3>2, <3>3, ZenonT(20) DEF PostedOK
  <2>2. ASSUME NEW n \in 1 .. Len(posted'), NEW m \in 1 .. Len(posted'), posted'[n].slot # 0,
               posted'[n].slot = posted'[m].slot
        PROVE  n = m
    <3>1. /\ n + 1 \in 1 .. Len(posted) /\ posted'[n] = posted[n + 1]
          /\ m + 1 \in 1 .. Len(posted) /\ posted'[m] = posted[m + 1]
      BY <1>2, <1>3, ZenonT(20)
    <3>2. n + 1 = m + 1
      BY <1>1, <2>2, <3>1, ZenonT(40) DEF PostedOK
    <3>3. QED
      BY <1>2, <1>3, <3>2
  <2>3. QED
    BY <1>3, <2>1, <2>2, ZenonT(40) DEF PostedOK
<1>14. ChainOK'
  <2>1. ASSUME NEW n \in 1 .. Len(posted')
        PROVE  Follows(Before(n), PostedFrame(posted[n]), posted[n].yl, posted[n].yh)'
    <3>1. n \in 1 .. Len(posted) - 1 /\ n + 1 \in 1 .. Len(posted) /\ n + 1 # 1 /\ n + 1 - 1 = n
      BY <1>2, <1>3
    <3>2. Follows(PostedFrame(posted[n]), PostedFrame(posted[n + 1]), posted[n + 1].yl, posted[n + 1].yh)
      BY <1>1, <3>1 DEF ChainOK, Before
    <3>3. PostedFrame(posted[n])' = PostedFrame(posted[n + 1]) /\ posted'[n] = posted[n + 1]
      BY <1>12, <3>1, ZenonT(20)
    <3>4. Before(n)' = PostedFrame(posted[n])
      <4>1. CASE n = 1
        BY <1>7, <4>1, ZenonT(20) DEF Before, f
      <4>2. CASE n # 1
        <5>1. n - 1 \in 1 .. Len(posted) - 1 /\ n - 1 + 1 = n
          BY <1>2, <3>1, <4>2
        <5>2. PostedFrame(posted[n - 1])' = PostedFrame(posted[n])
          BY <1>12, <5>1, ZenonT(20)
        <5>3. QED
          BY <4>2, <5>2, ZenonT(20) DEF Before
      <4>3. QED
        BY <4>1, <4>2, ZenonT(20)
    <3>5. QED
      BY <3>2, <3>3, <3>4, ZenonT(20) DEF Follows
  <2>2. guest_screen = PostedFrame(posted[Len(posted)])
    BY <1>1, <1>2 DEF ChainOK
  <2>3. CASE posted' = <<>>
    <3>1. Len(posted') = 0
      BY <2>3
    <3>2. Len(posted) = 1
      BY <1>2, <1>3, <3>1
    <3>3. QED
      BY <1>6, <1>7, <2>1, <2>2, <2>3, <3>2, ZenonT(20) DEF ChainOK, f
  <2>4. CASE posted' # <<>>
    <3>1. Len(posted') \in 1 .. Len(posted) - 1 /\ Len(posted') + 1 = Len(posted)
      BY <1>2, <1>3, <2>4
    <3>2. PostedFrame(posted[Len(posted)])' = PostedFrame(posted[Len(posted)])
      <4>1. PICK n \in 1 .. Len(posted) - 1 : n = Len(posted') /\ n + 1 = Len(posted)
        BY <3>1, ZenonT(20)
      <4>2. PostedFrame(posted[n])' = PostedFrame(posted[n + 1])
        BY <1>12, ZenonT(20)
      <4>3. QED
        BY <4>1, <4>2, ZenonT(20) DEF PostedFrame
    <3>3. QED
      BY <1>6, <2>1, <2>2, <2>4, <3>2, ZenonT(20) DEF ChainOK
  <2>5. QED
    BY <2>3, <2>4, ZenonT(40)
<1>15. ASSUME NEW n \in 1 .. Len(posted), n # 1 PROVE PostedFrame(posted[n]) = PostedFrame(posted[n - 1])'
  <2>1. n - 1 \in 1 .. Len(posted) - 1 /\ n - 1 + 1 = n
    BY <1>2, <1>15
  <2>2. QED
    BY <1>12, <2>1, ZenonT(20)
<1>16. QED
  BY <1>2, <1>3, <1>7, <1>10, <1>13, <1>14, <1>15, ZenonT(20) DEF PoolInv, f

LEMMA PoolStep == PoolInv /\ [PoolNext]_poolVars => PoolInv'
<1> SUFFICES ASSUME PoolInv, [PoolNext]_poolVars PROVE PoolInv'
  OBVIOUS
<1>1. CASE \E d \in ChangedRows : \E f \in NextScreen(d[1], d[2]) : PostVideoUpdate(f, d[1], d[2])
  BY <1>1, PostKeeps, ZenonT(20)
<1>2. CASE ApplyVideoUpdate
  BY <1>2, ApplyKeeps
<1>3. CASE UNCHANGED poolVars
  <2>2. PoolOK'
    BY <1>3, ZenonT(40) DEF poolVars, PoolInv, PoolOK, Keeps
  <2>3. PostedOK'
    BY <1>3, ZenonT(40) DEF poolVars, PoolInv, PostedOK, PostedFrame
  <2>4. ChainOK'
    <3>1. /\ posted' = posted /\ display_image' = display_image
          /\ guest_screen' = guest_screen /\ frame_pool' = frame_pool
      BY <1>3, ZenonT(40) DEF poolVars
    <3>2. \A n : PostedFrame(posted[n])' = PostedFrame(posted[n]) /\ Before(n)' = Before(n)
      BY <3>1, ZenonT(40) DEF PostedFrame, Before
    <3>3. PostedFrame(posted[Len(posted)])' = PostedFrame(posted[Len(posted)])
      BY <3>1, ZenonT(40) DEF PostedFrame
    <3>4. ASSUME NEW n \in 1 .. Len(posted')
          PROVE  Follows(Before(n), PostedFrame(posted[n]), posted[n].yl, posted[n].yh)'
      <4>1. Follows(Before(n), PostedFrame(posted[n]), posted[n].yl, posted[n].yh)
        BY <3>1, <3>4, ZenonT(40) DEF PoolInv, ChainOK
      <4>2. PostedFrame(posted[n])' = PostedFrame(posted[n]) /\ Before(n)' = Before(n)
        BY <3>2, ZenonT(40)
      <4>3. QED  BY <3>1, <4>1, <4>2, ZenonT(40) DEF Follows
    <3>5. guest_screen' = IF posted' = <<>> THEN display_image'
                          ELSE PostedFrame(posted[Len(posted)])'
      <4>1. guest_screen = IF posted = <<>> THEN display_image
                           ELSE PostedFrame(posted[Len(posted)])
        BY ZenonT(40) DEF PoolInv, ChainOK
      <4>2. QED  BY <3>1, <3>3, <4>1, ZenonT(40)
    <3>6. QED
      BY <3>4, <3>5, ZenonT(40) DEF ChainOK
  <2>5. QED
    BY <2>2, <2>3, <2>4, ZenonT(40) DEF PoolInv
<1>4. QED
  BY <1>1, <1>2, <1>3 DEF PoolNext

(* The frames on their way, as FrameStream has them. *)
SentFrames == [i \in DOMAIN posted |-> PostedFrame(posted[i])]

LEMMA SentFacts ==
    ASSUME PoolInv
    PROVE  /\ SentFrames \in Seq(ScreenFrame) /\ Len(SentFrames) = Len(posted) /\ Len(posted) \in Nat
           /\ \A n \in 1 .. Len(posted) : SentFrames[n] = PostedFrame(posted[n])
<1>1. posted \in Seq(Update) /\ DOMAIN posted = 1 .. Len(posted) /\ Len(posted) \in Nat
  BY DEF PoolInv, PostedOK
<1>2. \A n \in 1 .. Len(posted) : PostedFrame(posted[n]) \in ScreenFrame
  BY ZenonT(20) DEF PoolInv, PostedOK
<1>3. SentFrames \in [1 .. Len(posted) -> ScreenFrame]
  BY <1>1, <1>2, ZenonT(20) DEF SentFrames
<1>4. SentFrames \in Seq(ScreenFrame) /\ Len(SentFrames) = Len(posted)
  BY <1>1, <1>3
<1>5. QED
  BY <1>1, <1>4, ZenonT(20) DEF SentFrames

LEMMA SentAfter ==
    ASSUME PoolInv'
    PROVE  /\ SentFrames' \in Seq(ScreenFrame) /\ Len(SentFrames') = Len(posted') /\ Len(posted') \in Nat
           /\ \A n \in 1 .. Len(posted') : SentFrames'[n] = PostedFrame(posted[n])'
<1>1. posted' \in Seq(Update) /\ DOMAIN posted' = 1 .. Len(posted') /\ Len(posted') \in Nat
  BY DEF PoolInv, PostedOK
<1>2. \A n \in 1 .. Len(posted') : PostedFrame(posted[n])' \in ScreenFrame
  BY ZenonT(20) DEF PoolInv, PostedOK
<1>3. SentFrames' \in [1 .. Len(posted') -> ScreenFrame]
  BY <1>1, <1>2, ZenonT(20) DEF SentFrames
<1>4. SentFrames' \in Seq(ScreenFrame) /\ Len(SentFrames') = Len(posted')
  BY <1>1, <1>3
<1>5. QED
  BY <1>1, <1>4, ZenonT(20) DEF SentFrames

LEMMA StreamStart == PoolInit => Stream!StreamInit
<1> SUFFICES ASSUME PoolInit PROVE Stream!StreamInit
  OBVIOUS
<1>1. PoolInv /\ Len(posted) = 0 /\ display_image = Unset
  BY PoolStart DEF PoolInit
<1>2. SentFrames = <<>>
  <2>1. SentFrames \in Seq(ScreenFrame) /\ Len(SentFrames) = 0
    BY <1>1, SentFacts
  <2>2. QED
    BY <2>1
<1>3. QED
  BY <1>1, <1>2, ZenonT(20) DEF Stream!StreamInit, SentFrames

LEMMA PostIsSend ==
    ASSUME PoolInv, NEW d \in ChangedRows, NEW f \in NextScreen(d[1], d[2]), PostVideoUpdate(f, d[1], d[2])
    PROVE  Stream!Send
<1>1. /\ PoolInv' /\ display_image' = display_image /\ Len(posted') = Len(posted) + 1
      /\ PostedFrame(posted[Len(posted)])' \in ScreenFrame
      /\ \A n \in 1 .. Len(posted) : PostedFrame(posted[n])' = PostedFrame(posted[n])
  BY PostKeeps, ZenonT(40)
<1>2. /\ SentFrames \in Seq(ScreenFrame) /\ Len(SentFrames) = Len(posted) /\ Len(posted) \in Nat
      /\ \A n \in 1 .. Len(posted) : SentFrames[n] = PostedFrame(posted[n])
  BY SentFacts, ZenonT(20)
<1>3. /\ SentFrames' \in Seq(ScreenFrame) /\ Len(SentFrames') = Len(posted')
      /\ \A n \in 1 .. Len(posted') : SentFrames'[n] = PostedFrame(posted[n])'
  BY <1>1, SentAfter, ZenonT(20)
<1>4. Len(SentFrames') = Len(SentFrames) + 1
  BY <1>1, <1>2, <1>3, ZenonT(20)
<1>5. \A n \in 1 .. Len(SentFrames) : SentFrames'[n] = SentFrames[n]
  BY <1>1, <1>2, <1>3
<1>6. SubSeq(SentFrames', 1, Len(SentFrames)) = SentFrames
  <2>1. /\ SubSeq(SentFrames', 1, Len(SentFrames)) \in Seq(ScreenFrame)
        /\ Len(SubSeq(SentFrames', 1, Len(SentFrames))) = Len(SentFrames)
        /\ \A n \in 1 .. Len(SentFrames) : SubSeq(SentFrames', 1, Len(SentFrames))[n] = SentFrames'[n]
    <3>1. Len(SentFrames) \in Nat /\ Len(SentFrames) <= Len(SentFrames')
      BY <1>2, <1>4
    <3>2. QED
      BY <1>3, <3>1, FrontOfSequence, ZenonT(40)
  <2>2. QED
    BY <1>2, <1>5, <2>1, SameSequence, ZenonT(20)
<1>7. SentFrames'[Len(SentFrames')] \in ScreenFrame
  BY <1>2, <1>3, <1>4
<1>8. QED
  BY <1>1, <1>4, <1>6, <1>7, ZenonT(40) DEF Stream!Send, SentFrames

LEMMA ApplyIsShow ==
    ASSUME PoolInv, ApplyVideoUpdate
    PROVE  Stream!Show
<1>1. /\ PoolInv' /\ posted # <<>> /\ display_image' = PostedFrame(posted[1]) /\ posted' = Tail(posted)
      /\ \A n \in 1 .. Len(posted) : n # 1 => PostedFrame(posted[n]) = PostedFrame(posted[n - 1])'
  BY ApplyKeeps, ZenonT(20)
<1>2. /\ SentFrames \in Seq(ScreenFrame) /\ Len(SentFrames) = Len(posted) /\ Len(posted) \in Nat
      /\ \A n \in 1 .. Len(posted) : SentFrames[n] = PostedFrame(posted[n])
  BY SentFacts
<1>3. /\ SentFrames' \in Seq(ScreenFrame) /\ Len(SentFrames') = Len(posted')
      /\ \A n \in 1 .. Len(posted') : SentFrames'[n] = PostedFrame(posted[n])'
  BY <1>1, SentAfter, ZenonT(40)
<1>4. posted \in Seq(Update) /\ Len(posted) >= 1 /\ Len(posted') = Len(posted) - 1
  BY <1>1 DEF PoolInv, PostedOK
<1>5. SentFrames # <<>> /\ display_image' = Head(SentFrames)
  BY <1>1, <1>2, <1>4
<1>6. SentFrames' = Tail(SentFrames)
  <2>1. /\ Tail(SentFrames) \in Seq(ScreenFrame) /\ Len(Tail(SentFrames)) = Len(SentFrames) - 1
        /\ \A n \in 1 .. Len(SentFrames) - 1 : Tail(SentFrames)[n] = SentFrames[n + 1]
    BY <1>2, <1>5
  <2>2. ASSUME NEW n \in 1 .. Len(posted') PROVE SentFrames'[n] = Tail(SentFrames)[n]
    <3>1. n + 1 \in 1 .. Len(posted) /\ n + 1 # 1 /\ n + 1 - 1 = n
      BY <1>2, <1>4
    <3>2. PostedFrame(posted[n + 1]) = PostedFrame(posted[n])'
      BY <1>1, <3>1
    <3>3. QED
      BY <1>2, <1>3, <1>4, <2>1, <3>1, <3>2, ZenonT(20)
  <2>3. QED
    BY <1>2, <1>3, <1>4, <2>1, <2>2, SameSequence, ZenonT(40)
<1>7. QED
  BY <1>5, <1>6, ZenonT(20) DEF Stream!Show, SentFrames

LEMMA StreamStep == PoolInv /\ [PoolNext]_poolVars => [Stream!Send \/ Stream!Show]_<<SentFrames, display_image>>
<1> SUFFICES ASSUME PoolInv, [PoolNext]_poolVars
             PROVE  [Stream!Send \/ Stream!Show]_<<SentFrames, display_image>>
  OBVIOUS
<1>1. CASE \E d \in ChangedRows : \E f \in NextScreen(d[1], d[2]) : PostVideoUpdate(f, d[1], d[2])
  BY <1>1, PostIsSend
<1>2. CASE ApplyVideoUpdate
  BY <1>2, ApplyIsShow, ZenonT(40)
<1>3. CASE UNCHANGED poolVars
  BY <1>3 DEF poolVars, SentFrames, PostedFrame
<1>4. QED
  BY <1>1, <1>2, <1>3, ZenonT(20) DEF PoolNext

(* A machine's own window shows every frame, whole, unchanged and in order,   *)
(* for a pool of any size and frames of any size: although PostVideoUpdate    *)
(* and ApplyVideoUpdate each copy only some of the rows, and buffers go back  *)
(* while others wait.                                                         *)
THEOREM WindowShowsEveryFrame == PoolSpec => FramesShownWhole
<1>1. PoolSpec => []PoolInv
  BY PoolStart, PoolStep, PTL DEF PoolSpec
<1>2. QED
  BY <1>1, StreamStart, StreamStep, PTL DEF PoolSpec, FramesShownWhole, Stream!StreamSpec, SentFrames
=============================================================================
