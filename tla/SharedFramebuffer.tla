-------------------------- MODULE SharedFramebuffer --------------------------
(***************************************************************************)
(* The video path between an emulator and the Manager: three slots in      *)
(* shared memory, written by the emulator's video thread and read by the   *)
(* Manager's window without a lock (machine_ipc.cpp).  A frame is a size   *)
(* and one value per row.  A reading copies row by row, the writer's rows  *)
(* go in at once, which leaves the same mixtures of old and new to be      *)
(* read.  The two halves of a slot's size are one value, and prev_slot,    *)
(* which no reader loads, is stored with front_slot.                       *)
(***************************************************************************)
EXTENDS Integers, Sequences

CONSTANTS Row,         \* what a row of pixels may hold
          DirtyRange,  \* row ranges that a drawing reports, <<top, bottom>>
          GuestSize,   \* sizes of the guest's screen, [w |-> .., h |-> ..]
          kMaxWidth, kMaxHeight,
          BlankRow,    \* a row before anything is drawn
          NoFrame      \* nothing published yet, no publication in progress

ASSUME SizeAssumption ==
    /\ kMaxWidth \in Nat \ {0} /\ kMaxHeight \in Nat \ {0}
    /\ GuestSize \subseteq [w : Nat \ {0}, h : Nat \ {0}]
    /\ DirtyRange \subseteq Int \X Int
    /\ BlankRow \notin Row

Slot == 0..2                          \* kBufferCount = 3

VARIABLES
    screen,      \* the emulator's bitmap: its size and its rows
    slot,        \* the pixels of each slot
    slot_size,   \* slot_width and slot_height, zero before a slot is used
    front_slot, prev_slot,
    stale,       \* what the writer owes each slot: all of it, or some rows
    write_size,  \* write_width_ and write_height_
    publish,     \* the target of a publication before its last store
    read,        \* where a reading has got to, and what it has copied
    owed, passed,\* the frame a reading began with, publications since
    answer       \* what the last reading returned

fbVars == <<screen, slot, slot_size, front_slot, prev_slot, stale, write_size,
            publish, read, owed, passed, answer>>

Lesser(a, b) == IF a < b THEN a ELSE b
Greater(a, b) == IF a > b THEN a ELSE b

Rows(n) == 0 .. n - 1
NoSize == [w |-> 0, h |-> 0]
(* A frame is cropped to what a slot holds. *)
Stored(size) == [w |-> Lesser(size.w, kMaxWidth), h |-> Lesser(size.h, kMaxHeight)]
Picture(size, px) == [size |-> size, px |-> [r \in Rows(size.h) |-> px[r]]]
StoredSize == {Stored(s) : s \in GuestSize}
Frame == UNION {[size : {s}, px : [Rows(s.h) -> Row \cup {BlankRow}]] : s \in StoredSize}
Screen == UNION {[size : {s}, px : [Rows(s.h) -> Row]] : s \in GuestSize}

ASSUME NoFrameAssumption == NoFrame \notin Slot \cup Screen

(* The frame that the header names, if there is one. *)
Newest == IF slot_size[front_slot].h = 0 THEN NoFrame
          ELSE Picture(slot_size[front_slot], slot[front_slot])

NotReading == [step |-> "idle", slot |-> 0, size |-> NoSize, px |-> <<>>]
UpToDate == [all |-> FALSE, top |-> 0, bottom |-> 0]

(* Rows top .. bottom - 1, as one range with those that r already holds. *)
Merged_LastOnly(r, top, bottom) == [r EXCEPT !.top = top, !.bottom = bottom]
Merged(r, top, bottom) ==
    IF r.bottom > r.top
    THEN [r EXCEPT !.top = Lesser(@, top), !.bottom = Greater(@, bottom)]
    ELSE [r EXCEPT !.top = top, !.bottom = bottom]

FbTypeOK ==
    /\ screen \in Screen \cup {NoFrame}
    /\ slot \in [Slot -> [Rows(kMaxHeight) -> Row \cup {BlankRow}]]
    /\ slot_size \in [Slot -> [w : 0 .. kMaxWidth, h : 0 .. kMaxHeight]]
    /\ front_slot \in Slot /\ prev_slot \in Slot \ {front_slot}
    /\ stale \in [Slot -> [all : BOOLEAN, top : 0 .. kMaxHeight, bottom : 0 .. kMaxHeight]]
    /\ write_size \in StoredSize \cup {NoSize} /\ publish \in Slot \cup {NoFrame}
    /\ read.step \in {"idle", "size", "copy"} /\ read.slot \in Slot
    /\ read.size \in StoredSize \cup {NoSize} /\ Len(read.px) <= read.size.h
    /\ owed \in Frame \cup {NoFrame} /\ passed \in 0 .. 3 /\ answer \in Frame \cup {NoFrame}

FbInit ==
    /\ screen = NoFrame
    /\ slot = [i \in Slot |-> [r \in Rows(kMaxHeight) |-> BlankRow]]
    /\ slot_size = [i \in Slot |-> NoSize]
    /\ front_slot = 0 /\ prev_slot = 2
    /\ stale = [i \in Slot |-> [UpToDate EXCEPT !.all = TRUE]]
    /\ write_size = NoSize
    /\ publish = NoFrame
    /\ read = NotReading /\ owed = NoFrame /\ passed = 0 /\ answer = NoFrame

----------------------------------------------------------------------------
(* The writer: the video thread, or the emulator thread for a border, with *)
(* the video mutex held.                                                    *)

(* What the video chip's drawing may hand over: rows outside the range are *)
(* those of the last frame, unless the range means all or a slot's size    *)
(* changes with it.                                                         *)
Drawn(top, bottom) ==
    {f \in Screen :
        \/ screen = NoFrame
        \/ top < 0 \/ bottom <= top
        \/ Stored(f.size) # write_size
        \/ f.size # screen.size /\ top = 0 /\ bottom = f.size.h
        \/ /\ f.size = screen.size
           /\ \A r \in Rows(f.size.h) : r < top \/ r >= bottom => f.px[r] = screen.px[r]}

(* The slot to write: neither the front one nor the one before it. *)
Target == CHOOSE i \in Slot : i # front_slot /\ i # prev_slot

(* Publish up to its last store: the range is clamped to what is stored,    *)
(* the target gets the rows of this frame and those it owes, and the others *)
(* fall behind.                                                             *)
Publish(f, dirty_top, dirty_bottom) ==
    LET size == Stored(f.size)
        whole == dirty_top < 0 \/ dirty_bottom <= dirty_top
        top == IF whole THEN 0 ELSE Lesser(dirty_top, size.h)
        bottom == IF whole THEN size.h ELSE Lesser(dirty_bottom, size.h)
        fresh == size # write_size
        target == Target
        owing == Merged(stale[target], top, bottom)
        rows == IF fresh \/ stale[target].all THEN Rows(size.h)
                ELSE owing.top .. owing.bottom - 1
    IN /\ publish = NoFrame
       /\ publish' = target
       /\ screen' = f
       /\ write_size' = size
       /\ slot' = [slot EXCEPT ![target] =
                     [r \in Rows(kMaxHeight) |-> IF r \in rows THEN f.px[r] ELSE @[r]]]
       /\ slot_size' = [slot_size EXCEPT ![target] = size]
       /\ stale' = [i \in Slot |->
                      IF i = target THEN UpToDate
                      ELSE [Merged(stale[i], top, bottom) EXCEPT !.all = @ \/ fresh]]
       /\ passed' = IF passed = 2 THEN 3 ELSE passed
       /\ owed' = IF passed = 2 THEN NoFrame ELSE owed
       /\ UNCHANGED <<front_slot, prev_slot, read, answer>>

StoreFront ==
    /\ publish # NoFrame
    /\ prev_slot' = front_slot
    /\ front_slot' = publish
    /\ publish' = NoFrame
    /\ passed' = IF read.step # "idle" /\ passed < 2 THEN passed + 1 ELSE passed
    /\ UNCHANGED <<screen, slot, slot_size, stale, write_size, read, owed, answer>>

----------------------------------------------------------------------------
(* The reader: ReadInto copies the rows out, AcquireFront leaves it to its *)
(* caller to read them where they are.                                      *)

LoadFront ==
    /\ read.step = "idle"
    /\ read' = [NotReading EXCEPT !.step = "size", !.slot = front_slot]
    /\ owed' = Newest
    /\ answer' = NoFrame
    /\ UNCHANGED <<screen, slot, slot_size, front_slot, prev_slot, stale, write_size,
                   publish, passed>>

(* The size is known: the rows to copy are those of the picture. *)
LoadSize ==
    LET size == slot_size[read.slot]
    IN /\ read.step = "size"
       /\ size.w # 0 /\ size.h # 0
       /\ read' = [read EXCEPT !.step = "copy", !.size = size]
       /\ UNCHANGED <<screen, slot, slot_size, front_slot, prev_slot, stale, write_size,
                      publish, owed, passed, answer>>

Answered(frame) ==
    /\ answer' = frame
    /\ read' = NotReading /\ owed' = NoFrame /\ passed' = 0

(* Nothing has been published yet: false. *)
ReturnFalse ==
    /\ read.step = "size"
    /\ slot_size[read.slot].w = 0 \/ slot_size[read.slot].h = 0
    /\ Answered(NoFrame)
    /\ UNCHANGED <<screen, slot, slot_size, front_slot, prev_slot, stale, write_size,
                   publish>>

(* The next row is copied, from the top; with the last one the call returns. *)
CopyOut ==
    LET px == Append(read.px, slot[read.slot][Len(read.px)])
    IN /\ read.step = "copy"
       /\ IF Len(px) < read.size.h
          THEN read' = [read EXCEPT !.px = px] /\ UNCHANGED <<owed, passed, answer>>
          ELSE Answered([size |-> read.size, px |-> [r \in Rows(read.size.h) |-> px[r + 1]]])
       /\ UNCHANGED <<screen, slot, slot_size, front_slot, prev_slot, stale, write_size,
                      publish>>

Read == LoadSize \/ ReturnFalse \/ CopyOut

FbNext ==
    \/ /\ publish = NoFrame
       /\ \E d \in DirtyRange : \E f \in Drawn(d[1], d[2]) : Publish(f, d[1], d[2])
    \/ StoreFront \/ LoadFront \/ Read

FbSpec == FbInit /\ [][FbNext]_fbVars

----------------------------------------------------------------------------
(* What a reader is to see: between two publications the whole of the last  *)
(* frame that the machine handed over, cropped, although only the rows said *)
(* to have changed are copied to a slot that missed earlier ones.           *)
HandedOver ==
    IF publish = NoFrame /\ screen # NoFrame THEN Picture(Stored(screen.size), screen.px)
    ELSE Newest

(* The framebuffer keeps the promise of its header file: a reading returns, *)
(* whole and with its own size, the frame that was newest when it began,    *)
(* unless a third publication begins before it ends (Publish's choice of a  *)
(* slot, what it copies there, and the order of its stores).                *)
Promise == INSTANCE LatestFrame WITH newest <- HandedOver, asked <- read.step # "idle"

LatestFrameKept == Promise!LatestSpec
=============================================================================
