------------------------------ MODULE FramePool ------------------------------
(***************************************************************************)
(* A machine in a window of its own: MainFrame::PostVideoUpdate copies a   *)
(* frame into a buffer of its pool and posts it to the GUI thread, where   *)
(* EmulatorPanel::ApplyVideoUpdate copies the rows that changed into its   *)
(* picture and the buffer goes back to the pool.  Only what changed is     *)
(* copied at either end.  A frame is a size and one value per row.         *)
(***************************************************************************)
EXTENDS Integers, Sequences

CONSTANTS PoolRow,        \* what a row may hold
          FrameSize,      \* sizes of the screen, [w |-> .., h |-> ..]
          ChangedRows,    \* ranges that the video thread reports, <<yl, yh>>
          kFramePoolSize,
          PostedMax,      \* bound: frames waiting for the GUI thread
          Unset           \* a row of a new buffer, no picture yet

ASSUME PoolAssumption ==
    /\ kFramePoolSize \in Nat \ {0} /\ PostedMax \in Nat
    /\ FrameSize \subseteq [w : Nat \ {0}, h : Nat \ {0}] /\ ChangedRows \subseteq Int \X Int
    /\ Unset \notin PoolRow

VARIABLES
    guest_screen,   \* the bitmap that the video thread draws in
    frame_pool,     \* the buffers, each with what it has missed
    frame_pool_size,
    posted,         \* CallAfter's queue
    display_image   \* the panel's picture

poolVars == <<guest_screen, frame_pool, frame_pool_size, posted, display_image>>

PoolSlot == 1 .. kFramePoolSize
Lines(n) == 0 .. n - 1
ScreenFrame == UNION {[size : {s}, px : [Lines(s.h) -> PoolRow]] : s \in FrameSize}
ASSUME UnsetAssumption == Unset \notin ScreenFrame

NoArea == [w |-> 0, h |-> 0]
npixels(size) == size.w * size.h

PoolTypeOK ==
    /\ guest_screen \in ScreenFrame \cup {Unset} /\ display_image \in ScreenFrame \cup {Unset}
    /\ frame_pool_size \in FrameSize \cup {NoArea}
    /\ \A i \in PoolSlot :
          LET s == frame_pool[i]
          IN /\ s.count # 0 \/ s.px # <<>> =>
                    \E z \in FrameSize : s.count = npixels(z) /\ s.px \in [Lines(z.h) -> PoolRow]
             /\ {s.in_use, s.all} \subseteq BOOLEAN /\ {s.top, s.bottom} \subseteq Nat
    /\ Len(posted) <= PostedMax
    /\ \A n \in DOMAIN posted : posted[n].slot \in PoolSlot \cup {0} /\ posted[n].size \in FrameSize

PoolInit ==
    /\ guest_screen = Unset
    /\ frame_pool = [i \in PoolSlot |-> [px |-> <<>>, count |-> 0, in_use |-> FALSE,
                                         all |-> TRUE, top |-> 0, bottom |-> 0]]
    /\ frame_pool_size = NoArea
    /\ posted = <<>> /\ display_image = Unset

(* The video thread's bitmap after a drawing that reports rows yl .. yh - 1:  *)
(* a new size is drawn whole.                                                 *)
NextScreen(yl, yh) ==
    {f \in ScreenFrame :
        /\ yh <= f.size.h
        /\ \/ yl = 0 /\ yh = f.size.h
           \/ /\ guest_screen # Unset /\ f.size = guest_screen.size
              /\ \A r \in Lines(f.size.h) : r < yl \/ r >= yh => f.px[r] = guest_screen.px[r]}

(* A buffer falls behind by the rows of a frame that went into another one. *)
Behind_Never(s, yl, yh) == s
Behind(s, yl, yh) ==
    IF s.bottom > s.top
    THEN [s EXCEPT !.top = IF yl < @ THEN yl ELSE @, !.bottom = IF yh > @ THEN yh ELSE @]
    ELSE [s EXCEPT !.top = yl, !.bottom = yh]

(* The buffer that is taken gets the rows of this frame, those it missed,   *)
(* or all of them if it is new to this size.                                *)
TakesAll(s, f) == s.all \/ s.count # npixels(f.size)

Filled(s, f, yl, yh) ==
    LET whole == TakesAll(s, f)
        late == s.bottom > s.top
        top == IF late /\ s.top < yl THEN s.top ELSE yl
        bottom == IF late /\ s.bottom > yh THEN s.bottom ELSE yh
    IN [px |-> [r \in Lines(f.size.h) |->
                  IF whole \/ (r >= top /\ r < bottom) THEN f.px[r]
                  ELSE IF r \in DOMAIN s.px THEN s.px[r] ELSE Unset],
        count |-> npixels(f.size), in_use |-> TRUE, all |-> FALSE, top |-> 0, bottom |-> 0]

(* A buffer of the pool, or none if one was found in use: the GUI thread    *)
(* may give buffers back while the video thread looks for one.              *)
Takable == {i \in PoolSlot : ~frame_pool[i].in_use}
             \cup (IF \E i \in PoolSlot : frame_pool[i].in_use THEN {0} ELSE {})

PostVideoUpdate(f, yl, yh) ==
    LET pool == IF f.size = frame_pool_size THEN frame_pool
                ELSE [i \in PoolSlot |-> [frame_pool[i] EXCEPT !.all = TRUE]]
    IN \E taken \in Takable :
          /\ Len(posted) < PostedMax
          /\ guest_screen' = f
          /\ frame_pool_size' = f.size
          /\ frame_pool' = [i \in PoolSlot |-> IF i = taken THEN Filled(pool[i], f, yl, yh)
                                               ELSE Behind(pool[i], yl, yh)]
          /\ posted' = Append(posted, [slot |-> taken, size |-> f.size, yl |-> yl, yh |-> yh,
                                       own |-> IF taken = 0 THEN f.px ELSE <<>>])
          /\ UNCHANGED display_image

PostedFrame(u) == [size |-> u.size, px |-> IF u.slot = 0 THEN u.own ELSE frame_pool[u.slot].px]

(* The panel takes a picture of another size whole, otherwise the rows that *)
(* changed; the buffer goes back when the call is done.                     *)
ApplyVideoUpdate ==
    LET u == Head(posted)
        f == PostedFrame(u)
    IN /\ posted # <<>>
       /\ display_image' =
             IF display_image = Unset \/ display_image.size # f.size THEN f
             ELSE [f EXCEPT !.px = [r \in DOMAIN @ |-> IF r >= u.yl /\ r < u.yh THEN @[r]
                                                       ELSE display_image.px[r]]]
       /\ frame_pool' = [i \in PoolSlot |-> IF i = u.slot THEN [frame_pool[i] EXCEPT !.in_use = FALSE]
                                            ELSE frame_pool[i]]
       /\ posted' = Tail(posted)
       /\ UNCHANGED <<guest_screen, frame_pool_size>>

PoolNext ==
    \/ \E d \in ChangedRows : \E f \in NextScreen(d[1], d[2]) : PostVideoUpdate(f, d[1], d[2])
    \/ ApplyVideoUpdate

PoolSpec == PoolInit /\ [][PoolNext]_poolVars

----------------------------------------------------------------------------
(* Every frame is shown whole, unchanged and in order, although only the    *)
(* rows that changed are copied: a buffer on loan is not written to, one    *)
(* that was away catches up on the rows it missed, and the panel's own      *)
(* picture stays whole.                                                     *)
Stream == INSTANCE FrameStream WITH
              Picture <- ScreenFrame, NoPicture <- Unset,
              sent <- [i \in DOMAIN posted |-> PostedFrame(posted[i])],
              picture <- display_image

FramesShownWhole == Stream!StreamSpec
=============================================================================
