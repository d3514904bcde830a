----------------------------- MODULE VideoThread -----------------------------
(***************************************************************************)
(* From the guest's screen memory to the host's picture (vidc20.c, with    *)
(* the dirty marks of mem.c, iomd.c and gfxcard.c).  The emulator thread   *)
(* runs the guest and, once a frame, drawscr(); the video thread converts  *)
(* the pages that are marked and hands them over.  A write marks its page  *)
(* only the first time: later ones go through a write-TLB entry, until     *)
(* drawscr drops the entries.  What the model keeps of a page's contents   *)
(* is whose they are, and whether they are still what the source holds.    *)
(* The pointer that is drawn over the picture is left out.                 *)
(***************************************************************************)
EXTENDS Integers, FiniteSetsExt

CONSTANTS VideoPages,    \* pages of screen memory that are displayed
          ScreenSize,    \* sizes of the display
          VideoUpsets    \* "slow_start": the first frame may come before the thread

ASSUME VideoAssumption == VideoPages \in Nat \ {0}

VARIABLES
    vidc_dma,        \* video DMA is on: VIDC shows screen memory, else a border
    gfx_ctrl,        \* the graphics card: "off", "on" or "blank"
    mode_size,       \* the size that the guest's registers give
    dirty,           \* the marks of dirtybuffer1 and dirtybuffer2
    dirtybuffer,     \* which of the two the guest's writes mark
    write_tlb,       \* pages with a write-TLB entry
    gfx_dirty, gfx_tlb,                  \* the same for the card's framestore
    palchange, lastframeborder,
    current_size, bitmap,                \* the host-side picture
    thr,             \* what drawscr leaves for the thread
    video_thread, todo,                  \* the thread, and pages it has still to convert
    shown, shown_size                    \* what the host was last given

guestVideoVars == <<vidc_dma, gfx_ctrl, mode_size>>
videoVars == <<vidc_dma, gfx_ctrl, mode_size, dirty, dirtybuffer, write_tlb, gfx_dirty,
               gfx_tlb, palchange, lastframeborder, current_size, bitmap, thr,
               video_thread, todo, shown, shown_size>>

Pages == 0 .. VideoPages - 1
Cell == {"vram", "card", "border", "blank", "old"}

(* A change at the source: what was taken from it is not what it holds now. *)
Outdated(pic, src, pages) == [p \in Pages |-> IF p \in pages /\ pic[p] \in src THEN "old" ELSE pic[p]]
Outdate(src, pages) == /\ bitmap' = Outdated(bitmap, src, pages)
                       /\ shown' = Outdated(shown, src, pages)

(* drawscr has set a frame up that the thread has not finished. *)
FrameSet == thr.pending \/ video_thread = "draw"

(* A frame of src that drawscr has passed on is of the time before. *)
TooLate(src) == thr' = [thr EXCEPT !.late = @ \/ (FrameSet /\ thr.source = src)]

(* The display that the guest has selected. *)
Displayed == CASE gfx_ctrl = "on" -> "card"
               [] gfx_ctrl = "blank" -> "blank"
               [] gfx_ctrl = "off" /\ vidc_dma -> "vram"
               [] OTHER -> "border"

Band(pages) == IF pages = {} THEN {} ELSE Min(pages) .. Max(pages)

NoFrameSet == [pending |-> FALSE, source |-> "vram", buffer |-> 1, rows |-> {}, late |-> FALSE]

VideoTypeOK ==
    /\ vidc_dma \in BOOLEAN /\ gfx_ctrl \in {"off", "on", "blank"} /\ mode_size \in ScreenSize
    /\ dirty \in [{1, 2} -> SUBSET Pages] /\ dirtybuffer \in {1, 2}
    /\ write_tlb \subseteq Pages /\ gfx_dirty \subseteq Pages /\ gfx_tlb \subseteq Pages
    /\ palchange \in BOOLEAN /\ lastframeborder \in BOOLEAN
    /\ {current_size, shown_size} \subseteq ScreenSize \cup {0}
    /\ bitmap \in [Pages -> Cell] /\ shown \in [Pages -> Cell]
    /\ thr \in [pending : BOOLEAN, source : {"vram", "card", "blank"}, buffer : {1, 2},
                rows : SUBSET Pages, late : BOOLEAN]
    /\ video_thread \in {"start", "wait", "woken", "draw"} /\ todo \subseteq Pages

initvideo ==
    /\ vidc_dma = FALSE /\ gfx_ctrl = "off" /\ mode_size \in ScreenSize
    /\ dirty = [b \in {1, 2} |-> Pages] /\ dirtybuffer = 1
    /\ write_tlb = {} /\ gfx_dirty = Pages /\ gfx_tlb = {}
    /\ palchange = FALSE /\ lastframeborder = FALSE
    /\ current_size = 0 /\ bitmap = [p \in Pages |-> "old"]
    /\ thr = NoFrameSet
    /\ video_thread = IF "slow_start" \in VideoUpsets THEN "start" ELSE "wait"
    /\ todo = {}
    /\ shown = bitmap /\ shown_size = 0

----------------------------------------------------------------------------
(* The guest, on the emulator thread. *)

WriteVram(p) ==
    /\ Outdate({"vram"}, {p})
    /\ dirty' = IF p \in write_tlb THEN dirty
                ELSE [dirty EXCEPT ![dirtybuffer] = @ \cup {p}]
    /\ write_tlb' = write_tlb \cup {p}
    /\ UNCHANGED <<guestVideoVars, dirtybuffer, gfx_dirty, gfx_tlb, palchange,
                   lastframeborder, current_size, thr, video_thread, todo, shown_size>>

WriteFramestore(p) ==
    /\ Outdate({"card"}, {p})
    /\ gfx_dirty' = IF p \in gfx_tlb THEN gfx_dirty ELSE gfx_dirty \cup {p}
    /\ gfx_tlb' = gfx_tlb \cup {p}
    /\ UNCHANGED <<guestVideoVars, dirty, dirtybuffer, write_tlb, palchange,
                   lastframeborder, current_size, thr, video_thread, todo, shown_size>>

(* writevidc20: a colour or the depth; the thread converts with the colours *)
(* that drawscr copied for it.                                              *)
WritePalette ==
    /\ Outdate({"vram", "border"}, Pages)
    /\ palchange' = TRUE
    /\ TooLate("vram")
    /\ UNCHANGED <<guestVideoVars, dirty, dirtybuffer, write_tlb, gfx_dirty, gfx_tlb,
                   lastframeborder, current_size, video_thread, todo, shown_size>>

resetbuffer_Other == dirty' = [dirty EXCEPT ![3 - dirtybuffer] = Pages]
resetbuffer == dirty' = [dirty EXCEPT ![dirtybuffer] = Pages]

(* IOMD's VIDSTART, VIDEND, VIDINIT and VIDCR. *)
WriteVideoDma(on) ==
    /\ vidc_dma' = on
    /\ Outdate({"vram"}, Pages)
    /\ TooLate("vram")
    /\ resetbuffer
    /\ UNCHANGED <<gfx_ctrl, mode_size, dirtybuffer, write_tlb, gfx_dirty, gfx_tlb,
                   palchange, lastframeborder, current_size, video_thread, todo, shown_size>>

(* The card's control, format, start and palette registers, each of which   *)
(* has the whole framestore converted again; taking over or giving up the   *)
(* display may change its size.                                             *)
WriteCardRegister(ctrl, size) ==
    /\ gfx_ctrl' = ctrl
    /\ gfx_ctrl = "off" /\ ctrl = "off" => size = mode_size
    /\ mode_size' = size
    /\ Outdate({"card"}, Pages)
    /\ TooLate("card")
    /\ gfx_dirty' = Pages
    /\ UNCHANGED <<vidc_dma, dirty, dirtybuffer, write_tlb, gfx_tlb, palchange,
                   lastframeborder, current_size, video_thread, todo, shown_size>>

(* VIDC's display registers: nothing is marked, drawscr compares the sizes. *)
WriteDisplaySize(size) ==
    /\ gfx_ctrl = "off" /\ size # mode_size
    /\ mode_size' = size
    /\ UNCHANGED <<vidc_dma, gfx_ctrl, dirty, dirtybuffer, write_tlb, gfx_dirty, gfx_tlb,
                   palchange, lastframeborder, current_size, bitmap, thr, video_thread,
                   todo, shown, shown_size>>

----------------------------------------------------------------------------
(* drawscr, on the emulator thread: without the mutex, or with a frame that *)
(* the thread has not taken yet, it leaves again.  With a new size the      *)
(* picture is allocated anew and everything is marked.                      *)

VideoMutexFree == video_thread # "draw"

SizeChanged == mode_size # current_size
Resized == IF SizeChanged THEN [p \in Pages |-> "old"] ELSE bitmap
MarkedNow == IF SizeChanged THEN [dirty EXCEPT ![dirtybuffer] = Pages] ELSE dirty

(* The signal reaches the thread only while it waits. *)
vidcwakeupthread_Lost == UNCHANGED video_thread
vidcwakeupthread == video_thread' = IF video_thread = "wait" THEN "woken" ELSE video_thread

DrawCard ==
    /\ gfx_ctrl # "off"
    /\ thr' = [NoFrameSet EXCEPT !.pending = TRUE, !.rows = Band(gfx_dirty),
                                 !.source = IF gfx_ctrl = "blank" THEN "blank" ELSE "card"]
    /\ gfx_dirty' = {} /\ gfx_tlb' = {}
    /\ lastframeborder' = TRUE
    /\ bitmap' = Resized /\ dirty' = MarkedNow
    /\ vidcwakeupthread
    /\ UNCHANGED <<dirtybuffer, write_tlb, palchange, shown, shown_size>>

(* The whole picture is the border's colour, plotted and handed over here. *)
DrawBorder ==
    /\ gfx_ctrl = "off" /\ ~vidc_dma
    /\ lastframeborder' = TRUE
    /\ IF 0 \in MarkedNow[dirtybuffer] \/ palchange
       THEN /\ dirty' = [MarkedNow EXCEPT ![dirtybuffer] = @ \ {0}]
            /\ palchange' = FALSE
            /\ bitmap' = [p \in Pages |-> "border"]
            /\ shown' = bitmap' /\ shown_size' = mode_size
       ELSE dirty' = MarkedNow /\ bitmap' = Resized /\ UNCHANGED <<palchange, shown, shown_size>>
    /\ UNCHANGED <<dirtybuffer, write_tlb, gfx_dirty, gfx_tlb, thr, video_thread>>

(* The marks go to the thread, and the guest's writes mark the other buffer. *)
DrawVram ==
    LET marks == IF palchange \/ lastframeborder
                 THEN [MarkedNow EXCEPT ![dirtybuffer] = Pages] ELSE MarkedNow
    IN /\ gfx_ctrl = "off" /\ vidc_dma
       /\ palchange' = FALSE /\ lastframeborder' = FALSE
       /\ dirty' = marks
       /\ thr' = [NoFrameSet EXCEPT !.pending = TRUE, !.buffer = dirtybuffer]
       /\ dirtybuffer' = 3 - dirtybuffer
       /\ write_tlb' = {}
       /\ bitmap' = Resized
       /\ vidcwakeupthread
       /\ UNCHANGED <<gfx_dirty, gfx_tlb, shown, shown_size>>

drawscr ==
    /\ VideoMutexFree /\ ~thr.pending
    /\ current_size' = mode_size
    /\ DrawCard \/ DrawBorder \/ DrawVram
    /\ UNCHANGED <<guestVideoVars, todo>>

----------------------------------------------------------------------------
(* The video thread: vidcthreadrunner and vidcthread. *)

(* The thread gets its mutex for the first time and waits. *)
ThreadStarts ==
    /\ video_thread = "start"
    /\ video_thread' = "wait"
    /\ UNCHANGED <<guestVideoVars, dirty, dirtybuffer, write_tlb, gfx_dirty, gfx_tlb,
                   palchange, lastframeborder, current_size, bitmap, thr, todo, shown,
                   shown_size>>

(* Woken, possibly for no reason. *)
TakeFrame ==
    /\ video_thread \in {"wait", "woken"} /\ thr.pending
    /\ video_thread' = "draw"
    /\ thr' = [thr EXCEPT !.pending = FALSE]
    /\ todo' = CASE thr.source = "vram" -> dirty[thr.buffer]
                 [] thr.source = "card" -> thr.rows
                 [] OTHER -> Pages
    /\ UNCHANGED <<guestVideoVars, dirty, dirtybuffer, write_tlb, gfx_dirty, gfx_tlb,
                   palchange, lastframeborder, current_size, bitmap, shown, shown_size>>

(* A page is converted as its memory is at this moment, with the colours    *)
(* and the place in memory that drawscr saw.                                *)
ConvertPage(p) ==
    /\ video_thread = "draw"
    /\ bitmap' = [bitmap EXCEPT ![p] = IF thr.late THEN "old" ELSE thr.source]
    /\ todo' = todo \ {p}
    /\ UNCHANGED <<guestVideoVars, dirty, dirtybuffer, write_tlb, gfx_dirty, gfx_tlb,
                   palchange, lastframeborder, current_size, thr, video_thread, shown,
                   shown_size>>

(* The last of vidcthread: its marks are cleaned, the band of rows that may *)
(* have changed is handed over; a picture of another size is taken whole.   *)
(* (What thr held is not looked at again, and the model forgets it.)        *)
FrameDone ==
    LET band == CASE thr.source = "vram" -> Band(dirty[thr.buffer])
                  [] thr.source = "card" -> thr.rows
                  [] OTHER -> Pages
        rows == IF shown_size = current_size THEN band ELSE Pages
    IN /\ video_thread = "draw" /\ todo = {}
       /\ video_thread' = "wait"
       /\ dirty' = IF thr.source = "vram" THEN [dirty EXCEPT ![thr.buffer] = {}] ELSE dirty
       /\ gfx_dirty' = IF thr.source = "blank" THEN Pages ELSE gfx_dirty
       /\ thr' = NoFrameSet
       /\ IF band = {} THEN UNCHANGED <<shown, shown_size>>
          ELSE /\ shown' = [p \in Pages |-> IF p \in rows THEN bitmap[p] ELSE shown[p]]
               /\ shown_size' = current_size
       /\ UNCHANGED <<guestVideoVars, dirtybuffer, write_tlb, gfx_tlb, palchange,
                      lastframeborder, current_size, bitmap, todo>>

vidcthread == TakeFrame \/ (\E p \in todo : ConvertPage(p)) \/ FrameDone

Guest ==
    \/ \E p \in Pages : WriteVram(p) \/ WriteFramestore(p)
    \/ WritePalette
    \/ \E on \in BOOLEAN : WriteVideoDma(on)
    \/ \E ctrl \in {"off", "on", "blank"}, size \in ScreenSize : WriteCardRegister(ctrl, size)
    \/ \E size \in ScreenSize : WriteDisplaySize(size)

VideoNext == Guest \/ drawscr \/ ThreadStarts \/ vidcthread

VideoSpec == initvideo /\ [][VideoNext]_videoVars

----------------------------------------------------------------------------
(* Between frames, a page without a mark is shown as its source has it, so  *)
(* that converting the marked pages is enough: no write goes unmarked past  *)
(* a TLB entry, none is marked in the buffer that the thread cleans, and a  *)
(* change of display, of colours or of size marks everything.               *)
UnmarkedIsShown ==
    ~FrameSet /\ mode_size = current_size =>
        /\ Displayed = "vram" /\ ~palchange /\ ~lastframeborder =>
               \A p \in Pages \ dirty[dirtybuffer] : shown[p] = "vram"
        /\ Displayed = "card" => \A p \in Pages \ Band(gfx_dirty) : shown[p] = "card"

(* Once the guest leaves its screen alone, the host comes to show it and    *)
(* keeps showing it, whatever the guest did before.                         *)
StillIsShown ==
    <>[][~Guest]_videoVars =>
        <>[](\/ Displayed = "border"
             \/ shown_size = mode_size /\ \A p \in Pages : shown[p] = Displayed)

(* The border fills the picture when VIDC has the display and its DMA is    *)
(* off, unless it is still to be drawn.                                     *)
BorderIsShown ==
    ~FrameSet /\ mode_size = current_size /\ Displayed = "border"
        /\ ~palchange /\ 0 \notin dirty[dirtybuffer] => \A p \in Pages : shown[p] = "border"
=============================================================================
