--------------------------- MODULE HostClipboard ---------------------------
(***************************************************************************)
(* The host's half of the shared clipboard: the store and the SWI in       *)
(* hostclipboard.c, which run on the emulator thread, and the watcher in   *)
(* gui/main_frame.cpp, which runs on the GUI thread.  The two threads meet *)
(* in two queues: PostCommand one way and CallAfter the other.             *)
(*                                                                         *)
(* A text is known by its host form.  ToGuest gives what the guest's       *)
(* alphabet leaves of it and ToHost what the host makes of a text the      *)
(* guest copied.  An image is a file, handed over as it is; Decoded gives  *)
(* the PNG of the bitmap the GUI makes of it.  Empty stands for nothing    *)
(* left: no character has an equivalent, or the image does not decode.     *)
(***************************************************************************)
EXTENDS Sequences, Naturals

CONSTANTS
    Text, Image,  \* what applications copy
    Empty,        \* nothing: no data, or a NULL pointer
    ToGuest,      \* ucs_to_guest over a whole text
    ToHost,       \* guest_to_ucs over a whole text
    Decoded,      \* wxImage::LoadFile and then EncodeBitmapAsPng
    MaxCopies,    \* bound: copies made by applications on either side
    MaxEvents     \* bound: toggles, resets, quits and kills together

Content == Text \union Image

ASSUME ContentAssumption ==
    /\ Text \intersect Image = {} /\ Empty \notin Content
    /\ ToGuest \in [Text -> Text \union {Empty}]
    /\ ToHost \in [Text -> Text \union {Empty}]
    /\ Decoded \in [Image -> Image \union {Empty}]
    /\ MaxCopies \in Nat /\ MaxEvents \in Nat

VARIABLES
    core,      \* the statics of hostclipboard.c and config.clipboard_enabled
    gui,       \* MainFrame: config_copy_ and what the watcher last saw
    desktop,   \* the host's own clipboard, and which side put it there
    toEmu,     \* commands posted to the emulator thread
    toGui,     \* closures posted to the GUI thread
    pollword,  \* the word of guest memory the task waits on
    copies,    \* copies made so far
    events    \* disturbances so far

boundVars == <<copies, events>>
hostVars == <<core, gui, desktop, toEmu, toGui, pollword, boundVars>>

CoreState == [enabled : BOOLEAN, clip_ucs : Text \union {Empty},
         clip_image : Image \union {Empty}, pollword_addr : BOOLEAN]
GuiState == [enabled : BOOLEAN, last_seen : Text \union {Empty},
        image_last_seen : Image \union {Empty}]
Desktop == [data : Content \union {Empty}, by : {"host", "guest"}]
Command == [type : {"toggle"}] \union [type : {"changed"}, data : Content]
Pollword == {"zero", "changed", "tick"}
-----------------------------------------------------------------------------
(* hostclipboard.c *)

clip_discard(c) == [c EXCEPT !.clip_ucs = Empty, !.clip_image = Empty]

(* Store a copy; whichever form arrives last is the only one held. *)
Store(c, d) ==
    IF d \in Image THEN [clip_discard(c) EXCEPT !.clip_image = d]
    ELSE [clip_discard(c) EXCEPT !.clip_ucs = d]

(* What the guest is handed: the image if there is one, else the text in   *)
(* the guest's alphabet.                                                   *)
Offered(c) ==
    IF c.clip_image # Empty THEN c.clip_image
    ELSE IF c.clip_ucs # Empty THEN ToGuest[c.clip_ucs] ELSE Empty

clipboard_reset(c) == [c EXCEPT !.pollword_addr = FALSE]

(* The knock, if the guest has said where. *)
Knock(c, word) == IF c.pollword_addr THEN "changed" ELSE word

(* SETUP with a pollword address: a text already held is announced. *)
SetupWord_NoKnock(c) == "zero"
SetupWord(c) == IF c.enabled /\ c.clip_ucs # Empty THEN "changed" ELSE "zero"
Setup(c, addr) == IF c.enabled THEN [c EXCEPT !.pollword_addr = addr] ELSE c

(* HOST_SET: the copy is stored in host form and passed to the GUI.  Text   *)
(* with no equivalent at all leaves an empty text; an image is stored as    *)
(* the file it is and decoded only by the GUI.                              *)
FromGuest(d) == IF d \in Image THEN d ELSE ToHost[d]
HostSet(c, d) == IF c.enabled THEN Store(c, FromGuest(d)) ELSE c
Posted(c, d) == IF c.enabled THEN Append(toGui, FromGuest(d)) ELSE toGui
-----------------------------------------------------------------------------
(* The emulator thread, between two slices of guest code *)

HandleToggle ==
    /\ toEmu # <<>> /\ Head(toEmu).type = "toggle"
    /\ toEmu' = Tail(toEmu)
    /\ core' = LET c == [core EXCEPT !.enabled = ~@]
               IN  IF c.enabled THEN c ELSE clipboard_reset(c)
    /\ UNCHANGED <<gui, desktop, toGui, pollword, boundVars>>

clipboard_host_changed ==
    /\ toEmu # <<>> /\ Head(toEmu).type = "changed"
    /\ toEmu' = Tail(toEmu)
    /\ core' = IF core.enabled THEN Store(core, Head(toEmu).data) ELSE core
    /\ pollword' = IF core.enabled THEN Knock(core, pollword) ELSE pollword
    /\ UNCHANGED <<gui, desktop, toGui, boundVars>>
-----------------------------------------------------------------------------
(* The GUI thread *)

Happens == events < MaxEvents /\ events' = events + 1 /\ UNCHANGED copies

OnSharedClipboard ==
    /\ Happens
    /\ toEmu' = Append(toEmu, [type |-> "toggle"])
    /\ gui' = IF gui.enabled THEN [gui EXCEPT !.enabled = FALSE]
              ELSE [gui EXCEPT !.enabled = TRUE, !.last_seen = Empty]
    /\ UNCHANGED <<core, desktop, toGui, pollword>>

Unseen ==
    /\ desktop.data # Empty
    /\ desktop.data \notin {gui.last_seen, gui.image_last_seen}

Seen(d) == [gui EXCEPT !.last_seen = IF d \in Text THEN d ELSE Empty,
                       !.image_last_seen = IF d \in Image THEN d ELSE Empty]

(* Twice a second; a clipboard another application has open is left for    *)
(* the next time.                                                          *)
OnClipboardTimer ==
    /\ gui.enabled /\ Unseen
    /\ gui' = Seen(desktop.data)
    /\ toEmu' = Append(toEmu, [type |-> "changed", data |-> desktop.data])
    /\ UNCHANGED <<core, desktop, toGui, pollword, boundVars>>

(* The closure of PostSetHostClipboard and PostSetHostClipboardImage.  What *)
(* arrives is a text in host form or an image file to decode; an image that *)
(* does not decode, or a clipboard another application has open, loses it.  *)
Bitmap(d) == IF d \in Image THEN Decoded[d] ELSE d
SetHostClipboard_Forgets ==
    /\ toGui # <<>>
    /\ toGui' = Tail(toGui)
    /\ LET d == Bitmap(Head(toGui))
       IN  IF Head(toGui) \in Image /\ d = Empty THEN UNCHANGED desktop
           ELSE desktop' = [data |-> d, by |-> "guest"]
    /\ UNCHANGED <<core, gui, toEmu, pollword, boundVars>>
SetHostClipboard ==
    /\ toGui # <<>>
    /\ toGui' = Tail(toGui)
    /\ LET d == Bitmap(Head(toGui))
       IN  IF Head(toGui) \in Image /\ d = Empty THEN UNCHANGED <<desktop, gui>>
           ELSE desktop' = [data |-> d, by |-> "guest"] /\ gui' = Seen(d)
    /\ UNCHANGED <<core, toEmu, pollword, boundVars>>

SetHostClipboardBusy ==
    /\ toGui # <<>>
    /\ toGui' = Tail(toGui)
    /\ UNCHANGED <<core, gui, desktop, toEmu, pollword, boundVars>>

(* A host application copies something. *)
HostCopy(d) ==
    /\ copies < MaxCopies /\ copies' = copies + 1
    /\ desktop' = [data |-> d, by |-> "host"]
    /\ UNCHANGED <<core, gui, toEmu, toGui, pollword, events>>
-----------------------------------------------------------------------------
HostInit ==
    /\ \E on \in BOOLEAN :
          /\ core = [enabled |-> on, clip_ucs |-> Empty, clip_image |-> Empty,
                     pollword_addr |-> FALSE]
          /\ gui = [enabled |-> on, last_seen |-> Empty,
                    image_last_seen |-> Empty]
    /\ desktop = [data |-> Empty, by |-> "host"]
    /\ toEmu = <<>> /\ toGui = <<>> /\ pollword = "zero"
    /\ copies = 0 /\ events = 0

=============================================================================
