----------------------------- MODULE RemotePanel -----------------------------
(***************************************************************************)
(* RemoteEmulatorPanel: the Manager's view of one running machine.  Each   *)
(* FrameReady event says which rows of the shared framebuffer changed; the *)
(* panel paints only those, either itself (frame_pixels_ scaled into       *)
(* scaled_image_) or through a GlDisplayCanvas with a texture of its own.  *)
(* What a picture holds is kept as the set of its rows that agree with the *)
(* newest published frame.                                                 *)
(***************************************************************************)
EXTENDS Integers, Sequences

CONSTANTS FrameRows,               \* rows of the guest's screen
          FrameMode,               \* sizes the screen can have
          ReportedRows,            \* ranges in FrameReady events, <<top, bottom>>
          EventMax,                \* bound: events on their way to the GUI thread
          kGlUndecidedPaintLimit,
          NoMode                   \* no picture yet

ASSUME PanelAssumption ==
    /\ FrameRows \in Nat \ {0} /\ EventMax \in Nat /\ kGlUndecidedPaintLimit \in Nat
    /\ NoMode \notin FrameMode
    /\ ReportedRows \subseteq (0 .. FrameRows) \X (0 .. FrameRows)

VARIABLES
    newest_mode,    \* size of the newest frame in the shared framebuffer
    frame_events,   \* FrameReady events not yet handled
    panel,          \* live_, active_, frame_dirty_, dirty_all_, dirty rows, size
    frame_pixels,   \* the panel's copy of the frame
    scaled_image,   \* what it scaled from that copy; NoMode: not valid
    canvas,         \* gl_canvas_ and its texture
    acceleration,   \* the setting
    paints,         \* which of the two windows has a paint to come
    on_screen,      \* rows of the newest frame that the user sees
    gave_up         \* the canvas went away and not all was redrawn since

panelVars == <<newest_mode, frame_events, panel, frame_pixels, scaled_image, canvas,
               acceleration, paints, on_screen, gave_up>>

PanelRows == 0 .. FrameRows - 1
RowsOf(d) == {r \in PanelRows : d[1] <= r /\ r < d[2]}
Nothing == [mode |-> NoMode, now |-> {}]
PanelImage == [mode : FrameMode \cup {NoMode}, now : SUBSET PanelRows]

PanelTypeOK ==
    /\ newest_mode \in FrameMode \cup {NoMode}
    /\ frame_events \in Seq(ReportedRows) /\ Len(frame_events) <= EventMax
    /\ panel \in [live : BOOLEAN, active : BOOLEAN, frame_dirty : BOOLEAN, dirty_all : BOOLEAN,
                  dirty : (0 .. FrameRows) \X (0 .. FrameRows), mode : FrameMode \cup {NoMode}]
    /\ frame_pixels \in PanelImage /\ scaled_image \in PanelImage
    /\ canvas \in [is : {"none", "undecided", "usable", "failed"}, tried : BOOLEAN,
                   paints : 0 .. kGlUndecidedPaintLimit, texture : PanelImage]
    /\ acceleration \in BOOLEAN /\ paints \subseteq {"panel", "canvas"}
    /\ on_screen \subseteq PanelRows /\ gave_up \in BOOLEAN

PanelInit ==
    /\ newest_mode = NoMode /\ frame_events = <<>>
    /\ panel = [live |-> TRUE, active |-> FALSE, frame_dirty |-> FALSE, dirty_all |-> FALSE,
                dirty |-> <<0, 0>>, mode |-> NoMode]
    /\ frame_pixels = Nothing /\ scaled_image = Nothing
    /\ canvas = [is |-> "none", tried |-> FALSE, paints |-> 0, texture |-> Nothing]
    /\ acceleration \in BOOLEAN
    /\ paints = {"panel"} /\ on_screen = {} /\ gave_up = FALSE

(* The machine publishes a frame, whose event follows it: every picture is  *)
(* out of date in the rows that changed.  A range that says nothing stands  *)
(* for any rows, and a frame of another size is drawn whole.                *)
FramePublished(m, d) ==
    LET changed == IF m # newest_mode \/ RowsOf(d) = {} THEN PanelRows ELSE RowsOf(d)
    IN /\ panel.live /\ Len(frame_events) < EventMax
       /\ m # newest_mode => RowsOf(d) \in {{}, PanelRows}
       /\ newest_mode' = m
       /\ frame_events' = Append(frame_events, d)
       /\ frame_pixels' = [frame_pixels EXCEPT !.now = @ \ changed]
       /\ scaled_image' = [scaled_image EXCEPT !.now = @ \ changed]
       /\ canvas' = [canvas EXCEPT !.texture.now = @ \ changed]
       /\ on_screen' = on_screen \ changed
       /\ UNCHANGED <<panel, acceleration, paints, gave_up>>

GlActive == canvas.is = "usable"

Union_LastOnly(a, d) == d
Union(a, d) == IF a[2] <= a[1] THEN d
               ELSE <<IF d[1] < a[1] THEN d[1] ELSE a[1], IF d[2] > a[2] THEN d[2] ELSE a[2]>>

(* HandleIpcEvent, FrameReady: rows are gathered until a paint uses them,   *)
(* and a machine that is not being shown is ignored.                        *)
FrameReady ==
    LET d == Head(frame_events)
        known == d[2] > d[1]
    IN /\ frame_events # <<>>
       /\ frame_events' = Tail(frame_events)
       /\ IF panel.active
          THEN /\ panel' = [panel EXCEPT !.dirty = IF known THEN Union(@, d) ELSE @,
                                         !.dirty_all = @ \/ ~known,
                                         !.frame_dirty = ~GlActive]
               /\ paints' = paints \cup {IF GlActive THEN "canvas" ELSE "panel"}
               /\ gave_up' = (gave_up /\ canvas.is = "none")
          ELSE UNCHANGED <<panel, paints, gave_up>>
       /\ UNCHANGED <<newest_mode, frame_pixels, scaled_image, canvas, acceleration, on_screen>>

Windows == {"panel"} \cup (IF canvas.is = "none" THEN {} ELSE {"canvas"})

SetActive(active) ==
    /\ panel.active # active
    /\ IF active /\ panel.live
       THEN /\ panel' = [panel EXCEPT !.active = TRUE, !.frame_dirty = TRUE, !.dirty_all = TRUE]
            /\ paints' = paints \cup Windows
            /\ gave_up' = FALSE
       ELSE panel' = [panel EXCEPT !.active = active] /\ UNCHANGED <<paints, gave_up>>
    /\ UNCHANGED <<newest_mode, frame_events, frame_pixels, scaled_image, canvas, acceleration, on_screen>>

(* A Fatal or Quit event. *)
MachineGone ==
    /\ panel.live
    /\ panel' = [panel EXCEPT !.live = FALSE]
    /\ UNCHANGED <<newest_mode, frame_events, frame_pixels, scaled_image, canvas, acceleration,
                   paints, on_screen, gave_up>>

(* ScaledBitmap: everything if the size or the filter is another one, else  *)
(* the rows gathered.  Pixels of one size read as another are no picture.   *)
ScaledBitmap(px, mode, valid, all) ==
    LET these == IF all \/ ~valid \/ scaled_image.mode # mode THEN PanelRows ELSE RowsOf(panel.dirty)
        good == IF px.mode = mode THEN px.now ELSE {}
    IN [mode |-> mode, now |-> (scaled_image.now \ these) \cup (these \cap good)]

(* A canvas that has said nothing is given this many paints of the panel. *)
Undecided(c) == c.is = "undecided" /\ c.paints < kGlUndecidedPaintLimit

NewCanvas == [is |-> "undecided", tried |-> TRUE, paints |-> 0, texture |-> Nothing]

(* OnPaint, with RefreshFrame, TryCreateGlCanvas and DestroyGlCanvas.  The  *)
(* filter follows how the user moves the mouse: other_filter.               *)
OnPaint(other_filter) ==
    LET refresh == panel.live /\ panel.frame_dirty /\ newest_mode # NoMode
        px == IF refresh THEN [mode |-> newest_mode, now |-> PanelRows] ELSE frame_pixels
        mode == IF refresh THEN newest_mode ELSE panel.mode
        try == panel.live /\ px.mode # NoMode /\ ~canvas.tried
        c == IF try THEN IF acceleration THEN NewCanvas ELSE [canvas EXCEPT !.tried = TRUE] ELSE canvas
        waits == Undecided(c)
        destroy == c.is = "failed" \/ (c.is = "undecided" /\ ~waits)
        draws == panel.live /\ mode # NoMode /\ px.mode # NoMode
        image == ScaledBitmap(px, mode, scaled_image.mode # NoMode /\ ~destroy,
                              panel.dirty_all \/ destroy \/ other_filter)
        seen == [panel EXCEPT !.frame_dirty = @ /\ ~panel.live, !.mode = mode]
    IN /\ "panel" \in paints
       /\ frame_pixels' = px
       /\ IF c.is = "usable" \/ waits
          THEN /\ canvas' = IF waits THEN [c EXCEPT !.paints = @ + 1] ELSE c
               /\ panel' = seen
               /\ on_screen' = IF waits THEN {} ELSE on_screen
               /\ paints' = (paints \ {"panel"}) \cup (IF try THEN {"canvas"} ELSE {})
               /\ UNCHANGED scaled_image
          ELSE /\ canvas' = IF destroy THEN [c EXCEPT !.is = "none", !.texture = Nothing] ELSE c
               /\ panel' = [seen EXCEPT !.dirty_all = ~draws /\ (@ \/ destroy),
                                        !.dirty = IF draws THEN <<0, 0>> ELSE @]
               /\ scaled_image' = IF draws THEN image ELSE IF destroy THEN Nothing ELSE scaled_image
               /\ on_screen' = IF draws THEN image.now ELSE {}
               /\ paints' = IF destroy THEN {"panel"} ELSE paints \ {"panel"}
       /\ UNCHANGED <<newest_mode, frame_events, acceleration, gave_up>>

(* UpdateFrame: a new texture is filled whole, else only the rows gathered. *)
UpdateFrame(t) ==
    LET these == IF panel.dirty_all \/ t.mode # newest_mode THEN PanelRows ELSE RowsOf(panel.dirty)
    IN [mode |-> newest_mode, now |-> t.now \cup these]

(* GlDisplayCanvas::OnPaint and UploadPendingFrame.  The first paint on     *)
(* screen decides whether the canvas is of use.                             *)
CanvasPaints ==
    /\ "canvas" \in paints /\ canvas.is \in {"undecided", "usable"}
    /\ IF panel.live /\ newest_mode # NoMode
       THEN /\ canvas' = [canvas EXCEPT !.is = "usable", !.texture = UpdateFrame(@)]
            /\ panel' = [panel EXCEPT !.mode = newest_mode, !.dirty_all = FALSE, !.dirty = <<0, 0>>]
       ELSE canvas' = [canvas EXCEPT !.is = "usable"] /\ UNCHANGED panel
    /\ on_screen' = canvas'.texture.now
    /\ paints' = paints \ {"canvas"}
    /\ UNCHANGED <<newest_mode, frame_events, frame_pixels, scaled_image, acceleration, gave_up>>

(* The context cannot be made, or stops being current. *)
CanvasFails ==
    /\ "canvas" \in paints /\ canvas.is \in {"undecided", "usable"}
    /\ canvas' = [canvas EXCEPT !.is = "failed"]
    /\ paints' = paints \ {"canvas"}
    /\ gave_up' = TRUE
    /\ UNCHANGED <<newest_mode, frame_events, panel, frame_pixels, scaled_image, acceleration, on_screen>>

OnSize ==
    /\ IF panel.live
       THEN /\ scaled_image' = Nothing
            /\ panel' = [panel EXCEPT !.frame_dirty = TRUE]
            /\ gave_up' = FALSE
            /\ paints' = paints \cup Windows
       ELSE /\ paints' = paints \cup (Windows \ {"panel"})
            /\ UNCHANGED <<scaled_image, panel, gave_up>>
    /\ UNCHANGED <<newest_mode, frame_events, frame_pixels, canvas, acceleration, on_screen>>

OnSettleTimer ==
    /\ panel.live /\ panel.active
    /\ scaled_image' = Nothing
    /\ paints' = paints \cup {"panel"}
    /\ UNCHANGED <<newest_mode, frame_events, panel, frame_pixels, canvas, acceleration, on_screen, gave_up>>

(* The setting is changed while the machine runs.  Taking the canvas away   *)
(* uncovers the panel.                                                      *)
SetHardwareAcceleration(enabled) ==
    LET destroy == ~enabled /\ canvas.is # "none"
        again == enabled /\ canvas.is = "none"
    IN /\ acceleration # enabled
       /\ acceleration' = enabled
       /\ canvas' = IF destroy THEN [NewCanvas EXCEPT !.is = "none"]
                    ELSE [canvas EXCEPT !.tried = ~again]
       /\ gave_up' = (gave_up \/ (~enabled /\ GlActive))
       /\ IF destroy \/ enabled
          THEN /\ scaled_image' = Nothing
               /\ panel' = [panel EXCEPT !.dirty_all = TRUE]
               /\ paints' = (IF destroy THEN {} ELSE paints) \cup {"panel"}
          ELSE UNCHANGED <<scaled_image, panel, paints>>
       /\ UNCHANGED <<newest_mode, frame_events, frame_pixels, on_screen>>

(* SaveScreenshot reads the frame into the panel's copy. *)
SaveScreenshot ==
    /\ panel.live /\ newest_mode # NoMode
    /\ frame_pixels' = [mode |-> newest_mode, now |-> PanelRows]
    /\ UNCHANGED <<newest_mode, frame_events, panel, scaled_image, canvas, acceleration,
                   paints, on_screen, gave_up>>

PanelNext ==
    \/ \E m \in FrameMode, d \in ReportedRows : FramePublished(m, d)
    \/ FrameReady \/ MachineGone
    \/ \E b \in BOOLEAN : SetActive(b) \/ SetHardwareAcceleration(b) \/ OnPaint(b)
    \/ CanvasPaints \/ CanvasFails
    \/ OnSize \/ OnSettleTimer \/ SaveScreenshot

PanelSpec == PanelInit /\ [][PanelNext]_panelVars

----------------------------------------------------------------------------
(* With no event and no paint to come, the user sees every row of the       *)
(* newest frame of the machine being shown, whichever of the two paths drew *)
(* it and whatever was switched meanwhile.  The exception is a canvas that  *)
(* was given up: if its failure is met while painting a frame, until then,  *)
(* otherwise until a resize or a switch of machine redraws everything.      *)
QuietPanelIsUpToDate ==
    /\ panel.live /\ panel.active /\ newest_mode # NoMode
    /\ frame_events = <<>> /\ paints = {} /\ ~gave_up
    => on_screen = PanelRows

(* What the comment of DestroyGlCanvas has in mind: the CPU path starts     *)
(* from nothing and draws the whole picture.                                *)
GivenUpIsUpToDate ==
    /\ panel.live /\ panel.active /\ newest_mode # NoMode /\ canvas.is = "none"
    /\ frame_events = <<>> /\ paints = {}
    => on_screen = PanelRows
=============================================================================
