----------------------------- MODULE FrameStream -----------------------------
(***************************************************************************)
(* What the hand-over of frames to a window promises: every frame of the   *)
(* guest's screen is shown, whole and unchanged, in the order they came.   *)
(***************************************************************************)
EXTENDS Naturals, Sequences

CONSTANTS Picture,       \* whole pictures, each with its size
          NoPicture      \* nothing shown yet

VARIABLES sent,          \* frames handed over and not shown yet
          picture        \* the one that is shown

StreamInit == sent = <<>> /\ picture = NoPicture

Send == /\ Len(sent') = Len(sent) + 1
        /\ SubSeq(sent', 1, Len(sent)) = sent
        /\ sent'[Len(sent')] \in Picture
        /\ UNCHANGED picture

Show == /\ sent # <<>>
        /\ picture' = Head(sent)
        /\ sent' = Tail(sent)

StreamSpec == StreamInit /\ [][Send \/ Show]_<<sent, picture>>
=============================================================================
