---------------------------- MODULE MCClipboard ----------------------------
(* Small instances of the shared clipboard: t2 loses the characters the     *)
(* guest does not have and becomes t1, t3 has no character the other side   *)
(* knows, and p2 is an image that does not decode.                          *)
EXTENDS ClipboardSystem
CONSTANTS t1, t2, t3, p1, p2
MCToGuest == [t \in Text |-> CASE t = t3 -> Empty [] t = t2 -> t1
                               [] OTHER -> t]
MCToHost == [t \in Text |-> IF t = t3 THEN Empty ELSE t]
MCDecoded == [i \in Image |-> IF i = p2 THEN Empty ELSE i]
=============================================================================
