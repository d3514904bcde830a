----------------------------- MODULE LatestFrame -----------------------------
(***************************************************************************)
(* What a shared framebuffer promises its reader (machine_ipc.h): the      *)
(* frame that was newest when a reading began "survives two more Publish() *)
(* calls", so the reading returns it, whole, unless a third one begins     *)
(* first.  A slower reading returns some picture.                          *)
(***************************************************************************)
EXTENDS Naturals

CONSTANTS Frame,     \* whole pictures, each with its size
          NoFrame    \* nothing has been published yet

VARIABLES newest,    \* the frame that a reader is to see, NoFrame before the first
          asked,     \* whether a reading is in progress
          owed,      \* the newest frame when it began, while it is owed
          passed,    \* publications since then: up to two, 3 when a third begins
          answer     \* what the last reading returned, NoFrame for nothing to show

latestVars == <<newest, asked, owed, passed, answer>>

LatestInit == /\ newest = NoFrame /\ asked = FALSE /\ owed = NoFrame
              /\ passed = 0 /\ answer = NoFrame

Replace == /\ newest' \in Frame
           /\ passed' = IF asked /\ passed < 2 THEN passed + 1 ELSE passed
           /\ UNCHANGED <<asked, owed, answer>>

Overtake == /\ passed = 2
            /\ passed' = 3 /\ owed' = NoFrame
            /\ UNCHANGED <<newest, asked, answer>>

Ask == /\ ~asked
       /\ asked' = TRUE /\ owed' = newest /\ answer' = NoFrame
       /\ UNCHANGED <<newest, passed>>

Answer == /\ asked
          /\ answer' \in Frame \cup {NoFrame}
          /\ passed < 3 => answer' = owed
          /\ asked' = FALSE /\ owed' = NoFrame /\ passed' = 0
          /\ UNCHANGED newest

LatestNext == Replace \/ Overtake \/ Ask \/ Answer

LatestSpec == LatestInit /\ [][LatestNext]_latestVars
=============================================================================
