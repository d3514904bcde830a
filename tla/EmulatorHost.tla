---------------------------- MODULE EmulatorHost ----------------------------
(***************************************************************************)
(* EmulatorHost: the queue through which the other threads reach the       *)
(* emulator thread, its main loop, requests that the GUI thread waits on,  *)
(* and the way everything is stopped.  The sound and video threads are     *)
(* here as the loops that EmulatorHost runs them in; what they do when     *)
(* woken is in Sound and VideoThread.                                      *)
(***************************************************************************)
EXTENDS Integers, Sequences

CONSTANTS CommandMax,   \* bound: commands in the queue
          HostUpsets    \* what a run allows, out of AllHostUpsets

(* fatal: fatal() is called on the emulator thread.  vnc_quit: a VNC client *)
(* asks for the machine to be shut down.  late_wait: the video thread is    *)
(* held up between its test of quited and its wait.                         *)
AllHostUpsets == {"fatal", "vnc_quit", "late_wait"}

ASSUME HostAssumption == CommandMax \in Nat \ {0} /\ HostUpsets \subseteq AllHostUpsets

VARIABLES
    commands,            \* commands_
    g_commands_pending,
    posting,             \* a command pushed by a thread that has yet to set the flag
    emu,                 \* the emulator thread: where it is, and what it took
    gui_thread,                 \* the GUI thread
    state_ready,         \* the answer to the GUI thread's request
    quited,
    g_fatal_occurred,
    loops                \* the sound and the video thread

emuVars == <<commands, g_commands_pending, posting, emu, gui_thread, state_ready, quited,
              g_fatal_occurred, loops>>

Poster == {"gui", "vnc", "video"}
(* By what they do in HandleCommand: wait for the video mutex (reset), wait *)
(* for it and answer (ask), leave the main loop (exit), or none of these.   *)
HostCommand == {"plain", "reset", "ask", "exit"}
NoCommand == "none"

HostTypeOK ==
    /\ commands \in Seq(HostCommand) /\ Len(commands) <= CommandMax
    /\ g_commands_pending \in BOOLEAN
    /\ posting \in [Poster -> HostCommand \cup {NoCommand}]
    /\ emu \in [at : {"loop", "swap", "handle", "run", "idle", "fatal", "wake", "spin",
                      "sound_close", "sound_join", "closevideo", "video_join", "ended"},
                taken : Seq(HostCommand)]
    /\ emu.taken # <<>> => emu.at \in {"handle", "wake", "spin"}
    /\ gui_thread \in {"loop", "ask", "test", "commit", "asleep", "exit", "stop", "stop_sound",
                "stop_video", "join", "joining", "joined", "gone"}
    /\ state_ready \in BOOLEAN /\ quited \in BOOLEAN /\ g_fatal_occurred \in BOOLEAN
    /\ loops \in [{"sound", "video"} -> {"start", "test", "late", "wait", "work", "ended"}]

EmuHostInit ==
    /\ commands = <<>> /\ g_commands_pending = FALSE
    /\ posting = [p \in Poster |-> NoCommand]
    /\ emu = [at |-> "loop", taken |-> <<>>]
    /\ gui_thread = "loop" /\ state_ready = FALSE
    /\ quited = FALSE /\ g_fatal_occurred = FALSE
    /\ loops = [t \in {"sound", "video"} |-> "start"]

(* pthread_cond_wait gives the mutex up. *)
Locked(t) == loops[t] \in {"test", "late", "work"}

----------------------------------------------------------------------------
(* PostCommand: the command under the mutex, then the flag. *)
Push(p, c) ==
    /\ posting[p] = NoCommand /\ Len(commands) < CommandMax
    /\ commands' = Append(commands, c)
    /\ posting' = [posting EXCEPT ![p] = c]

SetPending(p) ==
    /\ posting[p] # NoCommand
    /\ g_commands_pending' = TRUE
    /\ posting' = [posting EXCEPT ![p] = NoCommand]
    /\ UNCHANGED <<commands, emu, state_ready, quited, g_fatal_occurred, loops>>
    /\ gui_thread' = IF p = "gui" THEN CASE gui_thread = "ask" -> "test" [] gui_thread = "exit" -> "stop" [] OTHER -> gui_thread
              ELSE gui_thread

(* Input and settings from the GUI or a VNC client, the flyback interrupt   *)
(* from the video thread, and a VNC client's Quit.                          *)
PostPlain(p, c) ==
    /\ p = "gui" => gui_thread = "loop" /\ ~g_fatal_occurred
    /\ p = "video" => loops["video"] = "work" /\ c = "plain"
    /\ c = "exit" => p = "vnc" /\ "vnc_quit" \in HostUpsets
    /\ c # "ask" /\ gui_thread # "gone"
    /\ Push(p, c)
    /\ UNCHANGED <<g_commands_pending, emu, gui_thread, state_ready, quited, g_fatal_occurred, loops>>

(* TakeSnapshot, SaveState, LoadState and the like: the mutex of the        *)
(* request is held from here to the wait.                                   *)
Request ==
    /\ gui_thread = "loop" /\ ~g_fatal_occurred
    /\ state_ready' = FALSE
    /\ Push("gui", "ask")
    /\ gui_thread' = "ask"
    /\ UNCHANGED <<g_commands_pending, emu, quited, g_fatal_occurred, loops>>

TestAnswer ==
    /\ gui_thread = "test"
    /\ gui_thread' = IF state_ready \/ g_fatal_occurred THEN "loop" ELSE "commit"
    /\ UNCHANGED <<commands, g_commands_pending, posting, emu, state_ready, quited, g_fatal_occurred, loops>>

FallAsleep ==
    /\ gui_thread = "commit"
    /\ gui_thread' = "asleep"
    /\ UNCHANGED <<commands, g_commands_pending, posting, emu, state_ready, quited, g_fatal_occurred, loops>>

Notified_Nobody == gui_thread
Notified == IF gui_thread = "asleep" THEN "test" ELSE gui_thread

----------------------------------------------------------------------------
Wake_Not(ls, t) == ls
Wake(ls, t) == IF ls[t] = "wait" THEN [ls EXCEPT ![t] = "work"] ELSE ls

(* ShutdownEmulator: PostExit, Stop and Join. *)
PostExit ==
    /\ gui_thread = "loop" /\ ~g_fatal_occurred
    /\ Push("gui", "exit")
    /\ gui_thread' = "exit"
    /\ UNCHANGED <<g_commands_pending, emu, state_ready, quited, g_fatal_occurred, loops>>

StopQuited ==
    /\ gui_thread = "stop"
    /\ quited' = TRUE /\ gui_thread' = "stop_sound"
    /\ UNCHANGED <<commands, g_commands_pending, posting, emu, state_ready, g_fatal_occurred, loops>>

StopSound ==
    /\ gui_thread = "stop_sound" /\ ~Locked("sound")
    /\ loops' = Wake(loops, "sound")
    /\ gui_thread' = "stop_video"
    /\ UNCHANGED <<commands, g_commands_pending, posting, emu, state_ready, quited, g_fatal_occurred>>

StopVideo ==
    /\ gui_thread = "stop_video"
    /\ loops' = Wake(loops, "video")
    /\ gui_thread' = "join"
    /\ UNCHANGED <<commands, g_commands_pending, posting, emu, state_ready, quited, g_fatal_occurred>>

Join ==
    /\ \/ gui_thread = "join" /\ gui_thread' = IF g_fatal_occurred THEN "joined" ELSE "joining"
       \/ gui_thread = "joining" /\ emu.at = "ended" /\ gui_thread' = "joined"
    /\ UNCHANGED <<commands, g_commands_pending, posting, emu, state_ready, quited, g_fatal_occurred, loops>>

(* The window is destroyed and the process ends, or ShowFatal ends it. *)
ProcessEnds ==
    /\ \/ gui_thread = "joined"
       \/ gui_thread = "loop" /\ emu.at = "spin"
    /\ gui_thread' = "gone"
    /\ UNCHANGED <<commands, g_commands_pending, posting, emu, state_ready, quited, g_fatal_occurred, loops>>

----------------------------------------------------------------------------
(* The emulator thread: MainEmuLoop with DrainCommands, HandleCommand and   *)
(* rpcemu_idle, then endrpcemu.                                             *)
EmuAt(there) == emu' = [emu EXCEPT !.at = there]

LoopTop ==
    /\ emu.at = "loop"
    /\ IF quited THEN EmuAt("sound_close") /\ UNCHANGED g_commands_pending
       ELSE EmuAt("swap") /\ g_commands_pending' = FALSE
    /\ UNCHANGED <<commands, posting, gui_thread, state_ready, quited, g_fatal_occurred, loops>>

SwapCommands ==
    /\ emu.at = "swap"
    /\ emu' = [at |-> "handle", taken |-> commands]
    /\ commands' = <<>>
    /\ UNCHANGED <<g_commands_pending, posting, gui_thread, state_ready, quited, g_fatal_occurred, loops>>

(* The answer is given under the mutex that the GUI thread gives up only in *)
(* its wait.                                                                *)
HandleCommand ==
    LET c == Head(emu.taken)
    IN /\ emu.at = "handle" /\ emu.taken # <<>>
       /\ c \in {"reset", "ask"} => ~Locked("video")
       /\ c = "ask" => gui_thread = "asleep"
       /\ emu' = [emu EXCEPT !.taken = Tail(@)]
       /\ state_ready' = (state_ready \/ c = "ask")
       /\ gui_thread' = IF c = "ask" THEN Notified ELSE gui_thread
       /\ quited' = (quited \/ c = "exit")
       /\ UNCHANGED <<commands, g_commands_pending, posting, g_fatal_occurred, loops>>

Drained_Clears ==
    /\ emu.at = "handle" /\ emu.taken = <<>>
    /\ EmuAt(IF quited THEN "loop" ELSE "run")
    /\ g_commands_pending' = FALSE
    /\ UNCHANGED <<commands, posting, gui_thread, state_ready, quited, g_fatal_occurred, loops>>

Drained ==
    /\ emu.at = "handle" /\ emu.taken = <<>>
    /\ EmuAt(IF quited THEN "loop" ELSE "run")
    /\ UNCHANGED <<commands, g_commands_pending, posting, gui_thread, state_ready, quited, g_fatal_occurred, loops>>

(* The guest runs, and may start a frame or some sound, until its budget of *)
(* cycles is spent or it calls rpcemu_idle.                                 *)
RunGuest(t, there) ==
    /\ emu.at = "run"
    /\ t = "sound" => ~Locked("sound")
    /\ loops' = IF t = "none" THEN loops ELSE Wake(loops, t)
    /\ EmuAt(there)
    /\ UNCHANGED <<commands, g_commands_pending, posting, gui_thread, state_ready, quited, g_fatal_occurred>>

GoesIdle == RunGuest("none", "idle")
BudgetSpent == \E t \in {"none", "sound", "video"} : RunGuest(t, "loop")

(* rpcemu_idle is left for the flag, and with it the rest of the budget, or *)
(* for an interrupt.                                                        *)
LeaveIdle ==
    /\ emu.at = "idle" /\ g_commands_pending
    /\ EmuAt("loop")
    /\ UNCHANGED <<commands, g_commands_pending, posting, gui_thread, state_ready, quited, g_fatal_occurred, loops>>

Interrupt ==
    /\ emu.at = "idle" /\ ~g_commands_pending
    /\ EmuAt("run")
    /\ UNCHANGED <<commands, g_commands_pending, posting, gui_thread, state_ready, quited, g_fatal_occurred, loops>>

(* fatal: the flag, WakeAllWaiters without their mutexes, PostFatal, and    *)
(* then the thread does nothing more.                                       *)
Fatal ==
    \/ /\ "fatal" \in HostUpsets
       /\ \/ emu.at = "run"
          \/ emu.at = "handle" /\ emu.taken # <<>>
       /\ EmuAt("wake") /\ g_fatal_occurred' = TRUE
       /\ UNCHANGED <<commands, g_commands_pending, posting, gui_thread, state_ready, quited, loops>>
    \/ /\ emu.at = "wake"
       /\ EmuAt("spin") /\ gui_thread' = Notified
       /\ UNCHANGED <<commands, g_commands_pending, posting, state_ready, quited, g_fatal_occurred, loops>>

(* endrpcemu: each thread is woken and waited for. *)
EndThread(t, close, join, next) ==
    \/ /\ emu.at = close
       /\ t = "sound" => ~Locked("sound")
       /\ loops' = Wake(loops, t)
       /\ EmuAt(join)
    \/ /\ emu.at = join /\ loops[t] = "ended"
       /\ EmuAt(next)
       /\ UNCHANGED loops

endrpcemu ==
    /\ \/ EndThread("sound", "sound_close", "sound_join", "closevideo")
       \/ EndThread("video", "closevideo", "video_join", "ended")
    /\ UNCHANGED <<commands, g_commands_pending, posting, gui_thread, state_ready, quited, g_fatal_occurred>>

----------------------------------------------------------------------------
(* sound_thread_function and vidcthreadrunner. *)
ThreadLoop(t) ==
    /\ \/ /\ loops[t] \in {"start", "work"}
          /\ t = "video" => posting["video"] = NoCommand
          /\ loops' = [loops EXCEPT ![t] = "test"]
       \/ /\ loops[t] = "test"
          /\ loops' = [loops EXCEPT ![t] = IF quited THEN "ended"
                                           ELSE IF t = "video" /\ "late_wait" \in HostUpsets THEN "late"
                                           ELSE "wait"]
       \/ /\ loops[t] = "late"
          /\ loops' = [loops EXCEPT ![t] = "wait"]
    /\ UNCHANGED <<commands, g_commands_pending, posting, emu, gui_thread, state_ready, quited, g_fatal_occurred>>

EmuThread ==
    \/ LoopTop \/ SwapCommands \/ HandleCommand \/ Drained \/ LeaveIdle \/ endrpcemu
    \/ GoesIdle \/ BudgetSpent

GuiWaits == TestAnswer \/ FallAsleep
GuiStops == StopQuited \/ StopSound \/ StopVideo \/ Join \/ ProcessEnds

HostNext ==
    \/ \E p \in Poster : SetPending(p) \/ \E c \in HostCommand : PostPlain(p, c)
    \/ Request \/ PostExit \/ GuiWaits \/ GuiStops
    \/ EmuThread \/ Interrupt \/ Fatal
    \/ \E t \in {"sound", "video"} : ThreadLoop(t)

HostSpec == EmuHostInit /\ [][HostNext]_emuVars

----------------------------------------------------------------------------
(* The flag never stays behind the queue: a command is in it with the flag  *)
(* down only while its poster is about to raise the flag or the emulator    *)
(* thread is about to take the queue.  rpcemu_idle sleeps on the flag       *)
(* alone.                                                                   *)
QueuedIsSignalled ==
    commands # <<>> => \/ g_commands_pending \/ emu.at = "swap"
                       \/ \E p \in Poster : posting[p] # NoCommand

(* A request of the GUI thread is answered: it does not wait for ever, also *)
(* if its command finds the emulator thread in rpcemu_idle with no          *)
(* interrupt to come.                                                       *)
RequestReturns == []<>(gui_thread \notin {"ask", "test", "commit", "asleep"})

(* Closing the window ends the process: no thread waits for ever for        *)
(* another one to end.                                                      *)
CloseEnds ==
    []<>(gui_thread \notin {"exit", "stop", "stop_sound", "stop_video", "join", "joining", "joined"})
=============================================================================
