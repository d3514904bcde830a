-------------------------- MODULE ClipboardSystem --------------------------
(***************************************************************************)
(* The shared clipboard from end to end: host applications, the GUI's      *)
(* watcher, the emulator's store, the guest's task and the applications of *)
(* the guest.                                                              *)
(*                                                                         *)
(* Upsets names what a run lets happen besides copying and pasting:        *)
(*   toggle   the menu item, while the machine runs                        *)
(*   busy     another host application has the clipboard open              *)
(*   reset    the machine is reset                                         *)
(*   quit     the task is told to quit, or its module is killed ("kill")   *)
(*   restart  the user starts a task that has ended again                  *)
(*   window   a host command lands between the task's test or read of the  *)
(*            pollword and the store that follows it                       *)
(*   error    a Wimp_SendMessage fails or a scrap file cannot be read      *)
(***************************************************************************)
EXTENDS SharedClipboard

vars == <<hostVars, guestVars>>

Init == HostInit /\ task = NewTask /\ app = Empty /\ news = FALSE

(* The main loop takes host commands between two slices of guest code. *)
Drain ==
    /\ "window" \in Upsets \/ (~task.irq /\ task.pc # "clear")
    /\ \/ HandleToggle /\ UNCHANGED news
       \/ /\ clipboard_host_changed
          /\ news' = (news \/ (core.enabled /\ core.pollword_addr))
    /\ UNCHANGED <<task, app>>

(* resetrpc: the guest is gone, the host's store is not. *)
MachineReset ==
    /\ "reset" \in Upsets /\ Happens
    /\ core' = clipboard_reset(core)
    /\ task' = NewTask /\ app' = Empty /\ news' = FALSE
    /\ pollword' = "zero"
    /\ UNCHANGED <<gui, desktop, toEmu, toGui>>

Gui ==
    /\ \/ "toggle" \in Upsets /\ OnSharedClipboard
       \/ OnClipboardTimer \/ SetHostClipboard
       \/ "busy" \in Upsets /\ SetHostClipboardBusy
       \/ \E d \in Content : HostCopy(d)
    /\ UNCHANGED guestVars

TaskStep ==
    \/ mod_service \/ mod_command_handler \/ TickStore
    \/ PollwordRead \/ PollwordClear \/ HostCheck \/ HostGet
    \/ NullReason \/ DataSave \/ RamTransmit \/ DataLoad

Next ==
    \/ Drain \/ Gui \/ MachineReset
    \/ TaskStep \/ EventV_event_handler
    \/ DataSaveRefused \/ DataRequest \/ Paste
    \/ \E d \in Content : AppCopy(d)
    \/ "quit" \in Upsets /\ Quit
    \/ "kill" \in Upsets /\ task_shutdown

Spec == Init /\ [][Next]_vars

(* The timer runs twice a second, both threads take what is posted to them, *)
(* the guest boots into its desktop, and the Wimp polls the task and the    *)
(* applications it exchanges messages with.  Nobody need start a task that  *)
(* has ended, nor load a module that was killed.  A step that a key press   *)
(* can take away for a while (the check time moves) is only strongly fair.  *)
FairSpec ==
    /\ Spec
    /\ WF_vars(OnClipboardTimer /\ UNCHANGED guestVars)
    /\ WF_vars(SetHostClipboard /\ UNCHANGED guestVars)
    /\ WF_vars(mod_service \/ TickStore \/ PollwordClear)
    /\ SF_vars(Drain) /\ SF_vars(PollwordRead \/ HostCheck \/ HostGet)
    /\ SF_vars(NullReason) /\ SF_vars(DataSave) /\ SF_vars(RamTransmit \/ DataLoad)
-----------------------------------------------------------------------------
(* Every variable holds a value of its type: the statics of hostclipboard.c *)
(* and of the guest's task, the watcher's memory and the two queues.        *)
TypeOK ==
    /\ core \in CoreState /\ gui \in GuiState /\ desktop \in Desktop
    /\ toEmu \in Seq(Command) /\ toGui \in Seq(Content \union {Empty})
    /\ pollword \in Pollword
    /\ copies \in 0 .. MaxCopies /\ events \in 0 .. MaxEvents
    /\ task \in Task /\ app \in Content \union {Empty} /\ news \in BOOLEAN

(* A knock is not lost: as long as the task is registered and has not asked *)
(* for the length since, the pollword still says "changed" or the task is   *)
(* on its way to ask.  Key presses write the same word                      *)
(* (task_clipboard_tick).                                                   *)
KnockPending ==
    (Running /\ core.pollword_addr /\ news) =>
        \/ pollword = "changed"
        \/ task.pc = "clear" /\ task.poll = "changed"
        \/ task.pc = "check"

(* While the task owns the guest's clipboard and no knock is outstanding,   *)
(* what it offers is what the host holds, whole: the length and type of     *)
(* HOST_CHECK and the data of HOST_GET are of one and the same copy,        *)
(* although the host may change the store between the two.                  *)
OffersTheHostCopy ==
    (task.pc = "poll" /\ core.pollword_addr /\ task.own_clipboard /\ ~news) =>
        task.clip_content = [len |-> Offered(core), data |-> Offered(core)]

(* The watcher sends the guest only what a host application copied, never   *)
(* the guest's own copy back (clipboard_last_seen_ is set by the setters),  *)
(* unless it has forgotten everything because sharing was switched on.      *)
NoEcho ==
    [][(Len(toEmu') > Len(toEmu) /\ toEmu'[Len(toEmu')].type = "changed")
         => \/ desktop.by = "host"
            \/ gui.last_seen = Empty /\ gui.image_last_seen = Empty]_vars

(* What a copy becomes on the other side. *)
InGuest(d) == IF d \in Text THEN ToGuest[d] ELSE d
InHost(d) == Bitmap(FromGuest(d))

(* With sharing on, what a host application copies is offered in the guest  *)
(* unless another copy replaces it, or the task has ended for good: it is   *)
(* started once, with the desktop (task_wanted).  A text even waits for a   *)
(* guest that is not there yet, that is reset meanwhile, or whose task ends *)
(* and is started again, since SETUP announces it; an image is not          *)
(* announced to a task that starts.                                         *)
HostCopyArrives ==
    \/ <>[](~Running /\ task.task_wanted # "boot")
    \/ \A d \in {c \in Content : InGuest(c) # Empty} :
         (gui.enabled /\ desktop = [data |-> d, by |-> "host"] /\ Unseen)
         ~> \/ /\ task.own_clipboard
               /\ task.clip_content = [len |-> InGuest(d), data |-> InGuest(d)]
            \/ desktop # [data |-> d, by |-> "host"]
            \/ d \in Image /\ ~Running

(* What a guest application copies reaches the host's clipboard, unless it  *)
(* is what the task pushed last, another copy replaces it or one of the two *)
(* sides stops listening.                                                   *)
GuestCopyArrives ==
    \A d \in {c \in Content : InHost(c) # Empty} :
        (app = d /\ task.host_clip_content # d)
        ~> \/ desktop = [data |-> InHost(d), by |-> "guest"]
           \/ app # d \/ ~core.pollword_addr \/ ~Running

(* Copies arrive, in both directions. *)
CopiesArrive == HostCopyArrives /\ GuestCopyArrives

(* The documentation: switching sharing on while a machine runs is enough,  *)
(* the guest reconnects when the keyboard or mouse is touched.  The task    *)
(* calls SETUP once, when it starts.                                        *)
SwitchingOnConnects ==
    []<><<EventV_event_handler>>_vars =>
        ((core.enabled /\ Running)
            ~> (core.pollword_addr \/ ~core.enabled \/ ~Running))

(* A paste reads the content only while the task owns the clipboard and has *)
(* something on it ("Messages for when we own the clipboard", c/task).      *)
PasteWhileOwning == [][Paste => task.own_clipboard /\ Held(task)]_vars
=============================================================================
