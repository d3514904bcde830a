-------------------------- MODULE SharedClipboard --------------------------
(***************************************************************************)
(* The guest's half of the shared clipboard: the Wimp task and the event   *)
(* handler of the RISC OS module SharedClipboard (riscos-progs/            *)
(* SharedClipboard, c/task and c/module), and the other applications of    *)
(* the guest's desktop, which speak the clipboard protocol with it.        *)
(*                                                                         *)
(* The Wimp is cooperative: a handler of the task runs to its end before   *)
(* another application does.  The event handler interrupts it, and the     *)
(* emulator may run host commands between any two guest instructions, so   *)
(* each SWI and each access to the pollword is a step.                     *)
(*                                                                         *)
(* check_msg, fetch_msg and paste_msg hold the reference of the message    *)
(* the task waits for an answer to.  References are unique and an answer   *)
(* to an old one is ignored, so a variable is modelled by which answer it  *)
(* still admits.                                                           *)
(***************************************************************************)
EXTENDS HostClipboard

CONSTANTS
    Junk,      \* a length never written: the output of a refused SWI
    Upsets     \* the disturbances a run allows

ASSUME UpsetsAssumption ==
    /\ Junk \notin Content \union {Empty}
    /\ Upsets \subseteq {"toggle", "busy", "reset", "quit", "kill", "restart",
                         "window", "error"}

VARIABLES
    task,   \* the module's statics
    app,    \* what a guest application holds on the guest's clipboard
    news    \* history: a knock the task has not yet answered with CHECK

guestVars == <<task, app, news>>

NoClip == [len |-> Empty, data |-> Empty]
Clip == [len : Content \union {Empty, Junk}, data : Content \union {Empty}]

(* task_wanted is 0 until the desktop starts ("boot"), then 1 ("yes"), and 0   *)
(* again in a module that is loaded anew after it was killed ("anew").        *)
Task == [pc : {"none", "poll", "clear", "check", "get"},
         task_wanted : {"boot", "yes", "anew"},
         poll : Pollword, irq : BOOLEAN, own_clipboard : BOOLEAN,
         clip_content : Clip, host_clip_content : Content \union {Empty},
         check_msg : {"none", "asked", "load"}, fetch_msg : BOOLEAN,
         paste_msg : BOOLEAN, check_time : BOOLEAN]

NewTask == [pc |-> "none", task_wanted |-> "boot", poll |-> "zero", irq |-> FALSE,
            own_clipboard |-> FALSE, clip_content |-> NoClip,
            host_clip_content |-> Empty, check_msg |-> "none",
            fetch_msg |-> FALSE, paste_msg |-> FALSE, check_time |-> FALSE]

Running == task.pc # "none"
Polling == task.pc = "poll" /\ ~task.irq
Held(t) == t.clip_content # NoClip
Freed(t) == [t EXCEPT !.clip_content = NoClip]
unchangedHost == UNCHANGED hostVars
onlyTask == UNCHANGED <<app, news>> /\ unchangedHost
-----------------------------------------------------------------------------
(* main up to its poll loop: the statics of an earlier task stay. *)
StartTask(wanted) ==
    /\ task.pc = "none" /\ ~task.irq
    /\ task' = [task EXCEPT !.pc = "poll", !.own_clipboard = FALSE,
                            !.check_time = TRUE, !.task_wanted = wanted]
    /\ core' = Setup(core, TRUE)
    /\ pollword' = SetupWord(core)
    /\ news' = (SetupWord(core) = "changed")
    /\ UNCHANGED <<gui, desktop, toEmu, toGui, boundVars, app>>

(* Service_StartWimp, when the desktop starts.  The module claims it once. *)
mod_service == task.task_wanted = "boot" /\ StartTask("yes")

(* The user starts a task that has ended, with *SharedClipStart, or by        *)
(* entering the desktop again after loading the module again.                 *)
mod_command_handler ==
    /\ "restart" \in Upsets /\ task.task_wanted # "boot"
    /\ \E wanted \in {task.task_wanted, "yes"} : StartTask(wanted)

(* The task has gone, and with it the answers it was waiting for. *)
Ended(t) == [t EXCEPT !.pc = "none", !.check_msg = "none",
                      !.fetch_msg = FALSE, !.paste_msg = FALSE]

(* message_QUIT: the pollword is withdrawn. *)
Quit ==
    /\ Polling /\ Happens
    /\ task' = Ended(task)
    /\ core' = Setup(core, FALSE)
    /\ UNCHANGED <<gui, desktop, toEmu, toGui, pollword, app, news>>

(* task_shutdown, when the module is killed: nothing is withdrawn. *)
task_shutdown ==
    /\ Polling /\ Happens
    /\ task' = [NewTask EXCEPT !.task_wanted = "anew"]
    /\ UNCHANGED <<core, gui, desktop, toEmu, toGui, pollword, app, news>>

(* task_clipboard_tick: a key or mouse event asks for a check and wakes the *)
(* task.  The test of the pollword and the store are two instructions.      *)
Ticked_Clobbers(t) ==
    IF t.own_clipboard THEN t ELSE [t EXCEPT !.check_time = TRUE, !.irq = TRUE]
Ticked(t) ==
    IF t.own_clipboard THEN t
    ELSE [t EXCEPT !.check_time = TRUE, !.irq = (pollword = "zero")]

EventV_event_handler ==
    /\ ~task.irq /\ task.pc # "clear" /\ ~task.own_clipboard
    /\ task' = Ticked(task)
    /\ task' # task
    /\ onlyTask

TickStore ==
    /\ task.irq
    /\ task' = [task EXCEPT !.irq = FALSE]
    /\ pollword' = "tick"
    /\ UNCHANGED <<core, gui, desktop, toEmu, toGui, boundVars, app, news>>
-----------------------------------------------------------------------------
(* wimp_POLLWORD_NON_ZERO: the pollword is read and cleared with interrupts *)
(* off, which keeps the event handler out but not the emulator.             *)
PollwordRead ==
    /\ Polling /\ pollword # "zero"
    /\ task' = [task EXCEPT !.pc = "clear", !.poll = pollword]
    /\ onlyTask

PollwordClear ==
    /\ task.pc = "clear"
    /\ task' = [task EXCEPT !.pc = IF task.poll = "changed" THEN "check"
                                   ELSE "poll",
                            !.poll = "zero"]
    /\ pollword' = "zero"
    /\ UNCHANGED <<core, gui, desktop, toEmu, toGui, boundVars, app, news>>

(* HOST_CHECK and the buffer.  A SWI refused because sharing is off leaves *)
(* host_clip_len as it was, which is anything.                             *)
Length == IF core.enabled THEN {Offered(core)} ELSE {Empty, Junk}
HostCheck_KeepsBuffer ==
    /\ task.pc = "check" /\ ~task.irq
    /\ \E len \in Length :
          task' = IF len = Empty THEN [Freed(task) EXCEPT !.pc = "poll"]
                  ELSE [task EXCEPT !.pc = "get",
                            !.clip_content.len = IF @ = Empty THEN len ELSE @,
                            !.paste_msg = FALSE, !.check_msg = "none",
                            !.fetch_msg = FALSE]
    /\ news' = FALSE
    /\ UNCHANGED app /\ unchangedHost
HostCheck ==
    /\ task.pc = "check" /\ ~task.irq
    /\ \E len \in Length :
          task' = IF len = Empty THEN [Freed(task) EXCEPT !.pc = "poll"]
                  ELSE [task EXCEPT !.pc = "get",
                            !.clip_content = [len |-> len, data |-> Empty],
                            !.paste_msg = FALSE, !.check_msg = "none",
                            !.fetch_msg = FALSE]
    /\ news' = FALSE
    /\ UNCHANGED app /\ unchangedHost

(* HOST_GET fills the buffer, with what the host holds by then; claiming   *)
(* the clipboard makes every other application drop what it held.          *)
HostGet ==
    /\ task.pc = "get" /\ ~task.irq
    /\ \E claimed \in {TRUE} \union {FALSE : u \in Upsets \cap {"error"}} :
          /\ task' = [task EXCEPT !.pc = "poll",
                         !.clip_content.data =
                             IF core.enabled THEN Offered(core) ELSE Empty,
                         !.own_clipboard = @ \/ claimed]
          /\ app' = IF claimed THEN Empty ELSE app
    /\ UNCHANGED news /\ unchangedHost
-----------------------------------------------------------------------------
(* Finding out what a guest application has copied *)

(* wimp_NULL_REASON_CODE at the check time: ask whoever owns the clipboard. *)
NullReason ==
    /\ Polling /\ ~task.own_clipboard /\ task.check_time
    /\ \E sent \in {TRUE} \union {FALSE : u \in Upsets \cap {"error"}} :
          task' = [Freed(task) EXCEPT !.check_time = FALSE,
                       !.check_msg = IF sent THEN "asked" ELSE @]
    /\ onlyTask

(* message_DATA_SAVE: an application offers what it holds; a text is       *)
(* fetched by RAM transfer and an image through a file.                    *)
DataSave ==
    /\ Polling /\ task.check_msg = "asked" /\ app # Empty
    /\ task' = [task EXCEPT
                  !.clip_content = [len |-> app, data |-> Empty],
                  !.check_msg = IF app \in Image THEN "load" ELSE "none",
                  !.fetch_msg = app \in Text]
    /\ onlyTask

(* ... or something of a type or size the task does not take. *)
DataSaveRefused ==
    /\ Polling /\ task.check_msg = "asked" /\ app = Empty
    /\ task' = [task EXCEPT !.check_msg = "none"]
    /\ onlyTask

(* push_to_host: only what differs from the last push is sent.  The record *)
(* of the push is made whether or not the SWI is taken.                    *)
push_to_host(t, d) ==
    IF t.host_clip_content = d
      THEN task' = Freed(t) /\ UNCHANGED <<core, toGui>>
      ELSE /\ task' = [Freed(t) EXCEPT !.host_clip_content = d]
           /\ core' = HostSet(core, d)
           /\ toGui' = Posted(core, d)

(* message_RAM_TRANSMIT: the text has arrived.  (A sender that had more than *)
(* it said is asked again, and the task goes on waiting.)  A handler that    *)
(* follows the NULL clip_content takes the task down.                        *)
RamTransmit ==
    /\ Polling /\ task.fetch_msg /\ app \in Text
    /\ IF Held(task)
         THEN push_to_host([task EXCEPT !.check_msg = "none",
                                        !.fetch_msg = FALSE], app)
         ELSE task' = Ended(task) /\ UNCHANGED <<core, toGui>>
    /\ UNCHANGED <<gui, desktop, toEmu, pollword, boundVars, app, news>>

(* message_DATA_LOAD: the image has arrived in a file, or cannot be read. *)
DataLoad ==
    /\ Polling /\ task.check_msg = "load"
    /\ \/ /\ app \in Image
          /\ IF Held(task)
               THEN push_to_host([task EXCEPT !.check_msg = "none"], app)
               ELSE task' = Ended(task) /\ UNCHANGED <<core, toGui>>
       \/ /\ "error" \in Upsets /\ Held(task)
          /\ task' = [task EXCEPT !.check_msg = "none"]
          /\ UNCHANGED <<core, toGui>>
    /\ UNCHANGED <<gui, desktop, toEmu, pollword, boundVars, app, news>>
-----------------------------------------------------------------------------
(* Handing out what the host has copied *)

(* message_DATA_REQUEST: an application pastes. *)
DataRequest ==
    /\ Polling /\ task.own_clipboard /\ Held(task) /\ ~task.paste_msg
    /\ task' = [task EXCEPT !.paste_msg = TRUE]
    /\ onlyTask

(* message_DATA_SAVE_ACK, or message_RAM_FETCH for the last of it: the     *)
(* content goes to the application.                                        *)
Paste ==
    /\ Polling /\ task.paste_msg
    /\ task' = IF Held(task) THEN [task EXCEPT !.paste_msg = FALSE]
               ELSE Ended(task)
    /\ onlyTask

(* A guest application copies something and claims the clipboard;          *)
(* message_CLAIM_ENTITY reaches the task before anything else does.        *)
AppCopy(d) ==
    /\ task.pc \in {"none", "poll"} /\ ~task.irq
    /\ copies < MaxCopies /\ copies' = copies + 1
    /\ app' = d
    /\ task' = IF ~Running THEN task
               ELSE Ticked([IF task.own_clipboard THEN Freed(task) ELSE task
                            EXCEPT !.own_clipboard = FALSE])
    /\ UNCHANGED <<core, gui, desktop, toEmu, toGui, pollword, events, news>>
=============================================================================
