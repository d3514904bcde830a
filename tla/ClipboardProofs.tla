--------------------------- MODULE ClipboardProofs ---------------------------
(***************************************************************************)
(* Proofs about the shared clipboard, for any texts and images, whatever   *)
(* the conversions between the alphabets make of them, and for any number  *)
(* of copies and disturbances.                                             *)
(***************************************************************************)
EXTENDS ClipboardSystem, TLAPS

(* Changing what the store holds leaves the registration alone. *)
LEMMA StoreFacts ==
    ASSUME NEW c \in CoreState, NEW d \in Content \union {Empty}
    PROVE  /\ Store(c, d) \in CoreState
           /\ Store(c, d).enabled = c.enabled /\ Store(c, d).pollword_addr = c.pollword_addr
  BY ContentAssumption DEF Store, clip_discard, CoreState, Content

LEMMA OfferedFacts ==
    ASSUME NEW c \in CoreState
    PROVE  Offered(c) \in Content \union {Empty}
  BY ContentAssumption DEF Offered, CoreState, Content

(* What a copy made in the guest becomes is a copy, or nothing. *)
LEMMA FromGuestFacts ==
    ASSUME NEW d \in Content
    PROVE  FromGuest(d) \in Content \union {Empty}
  BY ContentAssumption DEF FromGuest, Content

LEMMA BitmapFacts ==
    ASSUME NEW d \in Content \union {Empty}
    PROVE  Bitmap(d) \in Content \union {Empty}
  BY ContentAssumption DEF Bitmap, Content

LEMMA HostSetFacts ==
    ASSUME NEW c \in CoreState, NEW d \in Content
    PROVE  /\ HostSet(c, d) \in CoreState
           /\ HostSet(c, d).enabled = c.enabled /\ HostSet(c, d).pollword_addr = c.pollword_addr
  BY StoreFacts, FromGuestFacts DEF HostSet

LEMMA SetupFacts ==
    ASSUME NEW c \in CoreState, NEW b \in BOOLEAN
    PROVE  /\ Setup(c, b) \in CoreState /\ Setup(c, b).enabled = c.enabled
           /\ Setup(c, b).pollword_addr = (IF c.enabled THEN b ELSE c.pollword_addr)
  BY DEF Setup, CoreState

LEMMA SeenFacts ==
    ASSUME gui \in GuiState, NEW d \in Content \union {Empty}
    PROVE  /\ Seen(d) \in GuiState /\ Seen(d).enabled = gui.enabled
           /\ Seen(d).last_seen = Empty \/ Seen(d).image_last_seen = Empty
           /\ d # Empty => d \in {Seen(d).last_seen, Seen(d).image_last_seen}
  BY ContentAssumption DEF Seen, GuiState, Content

(* What a queue holds after the thread that reads it has taken its first    *)
(* entry, and after the other one has added to it.                          *)
LEMMA QueueFacts ==
    ASSUME NEW S, NEW q \in Seq(S)
    PROVE  /\ q # <<>> => /\ Head(q) \in S /\ Tail(q) \in Seq(S) /\ Len(Tail(q)) = Len(q) - 1
                          /\ Len(q) \in Nat
           /\ \A e \in S : /\ Append(q, e) \in Seq(S) /\ Len(Append(q, e)) = Len(q) + 1
                           /\ Append(q, e)[Len(q) + 1] = e
  OBVIOUS

-----------------------------------------------------------------------------
(* What a step of the task's does to its statics *)

LEMMA FreedFacts ==
    ASSUME NEW t \in Task
    PROVE  Freed(t) \in Task
  BY DEF Freed, Task, NoClip, Clip

LEMMA EndedFacts ==
    ASSUME NEW t \in Task
    PROVE  Ended(t) \in Task /\ Ended(t).pc = "none"
  BY DEF Ended, Task

LEMMA TickedFacts ==
    ASSUME NEW t \in Task
    PROVE  /\ Ticked(t) \in Task
           /\ \/ Ticked(t) = t
              \/ /\ ~t.own_clipboard
                 /\ Ticked(t) = [t EXCEPT !.check_time = TRUE, !.irq = (pollword = "zero")]
  BY ZenonT(40) DEF Ticked, Task

(* The module's statics when it is loaded, and when it is loaded again. *)
Reloaded == [NewTask EXCEPT !.task_wanted = "anew"]

LEMMA NewTaskFacts == NewTask \in Task
  BY DEF NewTask, Task, NoClip, Clip, Pollword

LEMMA ReloadedFacts ==
    /\ Reloaded \in Task /\ Reloaded.pc = "none" /\ ~Reloaded.irq
    /\ Reloaded.check_msg = "none" /\ ~Reloaded.fetch_msg
  BY DEF Reloaded, NewTask, Task, NoClip, Clip, Pollword

(* However the task is started, it starts in main. *)
LEMMA StartFacts ==
    ASSUME task \in Task, mod_service \/ mod_command_handler
    PROVE  \E wanted \in {"boot", "yes", "anew"} : StartTask(wanted)
<1>1. CASE mod_service
  BY <1>1 DEF mod_service
<1>2. CASE mod_command_handler
  <2>1. task.task_wanted \in {"boot", "yes", "anew"}
    BY DEF Task
  <2>2. QED
    BY <1>2, <2>1, Zenon DEF mod_command_handler
<1>3. QED
  BY <1>1, <1>2

LEMMA PushFacts ==
    ASSUME TypeOK, NEW t \in Task, NEW d \in Content, push_to_host(t, d)
    PROVE  task' \in Task /\ core' \in CoreState /\ toGui' \in Seq(Content \union {Empty})
<1>1. Freed(t) \in Task
  BY FreedFacts
<1>2. CASE t.host_clip_content = d
  BY <1>1, <1>2 DEF push_to_host, TypeOK
<1>3. CASE t.host_clip_content # d
  <2>1. task' \in Task
    BY <1>1, <1>3 DEF push_to_host, Task
  <2>2. core' \in CoreState
    BY <1>3, HostSetFacts DEF push_to_host, TypeOK
  <2>3. toGui' \in Seq(Content \union {Empty})
    <3>1. FromGuest(d) \in Content \union {Empty} /\ toGui \in Seq(Content \union {Empty})
      BY FromGuestFacts DEF TypeOK
    <3>2. Append(toGui, FromGuest(d)) \in Seq(Content \union {Empty})
      BY <3>1
    <3>3. QED
      BY <1>3, <3>1, <3>2, Zenon DEF push_to_host, Posted
  <2>4. QED
    BY <2>1, <2>2, <2>3
<1>4. QED
  BY <1>2, <1>3

(* A copy that arrives leaves the task where it is, or ends it; the store    *)
(* changes only when the task waited for the copy.                           *)
LEMMA PushKeeps ==
    ASSUME TypeOK, RamTransmit \/ DataLoad
    PROVE  /\ task'.pc \in {task.pc, "none"} /\ task'.irq = task.irq /\ task'.poll = task.poll
           /\ task'.own_clipboard = task.own_clipboard /\ (task.check_msg # "none" \/ task.fetch_msg)
           /\ task.pc = "poll"
           /\ core'.pollword_addr = core.pollword_addr /\ core'.enabled = core.enabled
<1>t. task \in Task /\ core \in CoreState
  BY DEF TypeOK
<1>1. /\ task.pc = "poll" /\ (task.check_msg # "none" \/ task.fetch_msg)
      /\ \/ app \in Content /\ \E t \in {[task EXCEPT !.check_msg = "none", !.fetch_msg = FALSE],
                                           [task EXCEPT !.check_msg = "none"]} : push_to_host(t, app)
         \/ task' \in {Ended(task), [task EXCEPT !.check_msg = "none"]} /\ UNCHANGED <<core, toGui>>
  BY DEF RamTransmit, DataLoad, Polling, Content
<1>2. CASE task' \in {Ended(task), [task EXCEPT !.check_msg = "none"]} /\ UNCHANGED <<core, toGui>>
  BY <1>1, <1>2, <1>t DEF Ended, Task
<1>3. ASSUME app \in Content,
             NEW t \in {[task EXCEPT !.check_msg = "none", !.fetch_msg = FALSE],
                        [task EXCEPT !.check_msg = "none"]}, push_to_host(t, app)
      PROVE  /\ task'.pc = task.pc /\ task'.irq = task.irq /\ task'.poll = task.poll
             /\ task'.own_clipboard = task.own_clipboard
             /\ core'.pollword_addr = core.pollword_addr /\ core'.enabled = core.enabled
  <2>1. t \in Task /\ t.pc = task.pc /\ t.irq = task.irq /\ t.poll = task.poll /\ t.own_clipboard = task.own_clipboard
    BY <1>t, <1>3 DEF Task
  <2>2. task' \in {Freed(t), [Freed(t) EXCEPT !.host_clip_content = app]} /\ core' \in {core, HostSet(core, app)}
    BY <1>3, Zenon DEF push_to_host
  <2>3. task'.pc = t.pc /\ task'.irq = t.irq /\ task'.poll = t.poll /\ task'.own_clipboard = t.own_clipboard
    BY <2>1, <2>2 DEF Freed, Task
  <2>4. core'.pollword_addr = core.pollword_addr /\ core'.enabled = core.enabled
    BY <1>t, <1>3, <2>2, HostSetFacts
  <2>5. QED
    BY <2>1, <2>3, <2>4
<1>4. QED
  BY <1>1, <1>2, <1>3

LEMMA TypeStart == Init => TypeOK
<1> SUFFICES ASSUME Init PROVE TypeOK
  OBVIOUS
<1>1. task \in Task /\ app = Empty /\ news \in BOOLEAN /\ pollword \in Pollword
  BY NewTaskFacts DEF Init, HostInit, Pollword
<1>2. core \in CoreState /\ gui \in GuiState /\ desktop \in Desktop
  BY DEF Init, HostInit, CoreState, GuiState, Desktop
<1>3. toEmu = <<>> /\ toGui = <<>> /\ copies = 0 /\ events = 0
  BY DEF Init, HostInit
<1>4. QED
  BY <1>1, <1>2, <1>3, ContentAssumption DEF TypeOK

(* Every variable keeps its type, one step per action of the code. *)
LEMMA TypeStep == TypeOK /\ [Next]_vars => TypeOK'
<1> SUFFICES ASSUME TypeOK, [Next]_vars PROVE TypeOK'
  OBVIOUS
<1>t. /\ core \in CoreState /\ gui \in GuiState /\ desktop \in Desktop
      /\ toEmu \in Seq(Command) /\ toGui \in Seq(Content \union {Empty})
      /\ pollword \in Pollword /\ copies \in 0 .. MaxCopies /\ events \in 0 .. MaxEvents
      /\ task \in Task /\ app \in Content \union {Empty} /\ news \in BOOLEAN
      /\ MaxCopies \in Nat /\ MaxEvents \in Nat
  BY ContentAssumption DEF TypeOK
<1>1. CASE Drain
  <2>1. UNCHANGED <<task, app, gui, desktop, toGui, boundVars>> /\ toEmu # <<>> /\ toEmu' = Tail(toEmu)
    BY <1>1 DEF Drain, HandleToggle, clipboard_host_changed
  <2>2. toEmu' \in Seq(Command)
    BY <1>t, <2>1, QueueFacts
  <2>3. core' \in CoreState /\ pollword' \in Pollword /\ news' \in BOOLEAN
    <3>1. CASE HandleToggle /\ UNCHANGED news
      BY <1>t, <3>1 DEF HandleToggle, clipboard_reset, CoreState
    <3>2. CASE clipboard_host_changed /\ news' = (news \/ (core.enabled /\ core.pollword_addr))
      <4>1. Head(toEmu).data \in Content
        BY <1>t, <2>1, <3>2, QueueFacts DEF clipboard_host_changed, Command
      <4>2. Store(core, Head(toEmu).data) \in CoreState
        BY <1>t, <4>1, StoreFacts
      <4>3. QED
        BY <1>t, <3>2, <4>2 DEF clipboard_host_changed, Knock, Pollword, CoreState
    <3>3. QED
      BY <1>1, <3>1, <3>2 DEF Drain
  <2>4. QED
    BY <1>t, <2>1, <2>2, <2>3 DEF TypeOK, boundVars
<1>2. CASE MachineReset
  <2>1. core' \in CoreState
    BY <1>t, <1>2 DEF MachineReset, clipboard_reset, CoreState
  <2>2. events' \in 0 .. MaxEvents /\ copies' = copies
    BY <1>t, <1>2 DEF MachineReset, Happens
  <2>3. QED
    BY <1>t, <1>2, <2>1, <2>2, NewTaskFacts DEF MachineReset, TypeOK, Pollword
<1>3. CASE Gui
  <2>0. UNCHANGED guestVars /\ UNCHANGED core /\ UNCHANGED pollword
    BY <1>3 DEF Gui, OnSharedClipboard, OnClipboardTimer, SetHostClipboard, SetHostClipboardBusy, HostCopy
  <2>1. CASE OnSharedClipboard
    <3>1. [type |-> "toggle"] \in Command
      BY DEF Command
    <3>2. toEmu' \in Seq(Command)
      BY <1>t, <2>1, <3>1, QueueFacts DEF OnSharedClipboard
    <3>3. gui' \in GuiState
      BY <1>t, <2>1 DEF OnSharedClipboard, GuiState
    <3>4. events' \in 0 .. MaxEvents /\ copies' = copies
      BY <1>t, <2>1 DEF OnSharedClipboard, Happens
    <3>5. QED
      BY <1>t, <2>0, <2>1, <3>2, <3>3, <3>4 DEF OnSharedClipboard, TypeOK, guestVars
  <2>2. CASE OnClipboardTimer
    <3>1. desktop.data \in Content
      BY <1>t, <2>2 DEF OnClipboardTimer, Unseen, Desktop
    <3>2. [type |-> "changed", data |-> desktop.data] \in Command
      BY <3>1 DEF Command
    <3>3. toEmu' \in Seq(Command) /\ gui' \in GuiState
      BY <1>t, <2>2, <3>1, <3>2, QueueFacts, SeenFacts DEF OnClipboardTimer
    <3>4. QED
      BY <1>t, <2>0, <2>2, <3>3 DEF OnClipboardTimer, TypeOK, guestVars, boundVars
  <2>3. CASE SetHostClipboard
    <3>1. Head(toGui) \in Content \union {Empty} /\ toGui' \in Seq(Content \union {Empty})
      BY <1>t, <2>3, QueueFacts DEF SetHostClipboard
    <3>2. Bitmap(Head(toGui)) \in Content \union {Empty}
      BY <3>1, BitmapFacts
    <3>3. Seen(Bitmap(Head(toGui))) \in GuiState
      BY <1>t, <3>2, SeenFacts
    <3>4. desktop' \in Desktop /\ gui' \in GuiState
      BY <1>t, <2>3, <3>2, <3>3 DEF SetHostClipboard, Desktop
    <3>5. QED
      BY <1>t, <2>0, <2>3, <3>1, <3>4 DEF SetHostClipboard, TypeOK, guestVars, boundVars
  <2>4. CASE SetHostClipboardBusy
    <3>1. toGui' \in Seq(Content \union {Empty})
      BY <1>t, <2>4, QueueFacts DEF SetHostClipboardBusy
    <3>2. QED
      BY <1>t, <2>0, <2>4, <3>1 DEF SetHostClipboardBusy, TypeOK, guestVars, boundVars
  <2>5. ASSUME NEW d \in Content, HostCopy(d) PROVE TypeOK'
    <3>1. desktop' \in Desktop /\ copies' \in 0 .. MaxCopies
      BY <1>t, <2>5 DEF HostCopy, Desktop
    <3>2. QED
      BY <1>t, <2>0, <2>5, <3>1 DEF HostCopy, TypeOK, guestVars, boundVars
  <2>6. QED
    BY <1>3, <2>1, <2>2, <2>3, <2>4, <2>5 DEF Gui
<1>4. CASE mod_service \/ mod_command_handler
  <2>0. PICK wanted \in {"boot", "yes", "anew"} : StartTask(wanted)
    BY <1>t, <1>4, StartFacts
  <2>1. core' \in CoreState /\ pollword' \in Pollword /\ news' \in BOOLEAN
    BY <1>t, <2>0, SetupFacts DEF StartTask, SetupWord, Pollword
  <2>2. task' \in Task
    BY <1>t, <2>0 DEF StartTask, Task
  <2>3. QED
    BY <1>t, <2>0, <2>1, <2>2 DEF StartTask, TypeOK, boundVars
<1>5. CASE TickStore \/ PollwordRead \/ PollwordClear
  <2>1. task' \in Task /\ pollword' \in Pollword
    BY <1>t, <1>5 DEF TickStore, PollwordRead, PollwordClear, onlyTask, unchangedHost, hostVars, Task, Pollword
  <2>2. QED
    BY <1>t, <1>5, <2>1
       DEF TickStore, PollwordRead, PollwordClear, onlyTask, unchangedHost, hostVars, boundVars, TypeOK
<1>6. CASE HostCheck
  <2>1. PICK len \in Length :
            task' = IF len = Empty THEN [Freed(task) EXCEPT !.pc = "poll"]
                    ELSE [task EXCEPT !.pc = "get", !.clip_content = [len |-> len, data |-> Empty],
                              !.paste_msg = FALSE, !.check_msg = "none", !.fetch_msg = FALSE]
    BY <1>6 DEF HostCheck
  <2>2. len \in Content \union {Empty, Junk}
    BY <1>t, <2>1, OfferedFacts DEF Length
  <2>3. task' \in Task
    <3>1. Freed(task) \in Task /\ [len |-> len, data |-> Empty] \in Clip
      BY <1>t, <2>2, FreedFacts DEF Clip
    <3>2. QED
      BY <1>t, <2>1, <3>1, ZenonT(40) DEF Task
  <2>4. QED
    BY <1>t, <1>6, <2>3 DEF HostCheck, unchangedHost, hostVars, boundVars, TypeOK
<1>7. CASE HostGet
  <2>1. Offered(core) \in Content \union {Empty}
    BY <1>t, OfferedFacts
  <2>2. PICK claimed \in BOOLEAN, data \in Content \union {Empty} :
            /\ task' = [task EXCEPT !.pc = "poll", !.clip_content.data = data, !.own_clipboard = @ \/ claimed]
            /\ app' = IF claimed THEN Empty ELSE app
    BY <1>7, <2>1, Zenon DEF HostGet
  <2>4. task' \in Task /\ app' \in Content \union {Empty}
    <3>1. [task.clip_content EXCEPT !.data = data] \in Clip
      BY <1>t DEF Task, Clip
    <3>2. task' = [task EXCEPT !.pc = "poll", !.clip_content = [task.clip_content EXCEPT !.data = data],
                               !.own_clipboard = task.own_clipboard \/ claimed]
      BY <1>t, <2>2 DEF Task
    <3>3. QED
      BY <1>t, <2>2, <3>1, <3>2 DEF Task
  <2>3. QED
    BY <1>t, <1>7, <2>4 DEF HostGet, unchangedHost, hostVars, boundVars, TypeOK
<1>8. CASE NullReason \/ DataSave \/ DataSaveRefused \/ DataRequest \/ Paste \/ EventV_event_handler
  <2>1. onlyTask
    BY <1>8, ZenonT(40) DEF NullReason, DataSave, DataSaveRefused, DataRequest, Paste, EventV_event_handler
  <2>2. task' \in Task
    <3>1. Freed(task) \in Task /\ Ended(task) \in Task /\ Ticked(task) \in Task
      BY <1>t, FreedFacts, EndedFacts, TickedFacts
    <3>2. CASE NullReason
      <4>1. PICK sent \in BOOLEAN :
                task' = [Freed(task) EXCEPT !.check_time = FALSE, !.check_msg = IF sent THEN "asked" ELSE @]
        BY <3>2, Zenon DEF NullReason
      <4>2. ASSUME NEW t \in Task, NEW m \in {"none", "asked", "load"}
            PROVE  [t EXCEPT !.check_time = FALSE, !.check_msg = m] \in Task
        <5>1. [t EXCEPT !.check_time = FALSE] \in Task
          BY ZenonT(40) DEF Task
        <5>2. \A u \in Task : [u EXCEPT !.check_msg = m] \in Task
          BY DEF Task
        <5>3. [t EXCEPT !.check_time = FALSE, !.check_msg = m]
                  = [[t EXCEPT !.check_time = FALSE] EXCEPT !.check_msg = m]
          OBVIOUS
        <5>4. QED
          BY <5>1, <5>2, <5>3
      <4>3. (IF sent THEN "asked" ELSE Freed(task).check_msg) \in {"none", "asked", "load"}
        BY <3>1 DEF Task
      <4>4. QED
        BY <3>1, <4>1, <4>2, <4>3, ZenonT(40)
    <3>3. CASE DataSave
      <4>1. [len |-> app, data |-> Empty] \in Clip
        BY <1>t DEF Clip
      <4>2. PICK m \in {"none", "load"}, b \in BOOLEAN :
                task' = [task EXCEPT !.clip_content = [len |-> app, data |-> Empty], !.check_msg = m, !.fetch_msg = b]
        <5>1. (app \in Text) \in BOOLEAN
          OBVIOUS
        <5>2. (IF app \in Image THEN "load" ELSE "none") \in {"none", "load"}
          OBVIOUS
        <5>3. QED
          BY <3>3, <5>1, <5>2, Zenon DEF DataSave
      <4>3. QED
        BY <1>t, <4>1, <4>2 DEF Task
    <3>4. CASE DataSaveRefused \/ DataRequest \/ Paste
      <4>1. /\ [task EXCEPT !.check_msg = "none"] \in Task
            /\ [task EXCEPT !.paste_msg = TRUE] \in Task /\ [task EXCEPT !.paste_msg = FALSE] \in Task
        BY <1>t DEF Task
      <4>2. QED
        BY <3>1, <3>4, <4>1, Zenon DEF DataSaveRefused, DataRequest, Paste
    <3>5. CASE EventV_event_handler
      BY <3>1, <3>5 DEF EventV_event_handler
    <3>6. QED
      BY <1>8, <3>2, <3>3, <3>4, <3>5, SMTT(30)
  <2>3. QED
    BY <1>t, <2>1, <2>2, SMTT(30) DEF onlyTask, unchangedHost, hostVars, boundVars, TypeOK
<1>9. CASE RamTransmit \/ DataLoad
  <2>1. /\ UNCHANGED <<gui, desktop, toEmu, pollword, boundVars, app, news>>
        /\ \/ app \in Content /\ \E t \in {[task EXCEPT !.check_msg = "none", !.fetch_msg = FALSE],
                                             [task EXCEPT !.check_msg = "none"]} : push_to_host(t, app)
           \/ task' \in {Ended(task), [task EXCEPT !.check_msg = "none"]} /\ UNCHANGED <<core, toGui>>
    BY <1>9 DEF RamTransmit, DataLoad, Content
  <2>2. task' \in Task /\ core' \in CoreState /\ toGui' \in Seq(Content \union {Empty})
    <3>1. /\ [task EXCEPT !.check_msg = "none", !.fetch_msg = FALSE] \in Task
          /\ [task EXCEPT !.check_msg = "none"] \in Task /\ Ended(task) \in Task
      BY <1>t, EndedFacts DEF Task
    <3>2. QED
      BY <1>t, <2>1, <3>1, PushFacts
  <2>3. QED
    BY <1>t, <2>1, <2>2 DEF TypeOK, boundVars
<1>10. ASSUME NEW d \in Content, AppCopy(d) PROVE TypeOK'
  <2>1. task' \in Task
    <3>1. [IF task.own_clipboard THEN Freed(task) ELSE task EXCEPT !.own_clipboard = FALSE] \in Task
      <4>1. \A t \in Task : [t EXCEPT !.own_clipboard = FALSE] \in Task
        BY DEF Task
      <4>2. QED
        BY <1>t, <4>1, FreedFacts, Zenon
    <3>2. QED
      BY <1>t, <1>10, <3>1, TickedFacts DEF AppCopy
  <2>2. copies' \in 0 .. MaxCopies
    BY <1>t, <1>10 DEF AppCopy
  <2>3. QED
    BY <1>t, <1>10, <2>1, <2>2 DEF AppCopy, TypeOK
<1>11. CASE Quit \/ task_shutdown
  <2>1. task' \in Task /\ core' \in CoreState
    BY <1>t, <1>11, EndedFacts, ReloadedFacts, SetupFacts DEF Quit, task_shutdown, Reloaded
  <2>2. events' \in 0 .. MaxEvents /\ copies' = copies
    <3>1. Happens
      BY <1>11, Zenon DEF Quit, task_shutdown
    <3>2. QED
      BY <1>t, <3>1 DEF Happens
  <2>3. QED
    BY <1>t, <1>11, <2>1, <2>2 DEF Quit, task_shutdown, TypeOK
<1>12. CASE UNCHANGED vars
  BY <1>t, <1>12 DEF vars, hostVars, guestVars, boundVars, TypeOK
<1>13. QED
  BY <1>1, <1>2, <1>3, <1>4, <1>5, <1>6, <1>7, <1>8, <1>9, <1>10, <1>11, <1>12 DEF Next, TaskStep

(* The statics of hostclipboard.c and of the guest's task, the watcher's    *)
(* memory and the two queues keep their types.                              *)
THEOREM ClipboardTypeCorrect == Spec => []TypeOK
  BY TypeStart, TypeStep, PTL DEF Spec
-----------------------------------------------------------------------------
(* The knock *)

(* What keeps a knock from being overwritten: the event handler's store      *)
(* finds the zero that its test saw, and the task clears the word it read.   *)
KnockInv ==
    /\ task.irq => pollword = "zero" /\ task.pc # "clear"
    /\ task.pc = "clear" => task.poll = pollword
    /\ KnockPending

LEMMA KnockStep ==
    ASSUME "window" \notin Upsets
    PROVE  TypeOK /\ KnockInv /\ [Next]_vars => KnockInv'
<1> SUFFICES ASSUME TypeOK, KnockInv, [Next]_vars PROVE KnockInv'
  OBVIOUS
<1>t. task \in Task /\ core \in CoreState /\ pollword \in Pollword /\ news \in BOOLEAN
  BY DEF TypeOK
<1>k. /\ task.irq => pollword = "zero" /\ task.pc # "clear"
      /\ task.pc = "clear" => task.poll = pollword
      /\ task.pc # "none" /\ core.pollword_addr /\ news =>
             pollword = "changed" \/ (task.pc = "clear" /\ task.poll = "changed") \/ task.pc = "check"
  BY DEF KnockInv, KnockPending, Running
(* A step that neither runs the task nor knocks *)
<1>q. ASSUME /\ UNCHANGED <<pollword, news>> /\ (core'.pollword_addr => core.pollword_addr)
             /\ task'.pc = task.pc \/ task'.pc = "none" \/ (task.pc = "get" /\ task'.pc = "poll")
             /\ task'.poll = task.poll
             /\ task'.irq => task.irq \/ (pollword = "zero" /\ task'.pc # "clear")
      PROVE  KnockInv'
  BY <1>k, <1>q DEF KnockInv, KnockPending, Running
<1>1. CASE Drain
  <2>0. UNCHANGED <<task, app>> /\ ~task.irq /\ task.pc # "clear"
    BY <1>1 DEF Drain
  <2>1. CASE HandleToggle /\ UNCHANGED news
    <3>1. UNCHANGED pollword /\ (core'.pollword_addr => core.pollword_addr)
      BY <1>t, <2>1 DEF HandleToggle, clipboard_reset, CoreState
    <3>2. QED
      BY <1>q, <2>0, <2>1, <3>1
  <2>2. CASE clipboard_host_changed /\ news' = (news \/ (core.enabled /\ core.pollword_addr))
    <3>1. core'.pollword_addr = core.pollword_addr
      <4>1. Head(toEmu).data \in Content
        BY <2>2, QueueFacts DEF clipboard_host_changed, Command, TypeOK
      <4>2. QED
        BY <1>t, <2>2, <4>1, StoreFacts DEF clipboard_host_changed
    <3>2. CASE core.enabled /\ core.pollword_addr
      <4>1. pollword' = "changed"
        BY <2>2, <3>2 DEF clipboard_host_changed, Knock
      <4>2. QED
        BY <2>0, <4>1 DEF KnockInv, KnockPending
    <3>3. CASE ~(core.enabled /\ core.pollword_addr)
      <4>1. pollword' = pollword /\ news' = news
        BY <1>t, <2>2, <3>3 DEF clipboard_host_changed, Knock
      <4>2. QED
        BY <1>q, <2>0, <3>1, <4>1
    <3>4. QED
      BY <3>2, <3>3
  <2>3. QED
    BY <1>1, <2>1, <2>2 DEF Drain
<1>2. CASE MachineReset
  <2>1. task'.pc = "none" /\ ~task'.irq
    BY <1>2 DEF MachineReset, NewTask
  <2>2. QED
    BY <2>1 DEF KnockInv, KnockPending, Running
<1>3. CASE Gui
  <2>1. UNCHANGED <<task, news, core, pollword>>
    BY <1>3 DEF Gui, OnSharedClipboard, OnClipboardTimer, SetHostClipboard, SetHostClipboardBusy, HostCopy, guestVars
  <2>2. QED
    BY <1>q, <2>1
<1>4. CASE mod_service \/ mod_command_handler
  <2>0. PICK wanted \in {"boot", "yes", "anew"} : StartTask(wanted)
    BY <1>t, <1>4, StartFacts
  <2>1. task'.pc = "poll" /\ ~task'.irq /\ pollword' = SetupWord(core) /\ news' = (SetupWord(core) = "changed")
    BY <1>t, <2>0 DEF StartTask, Task
  <2>2. QED
    BY <2>1 DEF KnockInv, KnockPending
<1>5. CASE TickStore
  <2>1. /\ task.irq /\ ~task'.irq /\ task'.pc = task.pc /\ task'.poll = task.poll
        /\ pollword' = "tick" /\ UNCHANGED <<core, news>>
    BY <1>t, <1>5 DEF TickStore, Task
  <2>2. QED
    BY <1>k, <2>1 DEF KnockInv, KnockPending, Running
<1>6. CASE PollwordRead
  <2>1. /\ task.pc = "poll" /\ ~task.irq /\ task'.pc = "clear" /\ task'.poll = pollword /\ ~task'.irq
        /\ UNCHANGED <<core, pollword, news>>
    BY <1>t, <1>6 DEF PollwordRead, Polling, onlyTask, unchangedHost, hostVars, Task
  <2>2. QED
    BY <1>k, <2>1 DEF KnockInv, KnockPending, Running
<1>7. CASE PollwordClear
  <2>1. /\ task.pc = "clear" /\ task'.pc = (IF task.poll = "changed" THEN "check" ELSE "poll")
        /\ task'.irq = task.irq /\ pollword' = "zero" /\ UNCHANGED <<core, news>>
    BY <1>t, <1>7 DEF PollwordClear, Task
  <2>2. QED
    BY <1>k, <2>1 DEF KnockInv, KnockPending, Running
<1>8. CASE HostCheck
  <2>1. /\ task.pc = "check" /\ task'.pc \in {"poll", "get"} /\ ~task'.irq /\ news' = FALSE
    BY <1>t, <1>8, SMTT(30) DEF HostCheck, Freed, Task
  <2>2. QED
    BY <2>1 DEF KnockInv, KnockPending
<1>9. CASE HostGet
  <2>1. /\ task.pc = "get" /\ task'.pc = "poll" /\ ~task'.irq /\ task'.poll = task.poll
        /\ UNCHANGED <<core, pollword, news>>
    BY <1>t, <1>9, SMTT(30) DEF HostGet, unchangedHost, hostVars, Task
  <2>2. QED
    BY <1>q, <2>1
<1>10. CASE NullReason \/ DataSave \/ DataSaveRefused \/ DataRequest \/ Paste
  <2>1. /\ task'.pc \in {task.pc, "none"} /\ task'.irq = task.irq /\ task'.poll = task.poll
    <3>1. CASE NullReason
      BY <1>t, <3>1, SMTT(30) DEF NullReason, Freed, Task
    <3>2. CASE DataSave \/ DataSaveRefused
      BY <1>t, <3>2, ZenonT(40) DEF DataSave, DataSaveRefused, Task
    <3>3. CASE DataRequest \/ Paste
      BY <1>t, <3>3, ZenonT(40) DEF DataRequest, Paste, Ended, Task
    <3>4. QED
      BY <1>10, <3>1, <3>2, <3>3
  <2>2. UNCHANGED <<core, pollword, news>>
    BY <1>10 DEF NullReason, DataSave, DataSaveRefused, DataRequest, Paste, onlyTask, unchangedHost, hostVars
  <2>3. QED
    BY <1>q, <2>1, <2>2
<1>11. CASE EventV_event_handler
  <2>1. /\ task.pc # "clear" /\ UNCHANGED <<core, pollword, news>>
        /\ task'.pc = task.pc /\ task'.poll = task.poll /\ (task'.irq => pollword = "zero")
    BY <1>t, <1>11 DEF EventV_event_handler, Ticked, onlyTask, unchangedHost, hostVars, Task
  <2>2. QED
    BY <1>q, <2>1
<1>12. CASE RamTransmit \/ DataLoad
  <2>1. UNCHANGED <<pollword, news>>
    BY <1>12 DEF RamTransmit, DataLoad
  <2>2. /\ task'.pc \in {task.pc, "none"} /\ task'.irq = task.irq /\ task'.poll = task.poll
        /\ core'.pollword_addr = core.pollword_addr
    BY <1>12, PushKeeps
  <2>3. QED
    BY <1>q, <2>1, <2>2
<1>13. ASSUME NEW d \in Content, AppCopy(d) PROVE KnockInv'
  <2>1. /\ task.pc \in {"none", "poll"} /\ ~task.irq /\ UNCHANGED <<core, pollword, news>>
        /\ task'.pc = task.pc /\ task'.poll = task.poll /\ (task'.irq => pollword = "zero")
    BY <1>t, <1>13 DEF AppCopy, Ticked, Freed, Task
  <2>2. QED
    BY <1>q, <2>1
<1>14. CASE Quit \/ task_shutdown
  <2>1. task'.pc = "none" /\ ~task'.irq
    <3>1. ~task.irq /\ task' \in {Ended(task), Reloaded}
      BY <1>14 DEF Quit, task_shutdown, Polling, Reloaded
    <3>2. Ended(task).pc = "none" /\ Ended(task).irq = task.irq
      BY <1>t DEF Ended, Task
    <3>3. QED
      BY <3>1, <3>2, ReloadedFacts
  <2>2. QED
    BY <2>1 DEF KnockInv, KnockPending, Running
<1>15. CASE UNCHANGED vars
  BY <1>15, <1>k DEF vars, hostVars, guestVars, KnockInv, KnockPending, Running
<1>16. QED
  BY <1>1, <1>2, <1>3, <1>4, <1>5, <1>6, <1>7, <1>8, <1>9, <1>10, <1>11, <1>12, <1>13, <1>14, <1>15
     DEF Next, TaskStep

(* As long as the emulator lets no host command in between the guest's test  *)
(* or read of the pollword and the store that follows it, no knock is lost,  *)
(* whatever else happens to the task, to the machine or to sharing.          *)
THEOREM KnockIsNeverLost ==
    ASSUME "window" \notin Upsets
    PROVE  Spec => []KnockPending
<1>1. Init => KnockInv
  BY DEF Init, HostInit, NewTask, KnockInv, KnockPending
<1>2. KnockInv => KnockPending
  BY DEF KnockInv
<1>3. QED
  BY <1>1, <1>2, KnockStep, ClipboardTypeCorrect, PTL DEF Spec
-----------------------------------------------------------------------------
(* What the task offers *)

(* A registered task has sharing switched on; one that owns the clipboard,   *)
(* or is about to, waits for no copy of an application; and unless a knock   *)
(* is outstanding, the length it has asked for and the data it has fetched   *)
(* are those of the host's copy.                                             *)
OfferInv ==
    /\ core.pollword_addr => core.enabled
    /\ task.own_clipboard \/ task.pc = "get" => task.check_msg = "none" /\ ~task.fetch_msg
    /\ task.pc = "get" /\ core.pollword_addr /\ ~news => task.clip_content.len = Offered(core)
    /\ task.pc \in {"poll", "clear"} /\ core.pollword_addr /\ task.own_clipboard /\ ~news =>
           task.clip_content = [len |-> Offered(core), data |-> Offered(core)]

LEMMA OfferStep == TypeOK /\ OfferInv /\ [Next]_vars => OfferInv'
<1> SUFFICES ASSUME TypeOK, OfferInv, [Next]_vars PROVE OfferInv'
  OBVIOUS
<1>t. task \in Task /\ core \in CoreState /\ news \in BOOLEAN
  BY DEF TypeOK
(* A step that leaves the store and the buffer alone *)
<1>q. ASSUME core' = core, news' = news, task'.clip_content = task.clip_content,
             task'.own_clipboard = task.own_clipboard, task'.pc = "get" => task.pc = "get",
             task'.pc \in {"poll", "clear"} => task.pc \in {"poll", "clear"},
             task'.check_msg = task.check_msg \/ task'.check_msg = "none",
             task'.fetch_msg => task.fetch_msg
      PROVE  OfferInv'
  BY <1>q, SMTT(30) DEF OfferInv, Offered
(* A step after which the task offers nothing of the host's *)
<1>r. ASSUME core'.pollword_addr => core'.enabled, task'.pc # "get",
             task'.pc \in {"poll", "clear"} => ~task'.own_clipboard,
             task'.own_clipboard => task'.check_msg = "none" /\ ~task'.fetch_msg
      PROVE  OfferInv'
  BY <1>r DEF OfferInv
(* A step after which the task is not registered, or knows that it has to ask *)
<1>s. ASSUME UNCHANGED task, core'.pollword_addr => core'.enabled /\ news'
      PROVE  OfferInv'
  BY <1>s DEF OfferInv
<1>1. CASE Drain
  <2>1. CASE HandleToggle /\ UNCHANGED news
    <3>1. ~core'.pollword_addr
      BY <1>t, <2>1 DEF HandleToggle, clipboard_reset, CoreState, OfferInv
    <3>2. QED
      BY <1>1, <1>s, <3>1 DEF Drain
  <2>2. CASE clipboard_host_changed /\ news' = (news \/ (core.enabled /\ core.pollword_addr))
    <3>1. core'.pollword_addr = core.pollword_addr /\ core'.enabled = core.enabled
      <4>1. Head(toEmu).data \in Content
        BY <2>2, QueueFacts DEF clipboard_host_changed, Command, TypeOK
      <4>2. QED
        BY <1>t, <2>2, <4>1, StoreFacts DEF clipboard_host_changed
    <3>2. core.pollword_addr => core.enabled
      BY DEF OfferInv
    <3>3. QED
      BY <1>1, <1>s, <2>2, <3>1, <3>2 DEF Drain
  <2>3. QED
    BY <1>1, <2>1, <2>2 DEF Drain
<1>2. CASE MachineReset
  <2>1. core'.pollword_addr = FALSE /\ task' = NewTask
    BY <1>t, <1>2 DEF MachineReset, clipboard_reset, CoreState
  <2>2. QED
    BY <1>r, <2>1 DEF NewTask
<1>3. CASE Gui
  <2>1. UNCHANGED <<task, news, core>>
    BY <1>3 DEF Gui, OnSharedClipboard, OnClipboardTimer, SetHostClipboard, SetHostClipboardBusy, HostCopy, guestVars
  <2>2. QED
    BY <1>q, <2>1
<1>4. CASE mod_service \/ mod_command_handler
  <2>0. PICK wanted \in {"boot", "yes", "anew"} : StartTask(wanted)
    BY <1>t, <1>4, StartFacts
  <2>1. task'.pc = "poll" /\ ~task'.own_clipboard
    BY <1>t, <2>0 DEF StartTask, Task
  <2>2. core'.pollword_addr => core'.enabled
    BY <1>t, <2>0, SetupFacts DEF StartTask, OfferInv
  <2>3. QED
    BY <1>r, <2>1, <2>2
<1>5. CASE TickStore \/ PollwordRead \/ PollwordClear
  <2>1. UNCHANGED <<core, news>>
    BY <1>5 DEF TickStore, PollwordRead, PollwordClear, onlyTask, unchangedHost, hostVars
  <2>2. /\ task'.clip_content = task.clip_content /\ task'.own_clipboard = task.own_clipboard
        /\ task'.check_msg = task.check_msg /\ task'.fetch_msg = task.fetch_msg
        /\ task'.pc = task.pc \/ (task.pc \in {"poll", "clear"} /\ task'.pc # "get")
    <3>1. CASE TickStore
      BY <1>t, <3>1 DEF TickStore, Task
    <3>2. CASE PollwordRead
      BY <1>t, <3>2 DEF PollwordRead, Polling, Task
    <3>3. CASE PollwordClear
      BY <1>t, <3>3 DEF PollwordClear, Task
    <3>4. QED
      BY <1>5, <3>1, <3>2, <3>3
  <2>3. QED
    BY <1>q, <2>1, <2>2
<1>6. CASE HostCheck
  <2>1. PICK len \in Length :
            task' = IF len = Empty THEN [Freed(task) EXCEPT !.pc = "poll"]
                    ELSE [task EXCEPT !.pc = "get", !.clip_content = [len |-> len, data |-> Empty],
                              !.paste_msg = FALSE, !.check_msg = "none", !.fetch_msg = FALSE]
    BY <1>6 DEF HostCheck
  <2>2. UNCHANGED core
    BY <1>6 DEF HostCheck, unchangedHost, hostVars
  <2>3. core.pollword_addr => core.enabled /\ len = Offered(core)
    BY <2>1 DEF OfferInv, Length
  <2>4. CASE len = Empty
    <3>1. /\ task'.pc = "poll" /\ task'.clip_content = [len |-> Empty, data |-> Empty]
          /\ task'.own_clipboard = task.own_clipboard
          /\ task'.check_msg = task.check_msg /\ task'.fetch_msg = task.fetch_msg
      BY <1>t, <2>1, <2>4 DEF Freed, NoClip, Task
    <3>2. QED
      BY <2>2, <2>3, <2>4, <3>1 DEF OfferInv, Offered
  <2>5. CASE len # Empty
    <3>1. /\ task'.pc = "get" /\ task'.clip_content = [len |-> len, data |-> Empty]
          /\ task'.check_msg = "none" /\ ~task'.fetch_msg
      BY <1>t, <2>1, <2>5 DEF Task
    <3>2. task'.clip_content.len = len
      BY <3>1
    <3>3. QED
      BY <2>2, <2>3, <3>1, <3>2 DEF OfferInv, Offered
  <2>6. QED
    BY <2>4, <2>5
<1>7. CASE HostGet
  <2>1. PICK claimed \in BOOLEAN :
            task' = [task EXCEPT !.pc = "poll",
                         !.clip_content.data = IF core.enabled THEN Offered(core) ELSE Empty,
                         !.own_clipboard = @ \/ claimed]
    BY <1>7, Zenon DEF HostGet
  <2>2. task.pc = "get" /\ UNCHANGED <<core, news>>
    BY <1>7 DEF HostGet, unchangedHost, hostVars
  <2>3. /\ task'.pc = "poll" /\ task'.check_msg = task.check_msg /\ task'.fetch_msg = task.fetch_msg
        /\ task'.clip_content = [task.clip_content EXCEPT !.data = IF core.enabled THEN Offered(core) ELSE Empty]
    BY <1>t, <2>1 DEF Task
  <2>4. ASSUME core.pollword_addr, ~news
        PROVE  task'.clip_content = [len |-> Offered(core), data |-> Offered(core)]
    <3>1. core.enabled /\ task.clip_content.len = Offered(core) /\ task.clip_content \in Clip
      BY <1>t, <2>2, <2>4 DEF OfferInv, Task
    <3>2. QED
      BY <2>3, <3>1 DEF Clip
  <2>5. QED
    BY <2>2, <2>3, <2>4 DEF OfferInv, Offered
<1>8. CASE NullReason
  <2>1. task.pc = "poll" /\ ~task.own_clipboard /\ UNCHANGED core
    BY <1>8 DEF NullReason, Polling, onlyTask, unchangedHost, hostVars
  <2>2. task'.pc = task.pc /\ task'.own_clipboard = task.own_clipboard
    BY <1>t, <1>8, SMTT(30) DEF NullReason, Freed, Task
  <2>3. QED
    BY <1>r, <2>1, <2>2 DEF OfferInv
<1>9. CASE DataSave \/ DataSaveRefused
  <2>1. task.pc = "poll" /\ task.check_msg = "asked" /\ UNCHANGED core
    BY <1>9 DEF DataSave, DataSaveRefused, Polling, onlyTask, unchangedHost, hostVars
  <2>2. task'.pc = task.pc /\ task'.own_clipboard = task.own_clipboard
    BY <1>t, <1>9 DEF DataSave, DataSaveRefused, Task
  <2>3. QED
    BY <1>r, <2>1, <2>2 DEF OfferInv
<1>10. CASE DataRequest \/ Paste \/ EventV_event_handler
  <2>1. UNCHANGED <<core, news>>
    BY <1>10 DEF DataRequest, Paste, EventV_event_handler, onlyTask, unchangedHost, hostVars
  <2>2. /\ task'.clip_content = task.clip_content /\ task'.own_clipboard = task.own_clipboard
        /\ task'.check_msg = task.check_msg \/ task'.check_msg = "none"
        /\ task'.fetch_msg => task.fetch_msg
        /\ task'.pc \in {task.pc, "none"}
    <3>1. CASE DataRequest \/ Paste
      BY <1>t, <3>1 DEF DataRequest, Paste, Ended, Task
    <3>2. CASE EventV_event_handler
      BY <1>t, <3>2 DEF EventV_event_handler, Ticked, Task
    <3>3. QED
      BY <1>10, <3>1, <3>2
  <2>3. QED
    BY <1>q, <2>1, <2>2
<1>11. CASE RamTransmit \/ DataLoad
  <2>1. ~task'.own_clipboard /\ task'.pc \in {"poll", "none"} /\ (core'.pollword_addr => core'.enabled)
    BY <1>11, PushKeeps DEF OfferInv
  <2>2. QED
    BY <1>r, <2>1
<1>12. ASSUME NEW d \in Content, AppCopy(d) PROVE OfferInv'
  <2>1. UNCHANGED <<core, news>> /\ task.pc \in {"none", "poll"}
    BY <1>12 DEF AppCopy
  <2>2. CASE Running
    <3>1. task'.pc = task.pc /\ ~task'.own_clipboard
      BY <1>t, <1>12, <2>2 DEF AppCopy, Ticked, Freed, Task
    <3>2. QED
      BY <1>r, <2>1, <3>1 DEF OfferInv
  <2>3. CASE ~Running
    <3>1. task' = task
      BY <1>12, <2>3 DEF AppCopy
    <3>2. QED
      BY <1>q, <2>1, <3>1
  <2>4. QED
    BY <2>2, <2>3
<1>13. CASE Quit \/ task_shutdown
  <2>1. task' \in {Ended(task), Reloaded} /\ core' \in {core, Setup(core, FALSE)}
    BY <1>13 DEF Quit, task_shutdown, Reloaded
  <2>2. task'.pc = "none" /\ task'.check_msg = "none" /\ ~task'.fetch_msg
    <3>1. Ended(task).pc = "none" /\ Ended(task).check_msg = "none" /\ ~Ended(task).fetch_msg
      BY <1>t DEF Ended, Task
    <3>2. QED
      BY <2>1, <3>1, ReloadedFacts
  <2>3. core'.pollword_addr => core'.enabled
    BY <1>t, <2>1, SetupFacts, ZenonT(40) DEF OfferInv
  <2>4. QED
    BY <1>r, <2>2, <2>3
<1>14. CASE UNCHANGED vars
  BY <1>14, <1>q DEF vars, hostVars, guestVars
<1>15. QED
  BY <1>1, <1>2, <1>3, <1>4, <1>5, <1>6, <1>7, <1>8, <1>9, <1>10, <1>11, <1>12, <1>13, <1>14
     DEF Next, TaskStep

(* Whatever the host stores between HOST_CHECK and HOST_GET, and whatever    *)
(* applications copy meanwhile: what the task offers is one whole copy, and  *)
(* the host's, until it is told that there is another.                       *)
THEOREM OfferIsTheHostCopy == Spec => []OffersTheHostCopy
<1>1. Init => OfferInv
  BY DEF Init, HostInit, NewTask, OfferInv
<1>2. OfferInv => OffersTheHostCopy
  BY DEF OfferInv, OffersTheHostCopy
<1>3. QED
  BY <1>1, <1>2, OfferStep, ClipboardTypeCorrect, PTL DEF Spec
-----------------------------------------------------------------------------
(* What the watcher has seen *)

(* Which steps change what the watcher goes by, and which the queue to the   *)
(* emulator thread.                                                          *)
LEMMA StepsOfTheWatcher ==
    ASSUME [Next]_vars
    PROVE  /\ \/ OnSharedClipboard \/ OnClipboardTimer \/ SetHostClipboard \/ (\E d \in Content : HostCopy(d))
              \/ UNCHANGED <<gui, desktop>>
           /\ OnClipboardTimer \/ OnSharedClipboard \/ Drain \/ UNCHANGED toEmu
<1>1. CASE Gui
  BY <1>1 DEF Gui, SetHostClipboard, SetHostClipboardBusy, HostCopy
<1>2. CASE Drain
  BY <1>2 DEF Drain, HandleToggle, clipboard_host_changed
<1>3. CASE \/ MachineReset \/ mod_service \/ mod_command_handler \/ TickStore \/ PollwordClear
           \/ RamTransmit \/ DataLoad
  BY <1>3 DEF MachineReset, mod_service, mod_command_handler, StartTask, TickStore, PollwordClear, RamTransmit, DataLoad
<1>4. CASE \/ PollwordRead \/ HostCheck \/ HostGet \/ NullReason \/ DataSave \/ EventV_event_handler
           \/ DataSaveRefused \/ DataRequest \/ Paste
  BY <1>4 DEF PollwordRead, HostCheck, HostGet, NullReason, DataSave, EventV_event_handler,
              DataSaveRefused, DataRequest, Paste, onlyTask, unchangedHost, hostVars
<1>5. CASE Quit \/ task_shutdown \/ (\E d \in Content : AppCopy(d))
  BY <1>5 DEF Quit, task_shutdown, AppCopy
<1>6. CASE UNCHANGED vars
  BY <1>6 DEF vars, hostVars
<1>7. QED
  BY <1>1, <1>2, <1>3, <1>4, <1>5, <1>6 DEF Next, TaskStep

(* The watcher remembers a text or an image, not both, and what the guest    *)
(* put on the host's clipboard is what it remembers, unless it has forgotten *)
(* everything.                                                               *)
SeenInv ==
    /\ gui.last_seen = Empty \/ gui.image_last_seen = Empty
    /\ desktop.by = "guest" =>
           \/ desktop.data \in {Empty, gui.last_seen, gui.image_last_seen}
           \/ gui.last_seen = Empty /\ gui.image_last_seen = Empty

LEMMA SeenStep == TypeOK /\ SeenInv /\ [Next]_vars => SeenInv'
<1> SUFFICES ASSUME TypeOK, SeenInv, [Next]_vars PROVE SeenInv'
  OBVIOUS
<1>t. gui \in GuiState /\ desktop \in Desktop /\ toGui \in Seq(Content \union {Empty})
  BY DEF TypeOK
<1>1. CASE OnSharedClipboard
  <2>1. /\ UNCHANGED desktop /\ gui'.image_last_seen = gui.image_last_seen
        /\ gui'.last_seen \in {gui.last_seen, Empty}
    BY <1>t, <1>1 DEF OnSharedClipboard, GuiState
  <2>2. QED
    BY <2>1 DEF SeenInv
<1>2. CASE OnClipboardTimer
  <2>1. desktop.data \in Content \union {Empty} /\ desktop.data # Empty
    BY <1>t, <1>2 DEF OnClipboardTimer, Unseen, Desktop
  <2>2. gui' = Seen(desktop.data) /\ UNCHANGED desktop
    BY <1>2 DEF OnClipboardTimer
  <2>3. QED
    BY <1>t, <2>1, <2>2, SeenFacts DEF SeenInv
<1>3. CASE SetHostClipboard
  <2>1. Bitmap(Head(toGui)) \in Content \union {Empty}
    BY <1>t, <1>3, QueueFacts, BitmapFacts DEF SetHostClipboard
  <2>2. \/ UNCHANGED <<desktop, gui>>
        \/ desktop' = [data |-> Bitmap(Head(toGui)), by |-> "guest"] /\ gui' = Seen(Bitmap(Head(toGui)))
    BY <1>3 DEF SetHostClipboard
  <2>3. CASE UNCHANGED <<desktop, gui>>
    BY <2>3 DEF SeenInv
  <2>4. CASE desktop' = [data |-> Bitmap(Head(toGui)), by |-> "guest"] /\ gui' = Seen(Bitmap(Head(toGui)))
    BY <1>t, <2>1, <2>4, SeenFacts DEF SeenInv
  <2>5. QED
    BY <2>2, <2>3, <2>4
<1>4. ASSUME NEW d \in Content, HostCopy(d) PROVE SeenInv'
  <2>1. desktop'.by = "host" /\ UNCHANGED gui
    BY <1>4 DEF HostCopy
  <2>2. QED
    BY <2>1 DEF SeenInv
<1>5. CASE UNCHANGED <<gui, desktop>>
  BY <1>5 DEF SeenInv
<1>6. \/ OnSharedClipboard \/ OnClipboardTimer \/ SetHostClipboard \/ (\E d \in Content : HostCopy(d))
      \/ UNCHANGED <<gui, desktop>>
  BY StepsOfTheWatcher
<1>7. QED
  BY <1>1, <1>2, <1>3, <1>4, <1>5, <1>6

(* The watcher never sends the guest its own copy back, whatever crosses on  *)
(* the way, unless sharing was switched on in between.                       *)
THEOREM NothingIsEchoed == Spec => NoEcho
<1> DEFINE Echo == Len(toEmu') > Len(toEmu) /\ toEmu'[Len(toEmu')].type = "changed"
           Ours == desktop.by = "host" \/ (gui.last_seen = Empty /\ gui.image_last_seen = Empty)
<1>1. Init => SeenInv
  BY DEF Init, HostInit, SeenInv
<1>2. ASSUME TypeOK, SeenInv, [Next]_vars PROVE [Echo => Ours]_vars
  <2>t. toEmu \in Seq(Command) /\ desktop \in Desktop /\ Len(toEmu) \in Nat
    BY <1>2 DEF TypeOK
  <2>1. CASE OnClipboardTimer
    BY <1>2, <2>t, <2>1 DEF OnClipboardTimer, Unseen, Desktop, SeenInv
  <2>2. CASE OnSharedClipboard
    <3>1. [type |-> "toggle"] \in Command /\ toEmu' = Append(toEmu, [type |-> "toggle"])
      BY <2>2 DEF OnSharedClipboard, Command
    <3>2. toEmu'[Len(toEmu')] = [type |-> "toggle"]
      BY <2>t, <3>1
    <3>3. [type |-> "toggle"].type = "toggle"
      OBVIOUS
    <3>4. QED
      BY <3>2, <3>3
  <2>3. CASE Drain
    <3>1. toEmu # <<>> /\ toEmu' = Tail(toEmu)
      BY <2>3 DEF Drain, HandleToggle, clipboard_host_changed
    <3>2. Len(toEmu') = Len(toEmu) - 1
      BY <2>t, <3>1, QueueFacts
    <3>3. QED
      BY <2>t, <3>2
  <2>4. CASE UNCHANGED toEmu
    BY <2>t, <2>4
  <2>5. OnClipboardTimer \/ OnSharedClipboard \/ Drain \/ UNCHANGED toEmu
    BY <1>2, StepsOfTheWatcher
  <2>6. QED
    BY <2>1, <2>2, <2>3, <2>4, <2>5
<1>3. QED
  BY <1>1, <1>2, SeenStep, ClipboardTypeCorrect, PTL DEF Spec, NoEcho
=============================================================================
