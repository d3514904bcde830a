--------------------------- MODULE RPCEmuSupport ---------------------------
(***************************************************************************)
(* The guest's half of the HostCmd channel: the RISC OS module             *)
(* RPCEmuSupport (riscos-progs/RPCEmuSupport/rpcemusupport.s).             *)
(*                                                                         *)
(* A ticker, called every centisecond at interrupt time, drains the output *)
(* ring to the emulator, asks for a command when the module is idle and    *)
(* reports the end of one once the ring is empty.  The command itself runs *)
(* in the foreground: from a callback under OS_CLI before the desktop is   *)
(* up, in a TaskWindow child once the module is a Wimp task.               *)
(*                                                                         *)
(* Each SWI the ticker makes is a step of its own, because hostcmd_poll    *)
(* may run on the host between two guest instructions; while the ticker    *)
(* runs (ticker # "none") the foreground is interrupted and takes no step. *)
(***************************************************************************)
EXTENDS HostCmd

CONSTANTS
    GuestRing,   \* RING_SIZE of the guest's output ring
    MaxPrint     \* bound: bytes one command prints

ASSUME GuestAssumption == GuestRing \in Nat \ {0} /\ MaxPrint \in Nat

VARIABLES
    gstate,     \* WS_STATE; "OFF" while the module is not loaded
    gcmd,       \* WS_CMD: the command last collected
    gring,      \* the bytes between WS_RING_R and WS_RING_W
    ticker,     \* where the ticker is
    task,       \* WS_TASK_HANDLE: 0, the -1 marker, or a real handle
    poll_word,  \* WS_POLL_WORD
    printed     \* bytes the running command has printed

guestVars == <<gstate, gcmd, gring, ticker, task, poll_word, printed>>
unchangedHost == UNCHANGED hostVars

GuestStates == {"OFF", "IDLE", "PENDING", "RUNNING", "FLUSHING",
                "TW_PENDING", "TW_RUNNING"}

(* The module holds a command whose end it has not reported. *)
Owes == gstate \notin {"OFF", "IDLE"}

Foreground == gstate # "OFF" /\ ticker = "none"

(* An SWI: the handler runs on the emulator thread, between two polls. *)
Swi(h) == Emulator(h) /\ UNCHANGED <<tmp, netVars>>

GuestInit ==
    /\ gstate = "OFF" /\ gcmd = None /\ gring = <<>> /\ ticker = "none"
    /\ task = "none" /\ poll_word = FALSE /\ printed = 0
-----------------------------------------------------------------------------
(* init: register, clear the workspace and start the ticker. *)
ModuleInit ==
    /\ gstate = "OFF"
    /\ Swi(SwiRegister(hc))
    /\ gstate' = "IDLE" /\ gring' = <<>> /\ task' = "none"
    /\ poll_word' = FALSE
    /\ UNCHANGED <<gcmd, ticker, printed>>

(* final: the ticker and any callback are removed and the workspace freed. *)
ModuleFinal ==
    /\ Foreground
    /\ gstate' = "OFF" /\ gring' = <<>> /\ task' = "none"
    /\ poll_word' = FALSE
    /\ UNCHANGED <<gcmd, ticker, printed>>
    /\ unchangedHost
-----------------------------------------------------------------------------
(* The ticker *)

TickerEntry ==
    /\ Foreground
    /\ ticker' = "flush"
    /\ UNCHANGED <<gstate, gcmd, gring, task, poll_word, printed>>
    /\ unchangedHost

(* flush_ring: one OUTPUT call, for the n bytes up to the write index or to *)
(* the end of the buffer.  It stops when the host takes nothing.            *)
FlushRing ==
    /\ ticker = "flush" /\ gring # <<>>
    /\ \E n \in 1 .. Len(gring) :
          LET run == SubSeq(gring, 1, n)
              accepted == Accepts(hc, run)
          IN  /\ Swi(SwiOutput(hc, run))
              /\ gring' = SubSeq(gring, accepted + 1, Len(gring))
              /\ ticker' = IF accepted = 0 THEN "act" ELSE "flush"
    /\ UNCHANGED <<gstate, gcmd, task, poll_word, printed>>

FlushDone ==
    /\ ticker = "flush" /\ gring = <<>>
    /\ ticker' = "act"
    /\ UNCHANGED <<gstate, gcmd, gring, task, poll_word, printed>>
    /\ unchangedHost

(* ticker_poll: collect a command and route it.  Any handle but zero, the   *)
(* -1 of a task that is only starting included, routes it to the poll loop. *)
TickerPoll ==
    /\ ticker = "act" /\ gstate = "IDLE"
    /\ Swi(SwiPoll(hc, TRUE))
    /\ ticker' = "none"
    /\ IF Deliverable(hc)
         THEN /\ gcmd' = hc.cmd_line
              /\ printed' = 0
              /\ gstate' = IF task = "none" THEN "PENDING" ELSE "TW_PENDING"
              /\ poll_word' = (poll_word \/ task # "none")
         ELSE UNCHANGED <<gcmd, printed, gstate, poll_word>>
    /\ UNCHANGED <<gring, task>>

(* ticker_check_flush: report the end once everything has been taken. *)
TickerEnd ==
    /\ ticker = "act" /\ gstate = "FLUSHING" /\ gring = <<>>
    /\ Swi(SwiStatusEnd(hc, gcmd))
    /\ gstate' = "IDLE" /\ ticker' = "none"
    /\ UNCHANGED <<gcmd, gring, task, poll_word, printed>>

TickerDone ==
    /\ ticker = "act"
    /\ gstate # "IDLE" /\ (gstate # "FLUSHING" \/ gring # <<>>)
    /\ ticker' = "none"
    /\ UNCHANGED <<gstate, gcmd, gring, task, poll_word, printed>>
    /\ unchangedHost
-----------------------------------------------------------------------------
(* The foreground *)

(* A byte of output goes into the ring unless it is full. *)
PutByte ==
    /\ printed < MaxPrint
    /\ printed' = printed + 1
    /\ gring' = IF Len(gring) < GuestRing - 1 THEN Append(gring, gcmd)
                                              ELSE gring
    /\ UNCHANGED <<gstate, gcmd, ticker, task, poll_word>>
    /\ unchangedHost

Become(s) ==
    /\ gstate' = s
    /\ UNCHANGED <<gcmd, gring, ticker, task, poll_word, printed>>
    /\ unchangedHost

(* run_command: the callback enters OS_CLI, the command prints through      *)
(* WrchV, and on return the ticker is left to flush and report.             *)
RunCommand == Foreground /\ gstate = "PENDING" /\ Become("RUNNING")
Wrch == Foreground /\ gstate = "RUNNING" /\ PutByte
RunReturns == Foreground /\ gstate = "RUNNING" /\ Become("FLUSHING")

(* Service_StartWimp, then the task either comes up or does not. *)
StartWimp ==
    /\ Foreground /\ task = "none"
    /\ task' = "starting"
    /\ UNCHANGED <<gstate, gcmd, gring, ticker, poll_word, printed>>
    /\ unchangedHost

TaskStarts ==
    /\ Foreground /\ task = "starting"
    /\ task' = "live"
    /\ UNCHANGED <<gstate, gcmd, gring, ticker, poll_word, printed>>
    /\ unchangedHost

(* Wimp_Initialise failed, or Service_StartedWimp found the marker. *)
TaskStartFails ==
    /\ Foreground /\ task = "starting"
    /\ task' = "none"
    /\ UNCHANGED <<gstate, gcmd, gring, ticker, poll_word, printed>>
    /\ unchangedHost

(* The end of a command reported from the poll loop, without a flush. *)
AbortCommand ==
    /\ Swi(SwiStatusEnd(hc, gcmd))
    /\ gstate' = "IDLE"

(* wpl_pollword and spawn_taskwindow. *)
PollWord ==
    /\ Foreground /\ task = "live" /\ poll_word
    /\ poll_word' = FALSE
    /\ \/ /\ gstate = "TW_PENDING"
          /\ \/ gstate' = "TW_RUNNING" /\ unchangedHost
             \/ AbortCommand
       \/ /\ gstate # "TW_PENDING"
          /\ UNCHANGED gstate /\ unchangedHost
    /\ UNCHANGED <<gcmd, gring, ticker, task, printed>>

TwOutput == Foreground /\ task = "live" /\ gstate = "TW_RUNNING" /\ PutByte

TwMorio ==
    /\ Foreground /\ task = "live" /\ gstate = "TW_RUNNING"
    /\ Become("FLUSHING")

(* wpl_quit: a command that is waiting or running is reported as ended. *)
TwQuit ==
    /\ Foreground /\ task = "live"
    /\ task' = "none"
    /\ IF gstate \in {"TW_PENDING", "TW_RUNNING"}
         THEN AbortCommand
         ELSE UNCHANGED gstate /\ unchangedHost
    /\ UNCHANGED <<gcmd, gring, ticker, poll_word, printed>>
-----------------------------------------------------------------------------
(* resetrpc: the machine and everything the guest held go; hostcmd_reset.   *)
MachineReset ==
    /\ HostReset
    /\ gstate' = "OFF" /\ gring' = <<>> /\ ticker' = "none"
    /\ task' = "none" /\ poll_word' = FALSE
    /\ UNCHANGED <<gcmd, printed>>

Ticker == TickerEntry \/ FlushRing \/ FlushDone \/ TickerPoll \/ TickerEnd
          \/ TickerDone

Headless == RunCommand \/ Wrch \/ RunReturns

Desktop == StartWimp \/ TaskStarts \/ PollWord \/ TwOutput \/ TwMorio
=============================================================================
