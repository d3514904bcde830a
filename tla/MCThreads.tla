------------------------------ MODULE MCThreads ------------------------------
(* Small instances, for liveness, of the emulator's threads and of the        *)
(* Manager's connection, sound, the display and the network's receive side.   *)
(* They share no state in the model, so a behaviour is of one of them: part   *)
(* says which, and the others keep their first state.                         *)
EXTENDS EmulatorHost, MachineIpc, Sound, VideoThread, NetReceive

CONSTANTS g1, g2

VARIABLE part

allVars == <<part, emuVars, ipcVars, soundVars, videoVars, netVars>>

MCMgr == {g1, g2}

ThreadsInit ==
    /\ part \in {"host", "ipc", "sound", "video", "net"}
    /\ EmuHostInit /\ IpcInit /\ SoundInit /\ initvideo /\ NetInit
    /\ part # "sound" => soundenabled /\ samplefreq = Min(SampleRate)
    /\ part # "video" => mode_size = Min(ScreenSize)

InHost(A) == part = "host" /\ A /\ UNCHANGED <<part, ipcVars, soundVars, videoVars, netVars>>
InIpc(A) == part = "ipc" /\ A /\ UNCHANGED <<part, emuVars, soundVars, videoVars, netVars>>
InSound(A) == part = "sound" /\ A /\ UNCHANGED <<part, emuVars, ipcVars, videoVars, netVars>>
InVideo(A) == part = "video" /\ A /\ UNCHANGED <<part, emuVars, ipcVars, soundVars, netVars>>
InNet(A) == part = "net" /\ A /\ UNCHANGED <<part, emuVars, ipcVars, soundVars, videoVars>>

ThreadsNext ==
    \/ /\ part = "host" /\ HostNext
       /\ UNCHANGED <<part, ipcVars, soundVars, videoVars, netVars>>
    \/ /\ part = "ipc" /\ IpcNext
       /\ UNCHANGED <<part, emuVars, soundVars, videoVars, netVars>>
    \/ /\ part = "sound" /\ SoundNext
       /\ UNCHANGED <<part, emuVars, ipcVars, videoVars, netVars>>
    \/ /\ part = "video" /\ VideoNext
       /\ UNCHANGED <<part, emuVars, ipcVars, soundVars, netVars>>
    \/ /\ part = "net" /\ NetNext
       /\ UNCHANGED <<part, emuVars, ipcVars, soundVars, videoVars>>

(* Threads run, and get a mutex that is free again and again.  Besides:       *)
(*   host   a guest that runs again and again spends its budget; nothing is   *)
(*          assumed of what the user, a VNC client or the guest asks for, nor *)
(*          that interrupts come;                                             *)
(*   sound  the interrupt timer comes round whatever the guest does in        *)
(*          between, as long as it keeps its sound DMA on, and the device     *)
(*          plays on;                                                         *)
(*   video  the emulator thread comes round to drawscr;                       *)
(*   net    the guest takes the interrupt, its driver's loop goes on, a        *)
(*          protocol module returns to it, and a datagram's fragments follow  *)
(*          one another.                                                      *)
(* As a behaviour is of one part, a condition may stand for one of each.      *)
FairThreadsSpec ==
    /\ ThreadsInit /\ [][ThreadsNext]_allVars
    /\ SF_allVars(\/ InHost(EmuThread \/ (emu.at = "wake" /\ Fatal)) \/ InIpc(AcceptThread)
                  \/ InSound(\E n \in DmaUnits : sound_irq_update(n)))
    /\ SF_allVars(InHost(GuiStops) \/ InIpc(StopJoined) \/ InSound(sound_thread_wakeup))
    /\ SF_allVars(InHost(BudgetSpent))
    /\ WF_allVars(\/ InHost(GuiWaits) \/ InIpc(EventSender) \/ InSound(CopyUnit) \/ InVideo(drawscr)
                  \/ InNet(device_irq))
    /\ WF_allVars(\/ InHost(SetPending("gui")) \/ InIpc(Reader(g1))
                  \/ InSound(sound_loop = "blanked" /\ \E f \in SampleRate : sound_samplefreq_change(f))
                  \/ InVideo(ThreadStarts) \/ InNet(receive_frames))
    /\ WF_allVars(\/ InHost(SetPending("vnc")) \/ InIpc(Reader(g2))
                  \/ InSound(sound_loop = "loaded" /\ \E f \in SampleRate : sound_loadstate(f))
                  \/ InVideo(video_thread # "wait" /\ TakeFrame) \/ InNet(ProtocolReturns))
    /\ WF_allVars(\/ InHost(SetPending("video")) \/ InIpc(ManagerGui(g1))
                  \/ InSound(sound_thread = "woken" /\ Woken)
                  \/ InVideo((\E p \in todo : ConvertPage(p)) \/ FrameDone))
    /\ WF_allVars(\/ InHost(ThreadLoop("sound")) \/ InIpc(ManagerGui(g2)) \/ InSound(sound_buffer_update)
                  \/ InNet(\E kind \in FrameKind : network_nat_inject_packet(kind)))
    /\ WF_allVars(InHost(ThreadLoop("video")) \/ InSound(DeviceDrains))
=============================================================================
