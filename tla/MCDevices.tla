------------------------------ MODULE MCDevices ------------------------------
(* Small instances of what the machine shares with the host's desktop: the    *)
(* clipboard, sound, the display, the frames that its window is sent, and      *)
(* the network.                                                               *)
(* They share no state in the model, so a behaviour is of one of them: part   *)
(* says which, and the others keep their first state.                         *)
EXTENDS MCClipboard, Sound, VideoThread, FramePool, NetReceive, RelayReassembly

CONSTANTS r1, r2, d1, d2, d3

VARIABLE part

clipVars == vars
allVars == <<part, clipVars, soundVars, videoVars, poolVars, netVars, reasmVars>>

(* Two sizes with the same number of pixels. *)
MCFrameSize == {[w |-> 1, h |-> 2], [w |-> 2, h |-> 1]}
MCChangedRows == {<<0, 1>>, <<1, 2>>, <<0, 2>>}

(* A datagram that is too long, and two that are not; no two of a key. *)
MCDatagram == {d1, d2, d3}
MCUnits == [d \in MCDatagram |-> IF d = d1 THEN 4 ELSE IF d = d2 THEN 3 ELSE 2]
MCKey == [d \in MCDatagram |-> d]

DevicesInit ==
    /\ part \in {"clipboard", "sound", "video", "pool", "net", "fragments"}
    /\ Init /\ SoundInit /\ initvideo /\ PoolInit /\ NetInit /\ ReasmInit
    /\ part # "clipboard" => gui.enabled
    /\ part # "sound" => soundenabled /\ samplefreq = Min(SampleRate)
    /\ part # "video" => mode_size = Min(ScreenSize)

DevicesNext ==
    \/ /\ part = "clipboard" /\ Next
       /\ UNCHANGED <<part, soundVars, videoVars, poolVars, netVars, reasmVars>>
    \/ /\ part = "sound" /\ SoundNext
       /\ UNCHANGED <<part, clipVars, videoVars, poolVars, netVars, reasmVars>>
    \/ /\ part = "video" /\ VideoNext
       /\ UNCHANGED <<part, clipVars, soundVars, poolVars, netVars, reasmVars>>
    \/ /\ part = "pool" /\ PoolNext
       /\ UNCHANGED <<part, clipVars, soundVars, videoVars, netVars, reasmVars>>
    \/ /\ part = "net" /\ NetNext
       /\ UNCHANGED <<part, clipVars, soundVars, videoVars, poolVars, reasmVars>>
    \/ /\ part = "fragments" /\ ReasmNext
       /\ UNCHANGED <<part, clipVars, soundVars, videoVars, poolVars, netVars>>

DevicesSpec == DevicesInit /\ [][DevicesNext]_allVars
=============================================================================
