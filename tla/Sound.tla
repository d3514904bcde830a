-------------------------------- MODULE Sound --------------------------------
(***************************************************************************)
(* The guest's sound on its way to the host (sound.c, emulator_host.cpp,   *)
(* plt_sound.cpp).  The emulator thread copies what the guest's DMA points *)
(* at into a ring of four buffers, the sound thread hands full buffers to  *)
(* the audio device.  Only the wake-up takes the mutex; the ring itself is *)
(* shared without it.  A unit stands for a run of samples: what the model  *)
(* tells apart is how long ago the guest made it, counted in units, and    *)
(* the rate that it was made for.                                          *)
(***************************************************************************)
EXTENDS Integers, FiniteSetsExt, Functions

CONSTANTS BUFFERLENSAMPLES,  \* units in a buffer
          DmaUnits,          \* units that one DMA transfer may hold
          SampleRate,        \* sample frequencies that the guest selects
          kLatencyBuffers,   \* buffers that the device may have waiting
          SoundUpsets        \* of "loadstate" (snapshots are restored), "off"
                             \* (the guest's sound DMA is switched off again)

ASSUME SoundAssumption ==
    /\ BUFFERLENSAMPLES \in Nat \ {0} /\ kLatencyBuffers \in Nat \ {0}
    /\ DmaUnits \subseteq 1 .. BUFFERLENSAMPLES
    /\ SampleRate \subseteq Nat \ {0}

VARIABLES
    bigsoundbuffer, bigsoundpos, bigsoundbufferhead, bigsoundbuffertail,
    samplefreq,
    sndon,        \* the guest's sound DMA is on: soundinited && sndon
    dma,          \* units of the current transfer that are still to copy
    sound_loop,   \* the emulator thread: "run", "wake" (at sound_thread_wakeup), ..
    sound_thread, \* the sound thread: "wait", "woken", "update", "play", "played"
    play_freq,    \* the rate that the sound thread passes with a buffer
    soundenabled,
    device,       \* the audio device: the rate it is open for, buffers waiting
    heard         \* the age of the last unit that was handed to the device

soundVars == <<bigsoundbuffer, bigsoundpos, bigsoundbufferhead, bigsoundbuffertail,
               samplefreq, sndon, dma, sound_loop, sound_thread, play_freq, soundenabled,
               device, heard>>

Ring == 0..3
Pos == 0 .. BUFFERLENSAMPLES - 1
Oldest == 4 * BUFFERLENSAMPLES + 1    \* this many units ago, or earlier
Silent == [age |-> Oldest, freq |-> 0]
SilentBuffer == [p \in Pos |-> Silent]
Unit == [age : 0 .. Oldest, freq : SampleRate] \cup {Silent}
Older(age) == IF age < Oldest THEN age + 1 ELSE age
After(i) == (i + 1) % 4

SoundTypeOK ==
    /\ bigsoundbuffer \in [Ring -> [Pos -> Unit]] /\ bigsoundpos \in Pos
    /\ bigsoundbufferhead \in Ring /\ bigsoundbuffertail \in Ring
    /\ samplefreq \in SampleRate /\ play_freq \in SampleRate
    /\ dma \in 0 .. BUFFERLENSAMPLES /\ soundenabled \in BOOLEAN /\ sndon \in BOOLEAN
    /\ sound_loop \in {"run", "wake", "blanked", "loaded"}
    /\ sound_thread \in {"wait", "woken", "update", "play", "played"}
    /\ device \in [freq : SampleRate \cup {0}, waiting : 0 .. kLatencyBuffers]
    /\ heard \in 0 .. Oldest

SoundInit ==
    /\ bigsoundbuffer = [i \in Ring |-> SilentBuffer]
    /\ bigsoundpos = 0 /\ bigsoundbufferhead = 0 /\ bigsoundbuffertail = 0
    /\ samplefreq \in SampleRate
    /\ sndon = FALSE /\ dma = 0
    /\ sound_loop = "run" /\ sound_thread = "wait" /\ play_freq = samplefreq
    /\ soundenabled \in BOOLEAN
    /\ device = [freq |-> 0, waiting |-> 0]
    /\ heard = Oldest

----------------------------------------------------------------------------
(* The emulator thread. *)

RingFull == After(bigsoundbufferhead) = bigsoundbuffertail

RetryLater == sound_loop' = "wake"

(* The guest writes the control register of its sound DMA; a reset switches  *)
(* it off and a snapshot sets it, too.                                       *)
WriteSD0CR ==
    /\ sound_loop = "run" /\ dma = 0
    /\ sndon => "off" \in SoundUpsets
    /\ sndon' = ~sndon
    /\ UNCHANGED <<bigsoundbuffer, bigsoundpos, bigsoundbufferhead, bigsoundbuffertail,
                   samplefreq, dma, sound_loop, sound_thread, play_freq, soundenabled,
                   device, heard>>

(* gentimerirq calls this while that DMA is on.  Before its loop: with the   *)
(* ring full nothing is copied, the thread is woken and the transfer is      *)
(* tried again later.                                                        *)
sound_irq_update(n) ==
    /\ sound_loop = "run" /\ dma = 0 /\ sndon
    /\ IF RingFull THEN RetryLater /\ UNCHANGED dma
       ELSE dma' = n /\ UNCHANGED sound_loop
    /\ UNCHANGED <<bigsoundbuffer, bigsoundpos, bigsoundbufferhead, bigsoundbuffertail,
                   samplefreq, sound_thread, play_freq, sndon, soundenabled, device, heard>>

(* One turn of its loop; a buffer that is full is passed on and the thread   *)
(* woken before the rest is copied.                                          *)
CopyUnit ==
    LET full == bigsoundpos + 1 >= BUFFERLENSAMPLES
    IN /\ sound_loop = "run" /\ dma > 0
       /\ dma' = dma - 1
       /\ bigsoundbuffer' = [i \in Ring |-> [p \in Pos |->
               IF i = bigsoundbufferhead /\ p = bigsoundpos
               THEN [age |-> 0, freq |-> samplefreq]
               ELSE [bigsoundbuffer[i][p] EXCEPT !.age = Older(@)]]]
       /\ heard' = Older(heard)
       /\ bigsoundpos' = IF full THEN 0 ELSE bigsoundpos + 1
       /\ bigsoundbufferhead' = IF full THEN After(bigsoundbufferhead) ELSE bigsoundbufferhead
       /\ sound_loop' = IF full THEN "wake" ELSE "run"
       /\ UNCHANGED <<bigsoundbuffertail, samplefreq, sound_thread, play_freq,
                      sndon, soundenabled, device>>

(* The sound thread has the mutex except while it waits for a wake-up. *)
SoundMutexFree_Always == TRUE
SoundMutexFree == sound_thread \in {"wait", "woken"}

sound_thread_wakeup ==
    /\ sound_loop = "wake" /\ SoundMutexFree
    /\ sound_loop' = "run"
    /\ sound_thread' = "woken"
    /\ UNCHANGED <<bigsoundbuffer, bigsoundpos, bigsoundbufferhead, bigsoundbuffertail,
                   samplefreq, dma, play_freq, sndon, soundenabled, device, heard>>

(* What is queued is blanked, then the new rate is stored. *)
BlankQueued_Not ==
    UNCHANGED <<bigsoundbuffer, bigsoundpos, bigsoundbufferhead, bigsoundbuffertail, dma,
                sound_thread, play_freq, sndon, soundenabled, device, heard>>
BlankQueued ==
    /\ bigsoundbuffer' = [i \in Ring |-> SilentBuffer]
    /\ UNCHANGED <<bigsoundpos, bigsoundbufferhead, bigsoundbuffertail, dma, sound_thread,
                   play_freq, sndon, soundenabled, device, heard>>

StoreFreq(freq) ==
    /\ samplefreq' = freq
    /\ UNCHANGED <<bigsoundbuffer, bigsoundpos, bigsoundbufferhead, bigsoundbuffertail,
                   dma, sound_thread, play_freq, sndon, soundenabled, device, heard>>

sound_samplefreq_change(freq) ==
    \/ /\ sound_loop = "run" /\ dma = 0 /\ freq # samplefreq
       /\ sound_loop' = "blanked" /\ UNCHANGED samplefreq
       /\ BlankQueued
    \/ /\ sound_loop = "blanked" /\ freq # samplefreq
       /\ sound_loop' = "run"
       /\ StoreFreq(freq)

(* A snapshot is restored: its rate first, then the ring is emptied.  The   *)
(* mutex is not taken.                                                      *)
sound_loadstate(freq) ==
    /\ "loadstate" \in SoundUpsets
    /\ \/ /\ sound_loop = "run" /\ dma = 0
          /\ sound_loop' = "loaded"
          /\ StoreFreq(freq)
       \/ /\ sound_loop = "loaded"
          /\ sound_loop' = "run" /\ UNCHANGED samplefreq
          /\ bigsoundbuffer' = [i \in Ring |-> SilentBuffer]
          /\ bigsoundpos' = 0 /\ bigsoundbufferhead' = 0 /\ bigsoundbuffertail' = 0
          /\ UNCHANGED <<dma, sound_thread, play_freq, sndon, soundenabled, device, heard>>

(* The Sound setting, on the emulator thread as every command. *)
sound_restart_or_pause ==
    /\ sound_loop = "run" /\ dma = 0
    /\ soundenabled' = ~soundenabled
    /\ UNCHANGED <<bigsoundbuffer, bigsoundpos, bigsoundbufferhead, bigsoundbuffertail,
                   samplefreq, dma, sound_loop, sound_thread, play_freq, sndon, device, heard>>

----------------------------------------------------------------------------
(* The sound thread: sound_thread_function and sound_buffer_update. *)

(* A wake-up, which may also be spurious. *)
Woken ==
    /\ sound_thread \in {"wait", "woken"}
    /\ sound_thread' = "update"
    /\ UNCHANGED <<bigsoundbuffer, bigsoundpos, bigsoundbufferhead, bigsoundbuffertail,
                   samplefreq, dma, sound_loop, play_freq, sndon, soundenabled, device, heard>>

plt_sound_buffer_free == IF device.freq = 0 THEN 1 ELSE kLatencyBuffers - device.waiting

(* Nothing is queued, or the device has enough for now: back to waiting. *)
NothingToPlay ==
    /\ sound_thread = "update"
    /\ bigsoundbuffertail = bigsoundbufferhead \/ plt_sound_buffer_free < 1
    /\ sound_thread' = "wait"
    /\ UNCHANGED <<bigsoundbuffer, bigsoundpos, bigsoundbufferhead, bigsoundbuffertail,
                   samplefreq, dma, sound_loop, play_freq, sndon, soundenabled, device, heard>>

(* A buffer is due; with the sound on, its rate is read and it is played. *)
TakeBuffer ==
    /\ sound_thread = "update"
    /\ bigsoundbuffertail # bigsoundbufferhead /\ plt_sound_buffer_free >= 1
    /\ sound_thread' = IF soundenabled THEN "play" ELSE "played"
    /\ play_freq' = samplefreq
    /\ UNCHANGED <<bigsoundbuffer, bigsoundpos, bigsoundbufferhead, bigsoundbuffertail,
                   samplefreq, dma, sound_loop, sndon, soundenabled, device, heard>>

(* A change of rate opens the device anew, which drops what it had waiting. *)
plt_sound_buffer_play ==
    /\ sound_thread = "play"
    /\ sound_thread' = "played"
    /\ device' = [freq |-> play_freq,
                  waiting |-> (IF device.freq = play_freq THEN device.waiting ELSE 0)
                                + (IF soundenabled THEN 1 ELSE 0)]
    /\ heard' = IF soundenabled
                THEN Min({heard} \cup {u.age : u \in Range(bigsoundbuffer[bigsoundbuffertail])})
                ELSE heard
    /\ UNCHANGED <<bigsoundbuffer, bigsoundpos, bigsoundbufferhead, bigsoundbuffertail,
                   samplefreq, dma, sound_loop, play_freq, sndon, soundenabled>>

NextTail ==
    /\ sound_thread = "played"
    /\ sound_thread' = "update"
    /\ bigsoundbuffertail' = After(bigsoundbuffertail)
    /\ UNCHANGED <<bigsoundbuffer, bigsoundpos, bigsoundbufferhead, samplefreq, dma,
                   sound_loop, play_freq, sndon, soundenabled, device, heard>>

(* The device has played a buffer. *)
DeviceDrains ==
    /\ device.waiting > 0
    /\ device' = [device EXCEPT !.waiting = @ - 1]
    /\ UNCHANGED <<bigsoundbuffer, bigsoundpos, bigsoundbufferhead, bigsoundbuffertail,
                   samplefreq, dma, sound_loop, sound_thread, play_freq, sndon, soundenabled,
                   heard>>

sound_buffer_update == NothingToPlay \/ TakeBuffer \/ plt_sound_buffer_play \/ NextTail

SoundNext ==
    \/ WriteSD0CR \/ \E n \in DmaUnits : sound_irq_update(n)
    \/ CopyUnit \/ sound_thread_wakeup
    \/ \E freq \in SampleRate : sound_samplefreq_change(freq) \/ sound_loadstate(freq)
    \/ sound_restart_or_pause
    \/ Woken \/ sound_buffer_update \/ DeviceDrains

SoundSpec == SoundInit /\ [][SoundNext]_soundVars

----------------------------------------------------------------------------
(* What is handed to the device is the guest's sound in the order it made   *)
(* it, nothing twice: every unit of the buffer that the sound thread has    *)
(* taken is younger than the last one played, and than the one before it.   *)
(* (sound_irq_update looks for room once, before a transfer that may cross  *)
(* into the next buffer.)                                                   *)
PlayedInOrder ==
    sound_thread = "play" =>
        LET px == bigsoundbuffer[bigsoundbuffertail]
            sound == {p \in Pos : px[p] # Silent}
        IN \A p \in sound : /\ px[p].age < heard
                            /\ \A q \in sound : q < p => px[q].age > px[p].age

(* The samples of a buffer are played at the rate they were made for, or    *)
(* not at all: sound_samplefreq_change blanks them "to prevent queued data  *)
(* being played at the wrong frequency".                                    *)
PlayedAtItsRate ==
    sound_thread = "play" =>
        \A u \in Range(bigsoundbuffer[bigsoundbuffertail]) : u = Silent \/ u.freq = play_freq

=============================================================================
