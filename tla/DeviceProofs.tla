---------------------------- MODULE DeviceProofs ----------------------------
(* What holds of the two devices with a thread of their own: the sound that goes *)
(* out to the host (Sound), for any size of the buffers and of the transfers,    *)
(* and the marks by which the thread that draws finds what the guest has         *)
(* changed (VideoThread), for any number of pages.                               *)
EXTENDS Sound, VideoThread, NaturalsInduction, WellFoundedInduction, TLAPS

(* A set of numbers that has a member has a least one. *)
LEMMA LeastNat ==
    ASSUME NEW S \in SUBSET Nat, S # {}
    PROVE  \E i \in S : \A j \in S : i <= j
<1>1. PICK i \in S : \A j \in S : ~(<<j, i>> \in OpToRel(<, Nat))
  BY NatLessThanWellFounded, WFMin, ZenonT(40)
<1>2. \A j \in S : ~(j < i)
  BY <1>1, ZenonT(40) DEF OpToRel
<1>3. QED
  BY <1>2

-----------------------------------------------------------------------------
(* Sound *)

LEMMA MinIsLeast ==
    ASSUME NEW S \in SUBSET Nat, S # {}
    PROVE  Min(S) \in S /\ \A j \in S : Min(S) <= j
<1>1. \E i \in S : \A j \in S : i =< j
  BY LeastNat
<1>2. QED
  BY <1>1, ZenonT(40) DEF Min

----------------------------------------------------------------------------
(* Sound: the order of the units in the ring. *)

(* Buffer i counted from the tail t; the units of o whole buffers; the      *)
(* place of unit p of buffer i in what is queued.                           *)
Offset(t, i) == IF i >= t THEN i - t ELSE i - t + 4
Filled(o) == CASE o = 0 -> 0
               [] o = 1 -> BUFFERLENSAMPLES
               [] o = 2 -> BUFFERLENSAMPLES + BUFFERLENSAMPLES
               [] OTHER -> BUFFERLENSAMPLES + BUFFERLENSAMPLES + BUFFERLENSAMPLES
Place(t, i, p) == Filled(Offset(t, i)) + p
Queued == Place(bigsoundbuffertail, bigsoundbufferhead, bigsoundpos)

UnitRec == [age : 0 .. Oldest, freq : Nat]

SoundShape ==
    /\ bigsoundbuffer \in [Ring -> [Pos -> UnitRec]] /\ bigsoundpos \in Pos
    /\ bigsoundbufferhead \in Ring /\ bigsoundbuffertail \in Ring
    /\ samplefreq \in SampleRate /\ play_freq \in SampleRate
    /\ dma \in 0 .. BUFFERLENSAMPLES /\ soundenabled \in BOOLEAN
    /\ sound_loop \in {"run", "wake", "blanked"}
    /\ sound_thread \in {"wait", "woken", "update", "play", "played"}
    /\ heard \in 0 .. Oldest

(* The head never catches up with the tail: a transfer that is under way    *)
(* and will fill its buffer has another buffer to go on with, so the buffer *)
(* that the sound thread has taken is not written.                          *)
RoomOK ==
    /\ bigsoundpos + dma >= BUFFERLENSAMPLES =>
           Offset(bigsoundbuffertail, bigsoundbufferhead) <= 2
    /\ sound_thread \in {"play", "played"} => bigsoundbufferhead # bigsoundbuffertail

(* Whatever sounds was made for the current rate, and the buffer that the   *)
(* thread has taken for the rate that it read.                              *)
RateOK ==
    /\ \A i \in Ring, p \in Pos :
           /\ bigsoundbuffer[i][p] = Silent \/ bigsoundbuffer[i][p].freq = samplefreq
           /\ sound_loop = "blanked" => bigsoundbuffer[i][p] = Silent
    /\ sound_thread = "play" =>
           \A p \in Pos : \/ bigsoundbuffer[bigsoundbuffertail][p] = Silent
                          \/ bigsoundbuffer[bigsoundbuffertail][p].freq = play_freq

(* A unit that is queued is as old as its place says, and everything that   *)
(* was played is older than what is queued.                                 *)
AgeOK ==
    /\ \A i \in Ring, p \in Pos :
           Place(bigsoundbuffertail, i, p) < Queued =>
               \/ bigsoundbuffer[i][p] = Silent
               \/ bigsoundbuffer[i][p].age = Queued - 1 - Place(bigsoundbuffertail, i, p)
    /\ IF sound_thread = "played" THEN heard + BUFFERLENSAMPLES >= Queued ELSE heard >= Queued

SoundInv == SoundShape /\ RoomOK /\ RateOK /\ AgeOK

LEMMA AfterValue ==
    ASSUME NEW i \in Ring
    PROVE  After(i) \in Ring /\ After(i) = IF i = 3 THEN 0 ELSE i + 1
BY DEF Ring, After

LEMMA OffsetType ==
    ASSUME NEW t \in Ring, NEW i \in Ring
    PROVE  /\ Offset(t, i) \in 0..3
           /\ Offset(t, i) = 0 <=> i = t
           /\ \A j \in Ring : Offset(t, j) = Offset(t, i) => j = i
BY DEF Ring, Offset

LEMMA OffsetAfter ==
    ASSUME NEW t \in Ring, NEW i \in Ring
    PROVE  /\ Offset(t, i) <= 2 => Offset(t, After(i)) = Offset(t, i) + 1
           /\ i # t => Offset(After(t), i) = Offset(t, i) - 1
           /\ Offset(After(t), t) = 3
           /\ After(i) # t => Offset(t, i) <= 2
BY AfterValue DEF Ring, Offset

LEMMA FilledValue ==
    /\ \A o \in 0..3 : Filled(o) \in Nat
    /\ \A o \in 0..2 : Filled(o + 1) = Filled(o) + BUFFERLENSAMPLES
    /\ \A o \in 1..3 : Filled(o - 1) = Filled(o) - BUFFERLENSAMPLES
    /\ \A o \in 0..3, n \in 0..3 : o < n => Filled(o) + BUFFERLENSAMPLES <= Filled(n)
    /\ \A o \in 0..3 : Filled(o) + BUFFERLENSAMPLES < Oldest
    /\ Filled(0) = 0
BY SoundAssumption DEF Filled, Oldest

LEMMA PlaceValue ==
    ASSUME NEW t \in Ring, NEW i \in Ring, NEW p \in Pos
    PROVE  /\ Place(t, i, p) \in Nat
           /\ Place(t, i, p) + 1 < Oldest
           /\ \A j \in Ring, q \in Pos : Place(t, j, q) = Place(t, i, p) => j = i /\ q = p
<1>1. PICK o \in 0..3 : o = Offset(t, i)
  BY OffsetType
<1>2. /\ Filled(o) \in Nat /\ Filled(o) + BUFFERLENSAMPLES < Oldest /\ Oldest \in Nat
  <2>1. Oldest \in Nat
    BY SoundAssumption DEF Oldest
  <2>2. QED
    BY <2>1, FilledValue
<1>3. Place(t, i, p) \in Nat /\ Place(t, i, p) + 1 < Oldest
  BY <1>1, <1>2, SoundAssumption DEF Place, Pos
<1>4. ASSUME NEW j \in Ring, NEW q \in Pos, Place(t, j, q) = Place(t, i, p)
      PROVE  j = i /\ q = p
  <2>1. PICK n \in 0..3 : n = Offset(t, j)
    BY OffsetType
  <2>2. Filled(n) + q = Filled(o) + p
    BY <1>1, <1>4, <2>1 DEF Place
  <2>3. /\ Filled(n) \in Nat
        /\ n < o => Filled(n) + BUFFERLENSAMPLES <= Filled(o)
        /\ o < n => Filled(o) + BUFFERLENSAMPLES <= Filled(n)
    BY FilledValue
  <2>4. ~(n < o) /\ ~(o < n)
    BY <1>2, <2>2, <2>3, SoundAssumption DEF Pos
  <2>5. n = o
    BY <2>4
  <2>6. q = p
    BY <1>2, <2>2, <2>5 DEF Pos
  <2>7. Offset(t, j) = Offset(t, i)
    BY <1>1, <2>1, <2>5
  <2>8. j = i
    BY <2>7, OffsetType
  <2>9. QED
    BY <2>6, <2>8
<1>5. QED
  BY <1>3, <1>4

LEMMA AgedUnit ==
    ASSUME NEW u \in UnitRec
    PROVE  /\ [u EXCEPT !.age = Older(@)] \in UnitRec
           /\ [u EXCEPT !.age = Older(@)].age = Older(u.age)
           /\ [u EXCEPT !.age = Older(@)].freq = u.freq
           /\ u = Silent => [u EXCEPT !.age = Older(@)] = Silent
<1>1. Oldest \in Nat /\ u.age \in 0 .. Oldest /\ u.freq \in Nat
  BY SoundAssumption DEF UnitRec, Oldest
<1>2. Older(u.age) \in 0 .. Oldest
  BY <1>1 DEF Older
<1>3. u = Silent => Older(u.age) = Oldest
  BY <1>1 DEF Silent, Older
<1>4. QED
  BY <1>1, <1>2, <1>3 DEF UnitRec, Silent

LEMMA SilentUnit == Silent \in UnitRec /\ Oldest \in Nat /\ Silent.age = Oldest
BY SoundAssumption DEF Silent, UnitRec, Oldest

LEMMA SoundStarts == SoundInit => SoundInv
<1> SUFFICES ASSUME SoundInit PROVE SoundInv
  OBVIOUS
<1>1. 0 \in Pos /\ 0 \in Ring /\ Oldest \in Nat
  BY SoundAssumption DEF Pos, Ring, Oldest
<1>2. bigsoundbuffer \in [Ring -> [Pos -> UnitRec]]
  BY SilentUnit DEF SoundInit, SilentBuffer
<1>3. SoundShape
  BY <1>1, <1>2, SoundAssumption DEF SoundInit, SoundShape
<1>4. \A i \in Ring, p \in Pos : bigsoundbuffer[i][p] = Silent
  BY DEF SoundInit, SilentBuffer
<1>5. RoomOK
  BY SoundAssumption DEF SoundInit, RoomOK
<1>6. RateOK
  BY <1>4 DEF SoundInit, RateOK
<1>7. Queued = 0
  BY FilledValue DEF SoundInit, Queued, Place, Offset
<1>8. AgeOK
  BY <1>1, <1>4, <1>7 DEF SoundInit, AgeOK
<1>9. QED
  BY <1>3, <1>5, <1>6, <1>8 DEF SoundInv

(* The steps that leave the ring and what was played alone. *)
LEMMA RingUntouched ==
    ASSUME SoundInv, SoundShape', RoomOK',
           UNCHANGED <<bigsoundbuffer, bigsoundpos, bigsoundbufferhead, bigsoundbuffertail,
                       samplefreq, play_freq, heard>>,
           sound_loop' = "blanked" => sound_loop = "blanked",
           sound_thread' = "play" => sound_thread = "play",
           sound_thread' = "played" <=> sound_thread = "played"
    PROVE  SoundInv'
<1>1. RateOK'
  BY DEF SoundInv, RateOK
<1>2. Queued' = Queued
  BY DEF Queued
<1>3. AgeOK'
  BY <1>2 DEF SoundInv, AgeOK
<1>4. QED
  BY <1>1, <1>3 DEF SoundInv

LEMMA TransferStarts ==
    ASSUME SoundInv, NEW n \in DmaUnits, sound_irq_update(n)
    PROVE  SoundInv'
<1>1. dma' \in 0 .. BUFFERLENSAMPLES
  BY SoundAssumption DEF SoundInv, SoundShape, sound_irq_update
<1>2. SoundShape'
  BY <1>1 DEF SoundInv, SoundShape, sound_irq_update, RetryLater
<1>3. RoomOK'
  BY OffsetAfter DEF SoundInv, SoundShape, RoomOK, sound_irq_update, RingFull
<1>4. QED
  BY <1>2, <1>3, RingUntouched DEF sound_irq_update, RetryLater

(* One unit is copied: what is queued is one more, everything in it is one  *)
(* older, and the buffer at the tail is not the one that is written while   *)
(* the thread has it.                                                       *)
LEMMA UnitIsCopied ==
    ASSUME SoundInv, CopyUnit
    PROVE  SoundInv'
<1> DEFINE t == bigsoundbuffertail
           h == bigsoundbufferhead
           buf == bigsoundbuffer
           full == bigsoundpos + 1 >= BUFFERLENSAMPLES
<1>1. /\ t \in Ring /\ h \in Ring /\ bigsoundpos \in Pos /\ dma \in 1 .. BUFFERLENSAMPLES
      /\ After(h) \in Ring /\ heard \in 0 .. Oldest /\ BUFFERLENSAMPLES \in Nat \ {0}
      /\ Oldest \in Nat
  BY AfterValue, SoundAssumption, SilentUnit DEF SoundInv, SoundShape, CopyUnit
<1>2. full <=> bigsoundpos = BUFFERLENSAMPLES - 1
  BY <1>1 DEF Pos
<1>3. full => Offset(t, h) <= 2
  BY <1>1, <1>2 DEF SoundInv, RoomOK
<1>4. /\ t' = t
      /\ h' = IF full THEN After(h) ELSE h
      /\ bigsoundpos' = IF full THEN 0 ELSE bigsoundpos + 1
  BY DEF CopyUnit
<1>5. Offset(t, h) \in 0..3 /\ (full => Offset(t, h') = Offset(t, h) + 1)
  BY <1>1, <1>3, <1>4, OffsetType, OffsetAfter
<1>6. Queued' = Queued + 1
  <2>1. Filled(Offset(t, h)) \in Nat
    BY <1>5, FilledValue
  <2>2. CASE full
    <3>1. Filled(Offset(t, h')) = Filled(Offset(t, h)) + BUFFERLENSAMPLES
      BY <1>3, <1>5, <2>2, FilledValue
    <3>2. QED
      BY <1>1, <1>2, <1>4, <2>1, <2>2, <3>1 DEF Queued, Place
  <2>3. CASE ~full
    BY <1>1, <1>4, <2>1, <2>3 DEF Queued, Place, Pos
  <2>4. QED
    BY <2>2, <2>3
<1>7. ASSUME NEW i \in Ring, NEW p \in Pos
      PROVE  /\ buf[i][p] \in UnitRec
             /\ buf'[i][p] \in UnitRec
             /\ i = h /\ p = bigsoundpos =>
                    buf'[i][p].age = 0 /\ buf'[i][p].freq = samplefreq
             /\ ~(i = h /\ p = bigsoundpos) =>
                    /\ buf'[i][p].age = Older(buf[i][p].age)
                    /\ buf'[i][p].freq = buf[i][p].freq
                    /\ buf[i][p] = Silent => buf'[i][p] = Silent
  <2>1. buf[i][p] \in UnitRec
    BY DEF SoundInv, SoundShape
  <2>2. [age |-> 0, freq |-> samplefreq] \in UnitRec
    BY <1>1, SoundAssumption DEF UnitRec, SoundInv, SoundShape
  <2>3. CASE i = h /\ p = bigsoundpos
    <3>1. buf'[i][p] = [age |-> 0, freq |-> samplefreq]
      BY <2>3 DEF CopyUnit
    <3>2. QED
      BY <2>1, <2>2, <2>3, <3>1
  <2>4. CASE ~(i = h /\ p = bigsoundpos)
    <3>1. buf'[i][p] = [buf[i][p] EXCEPT !.age = Older(@)]
      BY <2>4 DEF CopyUnit
    <3>2. QED
      BY <2>1, <2>4, <3>1, AgedUnit
  <2>5. QED
    BY <2>3, <2>4
<1>8. SoundShape'
  <2>1. buf' = [i \in Ring |-> [p \in Pos |-> buf'[i][p]]]
    BY DEF CopyUnit
  <2>2. buf' \in [Ring -> [Pos -> UnitRec]]
    BY <1>7, <2>1
  <2>3. bigsoundpos' \in Pos /\ h' \in Ring
    BY <1>1, <1>2, <1>4 DEF Pos
  <2>4. heard' \in 0 .. Oldest /\ dma' \in 0 .. BUFFERLENSAMPLES
    BY <1>1 DEF CopyUnit, Older
  <2>5. QED
    BY <2>2, <2>3, <2>4 DEF SoundInv, SoundShape, CopyUnit
<1>9. RoomOK'
  <2>1. bigsoundpos' + dma' >= BUFFERLENSAMPLES => ~full /\ bigsoundpos + dma >= BUFFERLENSAMPLES
    BY <1>1, <1>2 DEF CopyUnit, Pos
  <2>2. bigsoundpos' + dma' >= BUFFERLENSAMPLES => Offset(t', h') <= 2
    BY <1>4, <2>1 DEF SoundInv, RoomOK
  <2>3. sound_thread' \in {"play", "played"} => h' # t'
    <3>1. sound_thread' \in {"play", "played"} => h # t
      BY DEF SoundInv, RoomOK, CopyUnit
    <3>2. full => h' # t'
      BY <1>1, <1>4, <1>5, OffsetType
    <3>3. QED
      BY <1>4, <3>1, <3>2
  <2>4. QED
    BY <2>2, <2>3 DEF RoomOK
<1>10. RateOK'
  <2>1. ASSUME NEW i \in Ring, NEW p \in Pos
        PROVE  /\ buf'[i][p] = Silent \/ buf'[i][p].freq = samplefreq'
               /\ ~(sound_loop' = "blanked")
    BY <1>7 DEF SoundInv, RateOK, CopyUnit
  <2>2. ASSUME sound_thread' = "play", NEW p \in Pos
        PROVE  buf'[t'][p] = Silent \/ buf'[t'][p].freq = play_freq'
    <3>1. t # h /\ sound_thread = "play" /\ play_freq' = play_freq
      BY <2>2 DEF SoundInv, RoomOK, CopyUnit
    <3>2. buf[t][p] = Silent \/ buf[t][p].freq = play_freq
      BY <3>1 DEF SoundInv, RateOK
    <3>3. QED
      BY <1>1, <1>4, <1>7, <3>1, <3>2
  <2>3. QED
    BY <2>1, <2>2 DEF RateOK
<1>11. Queued \in Nat /\ Queued + 1 < Oldest
  BY <1>1, PlaceValue DEF Queued
<1>12. ASSUME NEW i \in Ring, NEW p \in Pos, Place(t', i, p) < Queued'
       PROVE  buf'[i][p] = Silent \/ buf'[i][p].age = Queued' - 1 - Place(t', i, p)
  <2>1. Place(t, i, p) \in Nat
    BY <1>1, PlaceValue
  <2>2. CASE Place(t, i, p) = Queued
    <3>1. i = h /\ p = bigsoundpos
      BY <1>1, <2>2, PlaceValue DEF Queued
    <3>2. QED
      BY <1>4, <1>6, <1>7, <1>11, <2>2, <3>1
  <2>3. CASE Place(t, i, p) < Queued
    <3>1. ~(i = h /\ p = bigsoundpos)
      BY <1>11, <2>3 DEF Queued
    <3>2. buf[i][p] = Silent \/ buf[i][p].age = Queued - 1 - Place(t, i, p)
      BY <2>3 DEF SoundInv, AgeOK
    <3>3. CASE buf[i][p] = Silent
      BY <1>7, <3>1, <3>3
    <3>4. CASE buf[i][p].age = Queued - 1 - Place(t, i, p)
      <4>1. Older(buf[i][p].age) = Queued - Place(t, i, p)
        BY <1>1, <1>11, <2>1, <2>3, <3>4 DEF Older
      <4>2. QED
        BY <1>4, <1>6, <1>7, <1>11, <2>1, <3>1, <4>1
    <3>5. QED
      BY <3>2, <3>3, <3>4
  <2>4. QED
    BY <1>4, <1>6, <1>11, <1>12, <2>1, <2>2, <2>3
<1>13. AgeOK'
  <2>1. heard' = Older(heard) /\ sound_thread' = sound_thread
    BY DEF CopyUnit
  <2>2. IF sound_thread = "played" THEN heard + BUFFERLENSAMPLES >= Queued ELSE heard >= Queued
    BY DEF SoundInv, AgeOK
  <2>3. IF sound_thread' = "played" THEN heard' + BUFFERLENSAMPLES >= Queued'
                                    ELSE heard' >= Queued'
    BY <1>1, <1>6, <1>11, <2>1, <2>2 DEF Older
  <2>4. QED
    BY <1>12, <2>3 DEF AgeOK
<1>14. QED
  BY <1>8, <1>9, <1>10, <1>13 DEF SoundInv

(* The queued samples are blanked, then the new rate is stored. *)
LEMMA RateIsChanged ==
    ASSUME SoundInv, NEW f \in SampleRate, sound_samplefreq_change(f)
    PROVE  SoundInv'
<1>1. SoundShape /\ RoomOK /\ RateOK /\ AgeOK
  BY DEF SoundInv
<1>2. CASE /\ sound_loop' = "blanked" /\ UNCHANGED samplefreq
           /\ BlankQueued
  <2>1. \A i \in Ring, p \in Pos : bigsoundbuffer'[i][p] = Silent
    BY <1>2 DEF BlankQueued, SilentBuffer
  <2>2. bigsoundbuffer' \in [Ring -> [Pos -> UnitRec]]
    BY <1>2, SilentUnit DEF BlankQueued, SilentBuffer
  <2>3. SoundShape'
    BY <1>1, <1>2, <2>2 DEF SoundShape, BlankQueued
  <2>4. RoomOK'
    BY <1>1, <1>2 DEF RoomOK, BlankQueued
  <2>5. RateOK'
    BY <1>1, <2>1, <2>3 DEF RateOK, SoundShape
  <2>6. Queued' = Queued
    BY <1>2 DEF Queued, BlankQueued
  <2>7. AgeOK'
    BY <1>1, <1>2, <2>1, <2>6 DEF AgeOK, BlankQueued
  <2>8. QED
    BY <2>3, <2>4, <2>5, <2>7 DEF SoundInv
<1>3. CASE /\ sound_loop = "blanked" /\ sound_loop' = "run"
           /\ StoreFreq(f)
  <2>1. SoundShape'
    BY <1>1, <1>3 DEF SoundShape, StoreFreq
  <2>2. RoomOK'
    BY <1>1, <1>3 DEF RoomOK, StoreFreq
  <2>3. RateOK'
    BY <1>1, <1>3 DEF RateOK, SoundShape, StoreFreq
  <2>4. Queued' = Queued
    BY <1>3 DEF Queued, StoreFreq
  <2>5. AgeOK'
    BY <1>1, <1>3, <2>4 DEF AgeOK, StoreFreq
  <2>6. QED
    BY <2>1, <2>2, <2>3, <2>5 DEF SoundInv
<1>4. QED
  BY <1>2, <1>3 DEF sound_samplefreq_change

(* A buffer is taken: its samples are made for the rate that is read now, or *)
(* blanked.                                                                  *)
LEMMA BufferIsTaken ==
    ASSUME SoundInv, TakeBuffer
    PROVE  SoundInv'
<1>1. SoundShape /\ RoomOK /\ RateOK /\ AgeOK
  BY DEF SoundInv
<1>2. SoundShape'
  BY <1>1 DEF SoundShape, TakeBuffer
<1>3. RoomOK'
  BY <1>1 DEF RoomOK, TakeBuffer
<1>4. RateOK'
  BY <1>1 DEF RateOK, SoundShape, TakeBuffer
<1>5. Queued' = Queued
  BY DEF Queued, TakeBuffer
<1>6. Queued \in Nat
  BY <1>1, PlaceValue DEF Queued, SoundShape
<1>7. heard >= Queued /\ heard \in Nat
  BY <1>1, SilentUnit DEF AgeOK, SoundShape, TakeBuffer
<1>8. AgeOK'
  BY <1>1, <1>5, <1>6, <1>7, SoundAssumption DEF AgeOK, TakeBuffer
<1>9. QED
  BY <1>2, <1>3, <1>4, <1>8 DEF SoundInv

(* The buffer at the tail is the oldest that is queued. *)
LEMMA TailAges ==
    ASSUME SoundInv, sound_thread \in {"play", "played"}, NEW p \in Pos
    PROVE  /\ bigsoundbuffer[bigsoundbuffertail][p] \in UnitRec
           /\ \/ bigsoundbuffer[bigsoundbuffertail][p] = Silent
              \/ bigsoundbuffer[bigsoundbuffertail][p].age = Queued - 1 - p
           /\ Queued \in Nat /\ BUFFERLENSAMPLES <= Queued
<1>1. /\ SoundShape /\ RoomOK /\ AgeOK
      /\ bigsoundbuffertail \in Ring /\ bigsoundbufferhead \in Ring /\ bigsoundpos \in Pos
  BY DEF SoundInv, SoundShape
<1>2. Offset(bigsoundbuffertail, bigsoundbuffertail) = 0
  BY <1>1, OffsetType
<1>3. PICK o \in 1..3 : o = Offset(bigsoundbuffertail, bigsoundbufferhead)
  BY <1>1, OffsetType DEF RoomOK
<1>4. Filled(o) \in Nat /\ BUFFERLENSAMPLES <= Filled(o)
  <2>1. o \in 0..3 /\ 0 \in 0..3 /\ 0 < o
    OBVIOUS
  <2>2. Filled(0) + BUFFERLENSAMPLES <= Filled(o) /\ Filled(0) = 0 /\ Filled(o) \in Nat
    BY <2>1, FilledValue
  <2>3. QED
    BY <2>2, SoundAssumption
<1>5. Queued = Filled(o) + bigsoundpos
  BY <1>3 DEF Queued, Place
<1>6. Place(bigsoundbuffertail, bigsoundbuffertail, p) = p
  BY <1>2, FilledValue DEF Place, Pos
<1>7. Queued \in Nat /\ BUFFERLENSAMPLES <= Queued /\ p < Queued
  BY <1>1, <1>4, <1>5, SoundAssumption DEF Pos
<1>8. bigsoundbuffer[bigsoundbuffertail][p] \in UnitRec
  BY <1>1 DEF SoundShape
<1>9. QED
  BY <1>1, <1>6, <1>7, <1>8 DEF AgeOK

(* What was just played is not younger than the youngest of the buffer. *)
LEMMA BufferIsPlayed ==
    ASSUME SoundInv, plt_sound_buffer_play
    PROVE  SoundInv'
<1>1. SoundShape /\ RoomOK /\ RateOK /\ AgeOK /\ sound_thread = "play"
  BY DEF SoundInv, plt_sound_buffer_play
<1> DEFINE px == bigsoundbuffer[bigsoundbuffertail]
           ages == {u.age : u \in Range(px)}
<1>2. /\ Queued \in Nat /\ BUFFERLENSAMPLES \in Nat \ {0} /\ BUFFERLENSAMPLES <= Queued
      /\ Oldest \in Nat /\ heard \in 0 .. Oldest /\ heard >= Queued
  <2>1. 0 \in Pos
    BY SoundAssumption DEF Pos
  <2>2. QED
    BY <1>1, <2>1, TailAges, SoundAssumption, SilentUnit DEF SoundShape, AgeOK
<1>3. Queued < Oldest
  <2>1. Queued + 1 < Oldest
    BY <1>1, PlaceValue DEF Queued, SoundShape
  <2>2. QED
    BY <1>2, <2>1
<1>4. ASSUME NEW p \in Pos
      PROVE  px[p].age \in 0 .. Oldest /\ px[p].age + BUFFERLENSAMPLES >= Queued
  <2>1. px[p] \in UnitRec /\ (px[p] = Silent \/ px[p].age = Queued - 1 - p)
    BY <1>1, TailAges
  <2>2. px[p].age \in 0 .. Oldest
    BY <2>1 DEF UnitRec
  <2>3. CASE px[p] = Silent
    BY <1>2, <1>3, <2>2, <2>3, SilentUnit
  <2>4. CASE px[p].age = Queued - 1 - p
    BY <1>2, <2>2, <2>4 DEF Pos
  <2>5. QED
    BY <2>1, <2>3, <2>4
<1>5. DOMAIN px = Pos
  BY <1>1 DEF SoundShape
<1>6. \A a \in ages : a \in 0 .. Oldest /\ a + BUFFERLENSAMPLES >= Queued
  BY <1>4, <1>5 DEF Range
<1>7. Min({heard} \cup ages) \in {heard} \cup ages
  <2>1. {heard} \cup ages \in SUBSET Nat
    BY <1>2, <1>6
  <2>2. {heard} \cup ages # {}
    OBVIOUS
  <2> HIDE DEF ages
  <2>3. QED
    BY <2>1, <2>2, MinIsLeast
<1>8. heard' = heard \/ heard' \in ages
  BY <1>7, ZenonT(40) DEF plt_sound_buffer_play
<1>9. heard' \in 0 .. Oldest /\ heard' + BUFFERLENSAMPLES >= Queued
  <2> HIDE DEF ages
  <2>1. QED
    BY <1>2, <1>6, <1>8
<1>10. SoundShape'
  BY <1>1, <1>9 DEF SoundShape, plt_sound_buffer_play
<1>11. RoomOK'
  BY <1>1, ZenonT(40) DEF RoomOK, plt_sound_buffer_play
<1>12. RateOK'
  BY <1>1 DEF RateOK, plt_sound_buffer_play
<1>13. Queued' = Queued
  BY ZenonT(40) DEF Queued, plt_sound_buffer_play
<1>14. AgeOK'
  BY <1>1, <1>9, <1>13 DEF AgeOK, plt_sound_buffer_play
<1>15. QED
  BY <1>10, <1>11, <1>12, <1>14 DEF SoundInv

(* The tail moves on: what is left is one buffer less. *)
LEMMA TailMovesOn ==
    ASSUME SoundInv, NextTail
    PROVE  SoundInv'
<1> DEFINE t == bigsoundbuffertail
           h == bigsoundbufferhead
<1>1. /\ SoundShape /\ RoomOK /\ RateOK /\ AgeOK /\ sound_thread = "played"
      /\ t \in Ring /\ h \in Ring /\ bigsoundpos \in Pos /\ h # t
      /\ heard \in 0 .. Oldest /\ Oldest \in Nat
  BY SilentUnit DEF SoundInv, SoundShape, RoomOK, NextTail
<1>2. /\ t' = After(t) /\ After(t) \in Ring
      /\ UNCHANGED <<bigsoundbuffer, h, bigsoundpos, samplefreq, dma, sound_loop, play_freq, heard>>
      /\ sound_thread' = "update"
  BY <1>1, AfterValue DEF NextTail
<1>3. PICK o \in 1..3 : o = Offset(t, h)
  BY <1>1, OffsetType
<1>4. Offset(After(t), h) = o - 1
  BY <1>1, <1>3, OffsetAfter
<1>5. /\ Filled(o) \in Nat /\ Filled(o - 1) = Filled(o) - BUFFERLENSAMPLES
      /\ Filled(o - 1) + BUFFERLENSAMPLES <= Filled(3) /\ Filled(o - 1) \in Nat
  <2>1. o \in 0..3 /\ o - 1 \in 0..3 /\ 3 \in 0..3 /\ o - 1 < 3
    OBVIOUS
  <2>2. QED
    BY <2>1, FilledValue
<1>6. Queued = Filled(o) + bigsoundpos /\ Queued' = Filled(o - 1) + bigsoundpos
  BY <1>2, <1>3, <1>4 DEF Queued, Place
<1>7. Queued' = Queued - BUFFERLENSAMPLES /\ Queued \in Nat
  BY <1>1, <1>5, <1>6, SoundAssumption DEF Pos
<1>8. SoundShape'
  BY <1>1, <1>2 DEF SoundShape, NextTail
<1>9. RoomOK'
  BY <1>2, <1>4 DEF RoomOK
<1>10. RateOK'
  BY <1>1, <1>2 DEF RateOK
<1>11. ASSUME NEW i \in Ring, NEW p \in Pos, Place(t', i, p) < Queued'
       PROVE  \/ bigsoundbuffer'[i][p] = Silent
              \/ bigsoundbuffer'[i][p].age = Queued' - 1 - Place(t', i, p)
  <2>1. i # t
    <3>1. SUFFICES ASSUME i = t PROVE FALSE
      OBVIOUS
    <3>2. Place(t', i, p) = Filled(3) + p
      BY <1>1, <1>2, <3>1, OffsetAfter DEF Place
    <3>3. Filled(3) \in Nat
      BY FilledValue
    <3>4. QED
      BY <1>1, <1>5, <1>6, <1>11, <3>2, <3>3, SoundAssumption DEF Pos
  <2>2. PICK n \in 1..3 : n = Offset(t, i)
    BY <1>1, <2>1, OffsetType
  <2>3. Offset(After(t), i) = n - 1
    BY <1>1, <2>1, <2>2, OffsetAfter
  <2>4. Filled(n - 1) = Filled(n) - BUFFERLENSAMPLES /\ Filled(n) \in Nat
    <3>1. n \in 0..3
      OBVIOUS
    <3>2. QED
      BY <3>1, FilledValue
  <2>5. Place(t', i, p) = Place(t, i, p) - BUFFERLENSAMPLES /\ Place(t, i, p) \in Nat
    BY <1>2, <2>2, <2>3, <2>4, SoundAssumption DEF Place, Pos
  <2>6. Place(t, i, p) < Queued
    BY <1>7, <1>11, <2>5, SoundAssumption
  <2>7. bigsoundbuffer[i][p] = Silent \/ bigsoundbuffer[i][p].age = Queued - 1 - Place(t, i, p)
    BY <1>1, <2>6 DEF AgeOK
  <2>8. Queued' - 1 - Place(t', i, p) = Queued - 1 - Place(t, i, p)
    BY <1>7, <2>5, SoundAssumption
  <2>9. QED
    BY <1>2, <2>7, <2>8
<1>12. heard' >= Queued'
  BY <1>1, <1>2, <1>7, SoundAssumption DEF AgeOK
<1>13. AgeOK'
  BY <1>2, <1>11, <1>12 DEF AgeOK
<1>14. QED
  BY <1>8, <1>9, <1>10, <1>13 DEF SoundInv

LEMMA SoundStep ==
    ASSUME "loadstate" \notin SoundUpsets
    PROVE  SoundInv /\ [SoundNext]_soundVars => SoundInv'
<1> SUFFICES ASSUME SoundInv, [SoundNext]_soundVars PROVE SoundInv'
  OBVIOUS
<1>1. CASE \E n \in DmaUnits : sound_irq_update(n)
  BY <1>1, TransferStarts
<1>2. CASE CopyUnit
  BY <1>2, UnitIsCopied
<1>3. CASE \E f \in SampleRate : sound_samplefreq_change(f)
  BY <1>3, RateIsChanged
<1>4. CASE TakeBuffer
  BY <1>4, BufferIsTaken
<1>5. CASE plt_sound_buffer_play
  BY <1>5, BufferIsPlayed
<1>6. CASE NextTail
  BY <1>6, TailMovesOn
<1>7. CASE sound_thread_wakeup \/ sound_restart_or_pause \/ WriteSD0CR \/ Woken
           \/ NothingToPlay \/ DeviceDrains \/ UNCHANGED soundVars
  <2>1. /\ UNCHANGED <<bigsoundbuffer, bigsoundpos, bigsoundbufferhead, bigsoundbuffertail,
                       samplefreq, dma, play_freq, heard>>
        /\ sound_loop' = "blanked" => sound_loop = "blanked"
        /\ sound_thread' = "play" => sound_thread = "play"
        /\ sound_thread' = "played" <=> sound_thread = "played"
    BY <1>7 DEF sound_thread_wakeup, sound_restart_or_pause, WriteSD0CR, Woken, NothingToPlay,
                DeviceDrains, soundVars, SoundMutexFree
  <2>2. SoundShape'
    BY <1>7, ZenonT(40) DEF SoundInv, SoundShape, sound_thread_wakeup, sound_restart_or_pause, WriteSD0CR,
                Woken, NothingToPlay, DeviceDrains, soundVars
  <2>3. RoomOK'
    BY <2>1 DEF SoundInv, RoomOK
  <2>4. QED
    BY <2>1, <2>2, <2>3, RingUntouched
<1>8. QED
  BY <1>1, <1>2, <1>3, <1>4, <1>5, <1>6, <1>7 DEF SoundNext, sound_buffer_update, sound_loadstate

(* For buffers of any length and transfers that cross from one into the     *)
(* next, without a mutex around the ring: what the sound thread hands over  *)
(* is the guest's sound in the order that it made it, nothing twice.        *)
THEOREM SoundIsInOrder ==
    ASSUME "loadstate" \notin SoundUpsets
    PROVE  SoundSpec => []PlayedInOrder
<1>1. SoundInv => PlayedInOrder
  <2> SUFFICES ASSUME SoundInv, sound_thread = "play"
               PROVE  PlayedInOrder
    BY DEF PlayedInOrder
  <2>1. ASSUME NEW p \in Pos, bigsoundbuffer[bigsoundbuffertail][p] # Silent
        PROVE  /\ bigsoundbuffer[bigsoundbuffertail][p].age = Queued - 1 - p
               /\ Queued \in Nat
    BY <2>1, TailAges
  <2>2. heard >= Queued /\ heard \in Int
    BY SilentUnit DEF SoundInv, AgeOK, SoundShape
  <2>3. ASSUME NEW p \in Pos, bigsoundbuffer[bigsoundbuffertail][p] # Silent
        PROVE  bigsoundbuffer[bigsoundbuffertail][p].age < heard
    BY <2>1, <2>2, <2>3 DEF Pos
  <2>4. ASSUME NEW p \in Pos, bigsoundbuffer[bigsoundbuffertail][p] # Silent,
               NEW q \in Pos, bigsoundbuffer[bigsoundbuffertail][q] # Silent, q < p
        PROVE  bigsoundbuffer[bigsoundbuffertail][q].age > bigsoundbuffer[bigsoundbuffertail][p].age
    BY <2>1, <2>4 DEF Pos
  <2>5. QED
    BY <2>3, <2>4 DEF PlayedInOrder
<1>2. QED
  BY <1>1, SoundStarts, SoundStep, PTL DEF SoundSpec

(* Every sample that is handed over sounds at the rate that it was made for, *)
(* or was blanked, however the change of rate falls between the reads of the *)
(* sound thread.                                                             *)
THEOREM SoundKeepsItsRate ==
    ASSUME "loadstate" \notin SoundUpsets
    PROVE  SoundSpec => []PlayedAtItsRate
<1>1. SoundInv => PlayedAtItsRate
  <2> SUFFICES ASSUME SoundInv, sound_thread = "play",
                      NEW u \in Range(bigsoundbuffer[bigsoundbuffertail])
               PROVE  u = Silent \/ u.freq = play_freq
    BY DEF PlayedAtItsRate
  <2>1. DOMAIN bigsoundbuffer[bigsoundbuffertail] = Pos
    BY DEF SoundInv, SoundShape
  <2>2. PICK p \in Pos : u = bigsoundbuffer[bigsoundbuffertail][p]
    BY <2>1 DEF Range
  <2>3. QED
    BY <2>2 DEF SoundInv, RateOK
<1>2. QED
  BY <1>1, SoundStarts, SoundStep, PTL DEF SoundSpec

-----------------------------------------------------------------------------
(* The marks *)

(* The band from the first to the last of some pages holds all of them, and *)
(* no less when there are more of them.                                     *)
LEMMA Ends ==
    ASSUME NEW S \in SUBSET Pages, S # {}
    PROVE  /\ Min(S) \in S /\ \A j \in S : Min(S) <= j
           /\ Max(S) \in S /\ \A j \in S : Max(S) >= j
<1>1. S \subseteq Nat /\ VideoPages \in Nat
  BY VideoAssumption DEF Pages
<1>2. \E i \in S : \A j \in S : i =< j
  BY <1>1, LeastNat
<1>3. \E i \in S : \A j \in S : i >= j
  <2> DEFINE T == {VideoPages - i : i \in S}
  <2>1. \A i \in S : VideoPages - i \in Nat
    BY <1>1 DEF Pages
  <2>2. T \in SUBSET Nat /\ T # {}
    BY <2>1, Zenon
  <2>3. PICK k \in T : \A j \in T : k <= j
    <3> HIDE DEF T
    <3>1. QED
      BY <2>2, LeastNat
  <2>4. PICK i \in S : k = VideoPages - i
    OBVIOUS
  <2>5. ASSUME NEW j \in S PROVE i >= j
    <3>1. k <= VideoPages - j
      BY <2>3
    <3>2. i \in Nat /\ j \in Nat
      BY <1>1
    <3>3. QED
      BY <1>1, <2>4, <3>1, <3>2
  <2>6. QED
    BY <2>5
<1>4. Min(S) \in S /\ \A j \in S : Min(S) =< j
  BY <1>2 DEF Min
<1>5. Max(S) \in S /\ \A j \in S : Max(S) >= j
  BY <1>3 DEF Max
<1>6. QED
  BY <1>4, <1>5

LEMMA BandHolds ==
    ASSUME NEW S \in SUBSET Pages
    PROVE  S \subseteq Band(S) /\ Band(S) \subseteq Pages
<1>1. CASE S = {}
  BY <1>1 DEF Band
<1>2. CASE S # {}
  <2>1. Band(S) = Min(S) .. Max(S)
    BY <1>2 DEF Band
  <2>2. Min(S) \in Pages /\ Max(S) \in Pages /\ \A j \in S : Min(S) <= j /\ j <= Max(S)
    <3>1. /\ Min(S) \in S /\ \A j \in S : Min(S) <= j
          /\ Max(S) \in S /\ \A j \in S : Max(S) >= j
      BY <1>2, Ends
    <3>2. QED
      BY <3>1, VideoAssumption, ZenonT(40) DEF Pages
  <2>3. QED
    BY <2>1, <2>2, VideoAssumption DEF Pages
<1>3. QED
  BY <1>1, <1>2

LEMMA BandGrows ==
    ASSUME NEW S \in SUBSET Pages, NEW T \in SUBSET Pages, S \subseteq T
    PROVE  Band(S) \subseteq Band(T)
<1>1. CASE S = {}
  BY <1>1 DEF Band
<1>2. CASE S # {}
  <2>1. Band(S) = Min(S) .. Max(S) /\ Band(T) = Min(T) .. Max(T)
    BY <1>2 DEF Band
  <2>2. Min(T) <= Min(S) /\ Max(S) <= Max(T)
    <3>1. /\ Min(S) \in S /\ Max(S) \in S
          /\ \A j \in T : Min(T) <= j
          /\ \A j \in T : Max(T) >= j
      BY <1>2, Ends
    <3>2. Min(T) \in T /\ Max(T) \in T
      BY <1>2, Ends
    <3>3. QED
      BY <3>1, <3>2, VideoAssumption, ZenonT(40) DEF Pages
  <2>3. Min(S) \in Nat /\ Max(S) \in Nat /\ Min(T) \in Nat /\ Max(T) \in Nat
    <3>1. Min(S) \in S /\ Max(S) \in S /\ Min(T) \in T /\ Max(T) \in T
      BY <1>2, Ends
    <3>2. S \subseteq Nat /\ T \subseteq Nat
      BY VideoAssumption DEF Pages
    <3>3. QED
      BY <3>1, <3>2, ZenonT(40)
  <2>4. QED
    BY <2>1, <2>2, <2>3
<1>3. QED
  BY <1>1, <1>2

----------------------------------------------------------------------------
Frame == [pending : BOOLEAN, source : {"vram", "card", "blank"}, buffer : {1, 2},
          rows : SUBSET Pages, late : BOOLEAN]

VideoShape ==
    /\ gfx_ctrl \in {"off", "on", "blank"}
    /\ dirty \in [{1, 2} -> SUBSET Pages] /\ dirtybuffer \in {1, 2}
    /\ gfx_dirty \subseteq Pages
    /\ palchange \in BOOLEAN /\ lastframeborder \in BOOLEAN
    /\ bitmap \in [Pages -> Cell] /\ shown \in [Pages -> Cell]
    /\ thr \in Frame
    /\ video_thread \in {"start", "wait", "woken", "draw"}

(* A page that the picture and the host have as src holds it. *)
Both(p, src) == bitmap[p] = src /\ shown[p] = src

(* The thread is converting, and has converted page p of src. *)
Converted(p, src) == bitmap[p] = src \/ video_thread # "draw" \/ p \in todo

(* Screen memory, as long as no border or card came in between and no       *)
(* colour has changed: a page without a mark in the guest's buffer is as    *)
(* it should be, or marked in the buffer that the thread has.               *)
VramOK ==
    ~palchange /\ ~lastframeborder =>
        /\ write_tlb \subseteq dirty[dirtybuffer]
        /\ FrameSet => thr.source = "vram" /\ thr.buffer = 3 - dirtybuffer
        /\ FrameSet /\ thr.late => dirty[dirtybuffer] = Pages
        /\ \A p \in Pages \ dirty[dirtybuffer] :
              IF FrameSet /\ p \in dirty[3 - dirtybuffer] THEN Converted(p, "vram")
              ELSE Both(p, "vram")

(* The card: the same for the pages outside its marks, or in the rows that  *)
(* the thread has.                                                          *)
CardOK ==
    /\ gfx_tlb \subseteq gfx_dirty
    /\ gfx_ctrl # "off" /\ SizeChanged => gfx_dirty = Pages
    /\ gfx_ctrl = "on" =>
        /\ FrameSet /\ (thr.source # "card" \/ thr.late) => gfx_dirty = Pages
        /\ \A p \in Pages \ Band(gfx_dirty) :
              IF FrameSet /\ p \in thr.rows THEN Converted(p, "card")
              ELSE Both(p, "card")

VideoInv == VideoShape /\ VramOK /\ CardOK

LEMMA OutdatedIs ==
    ASSUME NEW pic \in [Pages -> Cell], NEW src \in SUBSET Cell, NEW pages
    PROVE  /\ Outdated(pic, src, pages) \in [Pages -> Cell]
           /\ \A p \in Pages : p \notin pages \/ pic[p] \notin src => Outdated(pic, src, pages)[p] = pic[p]
BY DEF Outdated, Cell

LEMMA LateIs ==
    ASSUME thr \in Frame, NEW src, TooLate(src), UNCHANGED video_thread
    PROVE  /\ thr' \in Frame /\ thr'.pending = thr.pending /\ thr'.source = thr.source
           /\ thr'.buffer = thr.buffer /\ thr'.rows = thr.rows
           /\ thr'.late <=> (thr.late \/ (FrameSet /\ thr.source = src))
           /\ FrameSet' <=> FrameSet
<1>1. (thr.late \/ (FrameSet /\ thr.source = src)) \in BOOLEAN
  BY DEF Frame, FrameSet
<1>2. thr' = [thr EXCEPT !.late = (thr.late \/ (FrameSet /\ thr.source = src))]
  BY DEF TooLate
<1>3. /\ thr' \in Frame /\ thr'.pending = thr.pending /\ thr'.source = thr.source
      /\ thr'.buffer = thr.buffer /\ thr'.rows = thr.rows
      /\ thr'.late = (thr.late \/ (FrameSet /\ thr.source = src))
  <2> DEFINE l == (thr.late \/ (FrameSet /\ thr.source = src))
  <2>1. l \in BOOLEAN /\ thr' = [thr EXCEPT !.late = l]
    BY <1>1, <1>2
  <2> HIDE DEF l
  <2>2. /\ thr' \in Frame /\ thr'.pending = thr.pending /\ thr'.source = thr.source
        /\ thr'.buffer = thr.buffer /\ thr'.rows = thr.rows
        /\ thr'.late = l
    BY <2>1, ZenonT(40) DEF Frame
  <2>3. QED
    BY <2>2 DEF l
<1>4. QED
  BY <1>3, ZenonT(40) DEF FrameSet

LEMMA NoFrameIs ==
    /\ NoFrameSet \in Frame /\ ~NoFrameSet.pending /\ NoFrameSet.source = "vram"
    /\ NoFrameSet.buffer = 1 /\ NoFrameSet.rows = {} /\ ~NoFrameSet.late
BY DEF NoFrameSet, Frame

LEMMA VideoStarts == initvideo => VideoInv
<1> SUFFICES ASSUME initvideo PROVE VideoInv
  OBVIOUS
<1>1. VideoShape
  BY NoFrameIs, ZenonT(40) DEF initvideo, VideoShape, Cell
<1>2. ~FrameSet
  BY NoFrameIs DEF initvideo, FrameSet
<1>3. VramOK
  BY <1>2 DEF initvideo, VramOK
<1>4. CardOK
  BY DEF initvideo, CardOK
<1>5. QED
  BY <1>1, <1>3, <1>4 DEF VideoInv

(* The guest writes to its screen memory. *)
LEMMA WriteVramKeeps ==
    ASSUME VideoInv, NEW q \in Pages, WriteVram(q)
    PROVE  VideoInv'
<1>1. VideoShape /\ VramOK /\ CardOK
  BY DEF VideoInv
<1>2. /\ bitmap' \in [Pages -> Cell] /\ shown' \in [Pages -> Cell]
      /\ \A p \in Pages : p # q => bitmap'[p] = bitmap[p] /\ shown'[p] = shown[p]
      /\ \A p \in Pages : /\ bitmap[p] = "card" => bitmap'[p] = "card"
                          /\ shown[p] = "card" => shown'[p] = "card"
  <2>1. {"vram"} \in SUBSET Cell
    BY DEF Cell
  <2>2. bitmap' = Outdated(bitmap, {"vram"}, {q}) /\ shown' = Outdated(shown, {"vram"}, {q})
    BY DEF WriteVram, Outdate
  <2>3. QED
    BY <1>1, <2>1, <2>2, OutdatedIs, SMTT(30) DEF VideoShape
<1>3. FrameSet' <=> FrameSet
  BY DEF FrameSet, WriteVram
<1>4. dirty' \in [{1, 2} -> SUBSET Pages] /\ dirtybuffer' = dirtybuffer
      /\ dirty'[3 - dirtybuffer] = dirty[3 - dirtybuffer]
      /\ dirty[dirtybuffer] \subseteq dirty'[dirtybuffer]
      /\ (q \in dirty'[dirtybuffer] \/ q \in write_tlb)
  BY <1>1 DEF VideoShape, WriteVram
<1>5. VideoShape'
  BY <1>1, <1>2, <1>4, SMTT(30) DEF VideoShape, WriteVram, guestVideoVars
<1>6. VramOK'
  <2> SUFFICES ASSUME ~palchange, ~lastframeborder
               PROVE  VramOK'
    BY SMTT(30) DEF VramOK, WriteVram
  <2>1. /\ write_tlb \subseteq dirty[dirtybuffer]
        /\ FrameSet => thr.source = "vram" /\ thr.buffer = 3 - dirtybuffer
        /\ FrameSet /\ thr.late => dirty[dirtybuffer] = Pages
        /\ \A p \in Pages \ dirty[dirtybuffer] :
              IF FrameSet /\ p \in dirty[3 - dirtybuffer] THEN Converted(p, "vram")
              ELSE Both(p, "vram")
    BY <1>1, ZenonT(40) DEF VramOK
  <2>2. q \in dirty'[dirtybuffer] /\ write_tlb' \subseteq dirty'[dirtybuffer]
    BY <1>4, <2>1, ZenonT(40) DEF WriteVram
  <2>3. ASSUME NEW p \in Pages \ dirty'[dirtybuffer]
        PROVE  IF FrameSet' /\ p \in dirty'[3 - dirtybuffer] THEN Converted(p, "vram")'
               ELSE Both(p, "vram")'
    <3>1. p # q /\ p \in Pages \ dirty[dirtybuffer]
      BY <1>4, <2>2, SMTT(30)
    <3>2. bitmap'[p] = bitmap[p] /\ shown'[p] = shown[p] /\ todo' = todo /\ video_thread' = video_thread
      BY <1>2, <3>1, ZenonT(40) DEF WriteVram
    <3>3. QED
      BY <1>3, <1>4, <2>1, <3>1, <3>2, ZenonT(40) DEF Converted, Both
  <2>4. FrameSet /\ thr.late => dirty'[dirtybuffer] = Pages
    BY <1>4, <1>5, <2>1, ZenonT(40) DEF VideoShape
  <2>5. thr' = thr
    BY ZenonT(40) DEF WriteVram
  <2>6. QED
    BY <1>3, <1>4, <2>1, <2>2, <2>3, <2>4, <2>5, ZenonT(40) DEF VramOK
<1>7. CardOK'
  <2>1. /\ UNCHANGED <<gfx_tlb, gfx_dirty, gfx_ctrl, mode_size, current_size, thr, todo, video_thread>>
    BY ZenonT(40) DEF WriteVram, guestVideoVars
  <2>2. QED
    BY <1>1, <1>2, <1>3, <2>1, ZenonT(40) DEF CardOK, SizeChanged, Converted, Both
<1>8. QED
  BY <1>5, <1>6, <1>7 DEF VideoInv

(* The guest writes to the card's framestore. *)
LEMMA WriteFramestoreKeeps ==
    ASSUME VideoInv, NEW q \in Pages, WriteFramestore(q)
    PROVE  VideoInv'
<1>1. VideoShape /\ VramOK /\ CardOK
  BY DEF VideoInv
<1>2. /\ bitmap' \in [Pages -> Cell] /\ shown' \in [Pages -> Cell]
      /\ \A p \in Pages : p # q => bitmap'[p] = bitmap[p] /\ shown'[p] = shown[p]
      /\ \A p \in Pages : /\ bitmap[p] = "vram" => bitmap'[p] = "vram"
                          /\ shown[p] = "vram" => shown'[p] = "vram"
  <2>1. PICK src : /\ src \in SUBSET Cell /\ "vram" \notin src
                   /\ bitmap' = Outdated(bitmap, src, {q}) /\ shown' = Outdated(shown, src, {q})
    <3>1. {"card"} \in SUBSET Cell /\ "vram" \notin {"card"}
      BY DEF Cell
    <3>2. QED
      BY <3>1 DEF WriteFramestore, Outdate
  <2>2. /\ bitmap' \in [Pages -> Cell]
        /\ \A p \in Pages : p # q \/ bitmap[p] = "vram" => bitmap'[p] = bitmap[p]
    <3>1. bitmap \in [Pages -> Cell]
      BY <1>1 DEF VideoShape
    <3>2. QED
      BY <2>1, <3>1, OutdatedIs
  <2>3. /\ shown' \in [Pages -> Cell]
        /\ \A p \in Pages : p # q \/ shown[p] = "vram" => shown'[p] = shown[p]
    <3>1. shown \in [Pages -> Cell]
      BY <1>1 DEF VideoShape
    <3>2. QED
      BY <2>1, <3>1, OutdatedIs
  <2>4. QED
    BY <2>2, <2>3
<1>3. FrameSet' <=> FrameSet
  BY ZenonT(40) DEF FrameSet, WriteFramestore
<1>4. gfx_tlb \subseteq gfx_dirty
  BY <1>1 DEF CardOK
<1>5. /\ gfx_dirty' \subseteq Pages /\ gfx_dirty \subseteq gfx_dirty' /\ q \in gfx_dirty'
      /\ gfx_tlb' \subseteq gfx_dirty'
  BY <1>1, <1>4 DEF VideoShape, WriteFramestore
<1>6. Band(gfx_dirty) \subseteq Band(gfx_dirty') /\ q \in Band(gfx_dirty')
  BY <1>1, <1>5, BandGrows, BandHolds, ZenonT(40) DEF VideoShape
<1>7. VideoShape'
  BY <1>1, <1>2, <1>5, ZenonT(40) DEF VideoShape, WriteFramestore, guestVideoVars
<1>8. VramOK'
  <2>1. UNCHANGED <<palchange, lastframeborder, write_tlb, dirty, dirtybuffer, thr, todo, video_thread>>
    BY ZenonT(40) DEF WriteFramestore
  <2>2. QED
    BY <1>1, <1>2, <1>3, <2>1 DEF VramOK, Converted, Both
<1>9. CardOK'
  <2>1. UNCHANGED <<gfx_ctrl, mode_size, current_size, thr, todo, video_thread>>
    BY DEF WriteFramestore, guestVideoVars
  <2>2. gfx_dirty = Pages => gfx_dirty' = Pages
    BY <1>5, ZenonT(40)
  <2>3. ASSUME gfx_ctrl = "on", NEW p \in Pages \ Band(gfx_dirty')
        PROVE  IF FrameSet' /\ p \in thr'.rows THEN Converted(p, "card")'
               ELSE Both(p, "card")'
    <3>1. p # q /\ p \in Pages \ Band(gfx_dirty)
      BY <1>6, ZenonT(40)
    <3>2. bitmap'[p] = bitmap[p] /\ shown'[p] = shown[p]
      BY <1>2, <3>1
    <3>3. QED
      BY <1>1, <1>3, <2>1, <2>3, <3>1, <3>2, ZenonT(40) DEF CardOK, Converted, Both
  <2>4. QED
    BY <1>1, <1>3, <1>5, <2>1, <2>2, <2>3, ZenonT(40) DEF CardOK, SizeChanged
<1>10. QED
  BY <1>7, <1>8, <1>9 DEF VideoInv

(* A change of colour, or of the memory that is displayed. *)
LEMMA VramChangeKeeps ==
    ASSUME VideoInv, WritePalette \/ \E on \in BOOLEAN : WriteVideoDma(on)
    PROVE  VideoInv'
<1>1. VideoShape /\ VramOK /\ CardOK
  BY ZenonT(40) DEF VideoInv
<1>2. /\ bitmap' \in [Pages -> Cell] /\ shown' \in [Pages -> Cell]
      /\ \A p \in Pages : /\ bitmap[p] = "card" => bitmap'[p] = "card"
                          /\ shown[p] = "card" => shown'[p] = "card"
  <2>1. PICK src \in {{"vram"}, {"vram", "border"}} :
            bitmap' = Outdated(bitmap, src, Pages) /\ shown' = Outdated(shown, src, Pages)
    BY DEF WritePalette, WriteVideoDma, Outdate
  <2>2. src \in SUBSET Cell /\ "card" \notin src
    BY ZenonT(40) DEF Cell
  <2>3. QED
    BY <1>1, <2>1, <2>2, OutdatedIs, SMTT(30) DEF VideoShape
<1>3. /\ thr' \in Frame /\ thr'.source = thr.source /\ thr'.buffer = thr.buffer
      /\ thr'.rows = thr.rows
      /\ thr'.late <=> (thr.late \/ (FrameSet /\ thr.source = "vram"))
      /\ FrameSet' <=> FrameSet
  BY <1>1, LateIs DEF VideoShape, WritePalette, WriteVideoDma
<1>4. dirty' \in [{1, 2} -> SUBSET Pages] /\ dirtybuffer' = dirtybuffer
  BY <1>1 DEF VideoShape, WritePalette, WriteVideoDma, resetbuffer
<1>5. \/ palchange'
      \/ /\ dirty'[dirtybuffer] = Pages /\ UNCHANGED <<palchange, lastframeborder, write_tlb>>
         /\ dirty'[3 - dirtybuffer] = dirty[3 - dirtybuffer]
  BY <1>1 DEF VideoShape, WritePalette, WriteVideoDma, resetbuffer
<1>6. VideoShape'
  BY <1>1, <1>2, <1>3, <1>4, ZenonT(40) DEF VideoShape, WritePalette, WriteVideoDma, guestVideoVars
<1>7. VramOK'
  BY <1>1, <1>3, <1>4, <1>5, ZenonT(40) DEF VramOK, VideoShape
<1>8. CardOK'
  <2>1. UNCHANGED <<gfx_tlb, gfx_dirty, gfx_ctrl, mode_size, current_size, todo, video_thread>>
    BY DEF WritePalette, WriteVideoDma, guestVideoVars
  <2>2. QED
    BY <1>1, <1>2, <1>3, <2>1 DEF CardOK, SizeChanged, Converted, Both
<1>9. QED
  BY <1>6, <1>7, <1>8 DEF VideoInv

(* A register of the card, which marks its whole framestore. *)
LEMMA CardChangeKeeps ==
    ASSUME VideoInv, NEW ctrl \in {"off", "on", "blank"}, NEW size, WriteCardRegister(ctrl, size)
    PROVE  VideoInv'
<1>1. VideoShape /\ VramOK /\ CardOK
  BY DEF VideoInv
<1>2. /\ bitmap' \in [Pages -> Cell] /\ shown' \in [Pages -> Cell]
      /\ \A p \in Pages : /\ bitmap[p] = "vram" => bitmap'[p] = "vram"
                          /\ shown[p] = "vram" => shown'[p] = "vram"
  <2>1. PICK src : /\ src \in SUBSET Cell /\ "vram" \notin src
                   /\ bitmap' = Outdated(bitmap, src, Pages) /\ shown' = Outdated(shown, src, Pages)
    <3>1. {"card"} \in SUBSET Cell /\ "vram" \notin {"card"}
      BY DEF Cell
    <3>2. QED
      BY <3>1 DEF WriteCardRegister, Outdate
  <2>2. bitmap \in [Pages -> Cell] /\ shown \in [Pages -> Cell]
    BY <1>1 DEF VideoShape
  <2>3. /\ bitmap' \in [Pages -> Cell]
        /\ \A p \in Pages : bitmap[p] \notin src => bitmap'[p] = bitmap[p]
    BY <2>1, <2>2, OutdatedIs
  <2>4. /\ shown' \in [Pages -> Cell]
        /\ \A p \in Pages : shown[p] \notin src => shown'[p] = shown[p]
    BY <2>1, <2>2, OutdatedIs
  <2>5. QED
    BY <2>1, <2>3, <2>4
<1>3. /\ thr' \in Frame /\ thr'.source = thr.source /\ thr'.buffer = thr.buffer
      /\ thr'.rows = thr.rows
      /\ thr'.late <=> (thr.late \/ (FrameSet /\ thr.source = "card"))
      /\ FrameSet' <=> FrameSet
  BY <1>1, LateIs DEF VideoShape, WriteCardRegister
<1>4. gfx_dirty' = Pages /\ Band(Pages) = Pages
  BY BandHolds, ZenonT(40) DEF WriteCardRegister
<1>5. VideoShape'
  BY <1>1, <1>2, <1>3, <1>4, SMTT(30) DEF VideoShape, WriteCardRegister
<1>6. VramOK'
  <2>1. UNCHANGED <<palchange, lastframeborder, write_tlb, dirty, dirtybuffer, todo, video_thread>>
    BY SMTT(30) DEF WriteCardRegister
  <2>2. QED
    BY <1>1, <1>2, <1>3, <2>1, ZenonT(40) DEF VramOK, Converted, Both
<1>7. CardOK'
  <2>1. gfx_tlb' \subseteq Pages
    BY <1>1, ZenonT(40) DEF CardOK, VideoShape, WriteCardRegister
  <2>2. QED
    BY <1>4, <2>1, ZenonT(40) DEF CardOK
<1>8. QED
  BY <1>5, <1>6, <1>7 DEF VideoInv

(* The display registers change its size, while the card has not got it. *)
LEMMA SizeChangeKeeps ==
    ASSUME VideoInv, NEW size, WriteDisplaySize(size)
    PROVE  VideoInv'
<1>1. VideoShape /\ VramOK /\ CardOK /\ gfx_ctrl = "off"
  BY DEF VideoInv, WriteDisplaySize
<1>2. UNCHANGED <<vidc_dma, gfx_ctrl, dirty, dirtybuffer, write_tlb, gfx_dirty, gfx_tlb,
                  palchange, lastframeborder, current_size, bitmap, thr, video_thread,
                  todo, shown, shown_size>>
  BY DEF WriteDisplaySize
<1>3. FrameSet' <=> FrameSet
  BY <1>2 DEF FrameSet
<1>4. VideoShape'
  BY <1>1, <1>2, ZenonT(40) DEF VideoShape
<1>5. VramOK'
  BY <1>1, <1>2, <1>3, SMTT(30) DEF VramOK, Converted, Both
<1>6. CardOK'
  BY <1>1, <1>2, ZenonT(40) DEF CardOK
<1>7. QED
  BY <1>4, <1>5, <1>6 DEF VideoInv

(* drawscr passes a frame of the card on: what is outside its rows is as it  *)
(* should be, or the size has changed and everything is marked.              *)
LEMMA DrawCardKeeps ==
    ASSUME VideoInv, drawscr, DrawCard
    PROVE  VideoInv'
<1>1. VideoShape /\ VramOK /\ CardOK /\ ~FrameSet /\ gfx_ctrl # "off"
  BY DEF VideoInv, drawscr, DrawCard, VideoMutexFree, FrameSet
<1>2. Band(gfx_dirty) \in SUBSET Pages /\ (gfx_dirty = Pages => Band(gfx_dirty) = Pages) /\ Band({}) = {}
  BY <1>1, BandHolds, ZenonT(40) DEF VideoShape, Band
<1>3. /\ thr' \in Frame /\ thr'.rows = Band(gfx_dirty) /\ ~thr'.late
      /\ gfx_ctrl = "on" => thr'.source = "card"
  <2>1. PICK src \in {"card", "blank"} :
            /\ thr' = [NoFrameSet EXCEPT !.pending = TRUE, !.rows = Band(gfx_dirty), !.source = src]
            /\ gfx_ctrl = "on" => src = "card"
    BY ZenonT(40) DEF DrawCard
  <2> DEFINE rows == Band(gfx_dirty)
  <2>2. rows \in SUBSET Pages
    BY <1>2
  <2> HIDE DEF rows
  <2>3. thr' = [pending |-> TRUE, source |-> src, buffer |-> 1, rows |-> rows, late |-> FALSE]
    BY <2>1, ZenonT(40) DEF NoFrameSet, rows
  <2>4. thr' \in Frame /\ thr'.rows = rows /\ ~thr'.late /\ thr'.source = src
    BY <2>2, <2>3 DEF Frame
  <2>5. QED
    BY <2>1, <2>4 DEF rows
<1>4. /\ video_thread' # "draw" /\ video_thread' \in {"start", "wait", "woken"}
  BY <1>1 DEF DrawCard, vidcwakeupthread, VideoShape, FrameSet
<1>5. dirty' \in [{1, 2} -> SUBSET Pages] /\ bitmap' \in [Pages -> Cell]
  BY <1>1 DEF DrawCard, MarkedNow, Resized, VideoShape, Cell
<1>6. VideoShape'
  BY <1>1, <1>3, <1>4, <1>5 DEF VideoShape, drawscr, DrawCard, guestVideoVars
<1>7. VramOK'
  BY ZenonT(40) DEF DrawCard, VramOK
<1>8. CardOK'
  <2>1. /\ gfx_dirty' = {} /\ gfx_tlb' = {} /\ gfx_ctrl' = gfx_ctrl /\ shown' = shown
        /\ current_size' = mode_size /\ mode_size' = mode_size
    BY ZenonT(40) DEF drawscr, DrawCard, guestVideoVars
  <2>2. ASSUME gfx_ctrl = "on", NEW p \in Pages
        PROVE  IF FrameSet' /\ p \in thr'.rows THEN Converted(p, "card")' ELSE Both(p, "card")'
    <3>1. CASE p \in thr'.rows /\ FrameSet'
      BY <1>4, <3>1, ZenonT(40) DEF Converted
    <3>2. CASE p \notin Band(gfx_dirty)
      <4>1. ~SizeChanged
        BY <1>1, <1>2, <3>2 DEF CardOK
      <4>2. bitmap' = bitmap
        BY <4>1, ZenonT(40) DEF DrawCard, Resized
      <4>3. Both(p, "card")
        BY <1>1, <2>2, <3>2 DEF CardOK
      <4>4. QED
        BY <1>3, <2>1, <3>2, <4>2, <4>3, ZenonT(40) DEF Both
    <3>3. FrameSet'
      BY DEF DrawCard, FrameSet, NoFrameSet
    <3>4. QED
      BY <1>3, <3>1, <3>2, <3>3, ZenonT(40)
  <2>3. QED
    BY <1>2, <1>3, <2>1, <2>2 DEF CardOK, SizeChanged
<1>9. QED
  BY <1>6, <1>7, <1>8 DEF VideoInv

(* drawscr draws the border itself. *)
LEMMA DrawBorderKeeps ==
    ASSUME VideoInv, drawscr, DrawBorder
    PROVE  VideoInv'
<1>1. VideoShape /\ CardOK /\ gfx_ctrl = "off"
  BY DEF VideoInv, DrawBorder
<1>2. MarkedNow \in [{1, 2} -> SUBSET Pages] /\ Resized \in [Pages -> Cell]
  BY <1>1, ZenonT(40) DEF MarkedNow, Resized, VideoShape, Cell
<1>3. dirty' \in [{1, 2} -> SUBSET Pages] /\ bitmap' \in [Pages -> Cell] /\ shown' \in [Pages -> Cell]
  BY <1>1, <1>2 DEF DrawBorder, VideoShape, Cell
<1>4. VideoShape'
  BY <1>1, <1>3, ZenonT(40) DEF VideoShape, drawscr, DrawBorder, guestVideoVars
<1>5. VramOK'
  BY SMTT(30) DEF DrawBorder, VramOK
<1>6. CardOK'
  BY <1>1, ZenonT(40) DEF CardOK, drawscr, DrawBorder, guestVideoVars
<1>7. QED
  BY <1>4, <1>5, <1>6 DEF VideoInv

(* drawscr passes a frame of screen memory on: the guest's marks become the  *)
(* thread's.                                                                 *)
LEMMA DrawVramKeeps ==
    ASSUME VideoInv, drawscr, DrawVram
    PROVE  VideoInv'
<1>1. VideoShape /\ VramOK /\ CardOK /\ ~FrameSet /\ gfx_ctrl = "off"
  BY DEF VideoInv, drawscr, DrawVram, VideoMutexFree, FrameSet
<1>2. dirtybuffer \in {1, 2} /\ dirtybuffer' = 3 - dirtybuffer /\ 3 - dirtybuffer' = dirtybuffer
  BY <1>1, SMTT(30) DEF VideoShape, DrawVram
<1>3. /\ thr' \in Frame /\ thr'.source = "vram" /\ thr'.buffer = dirtybuffer /\ ~thr'.late
  <2>1. thr' = [pending |-> TRUE, source |-> "vram", buffer |-> dirtybuffer, rows |-> {}, late |-> FALSE]
    BY ZenonT(40) DEF DrawVram, NoFrameSet
  <2>2. QED
    BY <1>2, <2>1 DEF Frame
<1>4. video_thread' # "draw" /\ video_thread' \in {"start", "wait", "woken"}
  BY <1>1 DEF DrawVram, vidcwakeupthread, VideoShape, FrameSet
<1>5. /\ dirty' \in [{1, 2} -> SUBSET Pages] /\ bitmap' \in [Pages -> Cell]
      /\ \/ dirty'[dirtybuffer] = Pages
         \/ ~palchange /\ ~lastframeborder /\ ~SizeChanged /\ dirty' = dirty /\ bitmap' = bitmap
  BY <1>1 DEF DrawVram, MarkedNow, Resized, VideoShape, Cell
<1>6. VideoShape'
  <2>1. dirtybuffer' \in {1, 2}
    BY <1>2
  <2>2. palchange' = FALSE /\ lastframeborder' = FALSE /\ UNCHANGED <<gfx_ctrl, gfx_dirty, shown>>
    BY ZenonT(40) DEF drawscr, DrawVram, guestVideoVars
  <2>3. QED
    BY <1>1, <1>3, <1>4, <1>5, <2>1, <2>2, ZenonT(40) DEF VideoShape
<1>7. VramOK'
  <2>1. write_tlb' = {} /\ shown' = shown
    BY ZenonT(40) DEF DrawVram
  <2>2. ASSUME NEW p \in Pages
        PROVE  IF FrameSet' /\ p \in dirty'[dirtybuffer] THEN Converted(p, "vram")'
               ELSE Both(p, "vram")'
    <3>1. FrameSet'
      BY ZenonT(40) DEF DrawVram, FrameSet, NoFrameSet
    <3>2. CASE p \in dirty'[dirtybuffer]
      BY <1>4, <3>1, <3>2, ZenonT(40) DEF Converted
    <3>3. CASE p \notin dirty'[dirtybuffer]
      <4>1. ~palchange /\ ~lastframeborder /\ dirty' = dirty /\ bitmap' = bitmap
        BY <1>5, <3>3, ZenonT(40)
      <4>2. Both(p, "vram")
        BY <1>1, <3>3, <4>1, ZenonT(40) DEF VramOK
      <4>3. QED
        BY <2>1, <3>3, <4>1, <4>2, ZenonT(40) DEF Both
    <3>4. QED
      BY <3>2, <3>3
  <2>3. QED
    BY <1>2, <1>3, <2>1, <2>2 DEF VramOK
<1>8. CardOK'
  BY <1>1 DEF CardOK, drawscr, DrawVram, guestVideoVars
<1>9. QED
  BY <1>6, <1>7, <1>8 DEF VideoInv

LEMMA TakeFrameKeeps ==
    ASSUME VideoInv, TakeFrame
    PROVE  VideoInv'
<1>1. VideoShape /\ VramOK /\ CardOK /\ FrameSet /\ FrameSet'
  BY DEF VideoInv, TakeFrame, FrameSet
<1>2. /\ thr' \in Frame /\ thr'.source = thr.source /\ thr'.buffer = thr.buffer
      /\ thr'.rows = thr.rows /\ thr'.late = thr.late
  BY <1>1, ZenonT(40) DEF TakeFrame, VideoShape, Frame
<1>3. UNCHANGED <<gfx_ctrl, mode_size, dirty, dirtybuffer, write_tlb, gfx_dirty, gfx_tlb,
                  palchange, lastframeborder, current_size, bitmap, shown>>
  BY DEF TakeFrame, guestVideoVars
<1>4. VideoShape'
  BY <1>1, <1>2, <1>3, ZenonT(40) DEF VideoShape, TakeFrame
<1>5. VramOK'
  <2> SUFFICES ASSUME ~palchange, ~lastframeborder
               PROVE  VramOK'
    BY <1>3, ZenonT(40) DEF VramOK
  <2>1. thr.source = "vram" /\ thr.buffer = 3 - dirtybuffer
    BY <1>1 DEF VramOK
  <2>2. todo' = dirty[3 - dirtybuffer]
    BY <2>1, ZenonT(40) DEF TakeFrame
  <2>3. QED
    BY <1>1, <1>2, <1>3, <2>2, ZenonT(40) DEF VramOK, Converted, Both
<1>6. CardOK'
  <2>1. ASSUME gfx_ctrl = "on", NEW p \in Pages \ Band(gfx_dirty)
        PROVE  IF p \in thr.rows THEN Converted(p, "card")' ELSE Both(p, "card")'
    <3>1. thr.source = "card"
      <4>1. gfx_dirty # Pages
        BY <1>1, <2>1, BandHolds DEF VideoShape
      <4>2. QED
        BY <1>1, <2>1, <4>1, ZenonT(40) DEF CardOK
    <3>2. todo' = thr.rows
      BY <3>1 DEF TakeFrame
    <3>3. QED
      BY <1>1, <1>3, <2>1, <3>2, ZenonT(40) DEF CardOK, Converted, Both
  <2>2. /\ gfx_tlb' \subseteq gfx_dirty'
        /\ gfx_ctrl' # "off" /\ SizeChanged' => gfx_dirty' = Pages
    BY <1>1, <1>3, ZenonT(40) DEF CardOK, SizeChanged
  <2>3. gfx_ctrl' = "on" /\ FrameSet' /\ (thr'.source # "card" \/ thr'.late)
          => gfx_dirty' = Pages
    BY <1>1, <1>2, <1>3, ZenonT(40) DEF CardOK
  <2>4. gfx_ctrl' = "on" =>
          \A p \in Pages \ Band(gfx_dirty') :
             IF p \in thr'.rows THEN Converted(p, "card")' ELSE Both(p, "card")'
    BY <1>2, <1>3, <2>1, ZenonT(40)
  <2>5. QED
    BY <1>1, <2>2, <2>3, <2>4, ZenonT(40) DEF CardOK
<1>7. QED
  BY <1>4, <1>5, <1>6 DEF VideoInv

LEMMA ConvertKeeps ==
    ASSUME VideoInv, NEW q \in todo, ConvertPage(q)
    PROVE  VideoInv'
<1>1. VideoShape /\ VramOK /\ CardOK /\ FrameSet /\ FrameSet' /\ video_thread = "draw"
  BY DEF VideoInv, ConvertPage, FrameSet
<1>2. UNCHANGED <<gfx_ctrl, mode_size, dirty, dirtybuffer, write_tlb, gfx_dirty, gfx_tlb,
                  palchange, lastframeborder, current_size, thr, video_thread, shown>>
      /\ todo' = todo \ {q}
  BY DEF ConvertPage, guestVideoVars
<1>3. /\ bitmap' \in [Pages -> Cell]
      /\ \A p \in Pages : bitmap'[p] = IF p = q THEN (IF thr.late THEN "old" ELSE thr.source)
                                        ELSE bitmap[p]
  <2>1. (IF thr.late THEN "old" ELSE thr.source) \in Cell
    BY <1>1, ZenonT(40) DEF VideoShape, Frame, Cell
  <2>2. QED
    BY <1>1, <2>1, ZenonT(40) DEF ConvertPage, VideoShape
<1>4. VideoShape'
  BY <1>1, <1>2, <1>3, ZenonT(40) DEF VideoShape
<1>5. VramOK'
  <2> SUFFICES ASSUME ~palchange, ~lastframeborder
               PROVE  VramOK'
    BY <1>2, ZenonT(40) DEF VramOK
  <2>1. thr.source = "vram" /\ (thr.late => dirty[dirtybuffer] = Pages)
    BY <1>1, ZenonT(40) DEF VramOK
  <2>2. ASSUME NEW p \in Pages \ dirty[dirtybuffer]
        PROVE  IF p \in dirty[3 - dirtybuffer] THEN Converted(p, "vram")' ELSE Both(p, "vram")'
    <3>1. ~thr.late
      BY <2>1, ZenonT(40)
    <3>2. bitmap'[p] = "vram" \/ (bitmap'[p] = bitmap[p] /\ p # q)
      BY <1>3, <2>1, <3>1, ZenonT(40)
    <3>3. IF p \in dirty[3 - dirtybuffer] THEN Converted(p, "vram") ELSE Both(p, "vram")
      BY <1>1, ZenonT(40) DEF VramOK
    <3>4. QED
      BY <1>1, <1>2, <3>2, <3>3 DEF Converted, Both
  <2>3. QED
    BY <1>1, <1>2, <2>2, ZenonT(40) DEF VramOK
<1>6. CardOK'
  <2>1. ASSUME gfx_ctrl = "on", NEW p \in Pages \ Band(gfx_dirty)
        PROVE  IF p \in thr.rows THEN Converted(p, "card")' ELSE Both(p, "card")'
    <3>1. thr.source = "card" /\ ~thr.late
      <4>1. gfx_dirty # Pages
        BY <1>1, <2>1, BandHolds DEF VideoShape
      <4>2. QED
        BY <1>1, <2>1, <4>1, ZenonT(40) DEF CardOK
    <3>2. bitmap'[p] = "card" \/ (bitmap'[p] = bitmap[p] /\ p # q)
      BY <1>3, <3>1, ZenonT(40)
    <3>3. IF p \in thr.rows THEN Converted(p, "card") ELSE Both(p, "card")
      BY <1>1, <2>1 DEF CardOK
    <3>4. QED
      BY <1>1, <1>2, <3>2, <3>3, ZenonT(40) DEF Converted, Both
  <2>2. QED
    BY <1>1, <1>2, <2>1, ZenonT(40) DEF CardOK, SizeChanged
<1>7. QED
  BY <1>4, <1>5, <1>6, ZenonT(40) DEF VideoInv

(* The thread is done: what it converted has reached the host. *)
LEMMA FrameDoneKeeps ==
    ASSUME VideoInv, FrameDone
    PROVE  VideoInv'
<1> DEFINE band == CASE thr.source = "vram" -> Band(dirty[thr.buffer])
                     [] thr.source = "card" -> thr.rows
                     [] OTHER -> Pages
           rows == IF shown_size = current_size THEN band ELSE Pages
<1>1. /\ VideoShape /\ VramOK /\ CardOK /\ FrameSet /\ video_thread = "draw" /\ todo = {}
      /\ UNCHANGED <<gfx_ctrl, mode_size, dirtybuffer, write_tlb, gfx_tlb, palchange,
                     lastframeborder, current_size, bitmap, todo>>
      /\ video_thread' = "wait" /\ thr' = NoFrameSet
  BY ZenonT(40) DEF VideoInv, FrameDone, FrameSet, guestVideoVars
<1>2. /\ dirtybuffer \in {1, 2} /\ dirty \in [{1, 2} -> SUBSET Pages] /\ thr \in Frame
      /\ thr.source \in {"vram", "card", "blank"} /\ thr.buffer \in {1, 2} /\ thr.rows \in SUBSET Pages
      /\ gfx_dirty \in SUBSET Pages /\ bitmap \in [Pages -> Cell] /\ shown \in [Pages -> Cell]
  BY <1>1 DEF VideoShape, Frame
<1>3. band \subseteq Pages
  BY <1>2, BandHolds, ZenonT(40)
<1>4. ~FrameSet'
  BY <1>1, NoFrameIs DEF FrameSet
<1>5. IF band = {} THEN shown' = shown
      ELSE shown' = [p \in Pages |-> IF p \in rows THEN bitmap[p] ELSE shown[p]]
  BY DEF FrameDone
<1>6. band \subseteq rows
  BY <1>3, ZenonT(40)
<1> HIDE DEF band, rows
<1>7. /\ shown' \in [Pages -> Cell]
      /\ \A p \in Pages : /\ shown'[p] \in {bitmap[p], shown[p]}
                          /\ p \in band => shown'[p] = bitmap[p]
  BY <1>2, <1>5, <1>6
<1>8. /\ dirty' \in [{1, 2} -> SUBSET Pages] /\ gfx_dirty' \in SUBSET Pages
      /\ gfx_dirty \subseteq gfx_dirty'
      /\ thr.source = "card" => gfx_dirty' = gfx_dirty
      /\ thr.source = "vram" /\ thr.buffer = 3 - dirtybuffer => dirty'[dirtybuffer] = dirty[dirtybuffer]
  BY <1>2, SMTT(30) DEF FrameDone
<1>9. VideoShape'
  BY <1>1, <1>7, <1>8, NoFrameIs, ZenonT(40) DEF VideoShape
<1>10. VramOK'
  <2> SUFFICES ASSUME ~palchange, ~lastframeborder
               PROVE  VramOK'
    BY <1>1, ZenonT(40) DEF VramOK
  <2>1. thr.source = "vram" /\ thr.buffer = 3 - dirtybuffer /\ write_tlb \subseteq dirty[dirtybuffer]
    BY <1>1, ZenonT(40) DEF VramOK
  <2>2. dirty'[dirtybuffer] = dirty[dirtybuffer]
    BY <1>8, <2>1
  <2>3. dirty[3 - dirtybuffer] \subseteq band
    BY <1>2, <2>1, BandHolds, ZenonT(40) DEF band
  <2>4. ASSUME NEW p \in Pages \ dirty[dirtybuffer] PROVE Both(p, "vram")'
    <3>1. IF p \in dirty[3 - dirtybuffer] THEN Converted(p, "vram") ELSE Both(p, "vram")
      BY <1>1, SMTT(30) DEF VramOK
    <3>2. QED
      BY <1>1, <1>7, <2>3, <3>1, ZenonT(40) DEF Converted, Both
  <2>5. QED
    BY <1>1, <1>4, <2>1, <2>2, <2>4, SMTT(30) DEF VramOK
<1>11. CardOK'
  <2>1. ASSUME gfx_ctrl = "on", NEW p \in Pages \ Band(gfx_dirty')
        PROVE  Both(p, "card")'
    <3>1. gfx_dirty' # Pages /\ p \in Pages \ Band(gfx_dirty)
      BY <1>2, <1>8, <2>1, BandHolds, BandGrows, ZenonT(40)
    <3>2. gfx_dirty # Pages
      BY <1>8, <3>1, ZenonT(40)
    <3>3. thr.source = "card"
      BY <1>1, <2>1, <3>2, ZenonT(40) DEF CardOK
    <3>4. band = thr.rows
      BY <3>3, ZenonT(40) DEF band
    <3>5. IF p \in thr.rows THEN Converted(p, "card") ELSE Both(p, "card")
      BY <1>1, <2>1, <3>1 DEF CardOK
    <3>6. QED
      BY <1>1, <1>7, <3>4, <3>5, ZenonT(40) DEF Converted, Both
  <2>2. gfx_dirty = Pages => gfx_dirty' = Pages
    BY <1>8
  <2>3. QED
    BY <1>1, <1>4, <1>8, <2>1, <2>2, ZenonT(40) DEF CardOK, SizeChanged
<1>12. QED
  BY <1>9, <1>10, <1>11 DEF VideoInv

LEMMA VideoStep == VideoInv /\ [VideoNext]_videoVars => VideoInv'
<1> SUFFICES ASSUME VideoInv, [VideoNext]_videoVars PROVE VideoInv'
  OBVIOUS
<1>1. CASE \E p \in Pages : WriteVram(p) \/ WriteFramestore(p)
  BY <1>1, WriteVramKeeps, WriteFramestoreKeeps
<1>2. CASE WritePalette \/ \E on \in BOOLEAN : WriteVideoDma(on)
  BY <1>2, VramChangeKeeps
<1>3. CASE \E ctrl \in {"off", "on", "blank"}, size \in ScreenSize : WriteCardRegister(ctrl, size)
  BY <1>3, CardChangeKeeps
<1>4. CASE \E size \in ScreenSize : WriteDisplaySize(size)
  BY <1>4, SizeChangeKeeps
<1>5. CASE drawscr
  <2>1. DrawCard \/ DrawBorder \/ DrawVram
    BY <1>5 DEF drawscr
  <2>2. QED
    BY <1>5, <2>1, DrawCardKeeps, DrawBorderKeeps, DrawVramKeeps
<1>6. CASE TakeFrame
  BY <1>6, TakeFrameKeeps
<1>7. CASE \E p \in todo : ConvertPage(p)
  BY <1>7, ConvertKeeps
<1>8. CASE FrameDone
  BY <1>8, FrameDoneKeeps
<1>9. CASE ThreadStarts \/ UNCHANGED videoVars
  <2>1. /\ UNCHANGED <<gfx_ctrl, mode_size, dirty, dirtybuffer, write_tlb, gfx_dirty, gfx_tlb, palchange,
                       lastframeborder, current_size, bitmap, thr, todo, shown>>
        /\ video_thread' = "draw" <=> video_thread = "draw"
        /\ video_thread' \in {video_thread, "wait"}
    BY <1>9 DEF ThreadStarts, videoVars, guestVideoVars
  <2>2. FrameSet' <=> FrameSet
    BY <2>1, ZenonT(40) DEF FrameSet
  <2>3. VideoShape'
    BY <2>1, ZenonT(40) DEF VideoInv, VideoShape
  <2>4. VramOK'
    BY <2>1, <2>2, SMTT(30) DEF VideoInv, VramOK, Converted, Both
  <2>5. CardOK'
    BY <2>1, <2>2, ZenonT(40) DEF VideoInv, CardOK, SizeChanged, Converted, Both
  <2>6. QED
    BY <2>3, <2>4, <2>5, ZenonT(40) DEF VideoInv
<1>10. QED
  BY <1>1, <1>2, <1>3, <1>4, <1>5, <1>6, <1>7, <1>8, <1>9 DEF VideoNext, Guest, vidcthread

(* For a display of any number of pages: between frames a page without a    *)
(* mark is shown as its source has it, so drawscr and the video thread may  *)
(* go by the marks.                                                         *)
THEOREM MarksAreEnough == VideoSpec => []UnmarkedIsShown
<1>1. VideoInv => UnmarkedIsShown
  <2> SUFFICES ASSUME VideoInv, ~FrameSet
               PROVE  /\ ~palchange /\ ~lastframeborder =>
                             \A p \in Pages \ dirty[dirtybuffer] : shown[p] = "vram"
                      /\ gfx_ctrl = "on" => \A p \in Pages \ Band(gfx_dirty) : shown[p] = "card"
    BY DEF UnmarkedIsShown, Displayed, VideoInv, VideoShape
  <2>1. QED
    BY ZenonT(40) DEF VideoInv, VramOK, CardOK, Both
<1>2. QED
  BY <1>1, VideoStarts, VideoStep, PTL, ZenonT(40) DEF VideoSpec
=============================================================================
