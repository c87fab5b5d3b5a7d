------------------------------ MODULE Playback ------------------------------
(***************************************************************************)
(* The sound path: the CD-ROM controller decodes sectors of audio into     *)
(* frames (process_cdda_sector, decode_xa_sector), catch_up_devices (api.rs)*)
(* hands them to the sound processor, which mixes one into each sample, and*)
(* the frontend drains the samples.  Time passes a cycle at a time, as in  *)
(* the reference loop; KeepsContract says that the batches of the lazy     *)
(* scheduler come to the same.                                             *)
(*                                                                         *)
(* A frame is named by the command that started its run, its sector and    *)
(* its place there; a muted one is Muted.  `route' holds what decides      *)
(* whether a sector is heard: Setmode bits 0 and 6, the filter's channel   *)
(* and Mute.  `use' is a bound: the part of the sound path the guest works *)
(* with in one behaviour; the frontend drains in those of "transfer".      *)
(* `heard' counts the samples the frontend has taken.                      *)
(***************************************************************************)
EXTENDS CdDrive, Spu

CONSTANTS
  FramesPerSector,  \* of CD-DA: 588
  XaFrames,         \* of an XA sector, resampled (2352 of stereo at 37.8 kHz)
  XaChannel,        \* the channel of each XA sector, as a function
  CdAudioCap,       \* CD_AUDIO_CAP (16 384)
  MaxExtra,         \* the most wait states an instruction is charged
  Setups,           \* how it has set the two devices up before
  SoundCommands,    \* the drive commands the guest issues
  SpuWrites,        \* the sound registers it writes and what to, in each use
  DmaWords,         \* the DMA words it sends, as pairs of halfwords
  MaxWrites,        \* bound: register writes in a behaviour
  Muted             \* a frame of (0, 0) that stands for a muted one

Uses   == {"cd", "voices", "transfer"}
Routes == [cdda : BOOLEAN, filter : BOOLEAN, channel : {1, 2}, muted : BOOLEAN]

\* What the two devices may have been told before: nothing is on its way yet.
Setup ==
  [use : Uses, seek : Lba, mode : Modes, route : Routes,
   spu : {s \in SpuState({}) : /\ s.samples = <<>> /\ s.produced = 0 /\ s.dropped = 0
                               /\ \A v \in Voices : Sounding(s.voices[v])}]

\* The commands of the drive, with those that decide what is heard.
SoundCommand ==
  {cmd \in Command : cmd.name # "setmode"}
    \cup [name : {"setmode"}, mode : Modes, cdda : BOOLEAN, filter : BOOLEAN]
    \cup [name : {"mute", "demute"}] \cup [name : {"setfilter"}, channel : {1, 2}]

\* The wait states of one instruction are fewer than a sector takes to read, and
\* a sector of CD-DA fits either queue.
ASSUME PlaybackAssumption ==
  /\ SinglePeriod = FramesPerSector * CyclesPerSample
  /\ FramesPerSector \in Nat \ {0} /\ XaFrames \in Nat
  /\ FramesPerSector <= CdAudioCap /\ FramesPerSector <= CdQueueMax
  /\ XaChannel \in [XaSectors -> {1, 2}]
  /\ CdAudioCap \in Nat /\ MaxWrites \in Nat
  /\ MaxExtra \in Nat /\ MaxExtra < DoublePeriod /\ MaxExtra < SinglePeriod
  /\ Setups \in SUBSET Setup
  /\ SoundCommands \in SUBSET SoundCommand
  /\ SpuWrites \in [Uses -> SUBSET RegisterWrite]
  /\ DmaWords \in SUBSET (Flags \X Flags)

VARIABLES
  cdrom,    \* the CD-ROM controller
  route,    \* what it lets be heard
  cdAudio,  \* its queue of decoded frames, cd_audio
  spu,      \* the sound processor
  irqStat,  \* the CdRom and Spu bits of I_STAT
  heard,    \* samples drained, modulo Count
  writes,   \* register writes so far
  use       \* "cd", "voices" or "transfer"

soundVars == <<cdrom, route, cdAudio, spu, irqStat, heard, writes, use>>

Frames == [run : 1..MaxCommands, lba : Lba, i : 1..(FramesPerSector + XaFrames)] \cup {Muted}

\* The guest has set the two devices up: interrupts, Setloc, Setmode, filter
\* and Mute of the drive, registers and memory of the sound processor.
SoundInit ==
  /\ \E up \in Setups :
       /\ cdrom = [NewDrive EXCEPT !.disc = TRUE, !.ie = {1, 2, 4},
                                  !.seekTarget = up.seek, !.mode = up.mode]
       /\ route = up.route
       /\ spu = up.spu
       /\ use = up.use
  /\ cdAudio = <<>>
  /\ irqStat = {}
  /\ heard = 0
  /\ writes = 0

(***************************************************************************)
(* One cycle of the drive with the frames it decodes: sound is the drive,  *)
(* the route, the queue of frames, the sound processor and the I_STAT bits.*)
(***************************************************************************)
FramesOf(cd, n) == [i \in 1..n |-> [run |-> cd.run, lba |-> cd.lba, i |-> i]]

\* The frames of the sector that falls due: those of an XA sector that is muted
\* or of another channel are dropped, those of CD-DA are silenced or, without
\* the CDDA mode bit, not emitted.
Decoded(cd, r) ==
  CASE ~SectorDue(cd) \/ ~cd.disc -> <<>>
    [] SectorDue(cd) /\ cd.disc /\ cd.reading ->
         IF /\ cd.lba \in XaSectors
            /\ r.filter => XaChannel[cd.lba] = r.channel
            /\ ~r.muted
         THEN FramesOf(cd, XaFrames) ELSE <<>>
    [] SectorDue(cd) /\ cd.disc /\ ~cd.reading ->
         IF ~cd.playing \/ PlaybackEnds(cd) \/ ~r.cdda THEN <<>>
         ELSE IF r.muted THEN [i \in 1..FramesPerSector |-> Muted]
         ELSE FramesOf(cd, FramesPerSector)

CdCycle(m) ==
  [m EXCEPT !.cd = TickOne(m.cd),
            !.audio = Newest(@ \o Decoded(m.cd, m.route), CdAudioCap),
            !.stat = IF TickRaises(m.cd) THEN @ \cup {"CdRom"} ELSE @]

CdTick(m, n) == Repeat(CdCycle, m, n)

Bridge(m) == [m EXCEPT !.audio = <<>>, !.spu = PushCdAudio(@, m.audio)]

SoundTick(m, n) ==
  [m EXCEPT !.spu = SpuTick(@, n),
            !.stat = IF SpuRaises(m.spu, n) THEN @ \cup {"Spu"} ELSE @]

\* One cycle of the reference loop, and of a catch-up while the drive plays.
OneCycle(m) == SoundTick(Bridge(CdCycle(m)), 1)

Cycles(m, n) == Repeat(OneCycle, m, n)

\* Mutant: the batch is taken whether or not the drive produces audio.
CatchUp_AlwaysBatches(m, n) == SoundTick(Bridge(CdTick(m, n)), n)

\* catch_up_devices over n cycles.
CatchUp(m, n) ==
  IF CdAudioActive(m.cd) THEN Cycles(m, n) ELSE SoundTick(Bridge(CdTick(m, n)), n)

Sound == [cd |-> cdrom, route |-> route, audio |-> cdAudio, spu |-> spu, stat |-> irqStat]

\* recompute_deadline, of these two devices.
SoundDeadline ==
  LET waits == {CyclesToNextEvent(cdrom), SpuNextEvent(spu)} \ {NoEvent}
  IN CHOOSE w \in waits : \A x \in waits : w <= x

(***************************************************************************)
(* Time, the guest and the frontend.                                       *)
(***************************************************************************)
Cycle ==
  LET m == OneCycle(Sound)
  IN /\ cdrom.flag # NoResp => Len(cdrom.pending) < MaxPending
     /\ cdrom' = m.cd /\ cdAudio' = m.audio /\ spu' = m.spu /\ irqStat' = m.stat
     /\ UNCHANGED <<route, heard, writes, use>>

\* run_command: Setmode and Init write the whole mode byte.
RouteAfter(cmd) ==
  CASE cmd.name = "setmode"   -> [route EXCEPT !.cdda = cmd.cdda, !.filter = cmd.filter]
    [] cmd.name = "init"      -> [route EXCEPT !.cdda = FALSE, !.filter = FALSE]
    [] cmd.name = "mute"      -> [route EXCEPT !.muted = TRUE]
    [] cmd.name = "demute"    -> [route EXCEPT !.muted = FALSE]
    [] cmd.name = "setfilter" -> [route EXCEPT !.channel = cmd.channel]
    [] OTHER -> route

SendCommand(cmd) ==
  /\ use = "cd" /\ cdrom.count < MaxCommands
  /\ cdrom' = RunCommand(cdrom, cmd)
  /\ route' = RouteAfter(cmd)
  /\ UNCHANGED <<cdAudio, spu, irqStat, heard, writes, use>>

\* The handler acknowledges I_STAT (Irq::write_stat) and the drive's interrupt.
HandleInterrupt ==
  /\ cdrom' = [cdrom EXCEPT !.flag = NoResp]
  /\ irqStat' = {}
  /\ UNCHANGED <<route, cdAudio, spu, heard, writes, use>>

SpuAccess(s) ==
  /\ use # "cd" /\ writes < MaxWrites
  /\ spu' = s
  /\ writes' = writes + 1
  /\ UNCHANGED <<cdrom, route, cdAudio, irqStat, heard, use>>

WriteRegister(w) == SpuAccess(SpuWrite(spu, w))

\* DMA channel 4 (dma.rs, run_spu), either way.
DmaWrite(w) == use = "transfer" /\ SpuAccess(DmaWriteWord(spu, w[1], w[2]))
DmaRead == use = "transfer" /\ SpuAccess(DmaReadWord(spu))

\* The frontend takes what is queued, once per frame.
Drain ==
  /\ use = "transfer" /\ spu.samples # <<>>
  /\ heard' = (heard + Len(spu.samples) \div 2) % Count
  /\ spu' = Drained(spu)
  /\ UNCHANGED <<cdrom, route, cdAudio, irqStat, writes, use>>

SoundNext ==
  \/ Cycle
  \/ \E cmd \in SoundCommands : SendCommand(cmd)
  \/ HandleInterrupt
  \/ \E w \in SpuWrites[use] : WriteRegister(w)
  \/ \E w \in DmaWords : DmaWrite(w)
  \/ DmaRead
  \/ Drain

SoundSpec == SoundInit /\ [][SoundNext]_soundVars

\* Time passes: Cycle again and again takes the sample clock round.
TimePasses == []<>(spu.timer = 0) /\ []<>(spu.timer # 0)

FairSound == SoundSpec /\ TimePasses

----------------------------------------------------------------------------
\* Types; a voice sounds exactly while its envelope is in a phase (tick_adsr
\* and decode_block keep `on' and `phase' apart from each other), and no frame
\* is left with the drive between cycles.
SoundTypeOK ==
  /\ cdrom \in DriveState(MaxCommands)
  /\ route \in Routes
  /\ cdAudio = <<>>
  /\ spu \in SpuState(Frames) /\ Len(spu.samples) <= MaxQueued
  /\ Len(spu.cdQueue) <= CdQueueMax
  /\ \A v \in Voices : Sounding(spu.voices[v])
  /\ irqStat \in SUBSET {"CdRom", "Spu"}
  /\ heard \in 0..(Count - 1) /\ use \in Uses

\* catch_up_devices: "batching the CD-ROM and SPU ticks (with the bridge
\* between them) is exactly equivalent" when no audio is being produced, for
\* every window up to the next event and the wait states of the instruction
\* that reaches it; and nothing is raised before that event.
KeepsContract ==
  \A n \in 1..(SoundDeadline + MaxExtra) :
    /\ CatchUp(Sound, n) = Cycles(Sound, n)
    /\ n < SoundDeadline => Cycles(Sound, n).stat = irqStat

\* What waits for the frontend is the newest samples, consecutive and with
\* their two sides in turn, and every sample made was heard, dropped or waits
\* (push_sample, drain_samples).
StreamIsWhole ==
  LET queued == Len(spu.samples) \div 2
  IN /\ (heard + spu.dropped + queued) % Count = spu.produced
     /\ Len(spu.samples) = 2 * queued
     /\ \A k \in 1..queued :
          /\ spu.samples[2 * k - 1] = <<(heard + spu.dropped + k - 1) % Count, "left">>
          /\ spu.samples[2 * k]     = <<(heard + spu.dropped + k - 1) % Count, "right">>

\* The frame after another of the same run of CD-DA.
Successor(f) ==
  IF f.i < FramesPerSector THEN [f EXCEPT !.i = @ + 1]
                           ELSE [f EXCEPT !.lba = @ + 1, !.i = 1]

\* Guests that leave the head and the CDDA mode alone: a seek moves the head of a
\* drive that plays on, and without the mode bit its sectors are passed over.
StaysOnTrack ==
  \A cmd \in SoundCommands : cmd.name # "seek" /\ (cmd.name = "setmode" => cmd.cdda)

\* The drive is playing the run the frame is from.
StillPlaying(f) ==
  /\ cdrom.playing /\ f.run = cdrom.run /\ route.cdda
  /\ f.i = FramesPerSector /\ cdrom.lba = f.lba + 1 => ~PlaybackEnds(cdrom)

\* CD-DA is gapless ("588 frames per sector at 1x = exactly 44100 frames/s"):
\* the sample after one that mixed a frame mixes the next one of the run, or a
\* muted one in its place: never an empty queue, and no frame lost or played
\* twice, across sectors, whatever the phase of the sample clock when the drive
\* was started and whatever was left in the queue, for a guest that StaysOnTrack.
PlaybackIsGapless ==
  [][\A f \in {spu.cdSample} \ {Silence, Muted} :
       spu'.produced # spu.produced /\ StillPlaying(f) => spu'.cdSample \in {Successor(f), Muted}]_soundVars

\* A voice that was keyed off, or whose sample ended without a loop, falls
\* silent, at any envelope, unless it is keyed on again.
ReleasedFallsSilent ==
  \A v \in Voices : (spu.voices[v].phase = "release") ~> (spu.voices[v].phase # "release")
=============================================================================
