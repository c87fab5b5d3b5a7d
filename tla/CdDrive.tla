------------------------------ MODULE CdDrive ------------------------------
(***************************************************************************)
(* The CD-ROM controller (cdrom.rs, struct Cdrom) as a value and the       *)
(* functions on it: commands, the queue of responses, the sector cadence   *)
(* and the one latched interrupt.  The bytes of parameters, responses and  *)
(* sectors are left out: a command carries its argument, a response the    *)
(* interrupt it raises, and a sector is named by its block address.        *)
(*                                                                         *)
(* Three fields are history: a response names the command it is `of', the  *)
(* `sector' it announces and whether that command `halts' what was going   *)
(* on; the drive counts its commands, and names the one that started the   *)
(* current run and the last halting one whose answer was latched.          *)
(***************************************************************************)
EXTENDS Integers, Sequences

CONSTANTS
  FirstDelay,    \* FIRST_RESP_DELAY, 50 000 cycles
  SecondDelay,   \* SECOND_RESP_DELAY, 50 000 cycles
  SinglePeriod,  \* READ_PERIOD_SINGLE, 451 584 cycles
  DoublePeriod,  \* READ_PERIOD_DOUBLE, 225 792 cycles
  LeadOut,       \* the disc: sectors 0..LeadOut-1
  XaSectors,     \* those whose subheader marks Form-2 XA audio
  TrackStarts,   \* sequence of the tracks' first sectors, ascending
  MaxCommands,   \* bound: commands the guest issues in a behaviour
  MaxPending     \* bound: time stands still while an interrupt is waiting to
                 \* be acknowledged and this many responses are queued

ASSUME DriveAssumption ==
  /\ FirstDelay \in Nat /\ SecondDelay \in Nat
  /\ SinglePeriod \in Nat \ {0} /\ DoublePeriod \in Nat \ {0}
  /\ LeadOut \in Nat /\ XaSectors \in SUBSET (0..(LeadOut - 1))
  /\ TrackStarts \in Seq(0..LeadOut) /\ TrackStarts # <<>>
  /\ MaxCommands \in Nat /\ MaxPending \in Nat

\* Block addresses; those at or beyond the lead-out all read alike.
Lba    == 0..LeadOut
Tracks == DOMAIN TrackStarts

\* sector_buffer: the sector it was filled from, LeadOut when with zeros.
Blank == -1
SectorId == Lba \cup {Blank}

Modes == [double : BOOLEAN, autopause : BOOLEAN, report : BOOLEAN]
Mode0 == [double |-> FALSE, autopause |-> FALSE, report |-> FALSE]

\* PendingResp; the latched one is the last popped, NoResp once acknowledged.
Resp(n) == [delay : Nat, kind : 0..5, of : 0..n, sector : SectorId, halts : BOOLEAN]
NoResp  == [delay |-> 0, kind |-> 0, of |-> 0, sector |-> Blank, halts |-> FALSE]

\* The drive after at most n commands.
DriveState(n) ==
  [ie : SUBSET {1, 2, 4},      \* the enabled ones of the interrupt's three bits
   flag : Resp(n), busy : BOOLEAN, pending : Seq(Resp(n)),
   mode : Modes, reading : BOOLEAN, playing : BOOLEAN, readTimer : Nat,
   seekTarget : Lba, lba : Lba, playTrack : Tracks, disc : BOOLEAN,
   sectorBuffer : SectorId,
   count : 0..n, run : 0..n, halted : 0..n]

NewDrive ==
  [ie |-> {}, flag |-> NoResp, busy |-> FALSE, pending |-> <<>>,
   mode |-> Mode0, reading |-> FALSE, playing |-> FALSE, readTimer |-> 0,
   seekTarget |-> 0, lba |-> 0, playTrack |-> 1, disc |-> FALSE,
   sectorBuffer |-> Blank,
   count |-> 0, run |-> 0, halted |-> 0]

(***************************************************************************)
(* Helpers of the struct.                                                  *)
(***************************************************************************)
SectorPeriod(cd) == IF cd.mode.double THEN DoublePeriod ELSE SinglePeriod

\* lba.wrapping_add(1).
NextLba(cd) == IF cd.lba < LeadOut THEN cd.lba + 1 ELSE LeadOut

\* current_track: the last track that starts at or before the head.
TrackAt(cd, l) ==
  IF ~ cd.disc THEN 1
  ELSE LET started == {t \in Tracks : TrackStarts[t] <= l}
       IN IF started = {} THEN 1 ELSE CHOOSE t \in started : \A u \in started : u <= t

TrackStartLba(cd, track) ==
  IF cd.disc /\ track \in Tracks THEN TrackStarts[track] ELSE 0

\* The bits of the interrupt's number, as `flag & ie' tests them.
Bits(kind) == {b \in {1, 2, 4} : (kind \div b) % 2 = 1}

IrqAsserted(cd) == Bits(cd.flag.kind) \cap cd.ie # {}

PushResp(cd, wait, kind, sector) ==
  [cd EXCEPT !.pending =
     Append(@, [delay |-> wait, kind |-> kind, of |-> cd.run,
                sector |-> sector, halts |-> FALSE])]

(***************************************************************************)
(* run_command.  "query" stands for the commands that only report          *)
(* (Getstat, Mute, Demute, Setfilter, Getparam, GetlocL, GetlocP, GetTN,   *)
(* GetTD, Test), "motorOn" for MotorOn and ReadTOC, "pause" for Stop and   *)
(* Pause, which differ in the spindle motor only, "unknown" for the rest.  *)
(***************************************************************************)
\* A command with the parameter bytes it looks at.
Command ==
  [name : {"query", "motorOn", "pause", "init", "seek", "read", "getID", "unknown"}]
    \cup [name : {"setloc"}, lba : Lba]
    \cup [name : {"play"}, track : Nat]
    \cup [name : {"setmode"}, mode : Modes]

HaltingCommands == {"play", "read", "pause", "init"}
TwoPhase        == {"motorOn", "pause", "init", "seek", "getID"}

\* The interrupts a command answers with, the first after FirstDelay, the
\* second SecondDelay later.
Answers(cd, cmd) ==
  IF cmd.name = "unknown" THEN <<5>>
  ELSE IF cmd.name = "getID" /\ ~ cd.disc THEN <<3, 5>>
  ELSE IF cmd.name \in TwoPhase THEN <<3, 2>>
  ELSE <<3>>

Queued(cd, cmd, n) ==
  [i \in DOMAIN Answers(cd, cmd) |->
     [delay |-> IF i = 1 THEN FirstDelay ELSE SecondDelay,
      kind |-> Answers(cd, cmd)[i], of |-> n, sector |-> Blank,
      halts |-> cmd.name \in HaltingCommands]]

\* What the command changes besides the queue.
\* Mutant: Play does not end a read.
PlayFrom_KeepsReading(cd, l, n) ==
  [cd EXCEPT !.playing = TRUE, !.lba = l,
             !.playTrack = TrackAt(cd, l), !.readTimer = SinglePeriod, !.run = n]

PlayFrom(cd, l, n) ==
  [cd EXCEPT !.reading = FALSE, !.playing = TRUE, !.lba = l,
             !.playTrack = TrackAt(cd, l), !.readTimer = SinglePeriod, !.run = n]

ReadFrom(cd, l, n) ==
  [cd EXCEPT !.reading = TRUE, !.playing = FALSE, !.lba = l,
             !.readTimer = SectorPeriod(cd), !.run = n]

\* Mutant: playback ends, a read goes on.
Halt_KeepsReading(cd) == [cd EXCEPT !.playing = FALSE]

Halt(cd) == [cd EXCEPT !.reading = FALSE, !.playing = FALSE]

Effect(cd, cmd, n) ==
  CASE cmd.name = "setloc"  -> [cd EXCEPT !.seekTarget = cmd.lba]
    [] cmd.name = "setmode" -> [cd EXCEPT !.mode = cmd.mode]
    [] cmd.name = "play" ->
         PlayFrom(cd, IF cmd.track = 0 THEN cd.seekTarget
                                       ELSE TrackStartLba(cd, cmd.track), n)
    [] cmd.name = "read"  -> ReadFrom(cd, cd.seekTarget, n)
    [] cmd.name = "pause" -> Halt(cd)
    [] cmd.name = "init"  -> Halt([cd EXCEPT !.mode = Mode0])
    [] cmd.name = "seek" -> [cd EXCEPT !.lba = cd.seekTarget]
    [] OTHER -> cd

RunCommand(cd, cmd) ==
  [Effect(cd, cmd, cd.count + 1) EXCEPT
     !.busy = TRUE, !.count = @ + 1,
     !.pending = cd.pending \o Queued(cd, cmd, cd.count + 1)]

(***************************************************************************)
(* tick_one.                                                               *)
(***************************************************************************)
\* Mutant: an XA-audio sector passes through the sector buffer too.
ProcessReadSector_XaFillsBuffer(cd) ==
  LET here == IF cd.disc THEN cd.lba ELSE LeadOut
      read == [cd EXCEPT !.sectorBuffer = here, !.lba = NextLba(cd)]
  IN IF cd.disc /\ cd.lba \in XaSectors THEN read ELSE PushResp(read, 0, 1, here)

\* process_read_sector: XA audio is consumed in silence, any other sector
\* fills the buffer and announces itself with an INT1.
ProcessReadSector(cd) ==
  IF cd.disc /\ cd.lba \in XaSectors
  THEN [cd EXCEPT !.lba = NextLba(cd)]
  ELSE LET here == IF cd.disc THEN cd.lba ELSE LeadOut
       IN PushResp([cd EXCEPT !.sectorBuffer = here, !.lba = NextLba(cd)], 0, 1, here)

\* process_cdda_sector: the end of the disc, or of the track with autopause,
\* stops playback; an INT4 or a position report is given up when anything
\* is queued already.
PlaybackEnds(cd) ==
  \/ ~ cd.disc \/ cd.lba >= LeadOut
  \/ cd.mode.autopause /\ TrackAt(cd, cd.lba) # cd.playTrack

ReportIf(cd, wanted, kind) ==
  IF wanted /\ cd.pending = <<>> THEN PushResp(cd, 0, kind, Blank) ELSE cd

ProcessCddaSector(cd) ==
  IF PlaybackEnds(cd)
  THEN ReportIf([cd EXCEPT !.playing = FALSE], cd.mode.autopause, 4)
  ELSE ReportIf([cd EXCEPT !.lba = NextLba(cd)], cd.mode.report, 1)

SectorDue(cd) == cd.readTimer <= 1

\* Mutant: Setmode's double speed applies to playback too.
Spun_PlaysDouble(cd) ==
  IF (cd.reading \/ cd.playing) /\ ~SectorDue(cd) THEN [cd EXCEPT !.readTimer = @ - 1]
  ELSE IF cd.reading THEN [ProcessReadSector(cd) EXCEPT !.readTimer = SectorPeriod(cd)]
  ELSE IF cd.playing THEN [ProcessCddaSector(cd) EXCEPT !.readTimer = SectorPeriod(cd)]
  ELSE cd

Spun(cd) ==
  IF cd.reading
  THEN IF SectorDue(cd)
       THEN [ProcessReadSector(cd) EXCEPT !.readTimer = SectorPeriod(cd)]
       ELSE [cd EXCEPT !.readTimer = @ - 1]
  ELSE IF cd.playing
  THEN IF SectorDue(cd)
       THEN [ProcessCddaSector(cd) EXCEPT !.readTimer = SinglePeriod]
       ELSE [cd EXCEPT !.readTimer = @ - 1]
  ELSE cd

\* Mutant: every queued response counts down, not only the first.
CountedDown_All(cd) ==
  [cd EXCEPT !.pending = [i \in DOMAIN cd.pending |->
     [cd.pending[i] EXCEPT !.delay = IF @ > 0 THEN @ - 1 ELSE 0]]]

\* Mutant: the countdown stops at one.
CountedDown_StopsShort(cd) ==
  IF cd.pending # <<>> /\ Head(cd.pending).delay > 1
  THEN [cd EXCEPT !.pending[1].delay = @ - 1] ELSE cd

CountedDown(cd) ==
  IF cd.pending # <<>> /\ Head(cd.pending).delay > 0
  THEN [cd EXCEPT !.pending[1].delay = @ - 1] ELSE cd

Ready(cd) == cd.flag = NoResp /\ cd.pending # <<>> /\ Head(cd.pending).delay = 0

\* Mutant: the busy flag is left standing.
LatchResponse_LeavesBusy(cd) ==
  [cd EXCEPT !.flag = Head(cd.pending), !.pending = Tail(@),
             !.halted = IF Head(cd.pending).halts THEN Head(cd.pending).of ELSE @]

LatchResponse(cd) ==
  [cd EXCEPT !.flag = Head(cd.pending), !.pending = Tail(@), !.busy = FALSE,
             !.halted = IF Head(cd.pending).halts THEN Head(cd.pending).of ELSE @]

Latches(cd) == Ready(CountedDown(Spun(cd)))

TickOne(cd) ==
  IF Latches(cd) THEN LatchResponse(CountedDown(Spun(cd))) ELSE CountedDown(Spun(cd))

\* The tick sets the CdRom bit of I_STAT.
TickRaises(cd) == Latches(cd) /\ IrqAsserted(TickOne(cd))

(***************************************************************************)
(* The fast path of tick and cycles_to_next_event.                         *)
(***************************************************************************)
\* Mutant: playback is forgotten.
Idle_ForgetsPlayback(cd) == ~ cd.reading /\ cd.pending = <<>>

Idle(cd) == ~ cd.reading /\ ~ cd.playing /\ cd.pending = <<>>

CdAudioActive(cd) == cd.playing \/ (cd.reading /\ cd.disc /\ cd.lba \in XaSectors)

NoEvent == -1     \* None

\* Mutant: the sector cadence alone decides while reading.
CyclesToNextEvent_SectorOnly(cd) ==
  IF Idle(cd) THEN NoEvent
  ELSE IF CdAudioActive(cd) THEN 1
  ELSE LET wait == IF cd.reading THEN cd.readTimer ELSE Head(cd.pending).delay
       IN IF wait > 1 THEN wait ELSE 1

CyclesToNextEvent(cd) ==
  IF Idle(cd) THEN NoEvent
  ELSE IF CdAudioActive(cd) THEN 1
  ELSE LET waits == (IF cd.reading THEN {cd.readTimer} ELSE {})
                      \cup (IF cd.pending # <<>> THEN {Head(cd.pending).delay} ELSE {})
           first == CHOOSE w \in waits : \A x \in waits : w <= x
       IN IF first > 1 THEN first ELSE 1
=============================================================================
