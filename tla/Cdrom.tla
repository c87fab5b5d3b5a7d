------------------------------- MODULE Cdrom -------------------------------
(***************************************************************************)
(* The CD-ROM controller with the guest and the host that use it: the      *)
(* guest issues commands whether or not the last one was answered, enables *)
(* and acknowledges interrupts when it likes; the host swaps the disc.     *)
(* `promise' is what is left of the estimate the lazy scheduler was last   *)
(* given; it asks again when the estimate runs out and after a register    *)
(* access, but not when the disc is swapped.                               *)
(***************************************************************************)
EXTENDS CdDrive

CONSTANTS
  Commands,      \* the commands the guest issues, with their arguments
  EnableWrites   \* the interrupt-enable values it writes

ASSUME CdromAssumption ==
  /\ Commands \in SUBSET Command
  /\ EnableWrites \in SUBSET SUBSET {1, 2, 4}

VARIABLES
  drive,       \* the controller
  iStat,       \* the CdRom bit of I_STAT
  promise,     \* cycles left of the scheduler's estimate, or NoEvent
  sinceLatch   \* history: cycles since the last latch, at most SecondDelay

vars == <<drive, iStat, promise, sinceLatch>>

Init ==
  /\ drive = NewDrive
  /\ iStat = FALSE
  /\ promise = NoEvent
  /\ sinceLatch = SecondDelay

KeptPromise ==
  IF promise = NoEvent THEN NoEvent
  ELSE IF promise > 1 THEN promise - 1
  ELSE CyclesToNextEvent(TickOne(drive))

\* Cdrom::tick(1).
Tick ==
  /\ drive.flag # NoResp => Len(drive.pending) < MaxPending
  /\ drive' = TickOne(drive)
  /\ iStat' = (iStat \/ TickRaises(drive))
  /\ promise' = KeptPromise
  /\ sinceLatch' = IF Latches(drive) THEN 0
                   ELSE IF sinceLatch < SecondDelay THEN sinceLatch + 1 ELSE sinceLatch

\* A register access, after which the scheduler estimates anew.
Access(cd) ==
  /\ drive' = cd
  /\ promise' = CyclesToNextEvent(cd)
  /\ UNCHANGED <<iStat, sinceLatch>>

\* 0x1F801801, bank 0.
IssueCommand(cmd) ==
  /\ drive.count < MaxCommands /\ Len(drive.pending) < MaxPending
  /\ Access(RunCommand(drive, cmd))

\* 0x1F801803, bank 1, any of bits 0-2: whatever is latched is acknowledged.
Acknowledge == Access([drive EXCEPT !.flag = NoResp])

\* 0x1F801802, bank 1.
WriteEnable(bits) == Access([drive EXCEPT !.ie = bits])

\* Irq::write_stat.
AcknowledgeLine ==
  /\ iStat' = FALSE
  /\ UNCHANGED <<drive, promise, sinceLatch>>

\* Command::LoadDisc and Command::EjectDisc.
InsertDisc ==
  /\ drive' = [drive EXCEPT !.disc = TRUE]
  /\ UNCHANGED <<iStat, promise, sinceLatch>>

Eject ==
  /\ drive' = [Halt(drive) EXCEPT !.disc = FALSE]
  /\ UNCHANGED <<iStat, promise, sinceLatch>>

Next ==
  \/ Tick
  \/ \E cmd \in Commands : IssueCommand(cmd)
  \/ Acknowledge
  \/ \E bits \in EnableWrites : WriteEnable(bits)
  \/ AcknowledgeLine
  \/ InsertDisc
  \/ Eject

Spec == Init /\ [][Next]_vars

\* Time passes, and the guest's handler acknowledges what it is told.
FairSpec == Spec /\ WF_vars(Tick) /\ WF_vars(Acknowledge)

----------------------------------------------------------------------------
IsAnswer(r) == r.kind \in {2, 3, 5}
IsReport(r) == r.kind \in {1, 4}

\* Types, and at most one of the two uses of the sector timer at a time
\* (tick_one would silently drop the other).
TypeOK ==
  /\ drive \in DriveState(MaxCommands)
  /\ ~ (drive.reading /\ drive.playing)
  /\ drive.reading \/ drive.playing => drive.readTimer > 0
  /\ iStat \in BOOLEAN
  /\ promise \in (Nat \ {0}) \cup {NoEvent}
  /\ sinceLatch \in 0..SecondDelay

\* Once the answer of a Pause, Stop, Init, Play or Read has been delivered,
\* no report of an earlier read or playback is delivered any more, and a
\* read's own sectors come after its acknowledgement.
ReportsBelongToTheirRun ==
  \A i \in DOMAIN drive.pending :
    IsReport(drive.pending[i]) =>
      /\ drive.pending[i].of >= drive.halted
      /\ \A j \in DOMAIN drive.pending :
           j > i /\ IsAnswer(drive.pending[j]) => drive.pending[j].of # drive.pending[i].of

\* A busy controller still owes the answer of its last command: BUSYSTS is
\* never stuck.
BusyOwesAnAnswer ==
  drive.busy => \E i \in DOMAIN drive.pending :
                  IsAnswer(drive.pending[i]) /\ drive.pending[i].of = drive.count

\* "The predicate stays true for the whole window": a drive that takes the
\* idle fast path of tick would not have changed.
IdleIsStill == Idle(drive) => TickOne(drive) = drive

\* "It may return a value smaller than the true next event" but never a
\* larger one, not even after the disc was swapped behind its back: I_STAT
\* is set only when the last estimate has run out.
NoEarlyInterrupt == TickRaises(drive) => promise = 1

\* When the latched INT1 is the newest one, the sector buffer holds the very
\* sector it announced.
BufferHoldsTheAnnounced ==
  /\ drive.flag.kind = 1 /\ drive.flag.sector # Blank
  /\ \A i \in DOMAIN drive.pending : drive.pending[i].sector = Blank
  => drive.sectorBuffer = drive.flag.sector

\* SECOND_RESP_DELAY is "additional latency": a second response is latched
\* no sooner than that after the first.
SecondAfterDelay ==
  [][Tick /\ Latches(drive) /\ drive'.flag.kind = 2 => sinceLatch + 1 >= SecondDelay]_vars

\* A guest that keeps acknowledging gets every answer, however many sectors
\* a running read puts in between.
EveryCommandIsAnswered ==
  \A n \in 1..MaxCommands :
    (drive.count = n)
      ~> (\A i \in DOMAIN drive.pending : IsAnswer(drive.pending[i]) => drive.pending[i].of # n)

\* "Autopause reports completion with an INT4 (per Nocash)."
AutopauseReports ==
  [][Tick /\ drive.playing /\ ~ drive'.playing /\ drive.mode.autopause
       => \/ drive'.flag.kind = 4
          \/ \E i \in DOMAIN drive'.pending : drive'.pending[i].kind = 4]_vars

\* irq_asserted: "the latched interrupt is enabled and should assert the
\* line".
AssertedReachesLine ==
  [][~ IrqAsserted(drive) /\ IrqAsserted(drive)' => iStat']_vars
=============================================================================
