-------------------------------- MODULE Spu --------------------------------
(***************************************************************************)
(* The sound processor (spu.rs, Spu) as a value and the functions on it:   *)
(* registers, transfers into sample RAM, the address interrupt, the clock  *)
(* that makes one output sample per CyclesPerSample cycles, the queue of   *)
(* CD frames it mixes in and the queue of samples the frontend drains.     *)
(* Volumes, the mix and the reverb, which only change the values of the    *)
(* samples, are left out: a sample is named by its number and its side.    *)
(* The reverb's work area is taken to be apart from the voices' blocks.    *)
(***************************************************************************)
EXTENDS Voice

CONSTANTS
  Voices,           \* the voices (24)
  CyclesPerSample,  \* CYCLES_PER_SAMPLE (768)
  MaxQueued,        \* MAX_QUEUED: output entries, two for each sample (88 200)
  CdQueueMax,       \* CD_QUEUE_MAX: frames waiting to be mixed (8192)
  Count,            \* the width of the counters of samples (2^64)
  Silence           \* the CD input of a sample for which no frame waits

ASSUME SpuAssumption ==
  /\ CyclesPerSample \in Nat \ {0} /\ CdQueueMax \in Nat
  /\ MaxQueued \in Nat /\ Count \in Nat /\ 2 * Count > MaxQueued

Sides == {"left", "right"}

SpuState(frames) ==
  [ram : SampleRam, voices : [Voices -> VoiceState],
   start : [Voices -> Unit], pitch : [Voices -> Nat], envelope : [Voices -> Envelopes],
   irqOn : BOOLEAN, irqAddr : Unit, irqFlag : BOOLEAN, raise : BOOLEAN,
   transfer : 0..(Units * Halves - 1),
   timer : 0..(CyclesPerSample - 1), cdSample : frames \cup {Silence},
   cdQueue : Seq(frames), samples : Seq((0..(Count - 1)) \X Sides),
   produced : 0..(Count - 1), dropped : 0..(Count - 1)]

NewEnvelope ==
  [aExp |-> FALSE, aShift |-> 0, aStep |-> 0, dShift |-> 0, sLevel |-> 0,
   sExp |-> FALSE, sDec |-> FALSE, sShift |-> 0, sStep |-> 0, rExp |-> FALSE, rShift |-> 0]

NewSpu ==
  [ram |-> [h \in 0..(Units * Halves - 1) |-> {}], voices |-> [v \in Voices |-> NewVoice],
   start |-> [v \in Voices |-> 0], pitch |-> [v \in Voices |-> 0],
   envelope |-> [v \in Voices |-> NewEnvelope],
   irqOn |-> FALSE, irqAddr |-> 0, irqFlag |-> FALSE, raise |-> FALSE, transfer |-> 0,
   timer |-> 0, cdSample |-> Silence, cdQueue |-> <<>>, samples |-> <<>>,
   produced |-> 0, dropped |-> 0]

(***************************************************************************)
(* The address interrupt.                                                  *)
(***************************************************************************)
NoteIrq(s, match) == IF s.irqOn /\ match THEN [s EXCEPT !.irqFlag = TRUE, !.raise = TRUE] ELSE s

\* note_transfer_irq: at the first halfword of a unit, the only ones the
\* address can name.
NoteTransferIrq(s) == NoteIrq(s, s.transfer = s.irqAddr * Halves)

\* note_decode_irq, of each block decoded: one whose second unit is past the end
\* of RAM does not cover unit 0.
NoteDecodeIrq(s, blocks) ==
  NoteIrq(s, \E block \in blocks : s.irqAddr \in {block, block + 1})

(***************************************************************************)
(* Transfers.  A DMA word is two halfwords, and so is a FIFO write of 32   *)
(* bits; reads go through DMA only.                                        *)
(***************************************************************************)
NextHalf(s) == [s EXCEPT !.transfer = (@ + 1) % (Units * Halves)]

FifoWrite(s, half) == NextHalf(NoteTransferIrq([s EXCEPT !.ram[s.transfer] = half]))

DmaWriteWord(s, low, high) == FifoWrite(FifoWrite(s, low), high)

DmaReadWord(s) == NextHalf(NoteTransferIrq(NextHalf(NoteTransferIrq(s))))

(***************************************************************************)
(* write16: w.reg is the register, w.v the voice it belongs to.  A level   *)
(* is clamped there to what an envelope may have.                          *)
(***************************************************************************)
RegisterWrite ==
  [reg : {"fifo"}, half : Flags] \cup [reg : {"control"}, on : BOOLEAN]
    \cup [reg : {"transfer", "irqAddr"}, unit : Unit]
    \cup [reg : {"keyOn", "keyOff", "endx"}, mask : SUBSET Voices]
    \cup [reg : {"start", "repeat"}, v : Voices, unit : Unit]
    \cup [reg : {"pitch"}, v : Voices, pitch : Nat]
    \cup [reg : {"envelope"}, v : Voices, env : Envelopes]
    \cup [reg : {"level"}, v : Voices, level : 0..MaxLevel]

Keyed(s, mask) ==
  [s EXCEPT !.voices = [v \in Voices |->
     IF v \in mask THEN KeyOn(@[v], s.ram, s.start[v]) ELSE @[v]]]

Released(s, mask) ==
  [s EXCEPT !.voices = [v \in Voices |-> IF v \in mask THEN KeyOff(@[v]) ELSE @[v]]]

\* SPUCNT: clearing the enable bit acknowledges the flag.
Control(s, on) == [s EXCEPT !.irqOn = on, !.irqFlag = @ /\ on]

SpuWrite(s, w) ==
  CASE w.reg = "fifo"     -> FifoWrite(s, w.half)
    [] w.reg = "transfer" -> [s EXCEPT !.transfer = w.unit * Halves]
    [] w.reg = "irqAddr"  -> [s EXCEPT !.irqAddr = w.unit]
    [] w.reg = "control"  -> Control(s, w.on)
    [] w.reg = "keyOn"    -> Keyed(s, w.mask)
    [] w.reg = "keyOff"   -> Released(s, w.mask)
    [] w.reg = "endx"     -> [s EXCEPT !.voices = [v \in Voices |->
                                 IF v \in w.mask THEN [@[v] EXCEPT !.ended = FALSE] ELSE @[v]]]
    [] w.reg = "start"    -> [s EXCEPT !.start[w.v] = w.unit]
    [] w.reg = "pitch"    -> [s EXCEPT !.pitch[w.v] = w.pitch]
    [] w.reg = "envelope" -> [s EXCEPT !.envelope[w.v] = w.env]
    [] w.reg = "level"    -> [s EXCEPT !.voices[w.v].level = w.level]
    [] w.reg = "repeat"   -> [s EXCEPT !.voices[w.v].repeat = w.unit]

(***************************************************************************)
(* push_cd_audio_samples, generate_sample and push_sample.                 *)
(***************************************************************************)
\* The newest n entries of a queue.
Newest(q, n) == SubSeq(q, Len(q) - (IF Len(q) < n THEN Len(q) ELSE n) + 1, Len(q))

PushCdAudio(s, frames) == [s EXCEPT !.cdQueue = Newest(@ \o frames, CdQueueMax)]

\* Mutant: a full queue gives up one entry instead of a pair.
PushSample_DropsOne(s) ==
  LET full == s.samples \o <<<<s.produced, "left">>, <<s.produced, "right">>>>
      over == IF Len(full) > MaxQueued THEN 1 ELSE 0
  IN [s EXCEPT !.samples = SubSeq(full, over + 1, Len(full)),
               !.produced = (@ + 1) % Count, !.dropped = (@ + over) % Count]

\* A sample is two entries, and a full queue gives up its oldest sample whole.
PushSample(s) ==
  LET full == s.samples \o <<<<s.produced, "left">>, <<s.produced, "right">>>>
      over == IF Len(full) > MaxQueued THEN 1 ELSE 0
  IN [s EXCEPT !.samples = SubSeq(full, 2 * over + 1, Len(full)),
               !.produced = (@ + 1) % Count, !.dropped = (@ + over) % Count]

\* Every voice one sample on, the blocks decoded meanwhile matched.
VoicesAdvanced(s) ==
  LET moved == [s EXCEPT !.voices = [v \in Voices |->
                  AdvanceVoice(@[v], s.ram, s.pitch[v], s.envelope[v])]]
      decoding == {v \in Voices : Decodes(s.voices[v], s.pitch[v])}
  IN NoteDecodeIrq(moved, {s.voices[v].cur : v \in decoding})

NextFrame(s) == IF s.cdQueue = <<>> THEN Silence ELSE Head(s.cdQueue)

GenerateSample(s) ==
  LET mixed == VoicesAdvanced(s)
  IN PushSample([mixed EXCEPT !.cdSample = NextFrame(s),
                              !.cdQueue = IF @ = <<>> THEN <<>> ELSE Tail(@)])

(***************************************************************************)
(* tick and cycles_to_next_event.                                          *)
(***************************************************************************)
Sampled(s, n) ==
  Repeat(GenerateSample, [s EXCEPT !.timer = (@ + n) % CyclesPerSample],
         (s.timer + n) \div CyclesPerSample)

SpuTick(s, n) == [Sampled(s, n) EXCEPT !.raise = FALSE]

\* The tick sets the Spu bit of I_STAT.
SpuRaises(s, n) == Sampled(s, n).raise

SpuNextEvent(s) == IF s.raise THEN 1 ELSE CyclesPerSample - s.timer

\* drain_samples.
Drained(s) == [s EXCEPT !.samples = <<>>]
=============================================================================
