------------------------------- MODULE Voice -------------------------------
(***************************************************************************)
(* One voice of the sound processor (spu.rs, Voice) as a value: the walk   *)
(* through the ADPCM blocks of sample RAM and the envelope.  A block is two*)
(* address units of 8 bytes; of its contents only the loop flags of its    *)
(* header matter here, and a decoded sample is named by its block and its  *)
(* place in it.  Pitch modulation and noise, which only change values and  *)
(* the step within its cap, are left out.  The envelope's arithmetic is    *)
(* the code's.                                                             *)
(***************************************************************************)
EXTENDS Integers, Sequences

CONSTANTS
  Units,         \* the 8-byte units of sample RAM (65 536)
  Halves,        \* the halfwords of a unit (4)
  BlockSamples,  \* the samples of a block (28)
  PitchOne       \* the pitch of one sample per output sample (0x1000)

\* A voice takes at most four samples per output sample (advance), so it never
\* decodes two blocks in one.
ASSUME VoiceAssumption ==
  /\ Units \in Nat \ {0, 1} /\ Halves \in Nat \ {0}
  /\ BlockSamples \in Nat /\ BlockSamples >= 4
  /\ PitchOne \in Nat \ {0}

\* The body of a loop n times.
Repeat(Body(_), x, n) ==
  LET after[i \in 0..n] == IF i = 0 THEN x ELSE Body(after[i - 1])
  IN after[n]

Unit     == 0..(Units - 1)
MaxLevel == 32767                            \* 0x7FFF
Flags    == SUBSET {"end", "repeat", "start"}
Phases   == {"off", "attack", "decay", "sustain", "release"}

\* Sample RAM: halfwords, of which the first of a block holds its loop flags.
SampleRam    == [0..(Units * Halves - 1) -> Flags]
Header(ram, u) == ram[u * Halves]

\* The two envelope registers: shift and step of the attack, the decay's shift
\* and the sustain level, then mode, direction, shift and step of the sustain
\* and mode and shift of the release.
Envelopes ==
  [aExp : BOOLEAN, aShift : 0..31, aStep : 0..3, dShift : 0..15, sLevel : 0..15,
   sExp : BOOLEAN, sDec : BOOLEAN, sShift : 0..31, sStep : 0..3,
   rExp : BOOLEAN, rShift : 0..31]

VoiceState ==
  [cur : Unit, repeat : Unit, counter : 0..(PitchOne - 1), pos : 0..BlockSamples,
   block : Unit, s0 : Unit \X (0..BlockSamples), s1 : Unit \X (0..BlockSamples),
   phase : Phases, level : 0..MaxLevel, wait : Nat, on : BOOLEAN, ended : BOOLEAN]

NewVoice ==
  [cur |-> 0, repeat |-> 0, counter |-> 0, pos |-> 0, block |-> 0,
   s0 |-> <<0, 0>>, s1 |-> <<0, 0>>, phase |-> "off", level |-> 0, wait |-> 0,
   on |-> FALSE, ended |-> FALSE]

\* Whether a voice is on, as two fields say it.
Sounding(v) == v.on <=> v.phase # "off"

(***************************************************************************)
(* decode_block and next_adpcm.                                            *)
(***************************************************************************)
DecodeBlock(v, ram) ==
  LET flags  == Header(ram, v.cur)
      loop   == IF "start" \in flags THEN v.cur ELSE v.repeat
      walked == [v EXCEPT !.block = v.cur, !.repeat = loop]
  IN IF "end" \notin flags THEN [walked EXCEPT !.cur = (v.cur + 2) % Units]
     ELSE IF "repeat" \in flags THEN [walked EXCEPT !.ended = TRUE, !.cur = loop]
     ELSE [walked EXCEPT !.ended = TRUE, !.cur = loop, !.phase = "release", !.level = 0]

\* Whether the next sample needs a block decoded, the one at v.cur.
Exhausted(v) == v.pos >= BlockSamples

\* The next sample moves into s1, the last one to s0.
NextSample(v, ram) ==
  LET d == IF Exhausted(v) THEN [DecodeBlock(v, ram) EXCEPT !.pos = 0] ELSE v
  IN [d EXCEPT !.pos = @ + 1, !.s0 = d.s1, !.s1 = <<d.block, d.pos + 1>>]

\* key_on: start over, with the first two samples primed; the address of the
\* block they decode is not reported.
KeyOn(v, ram, start) ==
  LET fresh == [v EXCEPT !.on = TRUE, !.phase = "attack", !.level = 0, !.wait = 1,
                         !.cur = start, !.repeat = start, !.counter = 0,
                         !.pos = BlockSamples, !.ended = FALSE]
  IN NextSample(NextSample(fresh, ram), ram)

\* Mutant: a voice that is silent is released too.
KeyOff_Silent(v) == [v EXCEPT !.phase = "release", !.wait = 1]

KeyOff(v) == IF v.on THEN [v EXCEPT !.phase = "release", !.wait = 1] ELSE v

(***************************************************************************)
(* tick_adsr.                                                              *)
(***************************************************************************)
\* The mode, direction, shift and step of the phase a voice is in.
Rate(e, phase) ==
  CASE phase = "attack"  -> [exp |-> e.aExp, dec |-> FALSE, shift |-> e.aShift,
                             step |-> 7 - e.aStep]
    [] phase = "decay"   -> [exp |-> TRUE, dec |-> TRUE, shift |-> e.dShift, step |-> -8]
    [] phase = "sustain" -> [exp |-> e.sExp, dec |-> e.sDec, shift |-> e.sShift,
                             step |-> IF e.sDec THEN e.sStep - 8 ELSE 7 - e.sStep]
    [] phase = "release" -> [exp |-> e.rExp, dec |-> TRUE, shift |-> e.rShift, step |-> -8]

SustainLevel(e) == IF e.sLevel = 15 THEN MaxLevel ELSE (e.sLevel + 1) * 2048

Clamp(x) == IF x < 0 THEN 0 ELSE IF x > MaxLevel THEN MaxLevel ELSE x

LinearDelta(r) == r.step * 2 ^ (IF r.shift < 11 THEN 11 - r.shift ELSE 0)

\* Mutant: a quotient rounded towards zero instead of an arithmetic shift.
Delta_Truncates(r, level) ==
  IF r.exp /\ r.dec THEN - (((- LinearDelta(r)) * level) \div 32768) ELSE LinearDelta(r)

\* An exponential decrease is proportional to the level; >> rounds down.
Delta(r, level) ==
  IF r.exp /\ r.dec THEN (LinearDelta(r) * level) \div 32768 ELSE LinearDelta(r)

UpdateWait(r, level) ==
  2 ^ (IF r.shift > 11 THEN r.shift - 11 ELSE 0)
    * (IF r.exp /\ ~r.dec /\ level > 24576 THEN 4 ELSE 1)     \* 0x6000

EnvelopeStep(v, e) ==
  LET r   == Rate(e, v.phase)
      lev == Clamp(v.level + Delta(r, v.level))
      moved == [v EXCEPT !.level = lev, !.wait = UpdateWait(r, v.level)]
  IN CASE v.phase = "attack" /\ lev = MaxLevel ->
            [moved EXCEPT !.phase = "decay", !.wait = 1]
       [] v.phase = "decay" /\ lev <= SustainLevel(e) ->
            [moved EXCEPT !.phase = "sustain", !.wait = 1]
       [] v.phase = "release" /\ lev = 0 -> [moved EXCEPT !.phase = "off", !.on = FALSE]
       [] OTHER -> moved

TickAdsr(v, e) ==
  IF v.phase = "off" THEN v
  ELSE IF v.wait > 1 THEN [v EXCEPT !.wait = @ - 1]
  ELSE EnvelopeStep(v, e)

(***************************************************************************)
(* advance: one output sample.                                             *)
(***************************************************************************)
Step(pitch) == IF pitch > 4 * PitchOne THEN 4 * PitchOne ELSE pitch

Due(v, pitch) == (v.counter + Step(pitch)) \div PitchOne

Walked(v, ram, pitch) ==
  Repeat(LAMBDA w : NextSample(w, ram),
         [v EXCEPT !.counter = (@ + Step(pitch)) % PitchOne], Due(v, pitch))

AdvanceVoice(v, ram, pitch, e) ==
  IF v.on THEN TickAdsr(Walked(v, ram, pitch), e) ELSE v

\* The block decoded meanwhile, if any.
Decodes(v, pitch) == v.on /\ v.pos + Due(v, pitch) > BlockSamples
=============================================================================
