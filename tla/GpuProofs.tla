------------------------------ MODULE GpuProofs ------------------------------
(***************************************************************************)
(* The GPU and the controller that feeds it.  No completion interrupt is   *)
(* lost, whatever the channels do, and no word of a command, however the   *)
(* words are sent, and an ordering table is drawn in its order, for every  *)
(* set of programs and every size of memory and of the devices; and what   *)
(* the rasteriser paints: each pixel of a polygon once, in shades between  *)
(* its corners', and lines from end to end, for every program, every size  *)
(* of VRAM and every pixel.                                                *)
(***************************************************************************)
EXTENDS DmaPrograms, Raster, FiniteSetTheorems, SequenceTheorems, WellFoundedInduction, TLAPS

\* Bit 31 is what update_dicr_master makes of the other bits.
MasterBit == dicr.bit31 = (dicr.force \/ (dicr.master /\ dicr.enabled \cap dicr.flags # {}))

DicrShape ==
  dicr \in [enabled: SUBSET Channels, flags: SUBSET Channels, master: BOOLEAN,
            force: BOOLEAN, bit31: BOOLEAN]

\* Outside the program of the interrupts nothing is owed; outside the handler's
\* middle step nothing is taken.
HandlerShape ==
  /\ use \in Uses
  /\ use.kind # "irq" => owed = {}
  /\ handler # "read" => taken = {}

IrqInv == DicrShape /\ MasterBit /\ HandlerShape /\ CompletionsReachTheHandler

(***************************************************************************)
(* What the steps do to the interrupt registers                            *)
(***************************************************************************)
\* Starting a channel completes it, or leaves the interrupt registers alone.
LEMMA StartEffect ==
  ASSUME NEW ch, NEW a, NEW b, NEW c, StartChannel(ch, a, b, c)
  PROVE  \/ Triggered(c) /\ dicr' = Completed(dicr, ch) /\ iStat' = Line(dicr, ch, iStat)
         \/ ~Triggered(c) /\ UNCHANGED irqVars
BY DEF StartChannel, irqVars

\* A completion keeps DICR well-formed and bit 31 true, and takes no flag away.
LEMMA CompletedKeeps ==
  ASSUME DicrShape, MasterBit, NEW ch \in Channels, dicr' = Completed(dicr, ch)
  PROVE  /\ DicrShape' /\ MasterBit'
         /\ dicr'.enabled = dicr.enabled /\ dicr'.master = dicr.master
         /\ dicr'.flags = IF Rings(dicr, ch) THEN dicr.flags \cup {ch} ELSE dicr.flags
<1>1. CASE Rings(dicr, ch)
  <2>1. dicr' = Updated([dicr EXCEPT !.flags = @ \cup {ch}])
    BY <1>1 DEF Completed
  <2>2. dicr' = [[dicr EXCEPT !.flags = @ \cup {ch}] EXCEPT
                   !.bit31 = dicr.force \/ (dicr.master /\ dicr.enabled \cap (dicr.flags \cup {ch}) # {})]
    BY <2>1 DEF Updated, DicrShape
  <2> QED BY <1>1, <2>2, ZenonT(90) DEF DicrShape, MasterBit
<1>2. CASE ~Rings(dicr, ch)
  BY <1>2 DEF Completed, DicrShape, MasterBit
<1> QED BY <1>1, <1>2

\* A write of DICR likewise; it takes away the flags it acknowledges.
LEMMA WrittenKeeps ==
  ASSUME DicrShape, NEW w, NEW ack,
         w.enabled \in SUBSET Channels, w.master \in BOOLEAN, w.force \in BOOLEAN,
         dicr' = DicrWritten(dicr, w, ack)
  PROVE  /\ DicrShape' /\ MasterBit'
         /\ dicr'.flags = dicr.flags \ ack
<1>1. dicr' = [enabled |-> w.enabled, master |-> w.master, force |-> w.force,
               flags |-> dicr.flags \ ack,
               bit31 |-> w.force \/ (w.master /\ w.enabled \cap (dicr.flags \ ack) # {})]
  BY DEF DicrWritten, Updated
<1> QED BY <1>1 DEF DicrShape, MasterBit

\* A step of another program cannot disturb what is owed: nothing is.
LEMMA OtherPrograms ==
  ASSUME IrqInv, use.kind # "irq", UNCHANGED <<use, irqProgVars>>, DicrShape', MasterBit'
  PROVE  IrqInv'
BY DEF IrqInv, HandlerShape, CompletionsReachTheHandler, irqProgVars

\* Nor can a step that leaves the interrupt registers alone.
LEMMA Untouched ==
  ASSUME IrqInv, UNCHANGED <<use, irqVars, irqProgVars>>
  PROVE  IrqInv'
BY DEF IrqInv, DicrShape, MasterBit, HandlerShape, CompletionsReachTheHandler, irqProgVars, irqVars

\* A channel of the transfers, started by a program that takes no interrupts.
LEMMA ProgramStarts ==
  ASSUME IrqInv, use.kind # "irq", UNCHANGED <<use, irqProgVars>>,
         NEW ch \in Channels, \E a, b, c : StartChannel(ch, a, b, c)
  PROVE  IrqInv'
<1>1. CASE dicr' = Completed(dicr, ch)
  BY <1>1, CompletedKeeps, OtherPrograms DEF IrqInv
<1>2. CASE UNCHANGED irqVars
  BY <1>2, Untouched
<1> QED BY <1>1, <1>2, StartEffect

(***************************************************************************)
(* The interrupts' invariant                                               *)
(***************************************************************************)
LEMMA IrqInit == Init => IrqInv
<1> SUFFICES ASSUME Init PROVE IrqInv
  OBVIOUS
<1>1. DicrShape /\ MasterBit
  BY DEF Init, DicrShape, MasterBit
<1>2. HandlerShape /\ CompletionsReachTheHandler
  BY DEF Init, HandlerShape, CompletionsReachTheHandler
<1> QED BY <1>1, <1>2 DEF IrqInv

\* Configure: enables may change, flags stay.
LEMMA ConfigureStep ==
  ASSUME IrqInv, NEW c \in Field(use, "control", {}), Configure(c)
  PROVE  IrqInv'
<1>1. use.kind = "irq" /\ use' = use /\ handler = "main"
      /\ dicr' = DicrWritten(dicr, c, {}) /\ iStat' = iStat /\ UNCHANGED irqProgVars
  BY DEF Configure, Others, WriteDicr
<1>2. c.enabled \in SUBSET Channels /\ c.master \in BOOLEAN /\ c.force \in BOOLEAN
  <2>1. UseOK(use)
    BY ProgramsAssumption DEF IrqInv, HandlerShape
  <2>2. c \in use.control
    BY DEF Field
  <2> QED BY <1>1, <2>1, <2>2 DEF UseOK
<1>3. DicrShape' /\ MasterBit' /\ dicr'.flags = dicr.flags
  BY <1>1, <1>2, WrittenKeeps DEF IrqInv
<1>4. dicr'.enabled \in SUBSET Channels /\ dicr'.flags \in SUBSET Channels
  BY <1>3 DEF DicrShape
<1>5. CompletionsReachTheHandler'
  <2> SUFFICES ASSUME NEW ch \in owed'
      PROVE /\ ch \in dicr'.flags
            /\ iStat' \/ handler' = "entered" \/ ch \in taken'
            /\ ch \in dicr'.enabled /\ dicr'.master => dicr'.bit31
    BY DEF CompletionsReachTheHandler
  <2>1. ch \in owed /\ ch \in dicr.flags /\ (iStat \/ handler = "entered" \/ ch \in taken)
    BY <1>1 DEF IrqInv, CompletionsReachTheHandler, irqProgVars
  <2>2. ch \in dicr'.flags
    BY <2>1, <1>3
  <2>3. ch \in dicr'.enabled /\ dicr'.master => dicr'.bit31
    BY <2>2, <1>3 DEF MasterBit
  <2> QED BY <1>1, <2>1, <2>2, <2>3 DEF irqProgVars
<1> QED BY <1>1, <1>3, <1>5 DEF IrqInv, HandlerShape, irqProgVars

\* Start: a completion that interrupts is owed from then on, with its flag and line.
LEMMA StartStep ==
  ASSUME IrqInv, NEW ch \in Field(use, "channels", {}), NEW c, Start(ch, c)
  PROVE  IrqInv'
<1>1. /\ use.kind = "irq" /\ use' = use /\ handler' = handler /\ taken' = taken
      /\ StartChannel(ch, 0, [size |-> 1, blocks |-> 1], c)
      /\ owed' = IF Triggered(c) /\ Rings(dicr, ch) THEN owed \cup {ch} ELSE owed
  BY DEF Start, Others
<1>2. ch \in Channels
  <2>1. UseOK(use)
    BY ProgramsAssumption DEF IrqInv, HandlerShape
  <2>2. ch \in use.channels
    BY DEF Field
  <2> QED BY <1>1, <2>1, <2>2 DEF UseOK
<1>3. CASE ~Triggered(c) /\ UNCHANGED irqVars
  BY <1>1, <1>3, Untouched DEF irqProgVars
<1>4. CASE Triggered(c) /\ dicr' = Completed(dicr, ch) /\ iStat' = Line(dicr, ch, iStat)
  <2>1. /\ DicrShape' /\ MasterBit'
        /\ dicr'.enabled = dicr.enabled /\ dicr'.master = dicr.master
        /\ dicr'.flags = IF Rings(dicr, ch) THEN dicr.flags \cup {ch} ELSE dicr.flags
    BY <1>2, <1>4, CompletedKeeps DEF IrqInv
  <2>2. CompletionsReachTheHandler'
    <3> SUFFICES ASSUME NEW k \in owed'
        PROVE /\ k \in dicr'.flags
              /\ iStat' \/ handler' = "entered" \/ k \in taken'
              /\ k \in dicr'.enabled /\ dicr'.master => dicr'.bit31
      BY DEF CompletionsReachTheHandler
    <3>1. k \in dicr'.flags /\ (iStat' \/ handler' = "entered" \/ k \in taken')
      <4>1. CASE k \in owed
        BY <1>1, <1>4, <2>1, <4>1 DEF IrqInv, CompletionsReachTheHandler, Line
      <4>2. CASE k = ch /\ Rings(dicr, ch)
        BY <1>4, <2>1, <4>2 DEF Line
      <4> QED BY <1>1, <4>1, <4>2
    <3>2. k \in dicr'.enabled /\ dicr'.master => dicr'.bit31
      BY <2>1, <3>1 DEF MasterBit
    <3> QED BY <3>1, <3>2
  <2> QED BY <1>1, <2>1, <2>2 DEF IrqInv, HandlerShape
<1> QED BY <1>1, <1>3, <1>4, StartEffect

\* The handler: it is called for the line, reads the flags and acknowledges those.
LEMMA EnterStep ==
  ASSUME IrqInv, Enter
  PROVE  IrqInv'
BY DEF Enter, Others, AckLine, IrqInv, DicrShape, MasterBit, HandlerShape,
       CompletionsReachTheHandler

LEMMA ReadFlagsStep ==
  ASSUME IrqInv, ReadFlags
  PROVE  IrqInv'
BY DEF ReadFlags, Others, dmaVars, irqVars, IrqInv, DicrShape, MasterBit, HandlerShape,
       CompletionsReachTheHandler

LEMMA AckFlagsStep ==
  ASSUME IrqInv, AckFlags
  PROVE  IrqInv'
<1>1. /\ use.kind = "irq" /\ use' = use /\ handler = "read" /\ handler' = "main"
      /\ dicr' = DicrWritten(dicr, dicr, taken) /\ iStat' = iStat
      /\ owed' = owed \ taken /\ taken' = {}
  BY DEF AckFlags, Others, WriteDicr
<1>2. DicrShape' /\ MasterBit' /\ dicr'.flags = dicr.flags \ taken
  BY <1>1, WrittenKeeps DEF IrqInv, DicrShape
<1>3. CompletionsReachTheHandler'
  BY <1>1, <1>2 DEF IrqInv, CompletionsReachTheHandler, MasterBit
<1> QED BY <1>1, <1>2, <1>3 DEF IrqInv, HandlerShape

\* The programs that take no interrupts.
LEMMA ListSteps ==
  ASSUME IrqInv, \/ ClearTable \/ DrawList \/ NextFrame
                 \/ \E z \in DOMAIN scene, p \in Field(use, "packets", {}) : AddPacket(z, p)
  PROVE  IrqInv'
<1>1. CASE ClearTable
  <2>1. use.kind # "irq" /\ UNCHANGED <<use, irqProgVars>>
    BY <1>1 DEF ClearTable, Others
  <2>2. \E a, bs, cs : StartChannel(Otc, a, bs, cs)
    BY <1>1 DEF ClearTable
  <2> QED BY <2>1, <2>2, ProgramStarts DEF Channels, Otc
<1>2. CASE DrawList
  <2>1. use.kind # "irq" /\ UNCHANGED <<use, irqProgVars>>
    BY <1>2 DEF DrawList, Others
  <2>2. \E a, bs, cs : StartChannel(GpuChannel, a, bs, cs)
    BY <1>2 DEF DrawList
  <2> QED BY <2>1, <2>2, ProgramStarts DEF Channels, GpuChannel
<1>3. CASE NextFrame
  BY <1>3, Untouched DEF NextFrame, Others, WriteGp1
<1>4. ASSUME NEW z, NEW p, AddPacket(z, p)
      PROVE IrqInv'
  BY <1>4, Untouched DEF AddPacket, Others
<1> QED BY <1>1, <1>2, <1>3, <1>4

LEMMA PortSteps ==
  ASSUME IrqInv, \/ \E w \in Field(use, "words", {}) : SendWord(w)
                 \/ \E b \in Field(use, "blocks", {}), down \in BOOLEAN : SendBlock(b, down)
                 \/ \E c \in Field(use, "controls", {}) : Control(c)
                 \/ ReadWord
                 \/ \E b \in Field(use, "reads", {}) : ReadBlock(b)
  PROVE  IrqInv'
<1>1. ASSUME NEW w, SendWord(w) PROVE IrqInv'
  BY <1>1, Untouched DEF SendWord, Others, WriteGp0
<1>2. ASSUME NEW b, NEW down, SendBlock(b, down) PROVE IrqInv'
  <2>1. use.kind # "irq" /\ UNCHANGED <<use, irqProgVars>>
    BY <1>2 DEF SendBlock, Others
  <2>2. \E a, bs, cs : StartChannel(GpuChannel, a, bs, cs)
    BY <1>2 DEF SendBlock
  <2> QED BY <2>1, <2>2, ProgramStarts DEF Channels, GpuChannel
<1>3. ASSUME NEW c, Control(c) PROVE IrqInv'
  BY <1>3, Untouched DEF Control, Others, WriteGp1
<1>4. CASE ReadWord
  BY <1>4, Untouched DEF ReadWord, Others, ReadGpu
<1>5. ASSUME NEW b, ReadBlock(b) PROVE IrqInv'
  <2>1. use.kind # "irq" /\ UNCHANGED <<use, irqProgVars>>
    BY <1>5 DEF ReadBlock, Others
  <2>2. \E a, bs, cs : StartChannel(GpuChannel, a, bs, cs)
    BY <1>5 DEF ReadBlock
  <2> QED BY <2>1, <2>2, ProgramStarts DEF Channels, GpuChannel
<1> QED BY <1>1, <1>2, <1>3, <1>4, <1>5

LEMMA MovieSteps ==
  ASSUME IrqInv, \/ \E n \in Field(use, "chunks", {}) : FeedByDma(n)
                 \/ FeedByCpu
                 \/ \E n \in Field(use, "chunks", {}) : Drain(n)
                 \/ OpenUpload \/ Upload \/ Restart
  PROVE  IrqInv'
<1>1. ASSUME NEW n, FeedByDma(n) PROVE IrqInv'
  <2>1. use.kind # "irq" /\ UNCHANGED <<use, irqProgVars>>
    BY <1>1 DEF FeedByDma, Others
  <2>2. \E a, bs, cs : StartChannel(MdecIn, a, bs, cs)
    BY <1>1 DEF FeedByDma
  <2> QED BY <2>1, <2>2, ProgramStarts DEF Channels, MdecIn
<1>2. CASE FeedByCpu
  BY <1>2, Untouched DEF FeedByCpu, Others, WriteMdec
<1>3. ASSUME NEW n, Drain(n) PROVE IrqInv'
  <2>1. use.kind # "irq" /\ UNCHANGED <<use, irqProgVars>>
    BY <1>3 DEF Drain, Others
  <2>2. \E a, bs, cs : StartChannel(MdecOut, a, bs, cs)
    BY <1>3 DEF Drain
  <2> QED BY <2>1, <2>2, ProgramStarts DEF Channels, MdecOut
<1>4. CASE OpenUpload
  BY <1>4, Untouched DEF OpenUpload, Others, WriteGp0
<1>5. CASE Upload
  <2>1. use.kind # "irq" /\ UNCHANGED <<use, irqProgVars>>
    BY <1>5 DEF Upload, Others
  <2>2. \E a, bs, cs : StartChannel(GpuChannel, a, bs, cs)
    BY <1>5 DEF Upload
  <2> QED BY <2>1, <2>2, ProgramStarts DEF Channels, GpuChannel
<1>6. CASE Restart
  BY <1>6, Untouched DEF Restart, Others, ControlMdec
<1> QED BY <1>1, <1>2, <1>3, <1>4, <1>5, <1>6

LEMMA IrqNext == IrqInv /\ [Next]_vars => IrqInv'
<1> SUFFICES ASSUME IrqInv, [Next]_vars PROVE IrqInv'
  OBVIOUS
<1>1. CASE UNCHANGED vars
  BY <1>1, Untouched DEF vars, dmaVars
<1>2. CASE \E c \in Field(use, "control", {}) : Configure(c)
  BY <1>2, ConfigureStep
<1>3. CASE \E ch \in Field(use, "channels", {}), c \in Field(use, "modes", {}) : Start(ch, c)
  BY <1>3, StartStep
<1>4. CASE Enter \/ ReadFlags \/ AckFlags
  BY <1>4, EnterStep, ReadFlagsStep, AckFlagsStep
<1> QED BY <1>1, <1>2, <1>3, <1>4, ListSteps, PortSteps, MovieSteps DEF Next

\* For every set of programs, memory size and picture size: bit 31 of DICR is always
\* the force bit or an enabled and flagged channel under the master enable, and a
\* completion that was to interrupt reaches the handler (raise_completion,
\* update_dicr_master and the DICR write of dma.rs).
THEOREM IrqInvariant == Spec => []IrqInv
<1>1. Init => IrqInv
  BY IrqInit
<1>2. IrqInv /\ [Next]_vars => IrqInv'
  BY IrqNext
<1> QED BY <1>1, <1>2, PTL DEF Spec

\* The property of the runs: no completion is lost between DICR, I_STAT and the handler.
THEOREM NoCompletionIsLost == Spec => []CompletionsReachTheHandler
<1>1. IrqInv => CompletionsReachTheHandler
  BY DEF IrqInv
<1> QED BY <1>1, IrqInvariant, PTL

(***************************************************************************)
(* Numbers                                                                 *)
(***************************************************************************)
\* A set of naturals has a least one.
LEMMA LeastNatural ==
  ASSUME NEW T \in SUBSET Nat, T # {}
  PROVE  \E m \in T : \A n \in T : m <= n
<1>1. PICK m \in T : \A n \in T : ~ (<<n, m>> \in OpToRel(<, Nat))
  BY WFMin, NatLessThanWellFounded
<1>2. \A n \in T : ~ (n < m)
  BY <1>1 DEF OpToRel
<1> QED BY <1>2

\* A set of naturals with 0 and, with each number, the next one.
LEMMA Induction ==
  ASSUME NEW T \in SUBSET Nat, 0 \in T, \A n \in T : n + 1 \in T
  PROVE  T = Nat
<1> SUFFICES ASSUME Nat \ T # {} PROVE FALSE
  OBVIOUS
<1>1. PICK m \in Nat \ T : \A n \in Nat \ T : m <= n
  BY LeastNatural
<1>2. m # 0 /\ m - 1 \in Nat /\ m - 1 < m
  BY <1>1
<1>3. m - 1 \in T
  BY <1>1, <1>2
<1> QED BY <1>1, <1>2, <1>3

(***************************************************************************)
(* The reference: the commands of a stream from the word at i on           *)
(***************************************************************************)
Vocabulary(S) == \A w \in S : IsWord(w)
Phrases(S) == Seq(S)

LastWord(s, i) == IF PolyLine(s[i]) THEN CommandEnd(s, i) - 1 ELSE CommandEnd(s, i)
NextStart(s, i) == CommandEnd(s, i) + 1 + PixelWords(s, i, CommandEnd(s, i))

Continued(s, f, i) ==
  IF i = Len(s) + 1 \/ CommandEnd(s, i) > Len(s) THEN <<>>
  ELSE <<SubSeq(s, i, LastWord(s, i))>>
         \o IF NextStart(s, i) > Len(s) THEN <<>> ELSE f[NextStart(s, i)]

Parses(s, f) == f = [i \in 1..(Len(s) + 1) |-> Continued(s, f, i)]
Parse(s)     == CHOOSE f : Parses(s, f)
From(s, i)   == IF i > Len(s) THEN <<>> ELSE Parse(s)[i]

\* A command has words, a load three.
LEMMA WordCountType ==
  ASSUME NEW w
  PROVE  WordCount(w) \in Nat \ {0} /\ (Op(w) = "load" => WordCount(w) = 3)
<1> DEFINE counts == [fill |-> 3, copy |-> 4, load |-> 3, store |-> 3,
                  line |-> 3 + One(Shaded(w)),
                  rect |-> 2 + One(Textured(w)) + One(Sized(w)),
                  poly |-> 1 + (IF More(w) THEN 4 ELSE 3) + One(Textured(w)) * (IF More(w) THEN 4 ELSE 3)
                             + One(Shaded(w)) * ((IF More(w) THEN 4 ELSE 3) - 1)]
<1>1. WordCount(w) = IF Op(w) \in DOMAIN counts THEN counts[Op(w)] ELSE 1
  BY DEF WordCount, Field
<1>2. \A b : One(b) \in {0, 1}
  BY DEF One
<1>3. (IF More(w) THEN 4 ELSE 3) \in {3, 4}
  OBVIOUS
<1>4. counts.line \in {3, 4} /\ counts.rect \in {2, 3, 4}
  BY <1>2
<1>5. \A c \in {3, 4}, a \in {0, 1}, b \in {0, 1} : 1 + c + a * c + b * (c - 1) \in Nat \ {0}
  OBVIOUS
<1>6. counts.poly \in Nat \ {0}
  BY <1>2, <1>3, <1>5
<1>7. DOMAIN counts = {"fill", "copy", "load", "store", "line", "rect", "poly"}
      /\ counts.fill = 3 /\ counts.copy = 4 /\ counts.load = 3 /\ counts.store = 3
  OBVIOUS
<1> HIDE DEF counts
<1> QED BY <1>1, <1>4, <1>6, <1>7

\* The rectangle of a load or store holds a pixel at least.
LEMMA TransferType ==
  ASSUME NEW at, NEW size, IsWord(at), IsWord(size)
  PROVE  /\ Transfer(at, size) \in Transfers
         /\ Area(Transfer(at, size)) \in Nat \ {0}
         /\ Transfer(at, size).done = 0
         /\ Transfer(at, size).w \in Nat \ {0} /\ Transfer(at, size).h \in Nat \ {0}
<1>1. \A n \in Nat, m \in Nat \ {0} : Wrapped(n, m) \in Nat \ {0}
  BY DEF Wrapped
<1>2. Transfer(at, size).w \in Nat \ {0} /\ Transfer(at, size).h \in Nat \ {0}
  BY <1>1, Gp0Assumption DEF IsWord, Transfer
<1>3. \A a \in Nat \ {0}, b \in Nat \ {0} : a * b \in Nat \ {0}
  OBVIOUS
<1> QED BY <1>2, <1>3 DEF Transfer, Transfers, Area, IsWord

\* A poly-line ends behind its first word.
LEMMA LineEndType ==
  ASSUME NEW S, NEW s \in Seq(S), NEW i \in 1..Len(s)
  PROVE  LineEnd(s, i) \in (i + 1)..(Len(s) + 1)
<1> DEFINE ends == {j \in (i + 1)..Len(s) :
                 Stop(s[j]) /\ (Shaded(s[i]) => (j - i) >= 2 /\ (j - i) % 2 = 0)}
<1>1. LineEnd(s, i) = IF ends = {} THEN Len(s) + 1 ELSE CHOOSE j \in ends : \A k \in ends : j <= k
  BY DEF LineEnd
<1>2. Len(s) \in Nat
  OBVIOUS
<1>3. CASE ends = {}
  BY <1>1, <1>2, <1>3
<1>4. CASE ends # {}
  <2>1. ends \in SUBSET Nat /\ ends \subseteq (i + 1)..Len(s)
    BY <1>2
  <2> HIDE DEF ends
  <2>2. \E j \in ends : \A k \in ends : j <= k
    BY <1>4, <2>1, LeastNatural
  <2>3. LineEnd(s, i) \in ends
    BY <1>1, <1>4, <2>2
  <2>4. LineEnd(s, i) \in (i + 1)..Len(s)
    BY <2>1, <2>3, Zenon
  <2> HIDE DEF ends
  <2> QED BY <1>2, <2>4
<1> QED BY <1>3, <1>4

\* A whole command ends in the stream, and what follows it starts behind it.
LEMMA StepForward ==
  ASSUME NEW S, Vocabulary(S), NEW s \in Seq(S), NEW i \in 1..Len(s), CommandEnd(s, i) <= Len(s)
  PROVE  /\ CommandEnd(s, i) \in i..Len(s)
         /\ PixelWords(s, i, CommandEnd(s, i)) \in Nat
         /\ NextStart(s, i) \in Nat /\ NextStart(s, i) > i
         /\ LastWord(s, i) \in i..Len(s)
<1>1. Len(s) \in Nat /\ \A j \in 1..Len(s) : IsWord(s[j])
  BY DEF Vocabulary
<1>2. CASE PolyLine(s[i])
  <2>1. CommandEnd(s, i) \in (i + 1)..Len(s)
    BY <1>1, <1>2, LineEndType DEF CommandEnd
  <2>2. PixelWords(s, i, CommandEnd(s, i)) = 0
    BY <1>2 DEF PixelWords, PolyLine
  <2> QED BY <1>1, <1>2, <2>1, <2>2 DEF NextStart, LastWord
<1>3. CASE ~PolyLine(s[i])
  <2>1. CommandEnd(s, i) = i + WordCount(s[i]) - 1 /\ WordCount(s[i]) \in Nat \ {0}
    BY <1>3, WordCountType DEF CommandEnd
  <2>2. CommandEnd(s, i) \in i..Len(s)
    BY <1>1, <2>1
  <2>3. PixelWords(s, i, CommandEnd(s, i)) \in Nat
    <3>1. CASE Op(s[i]) = "load"
      <4>1. i + 1 \in 1..Len(s) /\ CommandEnd(s, i) \in 1..Len(s)
        BY <1>1, <2>1, <2>2, <3>1, WordCountType
      <4>2. Area(Transfer(s[i + 1], s[CommandEnd(s, i)])) \in Nat \ {0}
        BY <1>1, <4>1, TransferType
      <4> QED BY <3>1, <4>2 DEF PixelWords
    <3>2. CASE Op(s[i]) # "load"
      BY <3>2 DEF PixelWords
    <3> QED BY <3>1, <3>2
  <2> QED BY <1>1, <1>3, <2>2, <2>3 DEF NextStart, LastWord
<1> QED BY <1>2, <1>3

\* The commands from i on are phrases, if those behind are.
LEMMA ContinuedType ==
  ASSUME NEW S, Vocabulary(S), NEW s \in Seq(S), NEW i \in 1..(Len(s) + 1), NEW f,
         \A j \in (i + 1)..(Len(s) + 1) : f[j] \in Seq(Phrases(S))
  PROVE  Continued(s, f, i) \in Seq(Phrases(S))
<1>1. CASE i = Len(s) + 1 \/ CommandEnd(s, i) > Len(s)
  BY <1>1 DEF Continued
<1>2. CASE ~ (i = Len(s) + 1 \/ CommandEnd(s, i) > Len(s))
  <2>1. Len(s) \in Nat /\ i \in 1..Len(s)
    BY <1>2
  <2>2. CommandEnd(s, i) <= Len(s)
    <3>1. CommandEnd(s, i) \in Nat
      BY <2>1, LineEndType, WordCountType DEF CommandEnd
    <3> QED BY <1>2, <2>1, <3>1
  <2>3. NextStart(s, i) \in Nat /\ NextStart(s, i) > i /\ LastWord(s, i) \in i..Len(s)
    BY <2>1, <2>2, StepForward
  <2>4. SubSeq(s, i, LastWord(s, i)) \in Seq(S)
    <3>1. \A j \in i..LastWord(s, i) : s[j] \in S
      BY <2>1, <2>3
    <3> QED BY <2>1, <2>3, <3>1, SubSeqProperties
  <2>5. (IF NextStart(s, i) > Len(s) THEN <<>> ELSE f[NextStart(s, i)]) \in Seq(Phrases(S))
    <3>1. CASE NextStart(s, i) > Len(s)
      BY <3>1
    <3>2. CASE ~ (NextStart(s, i) > Len(s))
      <4>1. NextStart(s, i) \in (i + 1)..(Len(s) + 1)
        BY <2>1, <2>3, <3>2
      <4> QED BY <3>2, <4>1
    <3> QED BY <3>1, <3>2
  <2>6. <<SubSeq(s, i, LastWord(s, i))>> \in Seq(Phrases(S))
    <3>1. SubSeq(s, i, LastWord(s, i)) \in Phrases(S)
      BY <2>4 DEF Phrases
    <3> QED BY <3>1
  <2>7. Continued(s, f, i) = <<SubSeq(s, i, LastWord(s, i))>>
         \o IF NextStart(s, i) > Len(s) THEN <<>> ELSE f[NextStart(s, i)]
    BY <1>2 DEF Continued
  <2> QED BY <2>5, <2>6, <2>7, ConcatProperties
<1> QED BY <1>1, <1>2

\* What stands at i depends on what stands behind i only.
LEMMA ContinuedLooksAhead ==
  ASSUME NEW S, Vocabulary(S), NEW s \in Seq(S), NEW i \in 1..(Len(s) + 1), NEW f, NEW g,
         \A j \in (i + 1)..(Len(s) + 1) : f[j] = g[j]
  PROVE  Continued(s, f, i) = Continued(s, g, i)
<1>1. CASE i = Len(s) + 1 \/ CommandEnd(s, i) > Len(s)
  BY <1>1 DEF Continued
<1>2. CASE ~ (i = Len(s) + 1 \/ CommandEnd(s, i) > Len(s))
  <2>1. Len(s) \in Nat /\ i \in 1..Len(s)
    BY <1>2
  <2>2. CommandEnd(s, i) <= Len(s)
    <3>1. CommandEnd(s, i) \in Nat
      BY <2>1, LineEndType, WordCountType DEF CommandEnd
    <3> QED BY <1>2, <2>1, <3>1
  <2>3. NextStart(s, i) \in Nat /\ NextStart(s, i) > i
    BY <2>1, <2>2, StepForward
  <2>4. CASE NextStart(s, i) > Len(s)
    BY <2>4 DEF Continued
  <2>5. CASE ~ (NextStart(s, i) > Len(s))
    <3>1. NextStart(s, i) \in (i + 1)..(Len(s) + 1)
      BY <2>1, <2>3, <2>5
    <3>2. f[NextStart(s, i)] = g[NextStart(s, i)]
      BY <3>1
    <3> QED BY <3>2 DEF Continued
  <2> QED BY <2>4, <2>5
<1> QED BY <1>1, <1>2

\* The reference's recursion is a function's: built from the end of the stream.
LEMMA ParseExists ==
  ASSUME NEW S, Vocabulary(S), NEW s \in Seq(S)
  PROVE  \E f \in [1..(Len(s) + 1) -> Seq(Phrases(S))] : Parses(s, f)
<1> DEFINE n == Len(s) + 1
           Behind(k, f) == \A i \in (n + 1 - k)..n : f[i] = Continued(s, f, i)
           T == {k \in Nat : k <= n => \E f \in [1..n -> Seq(Phrases(S))] : Behind(k, f)}
<1>1. n \in Nat \ {0}
  OBVIOUS
<1>2. 0 \in T
  <2>1. [i \in 1..n |-> <<>>] \in [1..n -> Seq(Phrases(S))]
    OBVIOUS
  <2>2. Behind(0, [i \in 1..n |-> <<>>])
    BY <1>1
  <2> QED BY <2>1, <2>2
<1>3. ASSUME NEW k \in T PROVE k + 1 \in T
  <2> SUFFICES ASSUME k + 1 <= n
               PROVE  \E f \in [1..n -> Seq(Phrases(S))] : Behind(k + 1, f)
    OBVIOUS
  <2>0. k \in Nat /\ k <= n
    BY <1>1
  <2>1. PICK f \in [1..n -> Seq(Phrases(S))] : Behind(k, f)
    BY <2>0
  <2> DEFINE i == n - k
             g == [f EXCEPT ![i] = Continued(s, f, i)]
  <2>2. i \in 1..n /\ n + 1 - (k + 1) = i /\ n + 1 - k = i + 1
    BY <1>1, <2>0
  <2>3. Continued(s, f, i) \in Seq(Phrases(S))
    <3>1. \A j \in (i + 1)..n : f[j] \in Seq(Phrases(S))
      BY <2>1, <2>2, <1>1
    <3> QED BY <2>2, <3>1, ContinuedType
  <2>4. g \in [1..n -> Seq(Phrases(S))] /\ g[i] = Continued(s, f, i)
        /\ \A j \in 1..n : j # i => g[j] = f[j]
    BY <2>1, <2>2, <2>3
  <2> HIDE DEF g
  <2>5. \A j \in i..n : Continued(s, g, j) = Continued(s, f, j)
    <3> SUFFICES ASSUME NEW j \in i..n PROVE Continued(s, g, j) = Continued(s, f, j)
      OBVIOUS
    <3>1. j \in 1..n /\ \A m \in (j + 1)..n : m \in 1..n /\ m # i
      BY <1>1, <2>2
    <3>2. \A m \in (j + 1)..n : g[m] = f[m]
      BY <2>4, <3>1
    <3> QED BY <3>1, <3>2, ContinuedLooksAhead
  <2>6. \A j \in i..n : g[j] = Continued(s, g, j)
    <3> SUFFICES ASSUME NEW j \in i..n PROVE g[j] = Continued(s, g, j)
      OBVIOUS
    <3>1. CASE j = i
      BY <2>4, <2>5, <3>1
    <3>2. CASE j # i
      <4>1. j \in (n + 1 - k)..n /\ j \in 1..n
        BY <1>1, <2>2, <3>2
      <4> QED BY <2>1, <2>4, <2>5, <3>2, <4>1
    <3> QED BY <3>1, <3>2
  <2>7. Behind(k + 1, g)
    BY <2>2, <2>6
  <2> QED BY <2>4, <2>7
<1>4. T = Nat
  <2>1. T \in SUBSET Nat
    OBVIOUS
  <2> HIDE DEF T
  <2> QED BY <1>2, <1>3, <2>1, Induction
<1>5. PICK f \in [1..n -> Seq(Phrases(S))] : Behind(n, f)
  BY <1>1, <1>4
<1>6. \A i \in 1..n : f[i] = Continued(s, f, i)
  BY <1>1, <1>5
<1>7. Parses(s, f)
  BY <1>5, <1>6 DEF Parses
<1> QED BY <1>5, <1>7

\* The commands found are phrases of the stream.
LEMMA ParseType ==
  ASSUME NEW S, Vocabulary(S), NEW s \in Seq(S)
  PROVE  /\ \A i \in 1..(Len(s) + 1) : Parse(s)[i] = Continued(s, Parse(s), i)
         /\ \A i \in Nat \ {0} : From(s, i) \in Seq(Phrases(S))
<1>1. Parses(s, Parse(s))
  BY ParseExists DEF Parse
<1> DEFINE n == Len(s) + 1
           T == {k \in Nat : k <= n => \A i \in (n + 1 - k)..n : Parse(s)[i] \in Seq(Phrases(S))}
<1>2. \A i \in 1..n : Parse(s)[i] = Continued(s, Parse(s), i)
  BY <1>1 DEF Parses
<1>3. n \in Nat \ {0}
  OBVIOUS
<1>4. 0 \in T
  BY <1>3
<1>5. ASSUME NEW k \in T PROVE k + 1 \in T
  <2> SUFFICES ASSUME k + 1 <= n, NEW j \in (n + 1 - (k + 1))..n PROVE Parse(s)[j] \in Seq(Phrases(S))
    OBVIOUS
  <2> DEFINE i == n - k
  <2>1. i \in 1..n /\ n + 1 - (k + 1) = i /\ n + 1 - k = i + 1 /\ k <= n
    BY <1>3
  <2>2. \A m \in (i + 1)..n : Parse(s)[m] \in Seq(Phrases(S))
    BY <2>1
  <2>3. Parse(s)[i] \in Seq(Phrases(S))
    BY <1>2, <2>1, <2>2, ContinuedType
  <2> QED BY <1>3, <2>1, <2>2, <2>3
<1>6. T = Nat
  <2>1. T \in SUBSET Nat
    OBVIOUS
  <2> HIDE DEF T
  <2> QED BY <1>4, <1>5, <2>1, Induction
<1>7. \A i \in 1..n : Parse(s)[i] \in Seq(Phrases(S))
  BY <1>3, <1>6
<1>8. ASSUME NEW i \in Nat \ {0} PROVE From(s, i) \in Seq(Phrases(S))
  BY <1>3, <1>7 DEF From
<1> QED BY <1>2, <1>8

\* A command that is not whole is none; a whole one is followed by the rest.
LEMMA FromStep ==
  ASSUME NEW S, Vocabulary(S), NEW s \in Seq(S), NEW i \in Nat \ {0}
  PROVE  /\ i > Len(s) => From(s, i) = <<>>
         /\ i <= Len(s) /\ CommandEnd(s, i) > Len(s) => From(s, i) = <<>>
         /\ i <= Len(s) /\ CommandEnd(s, i) <= Len(s)
              => From(s, i) = <<SubSeq(s, i, LastWord(s, i))>> \o From(s, NextStart(s, i))
         /\ From(s, 1) = Commands(s)
<1>1. i > Len(s) => From(s, i) = <<>>
  BY DEF From
<1>2. i <= Len(s) => i \in 1..(Len(s) + 1) /\ i \in 1..Len(s) /\ ~ (i > Len(s)) /\ i # Len(s) + 1
  OBVIOUS
<1>3. i <= Len(s) => From(s, i) = Continued(s, Parse(s), i)
  BY <1>2, ParseType DEF From
<1>4. i <= Len(s) /\ CommandEnd(s, i) > Len(s) => From(s, i) = <<>>
  BY <1>3 DEF Continued
<1>5. i <= Len(s) /\ CommandEnd(s, i) <= Len(s)
              => From(s, i) = <<SubSeq(s, i, LastWord(s, i))>> \o From(s, NextStart(s, i))
  <2> SUFFICES ASSUME i <= Len(s), CommandEnd(s, i) <= Len(s)
               PROVE  From(s, i) = <<SubSeq(s, i, LastWord(s, i))>> \o From(s, NextStart(s, i))
    OBVIOUS
  <2>1. CommandEnd(s, i) \in i..Len(s)
    BY <1>2, StepForward
  <2>2. ~ (i = Len(s) + 1 \/ CommandEnd(s, i) > Len(s))
    BY <1>2, <2>1
  <2> QED BY <1>3, <2>2 DEF Continued, From
<1>6. From(s, 1) = Commands(s)
  <2>1. Commands(s) = Parse(s)[1]
    BY DEF Commands, Parse, Parses, Continued, LastWord, NextStart
  <2>2. CASE Len(s) = 0
    <3>1. 1 \in 1..(Len(s) + 1)
      BY <2>2
    <3>2. Parse(s)[1] = Continued(s, Parse(s), 1)
      BY <3>1, ParseType
    <3> QED BY <2>1, <2>2, <3>2 DEF From, Continued
  <2>3. CASE Len(s) # 0
    <3>1. ~ (1 > Len(s))
      BY <2>3
    <3> QED BY <2>1, <3>1 DEF From
  <2> QED BY <2>2, <2>3
<1> QED BY <1>1, <1>4, <1>5, <1>6

(***************************************************************************)
(* The parser: what it has read of the command it is in                    *)
(***************************************************************************)
GpuFields == {"buf", "need", "line", "shaded", "load", "store", "latch", "irq", "screen",
              "drawn", "vram"}

\* The words of s from p on.
Rest(s, p) == SubSeq(s, p, Len(s))

\* The word at j would end the poly-line that starts at p.
EndsLine(s, p, j) == Stop(s[j]) /\ (Shaded(s[p]) => (j - p) >= 2 /\ (j - p) % 2 = 0)

InIdle(g, s, p) ==
  p = Len(s) + 1 /\ g.load = NoTransfer /\ ~g.line /\ g.need = 0

\* p is where the pixels end.
InPixels(g, s, p) ==
  /\ g.load \in Transfers /\ g.load.w \in Nat \ {0} /\ g.load.h \in Nat \ {0}
  /\ g.load.done < Area(g.load)
  /\ p = Len(s) + 1 + (Area(g.load) - g.load.done + 1) \div 2
  /\ ~g.line /\ g.need = 0

InLine(g, s, p) ==
  /\ g.load = NoTransfer /\ g.line /\ g.need = 0
  /\ p \in 1..Len(s) /\ PolyLine(s[p]) /\ g.shaded = Shaded(s[p])
  /\ g.buf = Rest(s, p)
  /\ \A j \in (p + 1)..Len(s) : ~EndsLine(s, p, j)

InPacket(g, s, p) ==
  /\ g.load = NoTransfer /\ ~g.line /\ g.need = WordCount(s[p])
  /\ p \in 1..Len(s) /\ ~PolyLine(s[p])
  /\ g.buf = Rest(s, p)
  /\ Len(s) - p + 1 < g.need

At(g, s, p) == InIdle(g, s, p) \/ InPixels(g, s, p) \/ InLine(g, s, p) \/ InPacket(g, s, p)

\* What comes behind s is read from p on, wherever it will end.
ReadsOn(S, read, s, p) ==
  \A t \in Seq(S) : From(s \o t, 1) = read \o From(s \o t, p)

ParsedIn(S, g, s) ==
  /\ g.drawn \in Seq(Phrases(S))
  /\ \E p \in Nat \ {0} : At(g, s, p) /\ ReadsOn(S, g.drawn, s, p)

Parsed(g, s) ==
  /\ DOMAIN g = GpuFields
  /\ \A S : Vocabulary(S) /\ s \in Seq(S) => ParsedIn(S, g, s)

\* What Execute leaves of the parser's state.
Executed(g, r) ==
  /\ DOMAIN r = GpuFields /\ r.need = 0 /\ r.line = g.line /\ r.latch = g.latch
  /\ r.drawn = Append(g.drawn, g.buf)
  /\ r.load = IF Op(g.buf[1]) = "load" THEN Transfer(g.buf[2], g.buf[3]) ELSE g.load

\* A finished command is noted; only a load changes what the next word is.
LEMMA ExecuteFields ==
  ASSUME NEW g, DOMAIN g = GpuFields
  PROVE  Executed(g, Execute(g))
<1> DEFINE r == [g EXCEPT !.buf = <<>>, !.need = 0, !.drawn = Append(g.drawn, g.buf)]
<1>1. /\ DOMAIN r = GpuFields /\ r.need = 0 /\ r.line = g.line /\ r.load = g.load
      /\ r.latch = g.latch
      /\ r.drawn = Append(g.drawn, g.buf)
  BY DEF GpuFields
<1> DEFINE o == Op(g.buf[1])
<1>2. Execute(g) =
        CASE o = "irq"   -> [r EXCEPT !.irq = TRUE]
          [] o = "fill"  -> [r EXCEPT !.vram = Filled(r.vram, g.buf[1], g.buf[2], g.buf[3])]
          [] o = "copy"  ->
               [r EXCEPT !.vram = Copied(r.vram, Transfer(g.buf[2], g.buf[4]), Transfer(g.buf[3], g.buf[4]))]
          [] o = "load"  -> [r EXCEPT !.load = Transfer(g.buf[2], g.buf[3])]
          [] o = "store" -> [r EXCEPT !.store = StoreTransfer(g.buf[2], g.buf[3])]
          [] OTHER -> r
  BY DEF Execute
<1> HIDE DEF r, o
<1>3. \A v : /\ DOMAIN [r EXCEPT !.irq = v] = GpuFields
             /\ [r EXCEPT !.irq = v].need = r.need /\ [r EXCEPT !.irq = v].line = r.line
             /\ [r EXCEPT !.irq = v].latch = r.latch
             /\ [r EXCEPT !.irq = v].drawn = r.drawn /\ [r EXCEPT !.irq = v].load = r.load
  BY <1>1 DEF GpuFields
<1>4. \A v : /\ DOMAIN [r EXCEPT !.vram = v] = GpuFields
             /\ [r EXCEPT !.vram = v].need = r.need /\ [r EXCEPT !.vram = v].line = r.line
             /\ [r EXCEPT !.vram = v].latch = r.latch
             /\ [r EXCEPT !.vram = v].drawn = r.drawn /\ [r EXCEPT !.vram = v].load = r.load
  BY <1>1 DEF GpuFields
<1>5. \A v : /\ DOMAIN [r EXCEPT !.store = v] = GpuFields
             /\ [r EXCEPT !.store = v].need = r.need /\ [r EXCEPT !.store = v].line = r.line
             /\ [r EXCEPT !.store = v].latch = r.latch
             /\ [r EXCEPT !.store = v].drawn = r.drawn /\ [r EXCEPT !.store = v].load = r.load
  BY <1>1 DEF GpuFields
<1>6. \A v : /\ DOMAIN [r EXCEPT !.load = v] = GpuFields
             /\ [r EXCEPT !.load = v].need = r.need /\ [r EXCEPT !.load = v].line = r.line
             /\ [r EXCEPT !.load = v].latch = r.latch
             /\ [r EXCEPT !.load = v].drawn = r.drawn /\ [r EXCEPT !.load = v].load = v
  BY <1>1 DEF GpuFields
<1>7. CASE o = "irq"
  <2>1. Execute(g) = [r EXCEPT !.irq = TRUE]
    BY <1>2, <1>7
  <2> QED BY <1>1, <1>3, <1>7, <2>1 DEF Executed, o
<1>8. CASE o = "fill"
  <2>1. Execute(g) = [r EXCEPT !.vram = Filled(r.vram, g.buf[1], g.buf[2], g.buf[3])]
    BY <1>2, <1>8
  <2> QED BY <1>1, <1>4, <1>8, <2>1 DEF Executed, o
<1>9. CASE o = "copy"
  <2>1. Execute(g) = [r EXCEPT !.vram = Copied(r.vram, Transfer(g.buf[2], g.buf[4]), Transfer(g.buf[3], g.buf[4]))]
    BY <1>2, <1>9
  <2> QED BY <1>1, <1>4, <1>9, <2>1 DEF Executed, o
<1>10. CASE o = "load"
  <2>1. Execute(g) = [r EXCEPT !.load = Transfer(g.buf[2], g.buf[3])]
    BY <1>2, <1>10
  <2> QED BY <1>1, <1>6, <1>10, <2>1 DEF Executed, o
<1>11. CASE o = "store"
  <2>1. Execute(g) = [r EXCEPT !.store = StoreTransfer(g.buf[2], g.buf[3])]
    BY <1>2, <1>11
  <2> QED BY <1>1, <1>5, <1>11, <2>1 DEF Executed, o
<1>12. CASE o \notin {"irq", "fill", "copy", "load", "store"}
  <2>1. Execute(g) = r
    BY <1>2, <1>12
  <2> QED BY <1>1, <1>12, <2>1 DEF Executed, o
<1> QED BY <1>7, <1>8, <1>9, <1>10, <1>11, <1>12

(***************************************************************************)
(* One more word                                                           *)
(***************************************************************************)
\* The word w behind s, and what follows it.
LEMMA OneMore ==
  ASSUME NEW S, NEW s \in Seq(S), NEW w \in S
  PROVE  /\ Append(s, w) \in Seq(S) /\ Len(Append(s, w)) = Len(s) + 1
         /\ \A j \in 1..Len(s) : Append(s, w)[j] = s[j]
         /\ Append(s, w)[Len(s) + 1] = w
         /\ \A t \in Seq(S) :
              /\ <<w>> \o t \in Seq(S)
              /\ Append(s, w) \o t \in Seq(S)
              /\ Append(s, w) \o t = s \o (<<w>> \o t)
              /\ Len(Append(s, w) \o t) = Len(s) + 1 + Len(t)
              /\ \A j \in 1..(Len(s) + 1) : (Append(s, w) \o t)[j] = Append(s, w)[j]
<1>1. /\ Append(s, w) \in Seq(S) /\ Len(Append(s, w)) = Len(s) + 1
      /\ \A j \in 1..Len(s) : Append(s, w)[j] = s[j]
      /\ Append(s, w)[Len(s) + 1] = w
  OBVIOUS
<1>2. <<w>> \in Seq(S) /\ Append(s, w) = s \o <<w>>
  OBVIOUS
<1>3. ASSUME NEW t \in Seq(S)
      PROVE  /\ <<w>> \o t \in Seq(S)
             /\ Append(s, w) \o t \in Seq(S)
             /\ Append(s, w) \o t = s \o (<<w>> \o t)
             /\ Len(Append(s, w) \o t) = Len(s) + 1 + Len(t)
             /\ \A j \in 1..(Len(s) + 1) : (Append(s, w) \o t)[j] = Append(s, w)[j]
  <2>1. (s \o <<w>>) \o t = s \o (<<w>> \o t)
    BY <1>2, ConcatAssociative
  <2>2. <<w>> \o t \in Seq(S)
    BY <1>2, ConcatProperties
  <2>3. /\ Append(s, w) \o t \in Seq(S)
        /\ Len(Append(s, w) \o t) = Len(Append(s, w)) + Len(t)
        /\ \A j \in 1..(Len(Append(s, w)) + Len(t)) :
             (Append(s, w) \o t)[j] = IF j <= Len(Append(s, w)) THEN Append(s, w)[j]
                                      ELSE t[j - Len(Append(s, w))]
    BY <1>1, ConcatProperties
  <2>4. Len(s) \in Nat /\ Len(t) \in Nat
    OBVIOUS
  <2> QED BY <1>1, <1>2, <2>1, <2>2, <2>3, <2>4
<1> QED BY <1>1, <1>3

\* The reading goes on from p when nothing was finished.
LEMMA ReadsOnStill ==
  ASSUME NEW S, NEW s \in Seq(S), NEW w \in S, NEW d, NEW p, ReadsOn(S, d, s, p)
  PROVE  ReadsOn(S, d, Append(s, w), p)
<1> SUFFICES ASSUME NEW t \in Seq(S)
             PROVE  From(Append(s, w) \o t, 1) = d \o From(Append(s, w) \o t, p)
  BY DEF ReadsOn
<1>1. <<w>> \o t \in Seq(S) /\ Append(s, w) \o t = s \o (<<w>> \o t)
  BY OneMore
<1> QED BY <1>1 DEF ReadsOn

\* A sequence with one more is that and a sequence of one.
LEMMA OneAppended ==
  ASSUME NEW T, NEW a \in Seq(T), NEW c \in T
  PROVE  /\ Append(a, c) \in Seq(T) /\ <<c>> \in Seq(T) /\ Append(a, c) = a \o <<c>>
  OBVIOUS

LEMMA ConcatAppend ==
  ASSUME NEW T, NEW a \in Seq(T), NEW c \in T, NEW r \in Seq(T)
  PROVE  a \o (<<c>> \o r) = Append(a, c) \o r
<1>1. Append(a, c) = a \o <<c>> /\ <<c>> \in Seq(T)
  BY OneAppended
<1>2. (a \o <<c>>) \o r = a \o (<<c>> \o r)
  BY <1>1, ConcatAssociative
<1> QED BY <1>1, <1>2

\* e is s and then w.
Then(e, s, w) == e = Append(s, w)

\* The words of s with one more.
LEMMA ThenFacts ==
  ASSUME NEW S, NEW s \in Seq(S), NEW w \in S, NEW e, Then(e, s, w)
  PROVE  /\ e \in Seq(S) /\ Len(e) = Len(s) + 1
         /\ (\A j \in 1..Len(s) : e[j] = s[j]) /\ e[Len(s) + 1] = w
  BY OneMore DEF Then

LEMMA ThenFollows ==
  ASSUME NEW S, NEW s \in Seq(S), NEW w \in S, NEW e, Then(e, s, w), NEW t \in Seq(S)
  PROVE  e \o t = s \o (<<w>> \o t) /\ <<w>> \o t \in Seq(S)
BY OneMore DEF Then

\* The command at p in u is c, ends at n and is followed by what is at q.
EndsAt(u, p, n, c, q) ==
  /\ CommandEnd(u, p) = n
  /\ SubSeq(u, p, LastWord(u, p)) = c
  /\ NextStart(u, p) = q

\* With w the command at p is whole.
LEMMA ReadsOnDone ==
  ASSUME NEW S, Vocabulary(S), NEW s \in Seq(S), NEW w \in S, NEW d \in Seq(Phrases(S)),
         NEW e, Then(e, s, w),
         NEW p \in 1..(Len(s) + 1), ReadsOn(S, d, s, p), NEW c \in Phrases(S),
         NEW q \in Nat \ {0},
         \A t \in Seq(S) : EndsAt(e \o t, p, Len(e), c, q)
  PROVE  Append(d, c) \in Seq(Phrases(S)) /\ ReadsOn(S, Append(d, c), e, q)
<1>1. Append(d, c) \in Seq(Phrases(S))
  BY OneAppended
<1>2. ASSUME NEW t \in Seq(S)
      PROVE  From(e \o t, 1) = Append(d, c) \o From(e \o t, q)
  <2> DEFINE u == e \o t
  <2>0. e = Append(s, w) /\ Len(e) = Len(s) + 1
    BY ThenFacts DEF Then
  <2>1. u \in Seq(S) /\ u = s \o (<<w>> \o t) /\ <<w>> \o t \in Seq(S)
        /\ Len(u) = Len(s) + 1 + Len(t) /\ Len(e) = Len(s) + 1
    BY <2>0, OneMore
  <2>2. EndsAt(u, p, Len(e), c, q)
    OBVIOUS
  <2> HIDE DEF u
  <2>3. Len(s) \in Nat /\ Len(t) \in Nat /\ p \in Nat \ {0}
    OBVIOUS
  <2>4. From(u, p) = <<c>> \o From(u, q)
    <3>1. p <= Len(u) /\ CommandEnd(u, p) <= Len(u)
      BY <2>1, <2>2, <2>3 DEF EndsAt
    <3> QED BY <2>1, <2>2, <2>3, <3>1, FromStep DEF EndsAt
  <2>5. From(u, q) \in Seq(Phrases(S))
    BY <2>1, ParseType
  <2>6. From(u, 1) = d \o From(u, p)
    BY <2>1 DEF ReadsOn
  <2>7. d \o (<<c>> \o From(u, q)) = Append(d, c) \o From(u, q)
    BY <2>5, ConcatAppend, SMTT(30)
  <2>8. From(u, 1) = Append(d, c) \o From(u, q)
    BY <1>1, <2>4, <2>6, <2>7
  <2> QED BY <2>8 DEF u
<1> QED BY <1>1, <1>2 DEF ReadsOn

\* A transfer is not None.
LEMMA LoadIsNone == \A t \in Transfers : t # NoTransfer
  BY Gp0Assumption

\* A pixel word.
LEMMA PushPixelsKeeps ==
  ASSUME NEW S, Vocabulary(S), NEW g, DOMAIN g = GpuFields, NEW s \in Seq(S), NEW w \in S,
         NEW p \in Nat \ {0}, InPixels(g, s, p)
  PROVE  LET h == Gp0Write(g, w)
         IN  DOMAIN h = GpuFields /\ h.drawn = g.drawn /\ At(h, Append(s, w), p)
<1> SUFFICES ASSUME NEW h, h = Gp0Write(g, w), NEW t, t = g.load
             PROVE  DOMAIN h = GpuFields /\ h.drawn = g.drawn /\ At(h, Append(s, w), p)
  OBVIOUS
<1>1. /\ t \in Transfers /\ t.w \in Nat \ {0} /\ t.h \in Nat \ {0} /\ t.done < Area(t)
      /\ p = Len(s) + 1 + (Area(t) - t.done + 1) \div 2
      /\ ~g.line /\ g.need = 0
  BY DEF InPixels
<1>2. g.load # NoTransfer
  BY <1>1, LoadIsNone
<1>3. Area(t) \in Nat /\ t.done \in Nat
  <2>1. \A a \in Nat, b \in Nat : a * b \in Nat
    OBVIOUS
  <2> QED BY <1>1, <2>1 DEF Area, Transfers
<1>4. h = PushPixels(g, w)
  BY <1>2 DEF Gp0Write
<1>5. /\ DOMAIN h = GpuFields /\ h.load = Advance(t, 2)
      /\ h.drawn = g.drawn /\ h.line = g.line /\ h.need = g.need
  BY <1>4 DEF PushPixels, GpuFields
<1>6. Len(Append(s, w)) = Len(s) + 1 /\ Len(s) \in Nat
  BY OneMore
<1>7. CASE t.done + 2 >= Area(t)
  <2>1. h.load = NoTransfer
    BY <1>5, <1>7 DEF Advance
  <2>2. \A a \in Nat, b \in Nat, n \in Nat : b < a /\ b + 2 >= a => n + 1 + (a - b + 1) \div 2 = n + 2
    OBVIOUS
  <2>3. p = Len(s) + 2
    BY <1>1, <1>3, <1>6, <1>7, <2>2, SMTT(60)
  <2> QED BY <1>1, <1>5, <1>6, <2>1, <2>3 DEF At, InIdle
<1>8. CASE ~ (t.done + 2 >= Area(t))
  <2>1. h.load = [t EXCEPT !.done = t.done + 2]
    BY <1>5, <1>8 DEF Advance
  <2>2. h.load \in Transfers /\ h.load.w = t.w /\ h.load.h = t.h /\ h.load.done = t.done + 2
    <3>1. t = [x |-> t.x, y |-> t.y, w |-> t.w, h |-> t.h, done |-> t.done]
          /\ t.x \in Nat /\ t.y \in Nat
      BY <1>1 DEF Transfers
    <3>2. h.load = [x |-> t.x, y |-> t.y, w |-> t.w, h |-> t.h, done |-> t.done + 2]
      BY <2>1, <3>1
    <3>3. t.done + 2 \in Nat
      BY <1>3
    <3> QED BY <1>1, <3>1, <3>2, <3>3 DEF Transfers
  <2>3. Area(h.load) = Area(t)
    BY <2>2 DEF Area
  <2>4. \A a \in Nat, b \in Nat, n \in Nat :
          ~ (b + 2 >= a) => n + 1 + (a - b + 1) \div 2 = n + 1 + 1 + (a - (b + 2) + 1) \div 2
    OBVIOUS
  <2>5. p = Len(Append(s, w)) + 1 + (Area(h.load) - h.load.done + 1) \div 2
    <3> DEFINE a == Area(t)
               b == t.done
    <3>1. Len(s) + 1 + (a - b + 1) \div 2 = Len(s) + 1 + 1 + (a - (b + 2) + 1) \div 2
      <4>1. a \in Nat /\ b \in Nat /\ ~ (b + 2 >= a) /\ Len(s) \in Nat
        BY <1>3, <1>6, <1>8
      <4> HIDE DEF a, b
      <4> QED BY <2>4, <4>1
    <3>2. Area(h.load) = a /\ h.load.done = b + 2
      BY <2>2, <2>3
    <3>3. p = Len(s) + 1 + (a - b + 1) \div 2
      BY <1>1
    <3> HIDE DEF a, b
    <3> QED BY <1>6, <3>1, <3>2, <3>3
  <2>6. h.load.done < Area(h.load)
    BY <1>3, <1>8, <2>2, <2>3
  <2>7. InPixels(h, Append(s, w), p)
    BY <1>1, <1>5, <2>2, <2>5, <2>6 DEF InPixels
  <2> QED BY <1>5, <2>7 DEF At
<1> QED BY <1>3, <1>7, <1>8

\* The words from p on.
LEMMA Kept ==
  ASSUME NEW S, NEW s \in Seq(S), NEW p \in 1..(Len(s) + 1)
  PROVE  /\ Rest(s, p) \in Seq(S) /\ Len(Rest(s, p)) = Len(s) - p + 1
         /\ \A i \in 1..(Len(s) - p + 1) : Rest(s, p)[i] = s[p + i - 1]
<1>1. \A j \in p..Len(s) : s[j] \in S
  OBVIOUS
<1>2. (IF p <= Len(s) THEN Len(s) - p + 1 ELSE 0) = Len(s) - p + 1
  OBVIOUS
<1> QED BY <1>1, <1>2, SubSeqProperties DEF Rest

\* The words kept of a command, with one more.
LEMMA OneKeptMore ==
  ASSUME NEW S, NEW s \in Seq(S), NEW w \in S, NEW p \in 1..(Len(s) + 1),
         NEW e, Then(e, s, w)
  PROVE  /\ Append(Rest(s, p), w) = Rest(e, p)
         /\ Rest(s, p) \in Seq(S) /\ Len(Rest(s, p)) = Len(s) - p + 1
         /\ Rest(e, p) \in Seq(S) /\ Len(Rest(e, p)) = Len(s) - p + 2
         /\ p = Len(s) + 1 => Rest(e, p) = <<w>>
<1>1. e \in Seq(S) /\ Len(e) = Len(s) + 1 /\ (\A j \in 1..Len(s) : e[j] = s[j]) /\ e[Len(s) + 1] = w
  BY ThenFacts
<1>2. /\ Rest(s, p) \in Seq(S) /\ Len(Rest(s, p)) = Len(s) - p + 1
      /\ \A i \in 1..(Len(s) - p + 1) : Rest(s, p)[i] = s[p + i - 1]
  BY Kept
<1>3. /\ Rest(e, p) \in Seq(S) /\ Len(Rest(e, p)) = Len(s) - p + 2
      /\ \A i \in 1..(Len(s) - p + 2) : Rest(e, p)[i] = e[p + i - 1]
  <2>1. p \in 1..(Len(e) + 1) /\ Len(e) - p + 1 = Len(s) - p + 2
    BY <1>1
  <2>2. /\ Rest(e, p) \in Seq(S) /\ Len(Rest(e, p)) = Len(e) - p + 1
        /\ \A i \in 1..(Len(e) - p + 1) : Rest(e, p)[i] = e[p + i - 1]
    BY <1>1, <2>1, Kept
  <2> QED BY <2>1, <2>2, Zenon
<1> DEFINE n == Len(s)
           a == Rest(s, p)
           c == Rest(e, p)
<1>4. n \in Nat /\ p \in 1..(n + 1)
  OBVIOUS
<1>5. a \in Seq(S) /\ Len(a) = n - p + 1 /\ \A i \in 1..(n - p + 1) : a[i] = s[p + i - 1]
  BY <1>2
<1>6. c \in Seq(S) /\ Len(c) = n - p + 2 /\ \A i \in 1..(n - p + 2) : c[i] = e[p + i - 1]
  BY <1>3
<1>7. e \in Seq(S) /\ Len(e) = n + 1 /\ (\A j \in 1..n : e[j] = s[j]) /\ e[n + 1] = w
  BY <1>1
<1> HIDE DEF n, a, c
<1>8. Append(a, w) \in Seq(S) /\ Len(Append(a, w)) = n - p + 2
      /\ \A i \in 1..(n - p + 2) : Append(a, w)[i] = IF i = n - p + 2 THEN w ELSE a[i]
  <2>1. Append(a, w) \in Seq(S) /\ Len(Append(a, w)) = Len(a) + 1
        /\ \A i \in 1..(Len(a) + 1) : Append(a, w)[i] = IF i = Len(a) + 1 THEN w ELSE a[i]
    BY <1>5
  <2>2. Len(a) + 1 = n - p + 2
    BY <1>4, <1>5
  <2> QED BY <2>1, <2>2
<1>9. ASSUME NEW i \in 1..(n - p + 2) PROVE Append(a, w)[i] = c[i]
  <2>1. c[i] = e[p + i - 1]
    BY <1>6
  <2>2. CASE i = n - p + 2
    <3>1. p + i - 1 = n + 1
      BY <1>4, <2>2
    <3> QED BY <1>7, <1>8, <2>1, <2>2, <3>1
  <2>3. CASE i # n - p + 2
    <3>1. i \in 1..(n - p + 1) /\ p + i - 1 \in 1..n
      BY <1>4, <2>3
    <3> QED BY <1>5, <1>7, <1>8, <2>1, <2>3, <3>1
  <2> QED BY <2>2, <2>3
<1>10. Append(a, w) = c
  BY <1>6, <1>8, <1>9, SeqEqual
<1>11. p = n + 1 => c = <<w>>
  <2> SUFFICES ASSUME p = n + 1 PROVE c = <<w>>
    OBVIOUS
  <2>1. Len(c) = 1 /\ c[1] = w
    BY <1>4, <1>6, <1>7
  <2>2. <<w>> \in Seq(S) /\ Len(<<w>>) = 1 /\ <<w>>[1] = w
    OBVIOUS
  <2>3. \A i \in 1..1 : c[i] = <<w>>[i]
    BY <2>1, <2>2
  <2> QED BY <1>6, <2>1, <2>2, <2>3, SeqEqual
<1> QED BY <1>5, <1>6, <1>10, <1>11 DEF n, a, c

\* The words of pixels behind a command of these words.
LoadWords(c) == IF Op(c[1]) = "load" THEN (Area(Transfer(c[2], c[3])) + 1) \div 2 ELSE 0

\* A transfer of which no pixel has come yet.
Begun(t) ==
  /\ t \in Transfers /\ t.done = 0 /\ Area(t) \in Nat \ {0}
  /\ t.w \in Nat \ {0} /\ t.h \in Nat \ {0}

\* The words of a whole packet, and the rectangle of a load.
LEMMA PacketWords ==
  ASSUME NEW S, Vocabulary(S), NEW e \in Seq(S), NEW p \in 1..Len(e),
         WordCount(e[p]) = Len(e) - p + 1
  PROVE  /\ Rest(e, p) \in Phrases(S) /\ Rest(e, p)[1] = e[p]
         /\ LoadWords(Rest(e, p)) \in Nat
         /\ Op(e[p]) = "load" =>
               Begun(Transfer(Rest(e, p)[2], Rest(e, p)[3]))
<1>1. /\ Rest(e, p) \in Seq(S) /\ Len(Rest(e, p)) = Len(e) - p + 1
      /\ \A i \in 1..(Len(e) - p + 1) : Rest(e, p)[i] = e[p + i - 1]
  BY Kept
<1>2. Rest(e, p)[1] = e[p]
  BY <1>1
<1>3. ASSUME Op(e[p]) = "load"
      PROVE  Begun(Transfer(Rest(e, p)[2], Rest(e, p)[3]))
  <2>1. Len(Rest(e, p)) = 3
    BY <1>1, <1>3, WordCountType
  <2>2. Rest(e, p)[2] \in S /\ Rest(e, p)[3] \in S
    <3> DEFINE c == Rest(e, p)
    <3>1. c \in Seq(S) /\ Len(c) = 3
      BY <1>1, <2>1
    <3> HIDE DEF c
    <3>2. 2 \in 1..Len(c) /\ 3 \in 1..Len(c)
      BY <3>1
    <3>3. c[2] \in S /\ c[3] \in S
      BY <3>1, <3>2, ElementOfSeq
    <3> QED BY <3>3 DEF c
  <2> QED BY <2>2, TransferType DEF Vocabulary, Begun
<1>4. LoadWords(Rest(e, p)) \in Nat
  <2>1. \A a \in Nat : (a + 1) \div 2 \in Nat
    OBVIOUS
  <2> QED BY <1>2, <1>3, <2>1 DEF LoadWords, Begun
<1> QED BY <1>1, <1>2, <1>3, <1>4 DEF Phrases

\* Behind a whole packet the stream goes on, or the pixels of a load do.
LEMMA PacketDone ==
  ASSUME NEW S, Vocabulary(S), NEW s \in Seq(S), NEW w \in S, NEW t \in Seq(S),
         NEW e, Then(e, s, w), NEW p \in 1..(Len(s) + 1),
         ~PolyLine(e[p]), p + WordCount(e[p]) = Len(s) + 2
  PROVE  EndsAt(e \o t, p, Len(e), Rest(e, p), Len(e) + 1 + LoadWords(Rest(e, p)))
<1> DEFINE u == e \o t
           c == Rest(e, p)
           n == WordCount(e[p])
<1>1. /\ u \in Seq(S) /\ e \in Seq(S) /\ Len(e) = Len(s) + 1 /\ Len(u) = Len(s) + 1 + Len(t)
      /\ \A j \in 1..(Len(s) + 1) : u[j] = e[j]
      /\ Len(s) \in Nat /\ Len(t) \in Nat
  BY OneMore DEF Then
<1>2. n \in Nat \ {0} /\ (Op(e[p]) = "load" => n = 3)
  BY WordCountType
<1>3. u[p] = e[p]
  BY <1>1
<1>4. CommandEnd(u, p) = Len(e)
  BY <1>1, <1>2, <1>3 DEF CommandEnd
<1>5. LastWord(u, p) = Len(e)
  BY <1>3, <1>4 DEF LastWord
<1>6. c \in Seq(S) /\ Len(c) = n /\ \A i \in 1..n : c[i] = e[p + i - 1]
  <2>1. p \in 1..(Len(e) + 1) /\ Len(e) - p + 1 = n
    BY <1>1, <1>2
  <2> HIDE DEF n
  <2>2. c \in Seq(S) /\ Len(c) = Len(e) - p + 1 /\ \A i \in 1..(Len(e) - p + 1) : c[i] = e[p + i - 1]
    BY <1>1, <2>1, Kept, Zenon
  <2> QED BY <2>1, <2>2
<1>7. SubSeq(u, p, Len(e)) = c
  <2>1. u = e \o t /\ p \in 1..Len(e) /\ Len(e) \in 1..Len(e)
    BY <1>1
  <2> HIDE DEF u
  <2>2. SubSeq(u, p, Len(e)) = SubSeq(e, p, Len(e))
    BY <1>1, <2>1, SubSeqOfConcat1
  <2> QED BY <2>2 DEF Rest
<1>8. PixelWords(u, p, Len(e)) = LoadWords(c)
  <2>1. c[1] = u[p]
    BY <1>1, <1>2, <1>3, <1>6
  <2>2. CASE Op(c[1]) = "load"
    <3>1. n = 3 /\ p + 2 = Len(s) + 1
      BY <1>2, <1>3, <2>1, <2>2
    <3>2. c[2] = u[p + 1] /\ c[3] = u[Len(e)]
      BY <1>1, <1>6, <3>1
    <3> HIDE DEF u, c
    <3> QED BY <2>1, <2>2, <3>2 DEF PixelWords, LoadWords
  <2>3. CASE Op(c[1]) # "load"
    <3> HIDE DEF u, c
    <3> QED BY <2>1, <2>3 DEF PixelWords, LoadWords
  <2> QED BY <2>2, <2>3
<1>9. NextStart(u, p) = Len(e) + 1 + LoadWords(c)
  BY <1>4, <1>8 DEF NextStart
<1> HIDE DEF u, c
<1>10. EndsAt(u, p, Len(e), c, Len(e) + 1 + LoadWords(c))
  BY <1>4, <1>5, <1>7, <1>9 DEF EndsAt
<1> QED BY <1>10 DEF u, c

\* With w the packet that starts at p is whole.
LEMMA WholePacket ==
  ASSUME NEW S, Vocabulary(S), NEW s \in Seq(S), NEW w \in S, NEW p \in 1..(Len(s) + 1),
         NEW e, Then(e, s, w), ~PolyLine(e[p]), p + WordCount(e[p]) = Len(s) + 2,
         NEW d \in Seq(Phrases(S)), ReadsOn(S, d, s, p)
  PROVE  /\ Append(d, Rest(e, p)) \in Seq(Phrases(S))
         /\ ReadsOn(S, Append(d, Rest(e, p)), e, Len(e) + 1 + LoadWords(Rest(e, p)))
<1>1. e \in Seq(S) /\ Len(e) = Len(s) + 1 /\ Len(s) \in Nat
  BY ThenFacts
<1>2. WordCount(e[p]) = Len(e) - p + 1 /\ p \in 1..Len(e)
  <2>1. WordCount(e[p]) \in Nat
    BY WordCountType
  <2> QED BY <1>1, <2>1
<1>3. Rest(e, p) \in Phrases(S) /\ LoadWords(Rest(e, p)) \in Nat
  BY <1>1, <1>2, PacketWords, Zenon
<1>4. \A t \in Seq(S) : EndsAt(e \o t, p, Len(e), Rest(e, p), Len(e) + 1 + LoadWords(Rest(e, p)))
  BY PacketDone, Zenon
<1>5. Len(e) + 1 + LoadWords(Rest(e, p)) \in Nat \ {0}
  BY <1>1, <1>3
<1> QED BY <1>3, <1>4, <1>5, ReadsOnDone, Zenon

\* A word of a packet.
LEMMA PacketStep ==
  ASSUME NEW S, Vocabulary(S), NEW s \in Seq(S), NEW w \in S, NEW n \in Nat, Len(s) = n,
         NEW p \in 1..(n + 1), NEW e, Then(e, s, w), NEW x, DOMAIN x = GpuFields, x.load = NoTransfer, ~x.line,
         x.need = WordCount(e[p]), ~PolyLine(e[p]),
         x.buf = Rest(e, p), n - p + 1 < x.need,
         x.drawn \in Seq(Phrases(S)), ReadsOn(S, x.drawn, s, p),
         NEW h, h = IF Len(x.buf) >= x.need THEN Execute(x) ELSE x
  PROVE  DOMAIN h = GpuFields /\ ParsedIn(S, h, e)
<1>1. /\ e \in Seq(S) /\ Len(e) = n + 1 /\ p \in 1..Len(e) /\ p \in 1..(Len(s) + 1)
  BY ThenFacts
<1>2. x.need \in Nat \ {0} /\ x.need = WordCount(e[p]) /\ n - p + 1 < x.need
  BY WordCountType
<1>3. Len(x.buf) = n - p + 2
  <2>1. p \in 1..(Len(e) + 1)
    BY <1>1
  <2>2. Len(Rest(e, p)) = Len(e) - p + 1
    BY <1>1, <2>1, Kept, Zenon
  <2> QED BY <1>1, <2>2
<1>4. CASE Len(x.buf) >= x.need
  <2>1. p + WordCount(e[p]) = Len(s) + 2 /\ WordCount(e[p]) = Len(e) - p + 1
    BY <1>1, <1>2, <1>3, <1>4
  <2>2. h = Execute(x)
    BY <1>4
  <2>3. /\ DOMAIN h = GpuFields /\ h.need = 0 /\ ~h.line
        /\ h.drawn = Append(x.drawn, Rest(e, p))
        /\ h.load = IF Op(Rest(e, p)[1]) = "load"
                    THEN Transfer(Rest(e, p)[2], Rest(e, p)[3]) ELSE NoTransfer
    BY <2>2, ExecuteFields DEF Executed
  <2>4. /\ h.drawn \in Seq(Phrases(S))
        /\ ReadsOn(S, h.drawn, e, Len(e) + 1 + LoadWords(Rest(e, p)))
    BY <1>1, <2>1, <2>3, WholePacket, ZenonT(60)
  <2>5. /\ Rest(e, p)[1] = e[p] /\ LoadWords(Rest(e, p)) \in Nat
        /\ Op(e[p]) = "load" =>
               Begun(Transfer(Rest(e, p)[2], Rest(e, p)[3]))
    BY <1>1, <2>1, PacketWords, Zenon
  <2>6. At(h, e, Len(e) + 1 + LoadWords(Rest(e, p)))
    <3>1. CASE Op(e[p]) = "load"
      <4>1. /\ h.load \in Transfers /\ h.load.done = 0 /\ Area(h.load) \in Nat \ {0}
            /\ h.load.w \in Nat \ {0} /\ h.load.h \in Nat \ {0}
            /\ LoadWords(Rest(e, p)) = (Area(h.load) + 1) \div 2
        BY <2>3, <2>5, <3>1 DEF LoadWords, Begun
      <4>2. Area(h.load) - h.load.done + 1 = Area(h.load) + 1 /\ h.load.done < Area(h.load)
        BY <4>1
      <4> QED BY <2>3, <4>1, <4>2 DEF InPixels, At
    <3>2. CASE Op(e[p]) # "load"
      <4>1. h.load = NoTransfer /\ LoadWords(Rest(e, p)) = 0
        BY <2>3, <2>5, <3>2 DEF LoadWords
      <4> QED BY <1>1, <2>3, <4>1 DEF At, InIdle
    <3> QED BY <3>1, <3>2
  <2>7. Len(e) + 1 + LoadWords(Rest(e, p)) \in Nat \ {0}
    BY <1>1, <2>5
  <2> QED BY <2>3, <2>4, <2>6, <2>7 DEF ParsedIn
<1>5. CASE ~ (Len(x.buf) >= x.need)
  <2>1. h = x
    BY <1>5
  <2>2. Len(e) - p + 1 < x.need
    BY <1>1, <1>2, <1>3, <1>5
  <2>3. InPacket(h, e, p)
    BY <1>1, <1>2, <2>1, <2>2 DEF InPacket
  <2>4. ReadsOn(S, h.drawn, e, p)
    BY <2>1, ReadsOnStill DEF Then
  <2> QED BY <2>1, <2>3, <2>4 DEF ParsedIn, At
<1> QED BY <1>4, <1>5

(***************************************************************************)
(* Poly-lines                                                              *)
(***************************************************************************)
\* With w, which ends it, the poly-line that starts at p is whole.
LEMMA LineDone ==
  ASSUME NEW S, Vocabulary(S), NEW s \in Seq(S), NEW w \in S, NEW t \in Seq(S),
         NEW e, Then(e, s, w), NEW p \in 1..Len(s),
         PolyLine(e[p]), EndsLine(e, p, Len(e)), \A j \in (p + 1)..Len(s) : ~EndsLine(s, p, j)
  PROVE  EndsAt(e \o t, p, Len(e), Rest(s, p), Len(e) + 1)
<1> DEFINE u == e \o t
           ends == {j \in (p + 1)..Len(u) :
                      Stop(u[j]) /\ (Shaded(u[p]) => (j - p) >= 2 /\ (j - p) % 2 = 0)}
<1>1. /\ u \in Seq(S) /\ e \in Seq(S) /\ Len(e) = Len(s) + 1 /\ Len(u) = Len(s) + 1 + Len(t)
      /\ \A j \in 1..(Len(s) + 1) : u[j] = e[j]
      /\ \A j \in 1..Len(s) : e[j] = s[j]
      /\ Len(s) \in Nat /\ Len(t) \in Nat
  BY OneMore DEF Then
<1>2. u[p] = e[p] /\ e[p] = s[p]
  BY <1>1
<1>3. Len(e) \in ends
  <2>1. Len(e) \in (p + 1)..Len(u) /\ u[Len(e)] = e[Len(e)]
    BY <1>1
  <2> HIDE DEF u
  <2> QED BY <1>2, <2>1 DEF EndsLine
<1>4. \A j \in ends : Len(e) <= j
  <2> SUFFICES ASSUME NEW j \in ends, ~ (Len(e) <= j) PROVE FALSE
    OBVIOUS
  <2>1. j \in (p + 1)..Len(s) /\ j \in 1..Len(s) /\ j \in 1..(Len(s) + 1)
    BY <1>1
  <2>2. u[j] = s[j]
    BY <1>1, <2>1
  <2>3. Stop(u[j]) /\ (Shaded(u[p]) => (j - p) >= 2 /\ (j - p) % 2 = 0)
    OBVIOUS
  <2> HIDE DEF u, ends
  <2>4. EndsLine(s, p, j)
    BY <1>2, <2>2, <2>3 DEF EndsLine
  <2> QED BY <2>1, <2>4
<1>5. LineEnd(u, p) = Len(e)
  <2>1. LineEnd(u, p) = IF ends = {} THEN Len(u) + 1 ELSE CHOOSE j \in ends : \A k \in ends : j <= k
    BY DEF LineEnd
  <2>2. ends \subseteq Nat /\ Len(e) \in Nat
    BY <1>1
  <2> HIDE DEF ends, u
  <2>3. \A j \in ends : (\A k \in ends : j <= k) => j = Len(e)
    BY <1>3, <1>4, <2>2
  <2> QED BY <1>3, <1>4, <2>1, <2>3
<1>6. CommandEnd(u, p) = Len(e)
  BY <1>2, <1>5 DEF CommandEnd
<1>7. LastWord(u, p) = Len(s)
  <2> HIDE DEF u
  <2> QED BY <1>1, <1>2, <1>6 DEF LastWord
<1>8. SubSeq(u, p, Len(s)) = Rest(s, p)
  <2>1. u = s \o (<<w>> \o t) /\ <<w>> \o t \in Seq(S)
    BY ThenFollows
  <2>2. p \in 1..Len(s) /\ Len(s) \in 1..Len(s)
    BY <1>1
  <2> HIDE DEF u
  <2>3. SubSeq(u, p, Len(s)) = SubSeq(s, p, Len(s))
    BY <2>1, <2>2, SubSeqOfConcat1
  <2> QED BY <2>3 DEF Rest
<1>9. NextStart(u, p) = Len(e) + 1
  <2>1. PixelWords(u, p, Len(e)) = 0
    BY <1>2 DEF PixelWords, PolyLine
  <2> HIDE DEF u
  <2> QED BY <1>1, <1>6, <2>1 DEF NextStart
<1> HIDE DEF u
<1>10. EndsAt(u, p, Len(e), Rest(s, p), Len(e) + 1)
  BY <1>6, <1>7, <1>8, <1>9 DEF EndsAt
<1> QED BY <1>10 DEF u

\* A poly-line's end word is read and not kept.
LEMMA WholeLine ==
  ASSUME NEW S, Vocabulary(S), NEW s \in Seq(S), NEW w \in S, NEW p \in 1..Len(s),
         NEW e, Then(e, s, w), PolyLine(e[p]), EndsLine(e, p, Len(e)),
         \A j \in (p + 1)..Len(s) : ~EndsLine(s, p, j),
         NEW d \in Seq(Phrases(S)), ReadsOn(S, d, s, p)
  PROVE  /\ Append(d, Rest(s, p)) \in Seq(Phrases(S))
         /\ ReadsOn(S, Append(d, Rest(s, p)), e, Len(e) + 1)
<1>1. e \in Seq(S) /\ Len(e) = Len(s) + 1 /\ Len(s) \in Nat
  BY ThenFacts
<1>2. p \in 1..(Len(s) + 1) /\ Len(e) + 1 \in Nat \ {0}
  BY <1>1
<1>3. Rest(s, p) \in Phrases(S)
  BY <1>2, Kept DEF Phrases
<1>4. \A t \in Seq(S) : EndsAt(e \o t, p, Len(e), Rest(s, p), Len(e) + 1)
  BY LineDone, Zenon
<1> QED BY <1>2, <1>3, <1>4, ReadsOnDone, Zenon

\* A word of a poly-line.
LEMMA LineStep ==
  ASSUME NEW S, Vocabulary(S), NEW s \in Seq(S), NEW w \in S, NEW e, Then(e, s, w),
         NEW g, DOMAIN g = GpuFields, NEW p, InLine(g, s, p),
         g.drawn \in Seq(Phrases(S)), ReadsOn(S, g.drawn, s, p),
         NEW h, h = PushPolyLine(g, w)
  PROVE  DOMAIN h = GpuFields /\ ParsedIn(S, h, e)
<1>1. /\ e \in Seq(S) /\ Len(e) = Len(s) + 1 /\ Len(s) \in Nat
      /\ (\A j \in 1..Len(s) : e[j] = s[j]) /\ e[Len(e)] = w
  BY ThenFacts
<1>2. /\ g.load = NoTransfer /\ g.line /\ g.need = 0
      /\ p \in 1..Len(s) /\ PolyLine(s[p]) /\ g.shaded = Shaded(s[p])
      /\ g.buf = Rest(s, p)
      /\ \A j \in (p + 1)..Len(s) : ~EndsLine(s, p, j)
  BY DEF InLine
<1>3. /\ Append(Rest(s, p), w) = Rest(e, p) /\ Len(Rest(s, p)) = Len(s) - p + 1
  <2>1. p \in 1..(Len(s) + 1)
    BY <1>1, <1>2
  <2> QED BY <2>1, OneKeptMore
<1>4. e[p] = s[p] /\ PolyLine(e[p])
  BY <1>1, <1>2
<1>5. EndsLine(e, p, Len(e)) <=> StopSlot(g) /\ Stop(w)
  <2> DEFINE n == Len(s) - p + 1
  <2>1. Len(e) - p = n /\ Len(g.buf) = n /\ n >= 1 /\ n \in Nat
    BY <1>1, <1>2, <1>3
  <2> HIDE DEF n
  <2> QED BY <1>1, <1>2, <1>4, <2>1 DEF EndsLine, StopSlot
<1>6. CASE StopSlot(g) /\ Stop(w)
  <2>1. /\ DOMAIN h = GpuFields /\ ~h.line /\ h.load = NoTransfer /\ h.need = 0
        /\ h.drawn = Append(g.drawn, Rest(s, p))
    BY <1>2, <1>6 DEF PushPolyLine, GpuFields
  <2>2. /\ h.drawn \in Seq(Phrases(S))
        /\ ReadsOn(S, h.drawn, e, Len(e) + 1)
    BY <1>2, <1>4, <1>5, <1>6, <2>1, WholeLine
  <2>3. At(h, e, Len(e) + 1) /\ Len(e) + 1 \in Nat \ {0}
    BY <1>1, <2>1 DEF At, InIdle
  <2> QED BY <2>1, <2>2, <2>3 DEF ParsedIn
<1>7. CASE ~ (StopSlot(g) /\ Stop(w))
  <2>1. /\ DOMAIN h = GpuFields /\ h.line /\ h.load = NoTransfer /\ h.need = 0
        /\ h.drawn = g.drawn /\ h.shaded = g.shaded /\ h.buf = Rest(e, p)
    BY <1>2, <1>3, <1>7 DEF PushPolyLine, GpuFields
  <2>2. ASSUME NEW j \in (p + 1)..Len(e) PROVE ~EndsLine(e, p, j)
    <3>1. CASE j = Len(e)
      BY <1>5, <1>7, <3>1
    <3>2. CASE j # Len(e)
      <4>1. j \in (p + 1)..Len(s) /\ j \in 1..Len(s)
        BY <1>1, <1>2, <3>2
      <4> QED BY <1>1, <1>2, <1>4, <4>1 DEF EndsLine
    <3> QED BY <3>1, <3>2
  <2>3. InLine(h, e, p) /\ p \in Nat \ {0}
    BY <1>1, <1>2, <1>4, <2>1, <2>2 DEF InLine
  <2>4. ReadsOn(S, h.drawn, e, p)
    BY <2>1, ReadsOnStill DEF Then
  <2> QED BY <2>1, <2>3, <2>4 DEF ParsedIn, At
<1> QED BY <1>6, <1>7

(***************************************************************************)
(* A word sent to the port                                                 *)
(***************************************************************************)
LEMMA WordBegins ==
  ASSUME NEW S, Vocabulary(S), NEW s \in Seq(S), NEW w \in S, NEW e, Then(e, s, w),
         NEW g, DOMAIN g = GpuFields, NEW p \in Nat \ {0}, InIdle(g, s, p),
         g.drawn \in Seq(Phrases(S)), ReadsOn(S, g.drawn, s, p),
         NEW h, h = Begin(g, w)
  PROVE  DOMAIN h = GpuFields /\ ParsedIn(S, h, e)
<1>1. /\ e \in Seq(S) /\ Len(e) = Len(s) + 1 /\ Len(s) \in Nat /\ e[Len(s) + 1] = w
  BY ThenFacts
<1>2. p = Len(s) + 1 /\ g.load = NoTransfer /\ ~g.line /\ g.need = 0
  BY DEF InIdle
<1>3. Rest(e, p) = <<w>> /\ e[p] = w /\ p \in 1..(Len(s) + 1)
  <2>1. p \in 1..(Len(s) + 1)
    BY <1>1, <1>2
  <2> QED BY <1>1, <1>2, <2>1, OneKeptMore
<1>4. CASE PolyLine(w)
  <2>1. h = [g EXCEPT !.line = TRUE, !.shaded = Shaded(w), !.buf = <<w>>]
    BY <1>4 DEF Begin
  <2>2. /\ DOMAIN h = GpuFields /\ h.line /\ h.load = NoTransfer /\ h.need = 0
        /\ h.drawn = g.drawn /\ h.shaded = Shaded(w) /\ h.buf = <<w>>
    BY <1>2, <2>1 DEF GpuFields
  <2>3. InLine(h, e, p)
    <3>1. p \in 1..Len(e) /\ (p + 1)..Len(e) = {}
      BY <1>1, <1>2
    <3> QED BY <1>3, <1>4, <2>2, <3>1 DEF InLine
  <2>4. ReadsOn(S, h.drawn, e, p)
    BY <2>2, ReadsOnStill DEF Then
  <2> QED BY <2>2, <2>3, <2>4 DEF ParsedIn, At
<1>5. CASE ~PolyLine(w)
  <2> DEFINE x == [g EXCEPT !.buf = <<w>>, !.need = WordCount(w)]
  <2>1. h = IF x.need <= 1 THEN Execute(x) ELSE x
    BY <1>5 DEF Begin
  <2>2. /\ DOMAIN x = GpuFields /\ ~x.line /\ x.load = NoTransfer /\ x.need = WordCount(w)
        /\ x.drawn = g.drawn /\ x.buf = <<w>>
    BY <1>2 DEF GpuFields
  <2> HIDE DEF x
  <2>3. WordCount(w) \in Nat \ {0}
    BY WordCountType
  <2>4. Len(x.buf) >= x.need <=> x.need <= 1
    BY <2>2, <2>3
  <2>5. h = IF Len(x.buf) >= x.need THEN Execute(x) ELSE x
    BY <2>1, <2>4
  <2>6. Len(s) - p + 1 < x.need
    BY <1>1, <1>2, <2>2, <2>3
  <2>7. /\ x.need = WordCount(e[p]) /\ ~PolyLine(e[p]) /\ x.buf = Rest(e, p)
        /\ ReadsOn(S, x.drawn, s, p) /\ x.drawn \in Seq(Phrases(S))
    BY <1>3, <1>5, <2>2
  <2> QED BY <1>1, <1>3, <2>2, <2>5, <2>6, <2>7, PacketStep
<1> QED BY <1>4, <1>5

\* A word in a packet.
LEMMA WordContinues ==
  ASSUME NEW S, Vocabulary(S), NEW s \in Seq(S), NEW w \in S, NEW e, Then(e, s, w),
         NEW g, DOMAIN g = GpuFields, NEW p \in Nat \ {0}, InPacket(g, s, p),
         g.drawn \in Seq(Phrases(S)), ReadsOn(S, g.drawn, s, p),
         NEW h, h = PushWord(g, w)
  PROVE  DOMAIN h = GpuFields /\ ParsedIn(S, h, e)
<1>1. /\ e \in Seq(S) /\ Len(e) = Len(s) + 1 /\ Len(s) \in Nat
      /\ \A j \in 1..Len(s) : e[j] = s[j]
  BY ThenFacts
<1>2. /\ g.load = NoTransfer /\ ~g.line /\ g.need = WordCount(s[p])
      /\ p \in 1..Len(s) /\ ~PolyLine(s[p])
      /\ g.buf = Rest(s, p)
      /\ Len(s) - p + 1 < g.need
  BY DEF InPacket
<1>3. e[p] = s[p] /\ p \in 1..(Len(s) + 1)
  BY <1>1, <1>2
<1>4. Append(g.buf, w) = Rest(e, p)
  BY <1>2, <1>3, OneKeptMore
<1> DEFINE x == [g EXCEPT !.buf = Append(g.buf, w)]
<1>5. h = IF Len(x.buf) >= g.need THEN Execute(x) ELSE x
  BY DEF PushWord
<1>6. /\ DOMAIN x = GpuFields /\ ~x.line /\ x.load = NoTransfer /\ x.need = g.need
      /\ x.drawn = g.drawn /\ x.buf = Append(g.buf, w)
  BY <1>2 DEF GpuFields
<1> HIDE DEF x
<1>7. /\ x.need = WordCount(e[p]) /\ ~PolyLine(e[p]) /\ x.buf = Rest(e, p)
      /\ ReadsOn(S, x.drawn, s, p) /\ x.drawn \in Seq(Phrases(S)) /\ Len(s) - p + 1 < x.need
      /\ h = IF Len(x.buf) >= x.need THEN Execute(x) ELSE x
  BY <1>2, <1>3, <1>4, <1>5, <1>6
<1> QED BY <1>1, <1>3, <1>6, <1>7, PacketStep

\* Every word sent keeps what is read true, wherever the parser stands.
LEMMA WordStep ==
  ASSUME NEW S, Vocabulary(S), NEW s \in Seq(S), NEW w \in S, NEW e, Then(e, s, w),
         NEW g, DOMAIN g = GpuFields, ParsedIn(S, g, s), NEW h, h = Gp0Write(g, w)
  PROVE  DOMAIN h = GpuFields /\ ParsedIn(S, h, e)
<1>1. g.drawn \in Seq(Phrases(S))
  BY DEF ParsedIn
<1>2. PICK p \in Nat \ {0} : At(g, s, p) /\ ReadsOn(S, g.drawn, s, p)
  BY DEF ParsedIn
<1>3. CASE InPixels(g, s, p)
  <2>1. DOMAIN h = GpuFields /\ h.drawn = g.drawn /\ At(h, e, p)
    BY <1>3, PushPixelsKeeps DEF Then
  <2>2. ReadsOn(S, h.drawn, e, p)
    BY <1>2, <2>1, ReadsOnStill DEF Then
  <2> QED BY <1>1, <2>1, <2>2 DEF ParsedIn
<1>4. CASE InIdle(g, s, p)
  <2>1. h = Begin(g, w)
    BY <1>4 DEF Gp0Write, InIdle
  <2> QED BY <1>1, <1>2, <1>4, <2>1, WordBegins
<1>5. CASE InLine(g, s, p)
  <2>1. h = PushPolyLine(g, w)
    BY <1>5 DEF Gp0Write, InLine
  <2> QED BY <1>1, <1>2, <1>5, <2>1, LineStep
<1>6. CASE InPacket(g, s, p)
  <2>1. g.need # 0
    BY <1>6, WordCountType DEF InPacket
  <2>2. h = PushWord(g, w)
    BY <1>6, <2>1 DEF Gp0Write, InPacket
  <2> QED BY <1>1, <1>2, <1>6, <2>2, WordContinues
<1> QED BY <1>2, <1>3, <1>4, <1>5, <1>6 DEF At

\* The latch, which GPUREAD returns after the last pixel, is kept.
LEMMA WriteKeepsLatch ==
  ASSUME NEW g, DOMAIN g = GpuFields, NEW w
  PROVE  Gp0Write(g, w).latch = g.latch
<1>1. \A x : DOMAIN x = GpuFields => Execute(x).latch = x.latch
  BY ExecuteFields DEF Executed
<1>2. PushPixels(g, w).latch = g.latch
  BY DEF PushPixels, GpuFields
<1>3. PushPolyLine(g, w).latch = g.latch
  BY DEF PushPolyLine, GpuFields
<1>4. PushWord(g, w).latch = g.latch
  <2> DEFINE x == [g EXCEPT !.buf = Append(g.buf, w)]
  <2>1. PushWord(g, w) = IF Len(x.buf) >= g.need THEN Execute(x) ELSE x
    BY DEF PushWord
  <2>2. DOMAIN x = GpuFields /\ x.latch = g.latch
    BY DEF GpuFields
  <2> HIDE DEF x
  <2> QED BY <1>1, <2>1, <2>2
<1>5. Begin(g, w).latch = g.latch
  <2> DEFINE x == [g EXCEPT !.buf = <<w>>, !.need = WordCount(w)]
  <2>1. ~PolyLine(w) => Begin(g, w) = IF x.need <= 1 THEN Execute(x) ELSE x
    BY DEF Begin
  <2>2. PolyLine(w) => Begin(g, w).latch = g.latch
    BY DEF Begin, GpuFields
  <2>3. DOMAIN x = GpuFields /\ x.latch = g.latch
    BY DEF GpuFields
  <2> HIDE DEF x
  <2> QED BY <1>1, <2>1, <2>2, <2>3
<1> QED BY <1>2, <1>3, <1>4, <1>5 DEF Gp0Write

\* The fold takes the words in their order.
LEMMA MaxIsLast ==
  ASSUME NEW k \in Nat, NEW s \in SUBSET (1..(k + 1)), k + 1 \in s
  PROVE  Max(s) = k + 1
<1>1. k + 1 \in s /\ \A y \in s : k + 1 >= y
  OBVIOUS
<1>2. \A x \in s : (\A y \in s : x >= y) => x = k + 1
  OBVIOUS
<1> QED BY <1>1, <1>2 DEF Max

\* A run moves its words one after the other.
LEMMA MovesInTurn ==
  ASSUME NEW ch, NEW toDevice, NEW d, NEW m \in Nat, NEW ats, DOMAIN ats = 1..m
  PROVE  \E after : /\ after[0] = d
                    /\ \A k \in 1..m : after[k] = Moved(ch, toDevice, after[k - 1], ats[k])
                    /\ after[m] = Carried(ch, toDevice, d, ats)
<1> DEFINE Step(f, s) == IF s = {} THEN d
                         ELSE Moved(ch, toDevice, f[s \ {Max(s)}], ats[Max(s)])
           Folds(f) == f = [s \in SUBSET (1..m) |-> Step(f, s)]
           Total == CHOOSE f : Folds(f)
           Upto(k, f) == \A s \in SUBSET (1..k) : f[s] = Step(f, s)
           Some(k) == \E f : DOMAIN f = SUBSET (1..m) /\ f = [s \in SUBSET (1..m) |-> f[s]] /\ Upto(k, f)
           T == {k \in Nat : k <= m => Some(k)}
<1>1. Carried(ch, toDevice, d, ats) = Total[1..m]
  BY DEF Carried, FoldLeft, MapThenFoldSet
<1> HIDE DEF Step
<1>2. 0 \in T
  <2> DEFINE f == [s \in SUBSET (1..m) |-> d]
  <2>1. DOMAIN f = SUBSET (1..m) /\ f = [s \in SUBSET (1..m) |-> f[s]]
    OBVIOUS
  <2>2. \A s \in SUBSET (1..0) : s = {} /\ s \in SUBSET (1..m)
    OBVIOUS
  <2>3. Upto(0, f)
    BY <2>2 DEF Step
  <2> HIDE DEF f, Upto
  <2>4. Some(0)
    BY <2>1, <2>3
  <2> HIDE DEF Some
  <2> QED BY <2>4
<1>3. ASSUME NEW k \in T PROVE k + 1 \in T
  <2> SUFFICES ASSUME k + 1 <= m, k \in Nat, Some(k)
               PROVE  Some(k + 1)
    <3> HIDE DEF Some
    <3>1. k \in Nat /\ k + 1 \in Nat /\ (k + 1 <= m => k <= m)
      OBVIOUS
    <3> QED BY <3>1
  <2>0. k \in Nat /\ k <= m
    OBVIOUS
  <2>1. PICK f : DOMAIN f = SUBSET (1..m) /\ Upto(k, f)
    OBVIOUS
  <2> DEFINE g == [s \in SUBSET (1..m) |-> IF k + 1 \in s THEN Step(f, s) ELSE f[s]]
  <2>2. DOMAIN g = SUBSET (1..m) /\ g = [s \in SUBSET (1..m) |-> g[s]]
    OBVIOUS
  <2>3. ASSUME NEW s \in SUBSET (1..(k + 1)) PROVE g[s] = Step(g, s)
    <3>1. s \in SUBSET (1..m)
      BY <2>0
    <3>2. CASE k + 1 \in s
      <4>1. Max(s) = k + 1 /\ s # {}
        BY <2>0, <3>2, MaxIsLast
      <4>2. s \ {k + 1} \in SUBSET (1..m) /\ k + 1 \notin s \ {k + 1}
        BY <3>1
      <4>3. g[s \ {k + 1}] = f[s \ {k + 1}]
        BY <4>2
      <4>4. g[s] = Step(f, s)
        BY <3>1, <3>2
      <4> HIDE DEF g
      <4> QED BY <4>1, <4>3, <4>4 DEF Step
    <3>3. CASE k + 1 \notin s
      <4>1. s \in SUBSET (1..k)
        BY <2>0, <3>3
      <4>2. g[s] = f[s] /\ f[s] = Step(f, s)
        BY <2>1, <3>1, <3>3, <4>1
      <4>3. CASE s = {}
        <5> HIDE DEF g
        <5> QED BY <4>2, <4>3 DEF Step
      <4>4. CASE s # {}
        <5>1. s \ {Max(s)} \in SUBSET (1..m) /\ k + 1 \notin s \ {Max(s)}
          BY <3>1, <3>3
        <5>2. g[s \ {Max(s)}] = f[s \ {Max(s)}]
          BY <5>1
        <5> HIDE DEF g
        <5> QED BY <4>2, <4>4, <5>2 DEF Step
      <4> QED BY <4>3, <4>4
    <3> QED BY <3>2, <3>3
  <2>4. Upto(k + 1, g)
    BY <2>3
  <2> HIDE DEF g, Upto
  <2> QED BY <2>2, <2>4
<1>4. T = Nat
  <2>1. T \in SUBSET Nat
    OBVIOUS
  <2> HIDE DEF T
  <2> QED BY <1>2, <1>3, <2>1, Induction
<1>5. \E f : Folds(f)
  <2>1. PICK f : f = [s \in SUBSET (1..m) |-> f[s]] /\ Upto(m, f)
    <3>1. Some(m)
      <4> HIDE DEF Some
      <4> QED BY <1>4
    <3> HIDE DEF Upto
    <3> QED BY <3>1
  <2>2. Folds(f)
    BY <2>1
  <2> QED BY <2>2
<1>6. Folds(Total)
  BY <1>5
<1> HIDE DEF Total
<1>7. \A s \in SUBSET (1..m) : Total[s] = Step(Total, s)
  BY <1>6
<1> DEFINE after == [k \in 0..m |-> Total[1..k]]
<1>8. after[0] = d
  <2>1. 1..0 = {} /\ 1..0 \in SUBSET (1..m) /\ 0 \in 0..m
    OBVIOUS
  <2> QED BY <1>7, <2>1 DEF Step
<1>9. ASSUME NEW k \in 1..m PROVE after[k] = Moved(ch, toDevice, after[k - 1], ats[k])
  <2>1. k - 1 \in Nat /\ k \in 0..m /\ k - 1 \in 0..m /\ (k - 1) + 1 = k
    OBVIOUS
  <2>2. 1..k \in SUBSET (1..m) /\ 1..k # {} /\ (1..k) \ {k} = 1..(k - 1) /\ k \in 1..k
    BY <2>1
  <2>3. Max(1..k) = k
    <3>1. 1..k \in SUBSET (1..((k - 1) + 1)) /\ (k - 1) + 1 \in 1..k
      BY <2>1, <2>2
    <3> QED BY <2>1, <3>1, MaxIsLast
  <2>4. Total[1..k] = Moved(ch, toDevice, Total[1..(k - 1)], ats[k])
    BY <1>7, <2>2, <2>3 DEF Step
  <2> QED BY <2>1, <2>4
<1>10. after[m] = Carried(ch, toDevice, d, ats)
  BY <1>1
<1> HIDE DEF after
<1> QED BY <1>8, <1>9, <1>10

(***************************************************************************)
(* The port's other operations                                             *)
(***************************************************************************)
ParserFields == {"buf", "need", "line", "shaded", "load", "drawn"}

SameParser(g, h) == DOMAIN h = GpuFields /\ \A f \in ParserFields : h[f] = g[f]

\* What is not the parser's may change.
LEMMA SameParserParses ==
  ASSUME NEW g, NEW h, NEW s, Parsed(g, s), SameParser(g, h)
  PROVE  Parsed(h, s)
<1>1. /\ h.buf = g.buf /\ h.need = g.need /\ h.line = g.line /\ h.shaded = g.shaded
      /\ h.load = g.load /\ h.drawn = g.drawn
  BY DEF SameParser, ParserFields
<1>2. \A p : At(g, s, p) => At(h, s, p)
  BY <1>1 DEF At, InIdle, InPixels, InLine, InPacket
<1>3. ASSUME NEW S, Vocabulary(S) /\ s \in Seq(S) PROVE ParsedIn(S, h, s)
  <2>1. ParsedIn(S, g, s)
    BY <1>3 DEF Parsed
  <2> QED BY <1>1, <1>2, <2>1 DEF ParsedIn
<1> QED BY <1>3 DEF Parsed, SameParser

\* A parser between commands has read nothing of an empty stream.
Fresh(g) ==
  /\ DOMAIN g = GpuFields /\ g.load = NoTransfer /\ ~g.line /\ g.need = 0 /\ g.drawn = <<>>

\* A fresh parser is between commands.
LEMMA FreshParses ==
  ASSUME NEW g, Fresh(g)
  PROVE  Parsed(g, <<>>)
<1>1. DOMAIN g = GpuFields
  BY DEF Fresh
<1>2. ASSUME NEW S, Vocabulary(S) /\ <<>> \in Seq(S) PROVE ParsedIn(S, g, <<>>)
  <2>1. g.drawn = <<>> /\ g.drawn \in Seq(Phrases(S))
    BY DEF Fresh
  <2>2. At(g, <<>>, 1)
    BY DEF Fresh, At, InIdle
  <2>3. ASSUME NEW t \in Seq(S) PROVE From(<<>> \o t, 1) = <<>> \o From(<<>> \o t, 1)
    <3>1. <<>> \o t = t
      BY ConcatEmptySeq
    <3>2. From(t, 1) \in Seq(Phrases(S))
      BY <1>2, ParseType
    <3>3. <<>> \o From(t, 1) = From(t, 1)
      BY <3>2, ConcatEmptySeq
    <3> QED BY <3>1, <3>3
  <2>4. ReadsOn(S, g.drawn, <<>>, 1)
    BY <2>1, <2>3 DEF ReadsOn
  <2>5. 1 \in Nat \ {0}
    OBVIOUS
  <2> QED BY <2>1, <2>2, <2>4, <2>5 DEF ParsedIn
<1> QED BY <1>1, <1>2 DEF Parsed

\* What was parsed is all that the reference finds.
LEMMA ParsedIsCommands ==
  ASSUME NEW S, Vocabulary(S), NEW s \in Seq(S), NEW g, ParsedIn(S, g, s)
  PROVE  g.drawn = Commands(s)
<1>1. PICK p \in Nat \ {0} : At(g, s, p) /\ ReadsOn(S, g.drawn, s, p)
  BY DEF ParsedIn
<1>2. s \o <<>> = s /\ <<>> \in Seq(S)
  BY ConcatEmptySeq
<1>3. From(s, 1) = g.drawn \o From(s, p)
  BY <1>1, <1>2 DEF ReadsOn
<1>4. From(s, p) = <<>>
  <2>0. Len(s) \in Nat
    OBVIOUS
  <2>1. CASE InIdle(g, s, p)
    <3>1. p > Len(s)
      BY <2>0, <2>1 DEF InIdle
    <3> QED BY <3>1, FromStep
  <2>2. CASE InPixels(g, s, p)
    <3>1. /\ g.load.w \in Nat /\ g.load.h \in Nat /\ g.load.done \in Nat
          /\ g.load.done < Area(g.load)
          /\ p = Len(s) + 1 + (Area(g.load) - g.load.done + 1) \div 2
      BY <2>2 DEF InPixels, Transfers
    <3>2. Area(g.load) \in Nat
      <4>1. \A a \in Nat, b \in Nat : a * b \in Nat
        OBVIOUS
      <4> QED BY <3>1, <4>1 DEF Area
    <3>3. \A a \in Nat, b \in Nat : b < a => (a - b + 1) \div 2 \in Nat
      OBVIOUS
    <3>4. (Area(g.load) - g.load.done + 1) \div 2 \in Nat
      BY <3>1, <3>2, <3>3
    <3>5. p > Len(s)
      BY <2>0, <3>1, <3>4
    <3> QED BY <3>5, FromStep
  <2>3. CASE InLine(g, s, p)
    <3>1. p \in 1..Len(s) /\ PolyLine(s[p]) /\ \A j \in (p + 1)..Len(s) : ~EndsLine(s, p, j)
      BY <2>3 DEF InLine
    <3>2. LineEnd(s, p) = Len(s) + 1
      BY <3>1 DEF LineEnd, EndsLine
    <3>3. CommandEnd(s, p) > Len(s)
      BY <2>0, <3>1, <3>2 DEF CommandEnd
    <3>4. p <= Len(s)
      BY <2>0, <3>1
    <3> QED BY <3>3, <3>4, FromStep, Zenon
  <2>4. CASE InPacket(g, s, p)
    <3>1. p \in 1..Len(s) /\ ~PolyLine(s[p]) /\ Len(s) - p + 1 < WordCount(s[p])
      BY <2>4 DEF InPacket
    <3>2. CommandEnd(s, p) > Len(s)
      <4>1. WordCount(s[p]) \in Nat
        BY WordCountType
      <4> QED BY <2>0, <3>1, <4>1 DEF CommandEnd
    <3>3. p <= Len(s)
      BY <2>0, <3>1
    <3> QED BY <3>2, <3>3, FromStep, Zenon
  <2> QED BY <1>1, <2>1, <2>2, <2>3, <2>4 DEF At
<1>5. g.drawn \in Seq(Phrases(S))
  BY DEF ParsedIn
<1>6. From(s, 1) = g.drawn
  BY <1>3, <1>4, <1>5, ConcatEmptySeq
<1>7. From(s, 1) = Commands(s)
  BY FromStep
<1> QED BY <1>6, <1>7

(***************************************************************************)
(* Memory, port and stream                                                 *)
(***************************************************************************)
WordsIn(m) == DOMAIN m = 0..(RamWords - 1) /\ \A a \in 0..(RamWords - 1) : IsWord(m[a])
Spoken(s)  == \E S : Vocabulary(S) /\ s \in Seq(S)
Heard(g, s) == Spoken(s) /\ Parsed(g, s) /\ IsWord(g.latch)

\* The stream grows by the word that was sent.
LEMMA HeardOneMore ==
  ASSUME NEW g, NEW s, Heard(g, s), NEW w, IsWord(w)
  PROVE  Heard(Gp0Write(g, w), Append(s, w))
<1> DEFINE h == Gp0Write(g, w)
           e == Append(s, w)
<1>1. DOMAIN g = GpuFields
  BY DEF Heard, Parsed
<1>2. PICK R : Vocabulary(R) /\ s \in Seq(R)
  BY DEF Heard, Spoken
<1>3. Vocabulary(R \cup {w}) /\ s \in Seq(R \cup {w}) /\ e \in Seq(R \cup {w})
  <2>1. s \in Seq(R \cup {w})
    BY <1>2
  <2>2. e \in Seq(R \cup {w})
    BY <2>1
  <2> QED BY <1>2, <2>1, <2>2 DEF Vocabulary
<1>4. ASSUME NEW S, Vocabulary(S), e \in Seq(S) PROVE DOMAIN h = GpuFields /\ ParsedIn(S, h, e)
  <2>1. s \in Seq(S) /\ w \in S
    <3>1. e \in Seq(S) /\ Len(e) = Len(s) + 1 /\ Len(s) \in Nat
          /\ (\A j \in 1..Len(s) : e[j] = s[j]) /\ e[Len(s) + 1] = w
      <4>1. /\ Len(e) = Len(s) + 1 /\ (\A j \in 1..Len(s) : e[j] = s[j]) /\ e[Len(s) + 1] = w
        BY <1>3
      <4> QED BY <1>2, <1>4, <4>1
    <3> HIDE DEF e
    <3>2. w \in S
      BY <3>1
    <3>3. \A j \in 1..Len(s) : s[j] \in S
      BY <3>1
    <3>4. s \in Seq(S)
      <4>1. s = [j \in 1..Len(s) |-> s[j]]
        BY <1>2
      <4> HIDE DEF e
      <4> QED BY <3>1, <3>3, <4>1
    <3> QED BY <3>2, <3>4
  <2>2. ParsedIn(S, g, s)
    BY <1>4, <2>1 DEF Heard, Parsed
  <2>3. Then(e, s, w)
    BY DEF Then
  <2> HIDE DEF e
  <2> QED BY <1>1, <1>4, <2>1, <2>2, <2>3, WordStep
<1>5. Parsed(h, e)
  <2>1. DOMAIN h = GpuFields
    BY <1>3, <1>4
  <2> HIDE DEF h, e
  <2> QED BY <1>4, <2>1 DEF Parsed
<1>6. Spoken(e)
  BY <1>3 DEF Spoken
<1>7. IsWord(h.latch)
  BY <1>1, WriteKeepsLatch DEF Heard
<1> QED BY <1>5, <1>6, <1>7 DEF Heard

\* GPUREAD returns a word.
LEMMA HeardRead ==
  ASSUME NEW g, NEW s, Heard(g, s)
  PROVE  Heard(GpuRead(g).gpu, s) /\ IsWord(GpuRead(g).word)
<1>1. DOMAIN g = GpuFields /\ IsWord(g.latch)
  BY DEF Heard, Parsed
<1>2. CASE g.store = NoTransfer
  <2>1. GpuRead(g).gpu = g /\ GpuRead(g).word = g.latch
    BY <1>2 DEF GpuRead
  <2> QED BY <1>1, <2>1
<1>3. CASE g.store # NoTransfer
  <2> DEFINE t == g.store
             pair == [lo |-> Peek(g.vram, Pixel(t, t.done)),
                      hi |-> IF t.done + 1 < Area(t)
                             THEN Peek(g.vram, Pixel(t, t.done + 1)) ELSE Black]
             h == [g EXCEPT !.store = Advance(t, 2), !.latch = pair]
  <2>1. GpuRead(g).gpu = h /\ GpuRead(g).word = pair
    BY <1>3 DEF GpuRead
  <2>2. IsWord(pair)
    BY DEF IsWord, X, Y, W, H, Field
  <2>3. SameParser(g, h) /\ h.latch = pair
    <3> HIDE DEF pair, t
    <3> QED BY <1>1 DEF SameParser, ParserFields, GpuFields
  <2> HIDE DEF h, pair
  <2> QED BY <2>1, <2>2, <2>3, SameParserParses DEF Heard
<1> QED BY <1>2, <1>3

\* After power-on and a reset.
LEMMA NewGpuIsFresh ==
  /\ IsWord(Zero)
  /\ Fresh(NewGpu) /\ NewGpu.latch = Zero
  /\ \A v : Fresh([NewGpu EXCEPT !.vram = v]) /\ [NewGpu EXCEPT !.vram = v].latch = Zero
<1>1. IsWord(Zero)
  BY DEF IsWord, X, Y, W, H, Field, Zero
<1>2. DOMAIN NewGpu = GpuFields /\ NewGpu.load = NoTransfer /\ ~NewGpu.line /\ NewGpu.need = 0
      /\ NewGpu.drawn = <<>> /\ NewGpu.latch = Zero
  BY DEF NewGpu, GpuFields
<1> QED BY <1>1, <1>2 DEF Fresh, GpuFields

\* Nothing sent, nothing read.
LEMMA FreshIsHeard ==
  ASSUME NEW g, Fresh(g), IsWord(g.latch)
  PROVE  Heard(g, <<>>)
<1>1. Spoken(<<>>)
  <2>1. Vocabulary({}) /\ <<>> \in Seq({})
    BY DEF Vocabulary
  <2> QED BY <2>1 DEF Spoken
<1> QED BY <1>1, FreshParses DEF Heard

\* A GP1 command starts the stream anew, or leaves the parser alone.
LEMMA HeardControl ==
  ASSUME NEW g, NEW s, Heard(g, s), NEW c, c.op \in Gp1Ops
  PROVE  Heard(Gp1Write(g, c), IF c.op \in {"clear", "reset"} THEN <<>> ELSE s)
<1>1. DOMAIN g = GpuFields /\ IsWord(g.latch)
  BY DEF Heard, Parsed
<1>2. CASE c.op = "reset"
  <2>1. Gp1Write(g, c) = [NewGpu EXCEPT !.vram = g.vram]
    BY <1>2 DEF Gp1Write
  <2> QED BY <1>2, <2>1, NewGpuIsFresh, FreshIsHeard
<1>3. CASE c.op = "clear"
  <2> DEFINE h == [g EXCEPT !.buf = <<>>, !.need = 0, !.line = FALSE,
                            !.load = NoTransfer, !.store = NoTransfer, !.drawn = <<>>]
  <2>1. Gp1Write(g, c) = h
    BY <1>3 DEF Gp1Write
  <2>2. Fresh(h) /\ h.latch = g.latch
    BY <1>1 DEF Fresh, GpuFields
  <2> HIDE DEF h
  <2> QED BY <1>1, <1>3, <2>1, <2>2, FreshIsHeard
<1>4. CASE c.op \notin {"clear", "reset"}
  <2>1. SameParser(g, Gp1Write(g, c)) /\ Gp1Write(g, c).latch = g.latch
    <3>1. \/ \E v : Gp1Write(g, c) = [g EXCEPT !.irq = v]
          \/ \E v : Gp1Write(g, c) = [g EXCEPT !.screen = v]
      <4>1. CASE c.op = "ack"
        BY <4>1 DEF Gp1Write
      <4>2. CASE c.op = "display"
        BY <4>2 DEF Gp1Write
      <4>3. CASE c.op = "start"
        BY <4>3 DEF Gp1Write
      <4>4. CASE c.op = "mode"
        BY <4>4 DEF Gp1Write
      <4> QED BY <1>4, <4>1, <4>2, <4>3, <4>4 DEF Gp1Ops
    <3>2. \A v : SameParser(g, [g EXCEPT !.irq = v]) /\ [g EXCEPT !.irq = v].latch = g.latch
      BY <1>1 DEF SameParser, ParserFields, GpuFields
    <3>3. \A v : SameParser(g, [g EXCEPT !.screen = v]) /\ [g EXCEPT !.screen = v].latch = g.latch
      BY <1>1 DEF SameParser, ParserFields, GpuFields
    <3> QED BY <3>1, <3>2, <3>3
  <2> QED BY <1>4, <2>1, SameParserParses DEF Heard
<1> QED BY <1>2, <1>3, <1>4

(***************************************************************************)
(* Runs of the GPU's channel                                               *)
(***************************************************************************)
DeviceFields == {"ram", "gpu", "mdec", "cd", "spu"}
Addresses(ats, m) == DOMAIN ats = 1..m /\ \A i \in 1..m : ats[i] \in 0..(RamWords - 1)

\* A run stays in memory, up and down.
LEMMA RunIsAddresses ==
  ASSUME NEW a \in Nat, NEW n \in Nat, NEW down \in BOOLEAN
  PROVE  Addresses(Run(a, n, down), n)
<1>1. \A x \in Int : RamAddress(x) \in 0..(RamWords - 1)
  BY DmaAssumption DEF RamAddress
<1>2. \A i \in 1..n : (IF down THEN a - (i - 1) ELSE a + (i - 1)) \in Int
  OBVIOUS
<1> QED BY <1>1, <1>2 DEF Run, Addresses

\* The words of the GPU's channel.
LEMMA GpuMoves ==
  ASSUME NEW d, NEW at
  PROVE  /\ Moved(GpuChannel, TRUE, d, at) = ToGpu(d, at)
         /\ Moved(GpuChannel, FALSE, d, at) = FromGpu(d, at)
  BY DEF Moved, GpuChannel, MdecIn, MdecOut, CdChannel, SpuChannel

\* f[k] is what a run of the GPU's channel has made of d after k words.
GpuRun(f, toDevice, d, ats, m) ==
  /\ f[0] = d
  /\ \A k \in 1..m : f[k] = Moved(GpuChannel, toDevice, f[k - 1], ats[k])
  /\ f[m] = Carried(GpuChannel, toDevice, d, ats)

LEMMA GpuMovesInTurn ==
  ASSUME NEW toDevice, NEW d, NEW m \in Nat, NEW ats, DOMAIN ats = 1..m
  PROVE  \E f : GpuRun(f, toDevice, d, ats, m)
<1>1. \E f : /\ f[0] = d
             /\ \A k \in 1..m : f[k] = Moved(GpuChannel, toDevice, f[k - 1], ats[k])
             /\ f[m] = Carried(GpuChannel, toDevice, d, ats)
  BY MovesInTurn, SMT
<1> QED BY <1>1 DEF GpuRun

\* The words at some addresses.
TextAt(mem, ats, m) == [i \in 1..m |-> mem[ats[i]]]

\* The port has heard s, and the m words at ats are to follow.
Sends(d, s, ats, m) ==
  /\ DOMAIN d = DeviceFields /\ Heard(d.gpu, s)
  /\ DOMAIN ats = 1..m /\ \A i \in 1..m : IsWord(d.ram[ats[i]])

\* They have followed.
HasSent(d, s, ats, m, r) ==
  /\ DOMAIN r = DeviceFields /\ r.ram = d.ram
  /\ Heard(r.gpu, s \o TextAt(d.ram, ats, m))
  /\ m = 0 => r = d

\* The port hears the words of a run in their order, after those before them.
LEMMA WordsAreHeard ==
  ASSUME NEW d, NEW s, NEW m \in Nat, NEW ats, Sends(d, s, ats, m)
  PROVE  HasSent(d, s, ats, m, Carried(GpuChannel, TRUE, d, ats))
<1> DEFINE r == Carried(GpuChannel, TRUE, d, ats)
<1>0. /\ DOMAIN d = DeviceFields /\ Heard(d.gpu, s)
      /\ DOMAIN ats = 1..m /\ \A i \in 1..m : IsWord(d.ram[ats[i]])
  BY DEF Sends
<1>1. PICK after : /\ after[0] = d
                   /\ \A k \in 1..m : after[k] = Moved(GpuChannel, TRUE, after[k - 1], ats[k])
                   /\ after[m] = r
  <2>1. \E f : GpuRun(f, TRUE, d, ats, m)
    BY <1>0, GpuMovesInTurn
  <2> QED BY <2>1 DEF GpuRun
<1> HIDE DEF r
<1> DEFINE Words(k) == [i \in 1..k |-> d.ram[ats[i]]]
           Good(k) == /\ DOMAIN after[k] = DeviceFields /\ after[k].ram = d.ram
                      /\ Heard(after[k].gpu, s \o Words(k))
           T == {k \in Nat : k <= m => Good(k)}
<1>2. PICK R : Vocabulary(R) /\ s \in Seq(R)
  BY <1>0 DEF Heard, Spoken
<1>4. 0 \in T
  <2>1. s \o Words(0) = s
    <3>1. Words(0) = <<>>
      OBVIOUS
    <3> QED BY <1>2, <3>1, ConcatEmptySeq
  <2>2. Good(0)
    BY <1>0, <1>1, <2>1
  <2> HIDE DEF Good
  <2> QED BY <2>2
<1>5. ASSUME NEW k \in T PROVE k + 1 \in T
  <2> SUFFICES ASSUME k + 1 <= m, k \in Nat, Good(k) PROVE Good(k + 1)
    <3> HIDE DEF Good
    <3>1. k \in Nat /\ k + 1 \in Nat /\ (k + 1 <= m => k <= m)
      OBVIOUS
    <3> QED BY <3>1
  <2> DEFINE e == after[k]
             w == d.ram[ats[k + 1]]
  <2>1. k + 1 \in 1..m /\ (k + 1) - 1 = k
    OBVIOUS
  <2>2. after[k + 1] = Moved(GpuChannel, TRUE, e, ats[k + 1])
    BY <1>1, <2>1
  <2>3. after[k + 1] = [e EXCEPT !.gpu = Gp0Write(e.gpu, e.ram[ats[k + 1]])]
    BY <2>2, GpuMoves DEF ToGpu
  <2>4. /\ DOMAIN after[k + 1] = DeviceFields /\ after[k + 1].ram = d.ram
        /\ after[k + 1].gpu = Gp0Write(e.gpu, w)
    <3> HIDE DEF Words
    <3> QED BY <2>3 DEF DeviceFields
  <2>5. s \o Words(k + 1) = Append(s \o Words(k), w)
    <3> DEFINE Q == {s[i] : i \in 1..Len(s)} \cup {d.ram[ats[i]] : i \in 1..m}
    <3>1. s \in Seq(Q)
      BY <1>2
    <3>2. \A i \in 1..(k + 1) : i \in 1..m
      BY <2>1
    <3>3. Words(k) \in Seq(Q) /\ w \in Q
      BY <2>1, <3>2
    <3>4. Words(k + 1) = Append(Words(k), w)
      BY <2>1, <3>2
    <3> HIDE DEF Q, Words, w
    <3>5. Append(Words(k), w) = Words(k) \o <<w>> /\ <<w>> \in Seq(Q)
      BY <3>3, OneAppended
    <3>6. s \o (Words(k) \o <<w>>) = (s \o Words(k)) \o <<w>>
      BY <3>1, <3>3, <3>5, ConcatAssociative
    <3>7. s \o Words(k) \in Seq(Q)
      BY <3>1, <3>3, ConcatProperties
    <3>8. Append(s \o Words(k), w) = (s \o Words(k)) \o <<w>>
      BY <3>3, <3>7, OneAppended
    <3> QED BY <3>4, <3>5, <3>6, <3>8
  <2>6. Heard(e.gpu, s \o Words(k)) /\ IsWord(w)
    BY <1>0, <2>1
  <2> HIDE DEF e, w, Words
  <2>7. Heard(Gp0Write(e.gpu, w), Append(s \o Words(k), w))
    BY <2>6, HeardOneMore, Zenon
  <2> QED BY <2>4, <2>5, <2>7
<1>6. T = Nat
  <2>1. T \in SUBSET Nat
    OBVIOUS
  <2> HIDE DEF T
  <2> QED BY <1>4, <1>5, <2>1, Induction
<1>7. Good(m)
  <2> HIDE DEF Good
  <2> QED BY <1>6
<1>8. m = 0 => r = d
  BY <1>1
<1> QED BY <1>1, <1>7, <1>8 DEF TextAt, HasSent, r

\* In particular those of a block.
LEMMA BlockIsHeard ==
  ASSUME WordsIn(ram), NEW s, Heard(gpu, s), NEW m \in Nat, NEW ats, Addresses(ats, m),
         NEW r, r = Carried(GpuChannel, TRUE, Devices, ats)
  PROVE  r.ram = ram /\ Heard(r.gpu, s \o [i \in 1..m |-> ram[ats[i]]])
<1> DEFINE d == Devices
<1>1. DOMAIN d = DeviceFields /\ d.ram = ram /\ d.gpu = gpu
  BY DEF Devices, DeviceFields
<1>2. r = Carried(GpuChannel, TRUE, d, ats)
  OBVIOUS
<1> HIDE DEF d
<1>3. Sends(d, s, ats, m)
  BY <1>1 DEF Addresses, WordsIn, Sends
<1>4. HasSent(d, s, ats, m, r)
  BY <1>2, <1>3, WordsAreHeard
<1> QED BY <1>1, <1>4 DEF HasSent, TextAt

\* What GPUREAD returns can be sent.
LEMMA BlockIsRead ==
  ASSUME WordsIn(ram), NEW s, Heard(gpu, s), NEW m \in Nat, NEW ats, Addresses(ats, m),
         NEW r, r = Carried(GpuChannel, FALSE, Devices, ats)
  PROVE  WordsIn(r.ram) /\ Heard(r.gpu, s)
<1>1. PICK after : /\ after[0] = Devices
                   /\ \A k \in 1..m : after[k] = Moved(GpuChannel, FALSE, after[k - 1], ats[k])
                   /\ after[m] = r
  <2>1. \E f : GpuRun(f, FALSE, Devices, ats, m)
    BY GpuMovesInTurn DEF Addresses
  <2> QED BY <2>1 DEF GpuRun
<1> DEFINE Good(k) == DOMAIN after[k] = DeviceFields /\ WordsIn(after[k].ram) /\ Heard(after[k].gpu, s)
           T == {k \in Nat : k <= m => Good(k)}
<1>2. 0 \in T
  <2>1. DOMAIN Devices = DeviceFields /\ Devices.ram = ram /\ Devices.gpu = gpu
    BY DEF Devices, DeviceFields
  <2>2. Good(0)
    BY <1>1, <2>1
  <2> HIDE DEF Good
  <2> QED BY <2>2
<1>3. ASSUME NEW k \in T PROVE k + 1 \in T
  <2> SUFFICES ASSUME k + 1 <= m, k \in Nat, Good(k) PROVE Good(k + 1)
    <3> HIDE DEF Good
    <3>1. k \in Nat /\ k + 1 \in Nat /\ (k + 1 <= m => k <= m)
      OBVIOUS
    <3> QED BY <3>1
  <2> DEFINE d == after[k]
             at == ats[k + 1]
             g == GpuRead(d.gpu)
  <2>1. k + 1 \in 1..m /\ (k + 1) - 1 = k
    OBVIOUS
  <2>2. after[k + 1] = Moved(GpuChannel, FALSE, d, at)
    BY <1>1, <2>1
  <2>3. after[k + 1] = [d EXCEPT !.gpu = g.gpu, !.ram[at] = g.word]
    BY <2>2, GpuMoves DEF FromGpu
  <2>4. at \in 0..(RamWords - 1)
    BY <2>1 DEF Addresses
  <2>5. Heard(g.gpu, s) /\ IsWord(g.word)
    BY HeardRead
  <2>6. DOMAIN d = DeviceFields /\ WordsIn(d.ram)
    OBVIOUS
  <2> HIDE DEF d, at, g
  <2>7. /\ DOMAIN after[k + 1] = DeviceFields /\ after[k + 1].gpu = g.gpu
        /\ after[k + 1].ram = [d.ram EXCEPT ![at] = g.word]
    BY <2>3, <2>6 DEF DeviceFields
  <2>8. WordsIn([d.ram EXCEPT ![at] = g.word])
    BY <2>4, <2>5, <2>6 DEF WordsIn
  <2> QED BY <2>5, <2>7, <2>8
<1>4. T = Nat
  <2>1. T \in SUBSET Nat
    OBVIOUS
  <2> HIDE DEF T
  <2> QED BY <1>2, <1>3, <2>1, Induction
<1>5. Good(m)
  <2> HIDE DEF Good
  <2> QED BY <1>4
<1> QED BY <1>1, <1>5

(***************************************************************************)
(* The stream's invariant                                                  *)
(***************************************************************************)
\* While the port is used memory holds words and the parser has heard the stream.
StreamInv ==
  /\ use \in Uses
  /\ use.kind = "port" => WordsIn(ram) /\ Heard(gpu, stream)

\* What a use of the port sends are words and commands of the port.
LEMMA PortUse ==
  ASSUME use \in Uses, use.kind = "port"
  PROVE  /\ DOMAIN use.ram = 0..(RamWords - 1) /\ use.setup = <<>>
         /\ \A b \in Field(use, "blocks", {}) \cup Field(use, "reads", {}) :
              b[1] \in 0..(RamWords - 1) /\ b[2] \in Nat
         /\ \A w \in Field(use, "words", {}) : IsWord(w)
         /\ \A a \in 0..(RamWords - 1) : IsWord(use.ram[a])
         /\ \A c \in Field(use, "controls", {}) : c.op \in Gp1Ops
<1>1. UseOK(use)
  BY ProgramsAssumption
<1>2. /\ DOMAIN use.ram = 0..(RamWords - 1) /\ use.setup = <<>>
      /\ \A b \in use.blocks \cup Field(use, "reads", {}) : b[1] \in 0..(RamWords - 1) /\ b[2] \in Nat
      /\ \A w \in use.words \cup Range(use.ram) : IsWord(w)
      /\ \A c \in use.controls : c.op \in Gp1Ops
  BY <1>1 DEF UseOK
<1>3. \A f \in {"blocks", "words", "controls"} : Field(use, f, {}) \subseteq use[f]
  BY DEF Field
<1>4. \A a \in 0..(RamWords - 1) : IsWord(use.ram[a])
  <2>1. \A a \in 0..(RamWords - 1) : use.ram[a] \in Range(use.ram)
    BY <1>2 DEF Range
  <2> QED BY <1>2, <2>1
<1> QED BY <1>2, <1>3, <1>4

\* No GP1 command sent first leaves the GPU as it was.
LEMMA NothingSent == FoldLeft(Gp1Write, NewGpu, <<>>) = NewGpu
<1> DEFINE Step(f, s) == IF s = {} THEN NewGpu
                         ELSE Gp1Write(f[s \ {Max(s)}], <<>>[Max(s)])
           Made(f) == f = [s \in SUBSET (DOMAIN <<>>) |-> Step(f, s)]
           Total == CHOOSE f : Made(f)
<1>1. FoldLeft(Gp1Write, NewGpu, <<>>) = Total[DOMAIN <<>>]
  BY DEF FoldLeft, MapThenFoldSet
<1>2. DOMAIN <<>> = {} /\ SUBSET {} = {{}}
  OBVIOUS
<1>3. Made([s \in SUBSET {} |-> NewGpu])
  <2> HIDE DEF Step
  <2>1. \A f, s : s \in SUBSET {} => Step(f, s) = NewGpu
    BY DEF Step
  <2> QED BY <1>2, <2>1
<1>4. Made(Total)
  <2> HIDE DEF Made
  <2> QED BY <1>3
<1> HIDE DEF Total
<1>5. Total[{}] = Step(Total, {})
  <2> HIDE DEF Step
  <2> QED BY <1>2, <1>4
<1> QED BY <1>1, <1>2, <1>5

LEMMA StreamInit == Init => StreamInv
<1> SUFFICES ASSUME Init PROVE StreamInv
  OBVIOUS
<1>1. use \in Uses /\ ram = use.ram /\ gpu = FoldLeft(Gp1Write, NewGpu, use.setup) /\ stream = <<>>
  BY DEF Init
<1>2. ASSUME use.kind = "port" PROVE WordsIn(ram) /\ Heard(gpu, stream)
  <2>1. WordsIn(ram)
    BY <1>1, <1>2, PortUse DEF WordsIn
  <2>2. use.setup = <<>>
    BY <1>1, <1>2, PortUse
  <2>3. FoldLeft(Gp1Write, NewGpu, <<>>) = NewGpu
    BY NothingSent
  <2>4. Heard(gpu, stream)
    BY <1>1, <2>2, <2>3, NewGpuIsFresh, FreshIsHeard
  <2> QED BY <2>1, <2>4
<1> QED BY <1>1, <1>2 DEF StreamInv

\* The blocks of the GPU's channel that SendBlock and ReadBlock start.
LEMMA BlockRun ==
  ASSUME NEW a, NEW size, NEW down
  PROVE  /\ Triggered(Armed("manual", TRUE, down)) /\ Triggered(Armed("request", FALSE, down))
         /\ Ran(GpuChannel, a, [size |-> size, blocks |-> 0], Armed("manual", TRUE, down)).devices
              = Carried(GpuChannel, TRUE, Devices, Run(a, Bounded(size, 1), down))
         /\ Ran(GpuChannel, a, [size |-> size, blocks |-> 0], Armed("request", FALSE, down)).devices
              = Carried(GpuChannel, FALSE, Devices, Run(a, Bounded(size, 1) * Bounded(0, 1), down))
<1>1. GpuChannel \in WordChannels /\ GpuChannel # Otc
  BY DEF WordChannels, GpuChannel, MdecIn, SpuChannel, Otc
<1> DEFINE b == [size |-> size, blocks |-> 0]
           c == Armed("manual", TRUE, down)
           e == Armed("request", FALSE, down)
<1>2. /\ c.on /\ c.sync = "manual" /\ c.toDevice = TRUE /\ c.down = down /\ c.trigger
      /\ e.on /\ e.sync = "request" /\ e.toDevice = FALSE /\ e.down = down
      /\ b.size = size /\ b.blocks = 0
  BY DEF Armed
<1> HIDE DEF b, c, e
<1>3. Triggered(c) /\ Triggered(e)
  BY <1>2 DEF Triggered
<1>4. GpuWords(b, c) = Bounded(size, 1) /\ GpuWords(b, e) = Bounded(size, 1) * Bounded(0, 1)
  BY <1>2 DEF GpuWords, BlockWords
<1>5. Ran(GpuChannel, a, b, c).devices = Carried(GpuChannel, TRUE, Devices, Run(a, Bounded(size, 1), down))
  <2>1. Ran(GpuChannel, a, b, c).devices =
          Carried(GpuChannel, c.toDevice, Devices, Run(a, GpuWords(b, c), c.down))
    BY <1>1, <1>2 DEF Ran
  <2> QED BY <1>2, <1>4, <2>1, Zenon
<1>6. Ran(GpuChannel, a, b, e).devices
        = Carried(GpuChannel, FALSE, Devices, Run(a, Bounded(size, 1) * Bounded(0, 1), down))
  <2>1. Ran(GpuChannel, a, b, e).devices =
          Carried(GpuChannel, e.toDevice, Devices, Run(a, GpuWords(b, e), e.down))
    BY <1>1, <1>2 DEF Ran
  <2> QED BY <1>2, <1>4, <2>1, Zenon
<1> QED BY <1>3, <1>5, <1>6 DEF b, c, e

\* Counts of 0 are 1.
LEMMA BoundedType == \A n \in Nat : Bounded(n, 1) \in Nat
  BY DEF Bounded

\* A use of another kind is none of the port's.
LEMMA OthersKeep ==
  ASSUME StreamInv, NEW kind, kind # "port", Others(kind)
  PROVE  StreamInv'
  BY DEF StreamInv, Others

LEMMA StreamStep == StreamInv /\ [Next]_vars => StreamInv'
<1> SUFFICES ASSUME StreamInv, [Next]_vars PROVE StreamInv'
  OBVIOUS
<1>0. use \in Uses
  BY DEF StreamInv
<1>1. CASE ClearTable \/ DrawList \/ NextFrame
  BY <1>1, OthersKeep DEF ClearTable, DrawList, NextFrame
<1>2. CASE \E z \in DOMAIN scene, p \in Field(use, "packets", {}) : AddPacket(z, p)
  BY <1>2, OthersKeep DEF AddPacket
<1>3. ASSUME NEW w \in Field(use, "words", {}), SendWord(w) PROVE StreamInv'
  <2>1. use.kind = "port" /\ use' = use /\ ram' = ram /\ gpu' = Gp0Write(gpu, w)
        /\ stream' = Append(stream, w)
    BY <1>3 DEF SendWord, Others, WriteGp0
  <2>2. IsWord(w)
    BY <1>0, <2>1, PortUse
  <2>3. WordsIn(ram) /\ Heard(gpu, stream)
    BY <2>1 DEF StreamInv
  <2>4. WordsIn(ram')
    BY <2>1, <2>3
  <2>5. Heard(gpu', stream')
    BY <2>1, <2>2, <2>3, HeardOneMore
  <2> QED BY <1>0, <2>1, <2>4, <2>5 DEF StreamInv
<1>4. ASSUME NEW b \in Field(use, "blocks", {}), NEW down \in BOOLEAN, SendBlock(b, down)
      PROVE  StreamInv'
  <2> DEFINE n == Bounded(b[2], 1)
             at == Run(b[1], n, down)
             r == Carried(GpuChannel, TRUE, Devices, at)
  <2>1. /\ use.kind = "port" /\ use' = use
        /\ StartChannel(GpuChannel, b[1], [size |-> b[2], blocks |-> 0], Armed("manual", TRUE, down))
        /\ stream' = stream \o [i \in DOMAIN at |-> ram[at[i]]]
    BY <1>4 DEF SendBlock, Others
  <2>2. b[1] \in Nat /\ n \in Nat
    <3>1. b[1] \in 0..(RamWords - 1) /\ b[2] \in Nat
      BY <1>0, <2>1, PortUse
    <3> QED BY <3>1, BoundedType
  <2>3. Addresses(at, n)
    <3> HIDE DEF n
    <3> QED BY <2>2, RunIsAddresses
  <2>4. ram' = r.ram /\ gpu' = r.gpu
    <3> DEFINE q == Ran(GpuChannel, b[1], [size |-> b[2], blocks |-> 0], Armed("manual", TRUE, down))
    <3>0. /\ Triggered(Armed("manual", TRUE, down))
          /\ Ran(GpuChannel, b[1], [size |-> b[2], blocks |-> 0], Armed("manual", TRUE, down)).devices
              = Carried(GpuChannel, TRUE, Devices, Run(b[1], Bounded(b[2], 1), down))
      <4> DEFINE a == b[1]
                 size == b[2]
      <4> HIDE DEF a, size
      <4>1. /\ Triggered(Armed("manual", TRUE, down))
            /\ Ran(GpuChannel, a, [size |-> size, blocks |-> 0], Armed("manual", TRUE, down)).devices
                 = Carried(GpuChannel, TRUE, Devices, Run(a, Bounded(size, 1), down))
        BY BlockRun, Zenon
      <4> QED BY <4>1 DEF a, size
    <3>1. Triggered(Armed("manual", TRUE, down)) /\ q.devices = r
      BY <3>0
    <3>2. ram' = q.devices.ram /\ gpu' = q.devices.gpu
      BY <2>1, <3>1 DEF StartChannel
    <3> QED BY <3>1, <3>2
  <2>5. WordsIn(ram) /\ Heard(gpu, stream)
    BY <2>1 DEF StreamInv
  <2>6. DOMAIN at = 1..n
    BY <2>3 DEF Addresses
  <2> HIDE DEF at, n
  <2>7. r.ram = ram /\ Heard(r.gpu, stream \o [i \in 1..n |-> ram[at[i]]])
    BY <2>2, <2>3, <2>5, BlockIsHeard
  <2> HIDE DEF r
  <2>8. WordsIn(ram') /\ Heard(gpu', stream')
    BY <2>1, <2>4, <2>5, <2>6, <2>7
  <2> QED BY <1>0, <2>1, <2>8 DEF StreamInv
<1>5. ASSUME NEW c \in Field(use, "controls", {}), Control(c) PROVE StreamInv'
  <2>1. use.kind = "port" /\ use' = use /\ ram' = ram /\ gpu' = Gp1Write(gpu, c)
        /\ stream' = IF c.op \in {"clear", "reset"} THEN <<>> ELSE stream
    BY <1>5 DEF Control, Others, WriteGp1
  <2>2. c.op \in Gp1Ops
    BY <1>0, <2>1, PortUse
  <2>3. WordsIn(ram) /\ Heard(gpu, stream)
    BY <2>1 DEF StreamInv
  <2>4. Heard(gpu', stream')
    BY <2>1, <2>2, <2>3, HeardControl
  <2> QED BY <1>0, <2>1, <2>3, <2>4 DEF StreamInv
<1>6. CASE ReadWord
  <2>1. use.kind = "port" /\ use' = use /\ ram' = ram /\ gpu' = GpuRead(gpu).gpu /\ stream' = stream
    BY <1>6 DEF ReadWord, Others, ReadGpu
  <2>2. WordsIn(ram) /\ Heard(gpu, stream)
    BY <2>1 DEF StreamInv
  <2>3. Heard(gpu', stream')
    BY <2>1, <2>2, HeardRead
  <2> QED BY <1>0, <2>1, <2>2, <2>3 DEF StreamInv
<1>7. ASSUME NEW b \in Field(use, "reads", {}), ReadBlock(b) PROVE StreamInv'
  <2> DEFINE n == Bounded(b[2], 1) * Bounded(0, 1)
             at == Run(b[1], n, FALSE)
             r == Carried(GpuChannel, FALSE, Devices, at)
  <2>1. /\ use.kind = "port" /\ use' = use /\ stream' = stream
        /\ StartChannel(GpuChannel, b[1], [size |-> b[2], blocks |-> 0], Armed("request", FALSE, FALSE))
    BY <1>7 DEF ReadBlock, Others
  <2>2. b[1] \in Nat /\ n \in Nat
    <3>1. b[1] \in 0..(RamWords - 1) /\ b[2] \in Nat
      BY <1>0, <2>1, PortUse
    <3>2. Bounded(b[2], 1) \in Nat /\ Bounded(0, 1) = 1
      BY <3>1, BoundedType DEF Bounded
    <3>3. \A x \in Nat : x * 1 \in Nat
      OBVIOUS
    <3> QED BY <3>1, <3>2, <3>3
  <2>3. Addresses(at, n)
    <3> HIDE DEF n
    <3> QED BY <2>2, RunIsAddresses
  <2>4. ram' = r.ram /\ gpu' = r.gpu
    <3> DEFINE q == Ran(GpuChannel, b[1], [size |-> b[2], blocks |-> 0], Armed("request", FALSE, FALSE))
    <3>0. /\ Triggered(Armed("request", FALSE, FALSE))
          /\ Ran(GpuChannel, b[1], [size |-> b[2], blocks |-> 0], Armed("request", FALSE, FALSE)).devices
              = Carried(GpuChannel, FALSE, Devices, Run(b[1], Bounded(b[2], 1) * Bounded(0, 1), FALSE))
      <4> DEFINE a == b[1]
                 size == b[2]
      <4> HIDE DEF a, size
      <4>1. /\ Triggered(Armed("request", FALSE, FALSE))
            /\ Ran(GpuChannel, a, [size |-> size, blocks |-> 0], Armed("request", FALSE, FALSE)).devices
                 = Carried(GpuChannel, FALSE, Devices, Run(a, Bounded(size, 1) * Bounded(0, 1), FALSE))
        BY BlockRun, Zenon
      <4> QED BY <4>1 DEF a, size
    <3>1. Triggered(Armed("request", FALSE, FALSE)) /\ q.devices = r
      BY <3>0
    <3>2. ram' = q.devices.ram /\ gpu' = q.devices.gpu
      BY <2>1, <3>1 DEF StartChannel
    <3> QED BY <3>1, <3>2
  <2>5. WordsIn(ram) /\ Heard(gpu, stream)
    BY <2>1 DEF StreamInv
  <2> HIDE DEF at, n
  <2>6. WordsIn(r.ram) /\ Heard(r.gpu, stream)
    BY <2>2, <2>3, <2>5, BlockIsRead
  <2> HIDE DEF r
  <2> QED BY <1>0, <2>1, <2>4, <2>6 DEF StreamInv
<1>8. CASE \/ \E n \in Field(use, "chunks", {}) : FeedByDma(n)
           \/ FeedByCpu
           \/ \E n \in Field(use, "chunks", {}) : Drain(n)
           \/ OpenUpload \/ Upload \/ Restart
  BY <1>8, OthersKeep DEF FeedByDma, FeedByCpu, Drain, OpenUpload, Upload, Restart
<1>9. CASE \/ \E c \in Field(use, "control", {}) : Configure(c)
           \/ \E ch \in Field(use, "channels", {}), c \in Field(use, "modes", {}) : Start(ch, c)
           \/ Enter \/ ReadFlags \/ AckFlags
  BY <1>9, OthersKeep DEF Configure, Start, Enter, ReadFlags, AckFlags
<1>10. CASE UNCHANGED vars
  BY <1>10 DEF StreamInv, vars, dmaVars, deviceVars
<1> QED BY <1>1, <1>2, <1>3, <1>4, <1>5, <1>6, <1>7, <1>8, <1>9, <1>10 DEF Next

\* For every set of programs: the commands the GPU has run are those of the words it
\* was sent, by stores to GP0 and by blocks of its channel in any portions, and with
\* GP1 commands and reads of GPUREAD in between (Gpu::gp0, run_gpu_words of dma.rs).
THEOREM PacketsAreTheStream == Spec => []CommandsAreTheStream
<1>1. ASSUME StreamInv PROVE CommandsAreTheStream
  <2> SUFFICES ASSUME use.kind = "port" PROVE gpu.drawn = Commands(stream)
    BY DEF CommandsAreTheStream
  <2>1. Spoken(stream) /\ Parsed(gpu, stream)
    BY <1>1 DEF StreamInv, Heard
  <2>2. PICK S : Vocabulary(S) /\ stream \in Seq(S)
    BY <2>1 DEF Spoken
  <2>3. ParsedIn(S, gpu, stream)
    BY <2>1, <2>2 DEF Parsed
  <2> QED BY <2>2, <2>3, ParsedIsCommands
<1> QED BY <1>1, StreamInit, StreamStep, PTL DEF Spec

(***************************************************************************)
(* The display list: folds, a place at a time                              *)
(***************************************************************************)
\* The greatest of some of the first numbers is one of them.
LEMMA MaxIsOne ==
  ASSUME NEW m \in Nat, NEW s \in SUBSET (1..m), s # {}
  PROVE  Max(s) \in s
<1> DEFINE T == {m - x : x \in s}
<1>0. \A x \in s : x \in Nat /\ m - x \in Nat
  OBVIOUS
<1>1. T \in SUBSET Nat /\ T # {}
  BY <1>0
<1>2. PICK t \in T : \A n \in T : t <= n
  <2> HIDE DEF T
  <2> QED BY <1>1, LeastNatural
<1>3. PICK x \in s : t = m - x
  BY <1>2
<1>4. \A y \in s : x >= y
  <2> SUFFICES ASSUME NEW y \in s PROVE x >= y
    OBVIOUS
  <2>1. m - x <= m - y
    BY <1>2, <1>3
  <2> QED BY <1>0, <2>1
<1> QED BY <1>3, <1>4, Zenon DEF Max

\* A fold over 1..m: what it makes of each set of places.
Folds(f, S, base, op, m) ==
  /\ f \in [SUBSET (1..m) -> S]
  /\ \A s \in SUBSET (1..m) :
       f[s] = IF s = {} THEN base ELSE op[<<f[s \ {Max(s)}], Max(s)>>]

\* There is such a fold: what it makes of the sets over 1..k gives those over 1..(k + 1).
LEMMA FoldExists ==
  ASSUME NEW S, NEW base \in S, NEW m \in Nat, NEW op \in [S \X (1..m) -> S]
  PROVE  \E f : Folds(f, S, base, op, m)
<1> DEFINE Step(f, s) == IF s = {} THEN base ELSE op[<<f[s \ {Max(s)}], Max(s)>>]
           Upto(k, f) == \A s \in SUBSET (1..k) : f[s] = Step(f, s)
           Some(k) == \E f \in [SUBSET (1..m) -> S] : Upto(k, f)
           T == {k \in Nat : k <= m => Some(k)}
<1>0. ASSUME NEW f \in [SUBSET (1..m) -> S], NEW s \in SUBSET (1..m) PROVE Step(f, s) \in S
  <2>1. CASE s # {}
    <3>1. Max(s) \in 1..m /\ s \ {Max(s)} \in SUBSET (1..m)
      BY <2>1, MaxIsOne
    <3>2. <<f[s \ {Max(s)}], Max(s)>> \in S \X (1..m)
      BY <3>1
    <3> QED BY <2>1, <3>2
  <2> QED BY <2>1
<1> HIDE DEF Step
<1>2. 0 \in T
  <2> DEFINE f == [s \in SUBSET (1..m) |-> base]
  <2>1. f \in [SUBSET (1..m) -> S]
    OBVIOUS
  <2>2. \A s \in SUBSET (1..0) : s = {} /\ s \in SUBSET (1..m)
    OBVIOUS
  <2>3. Upto(0, f)
    BY <2>2 DEF Step
  <2> HIDE DEF f, Upto
  <2>4. Some(0)
    BY <2>1, <2>3
  <2> HIDE DEF Some
  <2> QED BY <2>4
<1>3. ASSUME NEW k \in T PROVE k + 1 \in T
  <2> SUFFICES ASSUME k + 1 <= m, k \in Nat, Some(k)
               PROVE  Some(k + 1)
    <3> HIDE DEF Some
    <3>1. k \in Nat /\ k + 1 \in Nat /\ (k + 1 <= m => k <= m)
      OBVIOUS
    <3> QED BY <3>1
  <2>0. k \in Nat /\ k <= m
    OBVIOUS
  <2>1. PICK f \in [SUBSET (1..m) -> S] : Upto(k, f)
    OBVIOUS
  <2> DEFINE g == [s \in SUBSET (1..m) |-> IF k + 1 \in s THEN Step(f, s) ELSE f[s]]
  <2>2. g \in [SUBSET (1..m) -> S]
    BY <1>0
  <2>3. ASSUME NEW s \in SUBSET (1..(k + 1)) PROVE g[s] = Step(g, s)
    <3>1. s \in SUBSET (1..m)
      BY <2>0
    <3>2. CASE k + 1 \in s
      <4>1. Max(s) = k + 1 /\ s # {}
        BY <2>0, <3>2, MaxIsLast
      <4>2. s \ {k + 1} \in SUBSET (1..m) /\ k + 1 \notin s \ {k + 1}
        BY <3>1
      <4>3. g[s \ {k + 1}] = f[s \ {k + 1}]
        BY <4>2
      <4>4. g[s] = Step(f, s)
        BY <3>1, <3>2
      <4> HIDE DEF g
      <4> QED BY <4>1, <4>3, <4>4 DEF Step
    <3>3. CASE k + 1 \notin s
      <4>1. s \in SUBSET (1..k)
        BY <2>0, <3>3
      <4>2. g[s] = f[s] /\ f[s] = Step(f, s)
        BY <2>1, <3>1, <3>3, <4>1
      <4>3. CASE s = {}
        <5> HIDE DEF g
        <5> QED BY <4>2, <4>3 DEF Step
      <4>4. CASE s # {}
        <5>1. s \ {Max(s)} \in SUBSET (1..m) /\ k + 1 \notin s \ {Max(s)}
          BY <3>1, <3>3
        <5>2. g[s \ {Max(s)}] = f[s \ {Max(s)}]
          BY <5>1
        <5> HIDE DEF g
        <5> QED BY <4>2, <4>4, <5>2 DEF Step
      <4> QED BY <4>3, <4>4
    <3> QED BY <3>2, <3>3
  <2>4. Upto(k + 1, g)
    BY <2>3
  <2> HIDE DEF g, Upto
  <2> QED BY <2>2, <2>4
<1>4. T = Nat
  <2>1. T \in SUBSET Nat
    OBVIOUS
  <2> HIDE DEF T
  <2> QED BY <1>2, <1>3, <2>1, Induction
<1>5. PICK f \in [SUBSET (1..m) -> S] : Upto(m, f)
  <2>1. Some(m)
    <3> HIDE DEF Some
    <3> QED BY <1>4
  <2> HIDE DEF Upto
  <2> QED BY <2>1
<1> QED BY <1>5 DEF Folds, Step

\* f[k] is what the fold has made of the first k.
InTurn(f, S, base, op, m) ==
  /\ f \in [0..m -> S] /\ f[0] = base
  /\ \A k \in 1..m : f[k] = op[<<f[k - 1], k>>]

\* f folds by op wherever its values are known.
FoldsBy(f, S, base, op, m) ==
  /\ f[{}] = base
  /\ \A s \in (SUBSET (1..m)) \ {{}} :
       f[s \ {Max(s)}] \in S => f[s] = op[<<f[s \ {Max(s)}], Max(s)>>]

\* Then the first k places are folded after the first k - 1.
LEMMA FoldsInTurn ==
  ASSUME NEW S, NEW base \in S, NEW m \in Nat, NEW op \in [S \X (1..m) -> S],
         NEW f, FoldsBy(f, S, base, op, m)
  PROVE  InTurn([k \in 0..m |-> f[1..k]], S, base, op, m)
<1> DEFINE g == [k \in 0..m |-> f[1..k]]
           T == {k \in Nat : k <= m => g[k] \in S}
<1>1. ASSUME NEW k \in 1..m, g[k - 1] \in S PROVE g[k] = op[<<g[k - 1], k>>] /\ g[k] \in S
  <2>1. k - 1 \in Nat /\ (k - 1) + 1 = k /\ k \in 1..k /\ k - 1 \in 0..m /\ k \in 0..m
    OBVIOUS
  <2>2. /\ 1..k \in (SUBSET (1..m)) \ {{}}
        /\ (1..k) \ {k} = 1..(k - 1)
    <3>1. 1..k \in SUBSET (1..m) /\ k \in 1..k
      BY <2>1
    <3>2. (1..k) \ {k} = 1..(k - 1)
      BY <2>1
    <3> QED BY <3>1, <3>2
  <2>3. Max(1..k) = k
    <3>1. 1..k \in SUBSET (1..((k - 1) + 1)) /\ (k - 1) + 1 \in 1..k
      BY <2>1
    <3> QED BY <2>1, <3>1, MaxIsLast
  <2>4. f[1..(k - 1)] = g[k - 1] /\ f[1..k] = g[k]
    BY <2>1
  <2> HIDE DEF g
  <2>5. g[k] = op[<<g[k - 1], k>>]
    BY <1>1, <2>2, <2>3, <2>4 DEF FoldsBy
  <2> QED BY <1>1, <2>5
<1>2. g[0] = base
  <2>1. 1..0 = {} /\ 0 \in 0..m
    OBVIOUS
  <2> QED BY <2>1 DEF FoldsBy
<1>3. T = Nat
  <2>1. T \in SUBSET Nat /\ 0 \in T
    BY <1>2
  <2>2. ASSUME NEW k \in T PROVE k + 1 \in T
    <3> SUFFICES ASSUME k + 1 <= m PROVE g[k + 1] \in S
      OBVIOUS
    <3>1. k + 1 \in 1..m /\ (k + 1) - 1 = k /\ g[k] \in S
      OBVIOUS
    <3> HIDE DEF g
    <3> QED BY <1>1, <3>1
  <2> HIDE DEF T
  <2> QED BY <2>1, <2>2, Induction
<1>4. \A k \in 0..m : g[k] \in S
  <2> HIDE DEF g
  <2> QED BY <1>3
<1>5. \A k \in 1..m : g[k] = op[<<g[k - 1], k>>]
  <2>1. \A k \in 1..m : k - 1 \in 0..m
    OBVIOUS
  <2> HIDE DEF g
  <2> QED BY <1>1, <1>4, <2>1
<1>6. g \in [0..m -> S]
  BY <1>4
<1> QED BY <1>2, <1>5, <1>6 DEF InTurn

\* Texts one after the other.
Joined(f, S, ss) ==
  /\ f \in [0..Len(ss) -> Seq(S)] /\ f[0] = <<>>
  /\ \A k \in 1..Len(ss) : f[k] = f[k - 1] \o ss[k]

\* Flat puts them together so.
LEMMA FlatInTurn ==
  ASSUME NEW S, NEW ss \in Seq(Seq(S))
  PROVE  \E f : Joined(f, S, ss) /\ f[Len(ss)] = Flat(ss)
<1> DEFINE m == Len(ss)
           op == [x \in Seq(S) \X (1..m) |-> x[1] \o ss[x[2]]]
           Step(f, s) == IF s = {} THEN <<>> ELSE f[s \ {Max(s)}] \o ss[Max(s)]
           Folded(f) == f = [s \in SUBSET (1..m) |-> Step(f, s)]
           Total == CHOOSE f : Folded(f)
<1>1. /\ m \in Nat /\ DOMAIN ss = 1..m /\ <<>> \in Seq(S)
      /\ \A k \in 1..m : ss[k] \in Seq(S)
  OBVIOUS
<1>2. Flat(ss) = Total[1..m]
  BY <1>1 DEF Flat, FoldLeft, MapThenFoldSet
<1>3. op \in [Seq(S) \X (1..m) -> Seq(S)]
  <2>1. \A a \in Seq(S), b \in Seq(S) : a \o b \in Seq(S)
    BY ConcatProperties
  <2> QED BY <1>1, <2>1
<1>4. \A a \in Seq(S), k \in 1..m : op[<<a, k>>] = a \o ss[k]
  OBVIOUS
<1> HIDE DEF op, m
<1>5. PICK f : Folds(f, Seq(S), <<>>, op, m)
  BY <1>1, <1>3, FoldExists
<1>6. Folded(f)
  <2>1. \A s \in SUBSET (1..m) : f[s] = Step(f, s)
    <3> SUFFICES ASSUME NEW s \in SUBSET (1..m), s # {} PROVE f[s] = Step(f, s)
      BY <1>5 DEF Folds
    <3>1. Max(s) \in 1..m /\ s \ {Max(s)} \in SUBSET (1..m)
      BY <1>1, MaxIsOne
    <3>2. f[s \ {Max(s)}] \in Seq(S)
      BY <1>5, <3>1 DEF Folds
    <3> QED BY <1>4, <1>5, <3>1, <3>2 DEF Folds
  <2> QED BY <1>5, <2>1 DEF Folds
<1> HIDE DEF Step
<1>7. Folded(Total)
  BY <1>6
<1> HIDE DEF Total
<1>8. \A s \in SUBSET (1..m) : Total[s] = Step(Total, s)
  BY <1>7
<1>9. FoldsBy(Total, Seq(S), <<>>, op, m)
  <2>1. Total[{}] = <<>>
    BY <1>8 DEF Step
  <2>2. ASSUME NEW s \in (SUBSET (1..m)) \ {{}}, Total[s \ {Max(s)}] \in Seq(S)
        PROVE  Total[s] = op[<<Total[s \ {Max(s)}], Max(s)>>]
    <3>1. s \in SUBSET (1..m) /\ s # {}
      OBVIOUS
    <3>2. Max(s) \in 1..m
      BY <1>1, <3>1, MaxIsOne
    <3>3. Total[s] = Total[s \ {Max(s)}] \o ss[Max(s)]
      BY <1>8, <3>1 DEF Step
    <3> QED BY <1>4, <2>2, <3>2, <3>3
  <2> QED BY <2>1, <2>2 DEF FoldsBy
<1> DEFINE g == [k \in 0..m |-> Total[1..k]]
<1>10. InTurn(g, Seq(S), <<>>, op, m)
  BY <1>1, <1>3, <1>9, FoldsInTurn
<1>11. g[m] = Total[1..m]
  BY <1>1
<1> HIDE DEF g
<1>12. \A k \in 1..m : g[k] = g[k - 1] \o ss[k]
  <2>1. \A k \in 1..m : k - 1 \in 0..m
    BY <1>1
  <2> QED BY <1>4, <1>10, <2>1 DEF InTurn
<1>13. Joined(g, S, ss)
  BY <1>10, <1>12 DEF InTurn, Joined, m
<1> QED BY <1>2, <1>11, <1>13 DEF m

\* Numbers added up one after the other.
LEMMA SumInTurn ==
  ASSUME NEW n \in Nat, NEW ns \in [1..n -> Nat]
  PROVE  \E f : /\ f \in [0..n -> Nat] /\ f[0] = 0 /\ f[n] = FoldLeft(+, 0, ns)
                /\ \A k \in 1..n : f[k] = f[k - 1] + ns[k]
<1> DEFINE op == [x \in Nat \X (1..n) |-> x[1] + ns[x[2]]]
           Step(f, s) == IF s = {} THEN 0 ELSE f[s \ {Max(s)}] + ns[Max(s)]
           Folded(f) == f = [s \in SUBSET (1..n) |-> Step(f, s)]
           Total == CHOOSE f : Folded(f)
<1>1. FoldLeft(+, 0, ns) = Total[1..n]
  BY DEF FoldLeft, MapThenFoldSet
<1>2. op \in [Nat \X (1..n) -> Nat]
  OBVIOUS
<1>3. \A a \in Nat, k \in 1..n : op[<<a, k>>] = a + ns[k]
  OBVIOUS
<1> HIDE DEF op
<1>4. PICK f : Folds(f, Nat, 0, op, n)
  BY <1>2, FoldExists
<1>5. Folded(f)
  <2>1. \A s \in SUBSET (1..n) : f[s] = Step(f, s)
    <3> SUFFICES ASSUME NEW s \in SUBSET (1..n), s # {} PROVE f[s] = Step(f, s)
      BY <1>4 DEF Folds
    <3>1. Max(s) \in 1..n /\ s \ {Max(s)} \in SUBSET (1..n)
      BY MaxIsOne
    <3>2. f[s \ {Max(s)}] \in Nat
      BY <1>4, <3>1 DEF Folds
    <3> QED BY <1>3, <1>4, <3>1, <3>2 DEF Folds
  <2> QED BY <1>4, <2>1 DEF Folds
<1> HIDE DEF Step
<1>6. Folded(Total)
  BY <1>5
<1> HIDE DEF Total
<1>7. \A s \in SUBSET (1..n) : Total[s] = Step(Total, s)
  BY <1>6
<1>8. FoldsBy(Total, Nat, 0, op, n)
  <2>1. Total[{}] = 0
    BY <1>7 DEF Step
  <2>2. ASSUME NEW s \in (SUBSET (1..n)) \ {{}}, Total[s \ {Max(s)}] \in Nat
        PROVE  Total[s] = op[<<Total[s \ {Max(s)}], Max(s)>>]
    <3>1. s \in SUBSET (1..n) /\ s # {}
      OBVIOUS
    <3>2. Max(s) \in 1..n
      BY <3>1, MaxIsOne
    <3>3. Total[s] = Total[s \ {Max(s)}] + ns[Max(s)]
      BY <1>7, <3>1 DEF Step
    <3> QED BY <1>3, <2>2, <3>2, <3>3
  <2> QED BY <2>1, <2>2 DEF FoldsBy
<1> DEFINE g == [k \in 0..n |-> Total[1..k]]
<1>9. InTurn(g, Nat, 0, op, n)
  BY <1>2, <1>8, FoldsInTurn
<1>10. g[n] = Total[1..n]
  OBVIOUS
<1> HIDE DEF g
<1>11. \A k \in 1..n : g[k] = g[k - 1] + ns[k]
  <2>1. \A k \in 1..n : k - 1 \in 0..n
    OBVIOUS
  <2> QED BY <1>3, <1>9, <2>1 DEF InTurn
<1> QED BY <1>1, <1>9, <1>10, <1>11 DEF InTurn

(***************************************************************************)
(* The table                                                               *)
(***************************************************************************)
\* n entries from `top' down, each linked to the one below, the lowest to the end.
LinkedDown(mem, top, n) ==
  \A z \in 1..n : mem[top - (z - 1)] = [link |-> IF z = n THEN LinkSpace - 1 ELSE top - z]

\* Clearing a table links its entries downwards; the lowest is the end.
LEMMA ClearedIs ==
  ASSUME NEW V, NEW mem \in [0..(RamWords - 1) -> V],
         NEW top \in 0..(RamWords - 1), NEW n \in 1..(top + 1)
  PROVE  /\ Cleared(mem, top, n) \in [0..(RamWords - 1) -> V \cup [link : Nat]]
         /\ LinkedDown(Cleared(mem, top, n), top, n)
<1> DEFINE D == 0..(RamWords - 1)
           m == n - 1
           ats == Run(top, m, TRUE)
           S == [D -> V \cup [link : Nat]]
           op == [x \in S \X (1..m) |-> [x[1] EXCEPT ![ats[x[2]]] = [link |-> (ats[x[2]] - 1) % LinkSpace]]]
           Step(f, s) == IF s = {} THEN mem
                         ELSE [f[s \ {Max(s)}] EXCEPT ![ats[Max(s)]] = [link |-> (ats[Max(s)] - 1) % LinkSpace]]
           Folded(f) == f = [s \in SUBSET (1..m) |-> Step(f, s)]
           Total == CHOOSE f : Folded(f)
<1>1. m \in Nat /\ mem \in S
  OBVIOUS
<1>2. DOMAIN ats = 1..m /\ \A k \in 1..m : ats[k] = top - (k - 1) /\ ats[k] \in D /\ ats[k] >= 1
  <2>1. \A k \in 1..m : top - (k - 1) \in 1..(RamWords - 1)
    BY DmaAssumption
  <2>2. \A x \in D : RamAddress(x) = x
    BY DmaAssumption DEF RamAddress
  <2>3. DOMAIN ats = 1..m /\ \A k \in 1..m : ats[k] = RamAddress(top - (k - 1))
    BY DEF Run
  <2> HIDE DEF ats
  <2> QED BY <2>1, <2>2, <2>3
<1>3. Cleared(mem, top, n) = [Total[1..m] EXCEPT ![RamAddress(top - (n - 1))] = [link |-> LinkSpace - 1]]
  BY <1>2 DEF Cleared, FoldLeft, MapThenFoldSet
<1> HIDE DEF ats
<1>4. \A k \in 1..m : (ats[k] - 1) % LinkSpace = top - k
  <2>1. \A k \in 1..m : ats[k] - 1 = top - k /\ top - k \in Nat /\ top - k < LinkSpace
    BY <1>2, DmaAssumption
  <2>2. \A x \in Nat : x < LinkSpace => x % LinkSpace = x
    BY DmaAssumption
  <2> QED BY <2>1, <2>2
<1>5. op \in [S \X (1..m) -> S]
  <2>1. ASSUME NEW a \in S, NEW k \in 1..m
        PROVE  [a EXCEPT ![ats[k]] = [link |-> (ats[k] - 1) % LinkSpace]] \in S
    <3>1. (ats[k] - 1) % LinkSpace \in Nat
      BY <1>2, <1>4
    <3>2. [link |-> (ats[k] - 1) % LinkSpace] \in [link : Nat]
      BY <3>1
    <3> QED BY <3>2
  <2> QED BY <2>1
<1>6. \A a \in S, k \in 1..m :
        op[<<a, k>>] = [a EXCEPT ![ats[k]] = [link |-> (ats[k] - 1) % LinkSpace]]
  OBVIOUS
<1> HIDE DEF op, m, S
<1>7. PICK f : Folds(f, S, mem, op, m)
  BY <1>1, <1>5, FoldExists
<1>8. Folded(f)
  <2>1. \A s \in SUBSET (1..m) : f[s] = Step(f, s)
    <3> SUFFICES ASSUME NEW s \in SUBSET (1..m), s # {} PROVE f[s] = Step(f, s)
      BY <1>7 DEF Folds
    <3>1. Max(s) \in 1..m /\ s \ {Max(s)} \in SUBSET (1..m)
      BY <1>1, MaxIsOne
    <3>2. f[s \ {Max(s)}] \in S
      BY <1>7, <3>1 DEF Folds
    <3>3. f[s] = op[<<f[s \ {Max(s)}], Max(s)>>]
      BY <1>7 DEF Folds
    <3> QED BY <1>6, <3>1, <3>2, <3>3
  <2> QED BY <1>7, <2>1 DEF Folds
<1> HIDE DEF Step
<1>9. Folded(Total)
  BY <1>8
<1> HIDE DEF Total
<1>10. \A s \in SUBSET (1..m) : Total[s] = Step(Total, s)
  BY <1>9
<1>11. FoldsBy(Total, S, mem, op, m)
  <2>1. Total[{}] = mem
    BY <1>10 DEF Step
  <2>2. ASSUME NEW s \in (SUBSET (1..m)) \ {{}}, Total[s \ {Max(s)}] \in S
        PROVE  Total[s] = op[<<Total[s \ {Max(s)}], Max(s)>>]
    <3>1. s \in SUBSET (1..m) /\ s # {}
      OBVIOUS
    <3>2. Max(s) \in 1..m
      BY <1>1, <3>1, MaxIsOne
    <3>3. Total[s] = [Total[s \ {Max(s)}] EXCEPT ![ats[Max(s)]] = [link |-> (ats[Max(s)] - 1) % LinkSpace]]
      BY <1>10, <3>1 DEF Step
    <3> QED BY <1>6, <2>2, <3>2, <3>3
  <2> QED BY <2>1, <2>2 DEF FoldsBy
<1> DEFINE g == [k \in 0..m |-> Total[1..k]]
<1>12. InTurn(g, S, mem, op, m)
  BY <1>1, <1>5, <1>11, FoldsInTurn
<1>13. g[m] = Total[1..m]
  BY <1>1
<1> HIDE DEF g
<1>14. \A k \in 1..m : /\ k - 1 \in 0..m /\ g[k - 1] \in S /\ g[k] \in S
                       /\ g[k] = [g[k - 1] EXCEPT ![ats[k]] = [link |-> top - k]]
  <2>1. \A k \in 1..m : k - 1 \in 0..m /\ k \in 0..m
    BY <1>1
  <2>2. \A k \in 0..m : g[k] \in S
    BY <1>12 DEF InTurn
  <2>3. \A k \in 1..m : g[k] = op[<<g[k - 1], k>>]
    BY <1>12 DEF InTurn
  <2>4. \A k \in 1..m : g[k] = [g[k - 1] EXCEPT ![ats[k]] = [link |-> (ats[k] - 1) % LinkSpace]]
    BY <1>6, <2>1, <2>2, <2>3
  <2> QED BY <1>4, <2>1, <2>2, <2>4
<1> DEFINE Linked(k) == \A z \in 1..k : g[k][top - (z - 1)] = [link |-> top - z]
           T == {k \in Nat : k <= m => Linked(k)}
<1>15. T = Nat
  <2>1. T \in SUBSET Nat /\ 0 \in T
    OBVIOUS
  <2>2. ASSUME NEW k \in T PROVE k + 1 \in T
    <3> SUFFICES ASSUME k + 1 <= m PROVE Linked(k + 1)
      <4> HIDE DEF Linked
      <4> QED OBVIOUS
    <3>0. Linked(k)
      <4> HIDE DEF Linked
      <4> QED BY <1>1
    <3> SUFFICES ASSUME NEW z \in 1..(k + 1)
                 PROVE  g[k + 1][top - (z - 1)] = [link |-> top - z]
      OBVIOUS
    <3>1. k + 1 \in 1..m /\ (k + 1) - 1 = k /\ z \in 1..m
      BY <1>1
    <3>2. /\ g[k] \in S /\ g[k + 1] = [g[k] EXCEPT ![ats[k + 1]] = [link |-> top - (k + 1)]]
          /\ ats[k + 1] = top - k /\ ats[z] = top - (z - 1) /\ ats[z] \in D
      BY <1>2, <1>14, <3>1
    <3>3. CASE z = k + 1
      BY <3>2, <3>3 DEF S
    <3>4. CASE z # k + 1
      <4>1. z \in 1..k /\ top - (z - 1) # top - k
        BY <3>4
      <4>2. g[k][top - (z - 1)] = [link |-> top - z]
        BY <3>0, <4>1
      <4> QED BY <3>2, <4>1, <4>2 DEF S
    <3> QED BY <3>3, <3>4
  <2> HIDE DEF T
  <2> QED BY <2>1, <2>2, Induction
<1>16. Linked(m) /\ g[m] \in S
  <2> HIDE DEF Linked
  <2> QED BY <1>1, <1>12, <1>15 DEF InTurn
<1>17. RamAddress(top - (n - 1)) = top - (n - 1) /\ top - (n - 1) \in D
  BY DmaAssumption DEF RamAddress
<1>18. Cleared(mem, top, n) = [g[m] EXCEPT ![top - (n - 1)] = [link |-> LinkSpace - 1]]
  BY <1>3, <1>13, <1>17
<1>19. ASSUME NEW z \in 1..n
       PROVE  Cleared(mem, top, n)[top - (z - 1)] = [link |-> IF z = n THEN LinkSpace - 1 ELSE top - z]
  <2>1. CASE z = n
    BY <1>16, <1>17, <1>18, <2>1 DEF S
  <2>2. CASE z # n
    <3>1. z \in 1..m /\ top - (z - 1) # top - (n - 1)
      BY <2>2 DEF m
    <3>2. g[m][top - (z - 1)] = [link |-> top - z] /\ top - (z - 1) \in D
      BY <1>2, <1>16, <3>1
    <3> QED BY <1>16, <1>18, <2>2, <3>1, <3>2 DEF S
  <2> QED BY <2>1, <2>2
<1>20. Cleared(mem, top, n) \in S
  <2>1. [link |-> LinkSpace - 1] \in [link : Nat]
    BY DmaAssumption
  <2>2. \A x \in [link : Nat] : [g[m] EXCEPT ![top - (n - 1)] = x] \in S
    BY <1>16 DEF S
  <2> QED BY <1>18, <2>1, <2>2
<1> QED BY <1>19, <1>20 DEF S, LinkedDown

(***************************************************************************)
(* The walk                                                                *)
(***************************************************************************)
\* The walk visits a header after the other.
LEMMA ListInTurn ==
  ASSUME NEW d, NEW a
  PROVE  \E v : /\ v[0] = [d |-> d, done |-> FALSE, at |-> RamAddress(a)]
                /\ \A k \in 1..ListCap : v[k] = ListStep(v[k - 1])
                /\ v[ListCap].d = GpuList(d, a)
<1> DEFINE n == ListCap
           first == [d |-> d, done |-> FALSE, at |-> RamAddress(a)]
           Step(f, s) == IF s = {} THEN first ELSE ListStep(f[s \ {Max(s)}])
           Folded(f) == f = [s \in SUBSET (1..n) |-> Step(f, s)]
           Total == CHOOSE f : Folded(f)
           Visits(v, k) == v[0] = first /\ \A i \in 1..k : v[i] = ListStep(v[i - 1])
           T == {k \in Nat : \E v : DOMAIN v = 0..k /\ Visits(v, k)}
<1>1. GpuList(d, a) = Total[1..n].d
  BY DmaAssumption DEF GpuList, FoldLeft, MapThenFoldSet
<1> HIDE DEF first
<1>2. n \in Nat \ {0}
  BY DmaAssumption
<1>3. T = Nat
  <2>1. 0 \in T
    <3>1. DOMAIN [i \in 0..0 |-> first] = 0..0 /\ Visits([i \in 0..0 |-> first], 0)
      OBVIOUS
    <3> QED BY <3>1
  <2>2. ASSUME NEW k \in T PROVE k + 1 \in T
    <3>1. PICK v : DOMAIN v = 0..k /\ Visits(v, k)
      OBVIOUS
    <3> DEFINE w == [i \in 0..(k + 1) |-> IF i = k + 1 THEN ListStep(v[k]) ELSE v[i]]
    <3>2. DOMAIN w = 0..(k + 1) /\ w[0] = first
      BY <3>1
    <3>3. ASSUME NEW i \in 1..(k + 1) PROVE w[i] = ListStep(w[i - 1])
      <4>1. i - 1 \in 0..k /\ i \in 0..(k + 1) /\ w[i - 1] = v[i - 1]
        OBVIOUS
      <4>2. CASE i = k + 1
        <5>1. w[i] = ListStep(v[k]) /\ i - 1 = k
          BY <4>2
        <5> HIDE DEF w
        <5> QED BY <4>1, <5>1
      <4>3. CASE i # k + 1
        <5>1. i \in 1..k /\ w[i] = v[i]
          BY <4>3
        <5> HIDE DEF w
        <5> QED BY <3>1, <4>1, <5>1
      <4> QED BY <4>2, <4>3
    <3> HIDE DEF w
    <3>4. Visits(w, k + 1)
      BY <3>2, <3>3
    <3>5. k + 1 \in Nat
      OBVIOUS
    <3> HIDE DEF Visits
    <3> QED BY <3>2, <3>4, <3>5
  <2>3. T \in SUBSET Nat
    OBVIOUS
  <2> HIDE DEF T
  <2> QED BY <2>1, <2>2, <2>3, Induction
<1>4. PICK v : Visits(v, n)
  <2> HIDE DEF Visits
  <2> QED BY <1>2, <1>3
<1> DEFINE F == [s \in SUBSET (1..n) |-> v[Cardinality(s)]]
<1>5. Folded(F)
  <2>1. ASSUME NEW s \in SUBSET (1..n) PROVE F[s] = Step(F, s)
    <3>1. CASE s = {}
      <4>1. Cardinality(s) = 0
        BY <3>1, FS_EmptySet
      <4> QED BY <1>4, <3>1, <4>1
    <3>2. CASE s # {}
      <4>1. IsFiniteSet(1..n) /\ Cardinality(1..n) = n
        BY <1>2, FS_Interval
      <4>2. IsFiniteSet(s) /\ Cardinality(s) <= n
        BY <4>1, FS_Subset
      <4>3. Cardinality(s) \in 1..n
        BY <1>2, <3>2, <4>2, FS_CardinalityType, FS_EmptySet
      <4>4. Max(s) \in s
        BY <1>2, <3>2, MaxIsOne
      <4>5. Cardinality(s \ {Max(s)}) = Cardinality(s) - 1
        BY <4>2, <4>4, FS_RemoveElement
      <4>6. F[s \ {Max(s)}] = v[Cardinality(s) - 1] /\ F[s] = v[Cardinality(s)]
        BY <4>5
      <4>7. v[Cardinality(s)] = ListStep(v[Cardinality(s) - 1])
        BY <1>4, <4>3
      <4> HIDE DEF F
      <4> QED BY <3>2, <4>6, <4>7
    <3> QED BY <3>1, <3>2
  <2> HIDE DEF Step
  <2>2. F = [s \in SUBSET (1..n) |-> F[s]]
    OBVIOUS
  <2> HIDE DEF F
  <2> QED BY <2>1, <2>2
<1> HIDE DEF Step
<1>6. Folded(Total)
  <2> HIDE DEF F, Folded
  <2> QED BY <1>5
<1> HIDE DEF Total
<1>7. \A s \in SUBSET (1..n) : Total[s] = Step(Total, s)
  BY <1>6
<1> DEFINE g == [k \in 0..n |-> Total[1..k]]
<1>8. g[0] = first
  <2>1. 1..0 = {} /\ 1..0 \in SUBSET (1..n) /\ 0 \in 0..n
    BY <1>2
  <2> QED BY <1>7, <2>1 DEF Step
<1>9. ASSUME NEW k \in 1..n PROVE g[k] = ListStep(g[k - 1])
  <2>1. k - 1 \in Nat /\ k \in 0..n /\ k - 1 \in 0..n /\ (k - 1) + 1 = k
    BY <1>2
  <2>2. 1..k \in SUBSET (1..n) /\ 1..k # {} /\ (1..k) \ {k} = 1..(k - 1) /\ k \in 1..k
    BY <1>2, <2>1
  <2>3. Max(1..k) = k
    <3>1. 1..k \in SUBSET (1..((k - 1) + 1)) /\ (k - 1) + 1 \in 1..k
      BY <2>1, <2>2
    <3> QED BY <2>1, <3>1, MaxIsLast
  <2>4. Total[1..k] = ListStep(Total[1..(k - 1)])
    BY <1>7, <2>2, <2>3 DEF Step
  <2> QED BY <2>1, <2>4
<1>10. g[n].d = GpuList(d, a)
  BY <1>1, <1>2
<1> HIDE DEF g
<1> QED BY <1>8, <1>9, <1>10 DEF first

\* The words of a header go the way of any run of the channel.
LEMMA ListedIsCarried ==
  ASSUME NEW d, NEW ats
  PROVE  FoldLeft(ToGpu, d, ats) = Carried(GpuChannel, TRUE, d, ats)
<1>1. \A e, at : Moved(GpuChannel, TRUE, e, at) = ToGpu(e, at)
  BY GpuMoves
<1> DEFINE Sent(f)  == f = [s \in SUBSET DOMAIN ats |->
                         IF s = {} THEN d ELSE ToGpu(f[s \ {Max(s)}], ats[Max(s)])]
           Taken(f) == f = [s \in SUBSET DOMAIN ats |->
                         IF s = {} THEN d
                         ELSE Moved(GpuChannel, TRUE, f[s \ {Max(s)}], ats[Max(s)])]
<1>2. FoldLeft(ToGpu, d, ats) = (CHOOSE f : Sent(f))[DOMAIN ats]
  BY DEF FoldLeft, MapThenFoldSet
<1>3. Carried(GpuChannel, TRUE, d, ats) = (CHOOSE f : Taken(f))[DOMAIN ats]
  BY DEF Carried, FoldLeft, MapThenFoldSet
<1>4. \A f : Sent(f) <=> Taken(f)
  BY <1>1
<1> HIDE DEF Sent, Taken
<1>5. (CHOOSE f : Sent(f)) = (CHOOSE f : Taken(f))
  BY <1>4
<1> QED BY <1>2, <1>3, <1>5

\* Empty, or it holds its first command.
Opens(s) == s = <<>> \/ CommandEnd(s, 1) <= Len(s)

\* What stands behind a whole command does not change where it ends.
LEMMA OpensStill ==
  ASSUME NEW S, NEW s \in Seq(S), NEW t \in Seq(S), Opens(s), Opens(t)
  PROVE  Opens(s \o t)
<1> DEFINE u == s \o t
<1>1. CASE s = <<>>
  <2>1. u = t
    BY <1>1, ConcatEmptySeq
  <2> QED BY <2>1
<1>2. CASE s # <<>>
  <2>1. CommandEnd(s, 1) <= Len(s)
    BY <1>2 DEF Opens
  <2>2. /\ Len(s) \in Nat \ {0} /\ Len(t) \in Nat /\ Len(u) = Len(s) + Len(t)
        /\ \A j \in 1..Len(s) : u[j] = s[j]
    BY <1>2
  <2> HIDE DEF u
  <2>3. u[1] = s[1]
    BY <2>2
  <2>4. CASE ~PolyLine(s[1])
    <3>1. CommandEnd(u, 1) = CommandEnd(s, 1)
      BY <2>3, <2>4 DEF CommandEnd
    <3>2. CommandEnd(s, 1) \in Nat
      BY <2>4, WordCountType DEF CommandEnd
    <3>3. CommandEnd(u, 1) <= Len(u)
      BY <2>1, <2>2, <3>1, <3>2
    <3> QED BY <3>3 DEF Opens, u
  <2>5. CASE PolyLine(s[1])
    <3> DEFINE Closes(r, n) == {j \in 2..n :
                 Stop(r[j]) /\ (Shaded(r[1]) => (j - 1) >= 2 /\ (j - 1) % 2 = 0)}
    <3>1. \A r : LineEnd(r, 1) = IF Closes(r, Len(r)) = {} THEN Len(r) + 1
                 ELSE CHOOSE j \in Closes(r, Len(r)) : \A k \in Closes(r, Len(r)) : j <= k
      BY DEF LineEnd
    <3>2. CommandEnd(s, 1) = LineEnd(s, 1) /\ CommandEnd(u, 1) = LineEnd(u, 1)
      BY <2>3, <2>5 DEF CommandEnd
    <3>3. Closes(s, Len(s)) # {}
      <4> SUFFICES ASSUME Closes(s, Len(s)) = {} PROVE FALSE
        OBVIOUS
      <4>1. LineEnd(s, 1) = Len(s) + 1
        BY <3>1
      <4> QED BY <2>1, <2>2, <3>2, <4>1
    <3>4. Closes(s, Len(s)) \subseteq Closes(u, Len(u))
      BY <2>2, <2>3
    <3>5. Closes(u, Len(u)) \in SUBSET Nat /\ Closes(u, Len(u)) # {}
      BY <2>2, <3>3, <3>4
    <3>6. PICK e \in Closes(s, Len(s)) : e \in 2..Len(s)
      BY <3>3
    <3>7. LineEnd(u, 1) \in Closes(u, Len(u)) /\ \A k \in Closes(u, Len(u)) : LineEnd(u, 1) <= k
      <4>1. \E j \in Closes(u, Len(u)) : \A k \in Closes(u, Len(u)) : j <= k
        <5> HIDE DEF Closes
        <5> QED BY <3>5, LeastNatural
      <4> HIDE DEF Closes
      <4> QED BY <3>1, <3>5, <4>1, Zenon
    <3>8. LineEnd(u, 1) <= e /\ LineEnd(u, 1) \in Nat
      <4> HIDE DEF Closes
      <4> QED BY <3>4, <3>5, <3>6, <3>7
    <3>9. CommandEnd(u, 1) <= Len(u)
      <4> HIDE DEF Closes
      <4> QED BY <2>2, <3>2, <3>6, <3>8
    <3> QED BY <3>9 DEF Opens, u
  <2> QED BY <2>4, <2>5
<1> QED BY <1>1, <1>2

\* A whole command is drawn.
LEMMA OpensIsDrawn ==
  ASSUME NEW S, Vocabulary(S), NEW s \in Seq(S), Opens(s), Commands(s) = <<>>
  PROVE  s = <<>>
<1> SUFFICES ASSUME s # <<>> PROVE FALSE
  OBVIOUS
<1>1. 1 <= Len(s) /\ CommandEnd(s, 1) <= Len(s) /\ 1 \in 1..Len(s)
  BY DEF Opens
<1>2. From(s, 1) = <<SubSeq(s, 1, LastWord(s, 1))>> \o From(s, NextStart(s, 1)) /\ From(s, 1) = <<>>
  BY <1>1, FromStep
<1>3. NextStart(s, 1) \in Nat \ {0} /\ LastWord(s, 1) \in 1..Len(s)
  BY <1>1, StepForward
<1>4. From(s, NextStart(s, 1)) \in Seq(Phrases(S))
  BY <1>3, ParseType
<1>5. SubSeq(s, 1, LastWord(s, 1)) \in Phrases(S)
  BY <1>3 DEF Phrases
<1> DEFINE c == SubSeq(s, 1, LastWord(s, 1))
           r == From(s, NextStart(s, 1))
<1> HIDE DEF c, r
<1>6. Len(<<c>> \o r) = 1 + Len(r) /\ Len(r) \in Nat
  BY <1>4, <1>5 DEF c, r
<1> QED BY <1>2, <1>6 DEF c, r

\* The walk has sent s and goes on at a.
Walks(l, s, a) ==
  /\ DOMAIN l.d = DeviceFields /\ l.d.ram = ram /\ Heard(l.d.gpu, s) /\ Opens(s)
  /\ s = <<>> => l.d.gpu = gpu
  /\ l.at = RamAddress(a) /\ l.done = (a >= LinkSpace \div 2)

\* The header at a links to b, and the words of p follow it.
Heads(a, b, p) ==
  /\ Field(ram[a], "link", 0) = b /\ Field(ram[a], "count", 0) = Len(p)
  /\ a + Len(p) < RamWords /\ \A i \in 1..Len(p) : ram[a + i] = p[i]

\* A step of the walk sends the words of its header and goes on at its link.
LEMMA HeaderIsWalked ==
  ASSUME NEW S, Vocabulary(S), NEW s \in Seq(S), NEW p \in Seq(S), Opens(p),
         NEW a \in 0..(RamWords - 1), NEW b, Heads(a, b, p), NEW l, Walks(l, s, a)
  PROVE  Walks(ListStep(l), s \o p, b)
<1> DEFINE m == Len(p)
           ats == [i \in 1..m |-> RamAddress(l.at + i)]
           r == Carried(GpuChannel, TRUE, l.d, ats)
<1>1. l.at = a /\ l.done = FALSE
  <2>1. RamAddress(a) = a /\ ~ (a >= LinkSpace \div 2)
    BY DmaAssumption DEF RamAddress
  <2>2. l.at = RamAddress(a) /\ l.done = (a >= LinkSpace \div 2)
    BY DEF Walks
  <2>3. (a >= LinkSpace \div 2) = FALSE
    BY <2>1
  <2> QED BY <2>1, <2>2, <2>3, Zenon
<1>2. m \in Nat /\ \A i \in 1..m : ats[i] = a + i
  <2>1. m \in Nat
    OBVIOUS
  <2>2. ASSUME NEW i \in 1..m PROVE RamAddress(a + i) = a + i
    <3>1. a + i \in 0..(RamWords - 1)
      BY <2>1, DmaAssumption DEF Heads
    <3> QED BY <3>1, DmaAssumption DEF RamAddress
  <2> QED BY <1>1, <2>1, <2>2
<1>3. ListStep(l) = [d |-> r, done |-> b >= LinkSpace \div 2, at |-> RamAddress(b)]
  <2>1. l.d.ram[l.at] = ram[a]
    BY <1>1 DEF Walks
  <2>2. FoldLeft(ToGpu, l.d, ats) = r
    BY ListedIsCarried
  <2>3. Field(ram[a], "link", 0) = b /\ Field(ram[a], "count", 0) = m
    BY DEF Heads
  <2> HIDE DEF r, m
  <2> QED BY <1>1, <2>1, <2>2, <2>3 DEF ListStep
<1>4. TextAt(ram, ats, m) = p
  <2>1. \A i \in 1..m : ram[ats[i]] = p[i]
    BY <1>2 DEF Heads
  <2> HIDE DEF ats
  <2> QED BY <2>1 DEF TextAt
<1>5. Sends(l.d, s, ats, m)
  <2>1. \A i \in 1..m : IsWord(ram[ats[i]])
    <3>1. \A i \in 1..m : ram[ats[i]] = p[i] /\ p[i] \in S
      BY <1>2 DEF Heads
    <3> HIDE DEF ats
    <3> QED BY <3>1 DEF Vocabulary
  <2>2. DOMAIN ats = 1..m
    OBVIOUS
  <2> HIDE DEF ats, m
  <2> QED BY <2>1, <2>2 DEF Sends, Walks
<1>6. HasSent(l.d, s, ats, m, r)
  <2> HIDE DEF ats
  <2> QED BY <1>2, <1>5, WordsAreHeard
<1> HIDE DEF r, ats
<1>7. DOMAIN r = DeviceFields /\ r.ram = ram /\ Heard(r.gpu, s \o p)
  BY <1>4, <1>6 DEF HasSent, Walks
<1>8. Opens(s \o p)
  BY OpensStill DEF Walks
<1>9. ASSUME s \o p = <<>> PROVE r.gpu = gpu
  <2>1. Len(s) = 0 /\ Len(p) = 0
    <3>1. Len(s \o p) = Len(s) + Len(p) /\ Len(s) \in Nat /\ Len(p) \in Nat
      OBVIOUS
    <3> QED BY <1>9, <3>1
  <2>2. s = <<>> /\ r = l.d
    BY <1>6, <2>1 DEF HasSent
  <2> QED BY <2>2 DEF Walks
<1> QED BY <1>3, <1>7, <1>8, <1>9 DEF Walks

\* One more of one of the numbers is one more of the sum.
LEMMA SumOneMore ==
  ASSUME NEW n \in Nat, NEW ns \in [1..n -> Nat], NEW z \in 1..n
  PROVE  FoldLeft(+, 0, [ns EXCEPT ![z] = ns[z] + 1]) = FoldLeft(+, 0, ns) + 1
<1> DEFINE ms == [ns EXCEPT ![z] = ns[z] + 1]
<1>1. ms \in [1..n -> Nat] /\ ms[z] = ns[z] + 1 /\ \A k \in 1..n : k # z => ms[k] = ns[k]
  OBVIOUS
<1> HIDE DEF ms
<1>2. PICK f : /\ f \in [0..n -> Nat] /\ f[0] = 0 /\ f[n] = FoldLeft(+, 0, ns)
               /\ \A k \in 1..n : f[k] = f[k - 1] + ns[k]
  BY SumInTurn
<1>3. PICK g : /\ g \in [0..n -> Nat] /\ g[0] = 0 /\ g[n] = FoldLeft(+, 0, ms)
               /\ \A k \in 1..n : g[k] = g[k - 1] + ms[k]
  BY <1>1, SumInTurn
<1> DEFINE T == {k \in Nat : k <= n => g[k] = f[k] + (IF k < z THEN 0 ELSE 1)}
<1>4. T = Nat
  <2>1. T \in SUBSET Nat /\ 0 \in T
    <3>0. g[0] = 0 /\ f[0] = 0
      BY <1>2, <1>3, Zenon
    <3>1. 0 < z
      OBVIOUS
    <3>2. g[0] = f[0] + (IF 0 < z THEN 0 ELSE 1)
      BY <3>0, <3>1
    <3> QED BY <3>2
  <2>2. ASSUME NEW k \in T PROVE k + 1 \in T
    <3> SUFFICES ASSUME k + 1 <= n
                 PROVE  g[k + 1] = f[k + 1] + (IF k + 1 < z THEN 0 ELSE 1)
      OBVIOUS
    <3>1. k \in Nat /\ k \in 0..n /\ k + 1 \in 1..n /\ (k + 1) - 1 = k
      OBVIOUS
    <3>2. g[k] = f[k] + (IF k < z THEN 0 ELSE 1)
      BY <3>1
    <3> HIDE DEF T
    <3>3. f[k] \in Nat /\ g[k] \in Nat
      BY <1>2, <1>3, <3>1
    <3>4. g[k + 1] = g[k] + ms[k + 1] /\ f[k + 1] = f[k] + ns[k + 1] /\ ns[k + 1] \in Nat
      BY <1>2, <1>3, <3>1
    <3>5. CASE k + 1 = z
      <4>1. ms[k + 1] = ns[k + 1] + 1 /\ k < z /\ ~ (k + 1 < z)
        BY <1>1, <3>1, <3>5
      <4>2. g[k] = f[k] /\ g[k + 1] = g[k] + (ns[k + 1] + 1) /\ f[k + 1] = f[k] + ns[k + 1]
        <5>1. g[k] = f[k]
          BY <3>2, <3>3, <4>1
        <5> QED BY <3>4, <4>1, <5>1
      <4>3. g[k + 1] = f[k + 1] + 1
        <5> DEFINE x == f[k]
                   y == ns[k + 1]
        <5>1. x \in Nat /\ y \in Nat /\ g[k + 1] = x + (y + 1) /\ f[k + 1] = x + y
          BY <3>3, <3>4, <4>2
        <5> HIDE DEF x, y
        <5> QED BY <5>1
      <4> QED BY <4>1, <4>3
    <3>6. CASE k + 1 # z
      <4>1. ms[k + 1] = ns[k + 1] /\ (k < z <=> k + 1 < z)
        BY <1>1, <3>1, <3>6
      <4> QED BY <3>2, <3>3, <3>4, <4>1
    <3> QED BY <3>5, <3>6
  <2> HIDE DEF T
  <2> QED BY <2>1, <2>2, Induction
<1>5. g[n] = f[n] + 1
  <2>1. n \in T
    BY <1>4
  <2> QED BY <2>1
<1> QED BY <1>2, <1>3, <1>5 DEF ms

\* No numbers but zeros.
LEMMA SumOfNone ==
  ASSUME NEW n \in Nat
  PROVE  FoldLeft(+, 0, [k \in 1..n |-> 0]) = 0
<1> DEFINE ns == [k \in 1..n |-> 0]
<1>1. ns \in [1..n -> Nat] /\ \A k \in 1..n : ns[k] = 0
  OBVIOUS
<1> HIDE DEF ns
<1>2. PICK f : /\ f \in [0..n -> Nat] /\ f[0] = 0 /\ f[n] = FoldLeft(+, 0, ns)
               /\ \A k \in 1..n : f[k] = f[k - 1] + ns[k]
  BY <1>1, SumInTurn
<1> DEFINE T == {k \in Nat : k <= n => f[k] = 0}
<1>3. T = Nat
  <2>1. T \in SUBSET Nat /\ 0 \in T
    BY <1>2
  <2>2. ASSUME NEW k \in T PROVE k + 1 \in T
    <3> SUFFICES ASSUME k + 1 <= n PROVE f[k + 1] = 0
      OBVIOUS
    <3>1. k + 1 \in 1..n /\ (k + 1) - 1 = k /\ f[k] = 0
      OBVIOUS
    <3> HIDE DEF T
    <3>2. f[k + 1] = f[k] + ns[k + 1] /\ ns[k + 1] = 0
      BY <1>1, <1>2, <3>1
    <3> QED BY <3>1, <3>2
  <2> HIDE DEF T
  <2> QED BY <2>1, <2>2, Induction
<1>4. f[n] = 0
  <2>1. n \in T
    BY <1>3
  <2> QED BY <2>1
<1> QED BY <1>2, <1>4 DEF ns

\* Texts made of two parts.
LEMMA FlatOfBoth ==
  ASSUME NEW S, NEW a \in Seq(Seq(S)), NEW b \in Seq(Seq(S))
  PROVE  Flat(a \o b) = Flat(a) \o Flat(b) /\ Flat(a) \in Seq(S) /\ Flat(b) \in Seq(S)
<1> DEFINE u == a \o b
           m == Len(a)
           n == Len(b)
<1>1. /\ u \in Seq(Seq(S)) /\ Len(u) = m + n /\ m \in Nat /\ n \in Nat
      /\ \A k \in 1..m : u[k] = a[k]
      /\ \A k \in 1..n : u[m + k] = b[k] /\ b[k] \in Seq(S)
  OBVIOUS
<1>2. PICK f : Joined(f, S, a) /\ f[m] = Flat(a)
  BY FlatInTurn
<1>3. PICK g : Joined(g, S, b) /\ g[n] = Flat(b)
  BY FlatInTurn
<1> HIDE DEF u
<1>4. PICK h : Joined(h, S, u) /\ h[m + n] = Flat(u)
  BY <1>1, FlatInTurn
<1> DEFINE T == {k \in Nat : k <= m => h[k] = f[k]}
<1>5. T = Nat
  <2>1. T \in SUBSET Nat /\ 0 \in T
    BY <1>2, <1>4 DEF Joined
  <2>2. ASSUME NEW k \in T PROVE k + 1 \in T
    <3> SUFFICES ASSUME k + 1 <= m PROVE h[k + 1] = f[k + 1]
      OBVIOUS
    <3>1. k + 1 \in 1..m /\ k + 1 \in 1..Len(u) /\ (k + 1) - 1 = k /\ h[k] = f[k]
      BY <1>1
    <3>2. h[k + 1] = h[k] \o u[k + 1] /\ f[k + 1] = f[k] \o a[k + 1]
      BY <1>2, <1>4, <3>1 DEF Joined
    <3> QED BY <1>1, <3>1, <3>2
  <2> HIDE DEF T, m
  <2> QED BY <2>1, <2>2, Induction
<1>6. h[m] = f[m]
  <2>1. m \in T
    BY <1>1, <1>5
  <2> QED BY <2>1
<1>7. Flat(a) \in Seq(S) /\ Flat(b) \in Seq(S)
  <2>1. m \in 0..m /\ n \in 0..n
    BY <1>1
  <2> QED BY <1>2, <1>3, <2>1 DEF Joined
<1> DEFINE R == {k \in Nat : k <= n => h[m + k] = Flat(a) \o g[k]}
<1>8. R = Nat
  <2>1. R \in SUBSET Nat /\ 0 \in R
    <3>1. g[0] = <<>> /\ m + 0 = m
      BY <1>1, <1>3 DEF Joined
    <3>2. h[m + 0] = Flat(a) \o g[0]
      BY <1>2, <1>6, <1>7, <3>1, ConcatEmptySeq
    <3> QED BY <3>2
  <2>2. ASSUME NEW k \in R PROVE k + 1 \in R
    <3> SUFFICES ASSUME k + 1 <= n PROVE h[m + (k + 1)] = Flat(a) \o g[k + 1]
      OBVIOUS
    <3>0. h[m + k] = Flat(a) \o g[k]
      OBVIOUS
    <3>1. /\ k + 1 \in 1..n /\ m + (k + 1) \in 1..Len(u) /\ (m + (k + 1)) - 1 = m + k
          /\ (k + 1) - 1 = k /\ k \in 0..n
      <4>1. k \in Nat /\ k + 1 <= n
        OBVIOUS
      <4>2. Len(u) = m + n /\ m \in Nat /\ n \in Nat
        BY <1>1
      <4> HIDE DEF R, m, n
      <4> QED BY <4>1, <4>2
    <3> HIDE DEF R, m, n
    <3>2. h[m + (k + 1)] = h[m + k] \o u[m + (k + 1)]
      BY <1>4, <3>1 DEF Joined
    <3>3. g[k + 1] = g[k] \o b[k + 1] /\ g[k] \in Seq(S) /\ b[k + 1] \in Seq(S)
      <4>1. b[k + 1] \in Seq(S)
        BY <1>1, <3>1
      <4>2. g[k] \in Seq(S)
        <5>1. g \in [0..n -> Seq(S)]
          BY <1>3 DEF Joined, n
        <5> QED BY <3>1, <5>1
      <4>3. g[k + 1] = g[k] \o b[k + 1]
        BY <1>3, <3>1 DEF Joined, n
      <4> QED BY <4>1, <4>2, <4>3
    <3>4. u[m + (k + 1)] = b[k + 1]
      BY <1>1, <3>1
    <3>5. \A x, y, w \in Seq(S) : (x \o y) \o w = x \o (y \o w)
      BY ConcatAssociative
    <3>6. (Flat(a) \o g[k]) \o b[k + 1] = Flat(a) \o (g[k] \o b[k + 1])
      BY <1>7, <3>3, <3>5
    <3> QED BY <3>0, <3>6, <3>2, <3>3, <3>4, <3>5
  <2> HIDE DEF R
  <2> QED BY <2>1, <2>2, Induction
<1>9. h[m + n] = Flat(a) \o g[n]
  <2>1. n \in R
    BY <1>1, <1>8
  <2> QED BY <2>1
<1> QED BY <1>3, <1>4, <1>7, <1>9 DEF u

(***************************************************************************)
(* The scene                                                               *)
(***************************************************************************)
Parcels == Field(use, "packets", {})
Speech  == UNION {Range(p) : p \in Parcels}

\* A use of the list keeps its table and its packets in memory and its list short.
LEMMA ListUse ==
  ASSUME use \in Uses, use.kind = "list"
  PROVE  /\ use.top \in 0..(RamWords - 1) /\ use.size \in 1..(use.top + 1)
         /\ use.base \in (use.top + 1)..RamWords
         /\ use.most \in Nat /\ use.size + use.most <= ListCap /\ use.setup = <<>>
         /\ use.ram \in [0..(RamWords - 1) -> Range(use.ram)]
         /\ Vocabulary(Speech) /\ \A p \in Parcels : p \in Seq(Speech) /\ Opens(p)
<1>1. UseOK(use)
  BY ProgramsAssumption
<1> DEFINE Good(p) == p \in Seq(Range(p)) /\ (\A w \in Range(p) : IsWord(w))
                      /\ (p # <<>> => CommandEnd(p, 1) <= Len(p))
<1>2. /\ use.top \in 0..(RamWords - 1) /\ use.size \in 1..(use.top + 1)
      /\ use.base \in (use.top + 1)..RamWords
      /\ use.most \in Nat /\ use.size + use.most <= ListCap /\ use.setup = <<>>
      /\ use.ram \in [0..(RamWords - 1) -> Range(use.ram)]
      /\ \A p \in use.packets : Good(p)
  <2>1. use.ram \in [0..(RamWords - 1) -> Range(use.ram)]
    BY <1>1 DEF UseOK
  <2>2. \A p \in use.packets : Good(p)
    <3> SUFFICES ASSUME NEW p \in use.packets PROVE Good(p)
      OBVIOUS
    <3>1. p \in Seq(Range(p))
      BY <1>1 DEF UseOK
    <3>2. \A w \in Range(p) : IsWord(w)
      BY <1>1 DEF UseOK
    <3>3. p # <<>> => CommandEnd(p, 1) <= Len(p)
      BY <1>1 DEF UseOK
    <3> QED BY <3>1, <3>2, <3>3
  <2> HIDE DEF Good
  <2>3. /\ use.top \in 0..(RamWords - 1) /\ use.size \in 1..(use.top + 1)
        /\ use.base \in (use.top + 1)..RamWords
        /\ use.most \in Nat /\ use.size + use.most <= ListCap /\ use.setup = <<>>
    BY <1>1 DEF UseOK
  <2> QED BY <2>1, <2>2, <2>3
<1>3. \A p \in Parcels : p \in use.packets
  BY DEF Parcels, Field
<1> HIDE DEF Good
<1>4. \A p \in Parcels : Good(p)
  BY <1>2, <1>3
<1>5. Vocabulary(Speech)
  BY <1>4 DEF Good, Speech, Vocabulary
<1>6. ASSUME NEW p \in Parcels PROVE p \in Seq(Speech) /\ Opens(p)
  <2>1. p \in Seq(Range(p)) /\ (p # <<>> => CommandEnd(p, 1) <= Len(p))
    BY <1>4 DEF Good
  <2>2. Range(p) \subseteq Speech
    BY DEF Speech
  <2>3. p \in Seq(Speech)
    <3> DEFINE ws == Range(p)
    <3> HIDE DEF ws
    <3> QED BY <2>1, <2>2 DEF ws
  <2> QED BY <2>1, <2>3 DEF Opens
<1> QED BY <1>2, <1>5, <1>6

\* Where an entry of the table is, where the one below it, and the headers between.
Entry(z) == use.top - (z - 1)
Below(z) == IF z = use.size THEN LinkSpace - 1 ELSE use.top - z
Hop(at, z, j) == IF j > Packets(z) THEN Below(z) ELSE at[z][j]

\* A packet of the scene lies in the memory given out, linked to the next.
Placed(at, z, j) ==
  /\ at[z][j] \in use.base..(free - 1) /\ at[z][j] + Len(scene[z][j]) < free
  /\ Heads(at[z][j], Hop(at, z, j + 1), scene[z][j])

Threads(at) ==
  \A z \in 1..use.size :
    /\ ram[Entry(z)] = [link |-> Hop(at, z, 1)]
    /\ \A j \in 1..Packets(z) : Placed(at, z, j)

Scenes == [1..use.size -> Seq(Parcels)]

\* v[k] is where the walk is after k headers.
Strides(v) == \A k \in 1..ListCap : v[k] = ListStep(v[k - 1])

\* Texts are put together in any order.
LEMMA Regrouped == \A x, y, w \in Seq(Speech) : (x \o y) \o w = x \o (y \o w)
BY ConcatAssociative

\* Walking an entry sends its packets, the last added first.
LEMMA EntryIsWalked ==
  ASSUME use \in Uses, use.kind = "list", scene \in Scenes, free \in use.base..RamWords,
         NEW at, Threads(at), NEW z \in 1..use.size, NEW v, NEW k \in Nat,
         k + 1 + Packets(z) <= ListCap, Strides(v),
         NEW s \in Seq(Speech), Walks(v[k], s, Entry(z))
  PROVE  Walks(v[k + 1 + Packets(z)], s \o Flat(scene[z]), Below(z))
<1> DEFINE ps == scene[z]
           m == Len(ps)
<1>0. /\ ps \in Seq(Parcels) /\ m = Packets(z) /\ m \in Nat
      /\ \A j \in 1..m : ps[j] \in Parcels /\ ps[j] \in Seq(Speech) /\ Opens(ps[j])
      /\ ps \in Seq(Seq(Speech))
  <2>1. scene[z] \in Seq(Parcels)
    BY DEF Scenes
  <2>2. \A p \in Parcels : p \in Seq(Speech) /\ Opens(p)
    BY ListUse
  <2>3. ps \in Seq(Seq(Speech))
    BY <2>1, <2>2
  <2> QED BY <2>1, <2>2, <2>3 DEF Packets
<1>1. Vocabulary(Speech) /\ use.top \in 0..(RamWords - 1) /\ use.size \in 1..(use.top + 1)
      /\ use.base \in (use.top + 1)..RamWords
  BY ListUse
<1>2. PICK f : Joined(f, Speech, ps) /\ f[m] = Flat(ps)
  BY <1>0, FlatInTurn
<1> HIDE DEF ps, m
<1>3. \A j \in 0..m : f[j] \in Seq(Speech)
  <2>1. f \in [0..m -> Seq(Speech)]
    BY <1>2 DEF Joined, m
  <2> QED BY <2>1
<1> DEFINE T == {j \in Nat : j <= m => Walks(v[k + 1 + j], s \o f[j], Hop(at, z, j + 1))}
<1>4. T = Nat
  <2>1. T \in SUBSET Nat /\ 0 \in T
    <3> DEFINE h == Hop(at, z, 1)
               e == Entry(z)
    <3>1. ram[e] = [link |-> h]
      BY DEF Threads
    <3>2. e \in 0..(RamWords - 1)
      <4> DEFINE top == use.top
                 size == use.size
      <4>1. top \in 0..(RamWords - 1) /\ size \in 1..(top + 1) /\ z \in 1..size
        BY <1>1
      <4> HIDE DEF top, size
      <4>2. top - (z - 1) \in 0..(RamWords - 1)
        BY <4>1, DmaAssumption
      <4> QED BY <4>2 DEF Entry, top
    <3> HIDE DEF h, e
    <3>3. Heads(e, h, <<>>)
      <4>1. Field(ram[e], "link", 0) = h /\ Field(ram[e], "count", 0) = 0
        BY <3>1 DEF Field
      <4>2. Len(<<>>) = 0 /\ e + 0 < RamWords
        BY <3>2, DmaAssumption
      <4> QED BY <4>1, <4>2 DEF Heads
    <3>4. <<>> \in Seq(Speech) /\ Opens(<<>>)
      BY DEF Opens
    <3>5. Walks(v[k], s, e)
      BY DEF e
    <3>6. Walks(ListStep(v[k]), s \o <<>>, h)
      BY <1>1, <3>2, <3>3, <3>4, <3>5, HeaderIsWalked
    <3>7. v[k + 1] = ListStep(v[k])
      <4>1. k + 1 \in 1..ListCap /\ (k + 1) - 1 = k
        BY <1>0, DmaAssumption
      <4> QED BY <4>1 DEF Strides
    <3>8. f[0] = <<>>
      BY <1>2 DEF Joined
    <3>9. k + 1 + 0 = k + 1 /\ 0 + 1 = 1
      OBVIOUS
    <3>10. Walks(v[k + 1 + 0], s \o f[0], Hop(at, z, 0 + 1))
      BY <3>6, <3>7, <3>8, <3>9 DEF h
    <3> QED BY <3>10
  <2>2. ASSUME NEW j \in T PROVE j + 1 \in T
    <3> SUFFICES ASSUME j + 1 <= m
                 PROVE  Walks(v[k + 1 + (j + 1)], s \o f[j + 1], Hop(at, z, (j + 1) + 1))
      OBVIOUS
    <3>1. /\ j \in Nat /\ j + 1 \in 1..m /\ (j + 1) - 1 = j /\ j \in 0..m /\ ~ (j + 1 > Packets(z))
          /\ j + 1 \in 1..Packets(z)
      BY <1>0
    <3>2. Walks(v[k + 1 + j], s \o f[j], Hop(at, z, j + 1))
      BY <3>1
    <3> HIDE DEF T
    <3> DEFINE a == at[z][j + 1]
               p == ps[j + 1]
               b == Hop(at, z, (j + 1) + 1)
    <3>3. Hop(at, z, j + 1) = a
      BY <3>1 DEF Hop
    <3>4. Placed(at, z, j + 1)
      BY <3>1 DEF Threads
    <3>5. a \in use.base..(free - 1) /\ Heads(a, b, p)
      BY <3>4 DEF Placed, ps
    <3>6. a \in 0..(RamWords - 1)
      <4>1. a >= use.base /\ a <= free - 1 /\ a \in Int
        BY <3>5
      <4>2. use.base \in Nat /\ free <= RamWords /\ free \in Int
        BY <1>1, DmaAssumption
      <4> QED BY <4>1, <4>2, DmaAssumption
    <3>7. p \in Seq(Speech) /\ Opens(p)
      BY <1>0, <3>1
    <3>8. f[j] \in Seq(Speech) /\ f[j + 1] = f[j] \o p
      BY <1>2, <1>3, <3>1 DEF Joined, m
    <3> HIDE DEF a, b, p
    <3>9. s \o f[j] \in Seq(Speech)
      BY <3>8, ConcatProperties
    <3>10. Walks(v[k + 1 + j], s \o f[j], a)
      BY <3>2, <3>3
    <3>11. Walks(ListStep(v[k + 1 + j]), (s \o f[j]) \o p, b)
      BY <1>1, <3>5, <3>6, <3>7, <3>9, <3>10, HeaderIsWalked
    <3>12. v[k + 1 + (j + 1)] = ListStep(v[k + 1 + j])
      <4>1. k + 1 + (j + 1) \in 1..ListCap /\ (k + 1 + (j + 1)) - 1 = k + 1 + j
        BY <1>0, <3>1, DmaAssumption
      <4> QED BY <4>1 DEF Strides
    <3>13. (s \o f[j]) \o p = s \o f[j + 1]
      <4>1. s \in Seq(Speech) /\ f[j] \in Seq(Speech) /\ p \in Seq(Speech)
        BY <3>7, <3>8
      <4>2. (s \o f[j]) \o p = s \o (f[j] \o p)
        BY <4>1, Regrouped, Zenon
      <4> QED BY <3>8, <4>2
    <3> QED BY <3>11, <3>12, <3>13 DEF b
  <2> HIDE DEF T
  <2> QED BY <2>1, <2>2, Induction
<1>5. Walks(v[k + 1 + m], s \o f[m], Hop(at, z, m + 1))
  <2>1. m \in T
    BY <1>0, <1>4
  <2> QED BY <1>0, <2>1
<1>6. Hop(at, z, m + 1) = Below(z)
  BY <1>0 DEF Hop
<1> QED BY <1>0, <1>2, <1>5, <1>6 DEF ps

\* Walking the table sends every packet, in the painter's order.
LEMMA TableIsWalked ==
  ASSUME use \in Uses, use.kind = "list", scene \in Scenes, free \in use.base..RamWords,
         TotalPackets <= use.most, NEW at, Threads(at), DOMAIN gpu = GpuFields,
         Fresh(gpu), IsWord(gpu.latch)
  PROVE  LET r == GpuList(Devices, use.top)
         IN  /\ DOMAIN r = DeviceFields /\ r.ram = ram /\ Opens(Flat(Flat(scene)))
             /\ Heard(r.gpu, Flat(Flat(scene))) /\ Flat(Flat(scene)) \in Seq(Speech)
             /\ Flat(Flat(scene)) = <<>> => r.gpu = gpu
<1> DEFINE n == use.size
           ns == [z \in 1..n |-> Packets(z)]
<1>0. /\ n \in Nat \ {0} /\ use.top \in 0..(RamWords - 1) /\ use.most \in Nat
      /\ n + use.most <= ListCap /\ n \in 1..(use.top + 1)
      /\ \A p \in Parcels : p \in Seq(Speech)
  BY ListUse
<1>1. /\ scene \in Seq(Seq(Parcels)) /\ Len(scene) = n /\ DOMAIN scene = 1..n
      /\ \A z \in 1..n : scene[z] \in Seq(Parcels) /\ scene[z] \in Seq(Seq(Speech))
  <2>1. scene \in Seq(Seq(Parcels)) /\ Len(scene) = n /\ DOMAIN scene = 1..n
        /\ \A z \in 1..n : scene[z] \in Seq(Parcels)
    <3> DEFINE V == Seq(Parcels)
    <3>1. n \in Nat /\ scene \in [1..n -> V]
      BY <1>0 DEF Scenes
    <3> HIDE DEF V, n
    <3> QED BY <3>1 DEF V
  <2>2. \A ps \in Seq(Parcels) : ps \in Seq(Seq(Speech))
    BY <1>0
  <2> QED BY <2>1, <2>2
<1>2. PICK g : Joined(g, Parcels, scene) /\ g[n] = Flat(scene)
  BY <1>1, FlatInTurn
<1>3. \A z \in 1..n : ns[z] = Packets(z) /\ ns[z] \in Nat
  BY <1>1 DEF Packets
<1>4. ns \in [1..n -> Nat] /\ TotalPackets = FoldLeft(+, 0, ns)
  BY <1>1, <1>3 DEF TotalPackets
<1> HIDE DEF ns, n
<1>5. PICK c : /\ c \in [0..n -> Nat] /\ c[0] = 0 /\ c[n] = FoldLeft(+, 0, ns)
               /\ \A z \in 1..n : c[z] = c[z - 1] + ns[z]
  BY <1>0, <1>4, SumInTurn
<1>6. PICK v : /\ v[0] = [d |-> Devices, done |-> FALSE, at |-> RamAddress(use.top)]
               /\ Strides(v) /\ v[ListCap].d = GpuList(Devices, use.top)
  BY ListInTurn DEF Strides
<1>7. \A z \in 0..n : g[z] \in Seq(Parcels) /\ g[z] \in Seq(Seq(Speech)) /\ Flat(g[z]) \in Seq(Speech)
  <2>1. \A z \in 0..n : g[z] \in Seq(Parcels)
    <3>1. g \in [0..n -> Seq(Parcels)]
      BY <1>1, <1>2 DEF Joined
    <3> QED BY <3>1
  <2>2. \A ps \in Seq(Parcels) : ps \in Seq(Seq(Speech))
    BY <1>0
  <2>3. \A ps \in Seq(Seq(Speech)) : Flat(ps) \in Seq(Speech)
    BY FlatOfBoth
  <2> QED BY <2>1, <2>2, <2>3
<1>8. \A z \in 1..n : z + c[z] <= ListCap
  <2> DEFINE T == {i \in Nat : i <= n => c[n - i] <= c[n]}
  <2>1. T = Nat
    <3>1. T \in SUBSET Nat /\ 0 \in T
      <4>1. n - 0 = n /\ c[n] \in Nat
        <5>1. n \in 0..n /\ n - 0 = n
          BY <1>0
        <5> HIDE DEF T
        <5> QED BY <1>5, <5>1
      <4>2. c[n - 0] <= c[n]
        BY <4>1
      <4> QED BY <4>2
    <3>2. ASSUME NEW i \in T PROVE i + 1 \in T
      <4> SUFFICES ASSUME i + 1 <= n PROVE c[n - (i + 1)] <= c[n]
        OBVIOUS
      <4>1. /\ n - i \in 1..n /\ (n - i) - 1 = n - (i + 1) /\ c[n - i] <= c[n]
            /\ n - i \in 0..n /\ n - (i + 1) \in 0..n /\ n \in 0..n
        BY <1>0
      <4> HIDE DEF T
      <4>2. c[n - i] = c[n - (i + 1)] + ns[n - i] /\ ns[n - i] \in Nat
        BY <1>3, <1>5, <4>1
      <4>3. c[n - i] \in Nat /\ c[n - (i + 1)] \in Nat /\ c[n] \in Nat
        BY <1>5, <4>1
      <4> QED BY <4>1, <4>2, <4>3
    <3> HIDE DEF T
    <3> QED BY <3>1, <3>2, Induction
  <2>2. ASSUME NEW z \in 1..n PROVE z + c[z] <= ListCap
    <3>1. n - z \in Nat /\ n - (n - z) = z /\ n - z <= n /\ z \in 0..n /\ n \in 0..n
      BY <1>0
    <3>2. c[z] <= c[n] /\ c[z] \in Nat /\ c[n] \in Nat
      <4>0. n - z \in T
        <5> HIDE DEF T
        <5> QED BY <2>1, <3>1
      <4>1. c[n - (n - z)] <= c[n]
        BY <3>1, <4>0
      <4> QED BY <1>5, <3>1, <4>1
    <3>3. c[n] <= use.most
      BY <1>4, <1>5
    <3> QED BY <1>0, <3>2, <3>3, DmaAssumption
  <2> QED BY <2>2
<1> DEFINE T == {z \in Nat : z <= n => Walks(v[z + c[z]], Flat(g[z]), Below(z))}
<1>9. Flat(<<>>) = <<>>
  <2>1. <<>> \in Seq(Seq(Speech)) /\ Len(<<>>) = 0
    OBVIOUS
  <2>2. PICK f : Joined(f, Speech, <<>>) /\ f[Len(<<>>)] = Flat(<<>>)
    BY <2>1, FlatInTurn
  <2> QED BY <2>1, <2>2 DEF Joined
<1>10. T = Nat
  <2>1. T \in SUBSET Nat /\ 0 \in T
    <3>1. 0 + c[0] = 0 /\ g[0] = <<>> /\ Below(0) = use.top
      <4>0. g[0] = <<>>
        BY <1>2 DEF Joined
      <4>1. 0 + c[0] = 0 /\ g[0] = <<>>
        <5>1. c[0] = 0
          BY <1>5, Zenon
        <5> QED BY <4>0, <5>1
      <4>2. Below(0) = use.top
        BY <1>0 DEF Below, n
      <4> QED BY <4>1, <4>2
    <3>2. Heard(gpu, <<>>)
      BY FreshIsHeard
    <3>3. Walks(v[0], <<>>, use.top)
      <4>1. DOMAIN Devices = DeviceFields /\ Devices.ram = ram /\ Devices.gpu = gpu
        BY DEF Devices, DeviceFields
      <4>2. (use.top >= LinkSpace \div 2) = FALSE
        BY <1>0, DmaAssumption
      <4>4. Opens(<<>>)
        BY DEF Opens
      <4>3. v[0].d = Devices /\ v[0].at = RamAddress(use.top) /\ v[0].done = FALSE
        BY <1>6
      <4> QED BY <3>2, <4>1, <4>2, <4>3, <4>4 DEF Walks
    <3>4. Walks(v[0 + c[0]], Flat(g[0]), Below(0))
      BY <1>9, <3>1, <3>3
    <3> QED BY <3>4
  <2>2. ASSUME NEW z \in T PROVE z + 1 \in T
    <3> SUFFICES ASSUME z + 1 <= n
                 PROVE  Walks(v[(z + 1) + c[z + 1]], Flat(g[z + 1]), Below(z + 1))
      OBVIOUS
    <3>1. /\ z \in Nat /\ z + 1 \in 1..n /\ (z + 1) - 1 = z /\ z \in 0..n /\ z # n
          /\ Walks(v[z + c[z]], Flat(g[z]), Below(z))
      <4>1. z \in Nat /\ z <= n
        BY <1>0
      <4>2. Walks(v[z + c[z]], Flat(g[z]), Below(z))
        BY <4>1
      <4> HIDE DEF T
      <4> QED BY <1>0, <4>1, <4>2
    <3> HIDE DEF T
    <3>2. Below(z) = Entry(z + 1)
      BY <1>0, <3>1 DEF Below, Entry, n
    <3>3. c[z + 1] = c[z] + Packets(z + 1) /\ c[z] \in Nat /\ Packets(z + 1) \in Nat
      BY <1>3, <1>5, <3>1
    <3>4. z + c[z] \in Nat /\ (z + c[z]) + 1 + Packets(z + 1) = (z + 1) + c[z + 1]
          /\ (z + c[z]) + 1 + Packets(z + 1) <= ListCap
      <4>1. (z + c[z]) + 1 + Packets(z + 1) = (z + 1) + c[z + 1]
        BY <3>1, <3>3
      <4>2. (z + 1) + c[z + 1] <= ListCap
        BY <1>8, <3>1
      <4> QED BY <3>1, <3>3, <4>1, <4>2
    <3> DEFINE k == z + c[z]
    <3>5. Walks(v[k + 1 + Packets(z + 1)], Flat(g[z]) \o Flat(scene[z + 1]), Below(z + 1))
      <4>1. Walks(v[k], Flat(g[z]), Entry(z + 1)) /\ Flat(g[z]) \in Seq(Speech)
        BY <1>7, <3>1, <3>2
      <4>2. k \in Nat /\ k + 1 + Packets(z + 1) <= ListCap
        BY <3>4
      <4>3. z + 1 \in 1..use.size
        BY <3>1 DEF n
      <4> HIDE DEF k
      <4> QED BY <1>6, <4>1, <4>2, <4>3, EntryIsWalked
    <3>6. Flat(g[z + 1]) = Flat(g[z]) \o Flat(scene[z + 1])
      <4>1. g[z + 1] = g[z] \o scene[z + 1]
        BY <1>1, <1>2, <3>1 DEF Joined
      <4>2. g[z] \in Seq(Seq(Speech)) /\ scene[z + 1] \in Seq(Seq(Speech))
        BY <1>1, <1>7, <3>1
      <4> QED BY <4>1, <4>2, FlatOfBoth
    <3> QED BY <3>4, <3>5, <3>6
  <2> HIDE DEF T
  <2> QED BY <2>1, <2>2, Induction
<1> DEFINE walked == n + c[n]
           text == Flat(Flat(scene))
<1>11. Walks(v[walked], text, LinkSpace - 1) /\ walked \in 0..ListCap
  <2>1. n \in T /\ n \in 1..n /\ n \in 0..n
    BY <1>0, <1>10
  <2>2. Walks(v[n + c[n]], Flat(g[n]), Below(n))
    BY <1>0, <2>1
  <2> HIDE DEF T
  <2>3. Below(n) = LinkSpace - 1
    BY DEF Below, n
  <2>4. n + c[n] <= ListCap /\ c[n] \in Nat
    BY <1>5, <1>8, <2>1
  <2> QED BY <1>0, <1>2, <2>2, <2>3, <2>4, DmaAssumption
<1>12. v[walked].done
  <2>1. LinkSpace - 1 >= LinkSpace \div 2
    BY DmaAssumption
  <2> QED BY <1>11, <2>1 DEF Walks
<1>13. text \in Seq(Speech)
  <2>1. n \in 0..n
    BY <1>0
  <2> QED BY <1>2, <1>7, <2>1
<1> HIDE DEF walked, text
<1> DEFINE U == {i \in Nat : walked + i <= ListCap => v[walked + i] = v[walked]}
<1>14. U = Nat
  <2>1. U \in SUBSET Nat /\ 0 \in U
    BY <1>11
  <2>2. ASSUME NEW i \in U PROVE i + 1 \in U
    <3> SUFFICES ASSUME walked + (i + 1) <= ListCap PROVE v[walked + (i + 1)] = v[walked]
      OBVIOUS
    <3>1. /\ walked + (i + 1) \in 1..ListCap /\ (walked + (i + 1)) - 1 = walked + i
          /\ v[walked + i] = v[walked]
      BY <1>11, DmaAssumption
    <3> HIDE DEF U
    <3>2. v[walked + (i + 1)] = ListStep(v[walked])
      BY <1>6, <3>1 DEF Strides
    <3> QED BY <1>12, <3>2 DEF ListStep
  <2> HIDE DEF U
  <2> QED BY <2>1, <2>2, Induction
<1>15. v[ListCap] = v[walked]
  <2>1. ListCap - walked \in Nat /\ walked + (ListCap - walked) = ListCap /\ ListCap \in Nat
    BY <1>11, DmaAssumption
  <2>2. ListCap - walked \in U
    <3> HIDE DEF U
    <3> QED BY <1>14, <2>1
  <2>3. v[walked + (ListCap - walked)] = v[walked]
    BY <2>1, <2>2
  <2> QED BY <2>1, <2>3
<1>16. GpuList(Devices, use.top) = v[walked].d
  BY <1>6, <1>15
<1> QED BY <1>11, <1>13, <1>16 DEF Walks, text

(***************************************************************************)
(* The table's invariant                                                   *)
(***************************************************************************)
\* Memory is a map, the port is between commands until a list is drawn, and after a
\* clear the table threads the packets of the scene.
Laid ==
  /\ \E V : ram \in [0..(RamWords - 1) -> V]
  /\ DOMAIN gpu = GpuFields /\ IsWord(gpu.latch) /\ (gpu.drawn = <<>> => Fresh(gpu))
  /\ scene # <<>> => /\ scene \in Scenes /\ free \in use.base..RamWords
                     /\ TotalPackets <= use.most /\ \E at : Threads(at)

TableInv == use \in Uses /\ (use.kind = "list" => Laid)

\* The packets of the entries, and all of them.
Counts    == [z \in DOMAIN scene |-> Packets(z)]
Added(ns) == FoldLeft(+, 0, ns)

\* The total of the scene, now and after a step.
LEMMA TotalIs == TotalPackets = Added(Counts)
BY DEF TotalPackets, Added, Counts

LEMMA TotalNext == TotalPackets' = Added(Counts')
<1>1. (TotalPackets = Added(Counts))'
  BY TotalIs, PTL
<1> QED BY <1>1

\* While program, scene and memory stay, so does what threads it.
LEMMA SceneStays ==
  ASSUME UNCHANGED <<use, scene, free, ram>>
  PROVE  /\ Scenes' = Scenes /\ TotalPackets' = TotalPackets
         /\ \A at : Threads(at) => Threads(at)'
<1>1. use' = use /\ scene' = scene /\ free' = free /\ ram' = ram
  OBVIOUS
<1>2. \A z : Packets(z)' = Packets(z) /\ Entry(z)' = Entry(z) /\ Below(z)' = Below(z)
  BY <1>1 DEF Packets, Entry, Below
<1>3. \A at, z, j : Hop(at, z, j)' = Hop(at, z, j)
  BY <1>2 DEF Hop
<1>4. \A at, z, j : Placed(at, z, j) => Placed(at, z, j)'
  <2> SUFFICES ASSUME NEW at, NEW z, NEW j, Placed(at, z, j) PROVE Placed(at, z, j)'
    OBVIOUS
  <2>1. Heads(at[z][j], Hop(at, z, j + 1), scene[z][j])'
    BY <1>1, <1>3 DEF Placed, Heads
  <2>2. at[z][j] \in use'.base..(free' - 1) /\ at[z][j] + Len(scene'[z][j]) < free'
    BY <1>1 DEF Placed
  <2> QED BY <2>1, <2>2 DEF Placed
<1>5. \A at : Threads(at) => Threads(at)'
  BY <1>1, <1>2, <1>3, <1>4 DEF Threads
<1>6. Parcels' = Parcels
  BY <1>1 DEF Parcels
<1>7. Scenes' = Scenes
  BY <1>1, <1>6 DEF Scenes
<1>8. Counts' = Counts
  BY <1>1, <1>2 DEF Counts
<1>9. TotalPackets' = TotalPackets
  BY <1>8, TotalIs, TotalNext
<1> QED BY <1>5, <1>7, <1>9

\* Nothing is laid out at the start.
LEMMA TableInit == Init => TableInv
<1> SUFFICES ASSUME Init PROVE TableInv
  OBVIOUS
<1>1. use \in Uses /\ ram = use.ram /\ gpu = FoldLeft(Gp1Write, NewGpu, use.setup) /\ scene = <<>>
  BY DEF Init
<1>2. ASSUME use.kind = "list" PROVE Laid
  <2>1. use.setup = <<>> /\ use.ram \in [0..(RamWords - 1) -> Range(use.ram)]
    BY <1>1, <1>2, ListUse
  <2>2. gpu = NewGpu
    BY <1>1, <2>1, NothingSent
  <2>3. DOMAIN gpu = GpuFields /\ IsWord(gpu.latch) /\ Fresh(gpu)
    BY <2>2, NewGpuIsFresh DEF Fresh
  <2> QED BY <1>1, <2>1, <2>3 DEF Laid
<1> QED BY <1>1, <1>2 DEF TableInv

\* The table's clear.
LEMMA ClearRun ==
  ASSUME ClearTable, use.size # 0
  PROVE  /\ use.kind = "list" /\ use' = use /\ gpu' = gpu
         /\ ram' = Cleared(ram, use.top, use.size)
         /\ scene' = [z \in 1..use.size |-> <<>>] /\ free' = use.base
<1> DEFINE b == [size |-> use.size, blocks |-> 0]
           c == Armed("manual", FALSE, TRUE)
           r == Ran(Otc, use.top, b, c)
<1>1. /\ use.kind = "list" /\ use' = use /\ StartChannel(Otc, use.top, b, c)
      /\ scene' = [z \in 1..use.size |-> <<>>] /\ free' = use.base
  BY DEF ClearTable, Others
<1>2. Triggered(c) /\ b.size = use.size
  BY DEF Triggered, Armed
<1> HIDE DEF b, c
<1>3. r.devices = [Devices EXCEPT !.ram = Cleared(@, use.top, use.size)]
  <2>1. Otc # GpuChannel
    BY DEF Otc, GpuChannel
  <2>2. OtcCount(b) = use.size
    BY <1>2 DEF OtcCount
  <2>3. r.devices = [Devices EXCEPT !.ram = Cleared(@, use.top, OtcCount(b))]
    <3>1. r = [devices |-> [Devices EXCEPT !.ram = Cleared(@, use.top, OtcCount(b))], madr |-> use.top]
      BY <2>1 DEF Ran, WordChannels, Otc, MdecIn, SpuChannel
    <3> QED BY <3>1
  <2> QED BY <2>2, <2>3
<1>4. ram' = r.devices.ram /\ gpu' = r.devices.gpu
  BY <1>1, <1>2 DEF StartChannel
<1>5. r.devices.ram = Cleared(ram, use.top, use.size) /\ r.devices.gpu = gpu
  BY <1>3 DEF Devices
<1> QED BY <1>1, <1>4, <1>5

\* A clear leaves a table that threads the empty scene.
LEMMA ClearStep == TableInv /\ ClearTable => TableInv'
<1> SUFFICES ASSUME TableInv, ClearTable PROVE TableInv'
  OBVIOUS
<1>0. use \in Uses /\ use.kind = "list" /\ Laid
  BY DEF TableInv, ClearTable, Others
<1>1. /\ use.top \in 0..(RamWords - 1) /\ use.size \in 1..(use.top + 1) /\ use.size \in Nat \ {0}
      /\ use.base \in (use.top + 1)..RamWords /\ use.most \in Nat
  BY <1>0, ListUse
<1>2. /\ use' = use /\ gpu' = gpu /\ ram' = Cleared(ram, use.top, use.size)
      /\ scene' = [z \in 1..use.size |-> <<>>] /\ free' = use.base
  BY <1>1, ClearRun
<1>3. PICK V : ram \in [0..(RamWords - 1) -> V]
  BY <1>0 DEF Laid
<1>4. /\ ram' \in [0..(RamWords - 1) -> V \cup [link : Nat]]
      /\ LinkedDown(ram', use.top, use.size)
  <2>1. /\ Cleared(ram, use.top, use.size) \in [0..(RamWords - 1) -> V \cup [link : Nat]]
        /\ LinkedDown(Cleared(ram, use.top, use.size), use.top, use.size)
    BY <1>1, <1>3, ClearedIs
  <2> QED BY <1>2, <2>1
<1>5. scene' \in Scenes'
  BY <1>2 DEF Scenes
<1>6. free' \in (use.base..RamWords)'
  <2>1. use.base \in Int /\ use.base <= RamWords
    BY <1>1, DmaAssumption
  <2> QED BY <1>2, <2>1, DmaAssumption
<1>7. \A z \in 1..use.size : Packets(z)' = 0
  BY <1>2 DEF Packets
<1>8. TotalPackets' <= use'.most
  <2>1. Counts' = [z \in 1..use.size |-> 0]
    BY <1>2, <1>7 DEF Counts
  <2>2. Added([z \in 1..use.size |-> 0]) = 0
    <3>1. \A n \in Nat : Added([z \in 1..n |-> 0]) = 0
      BY SumOfNone DEF Added
    <3> QED BY <1>1, <3>1
  <2>3. TotalPackets' = 0
    BY <2>1, <2>2, TotalNext
  <2> QED BY <1>1, <1>2, <2>3
<1>9. Threads(<<>>)'
  <2> SUFFICES ASSUME NEW z \in 1..use.size
               PROVE  /\ ram'[Entry(z)'] = [link |-> Hop(<<>>, z, 1)']
                      /\ \A j \in 1..Packets(z)' : Placed(<<>>, z, j)'
    BY <1>2 DEF Threads
  <2>1. Hop(<<>>, z, 1)' = Below(z)'
    BY <1>7 DEF Hop
  <2>2. Entry(z)' = use.top - (z - 1)
        /\ Below(z)' = IF z = use.size THEN LinkSpace - 1 ELSE use.top - z
    BY <1>2 DEF Entry, Below
  <2>3. ram'[use.top - (z - 1)] = [link |-> IF z = use.size THEN LinkSpace - 1 ELSE use.top - z]
    BY <1>4 DEF LinkedDown
  <2> QED BY <1>7, <2>1, <2>2, <2>3
<1>10. Laid'
  <2>1. gpu'.drawn = <<>> => Fresh(gpu')
    BY <1>0, <1>2 DEF Laid
  <2>2. DOMAIN gpu' = GpuFields /\ IsWord(gpu'.latch)
    BY <1>0, <1>2 DEF Laid
  <2> QED BY <1>4, <1>5, <1>6, <1>8, <1>9, <2>1, <2>2 DEF Laid
<1> QED BY <1>0, <1>2, <1>10 DEF TableInv

\* The walk.
LEMMA DrawRun ==
  ASSUME DrawList
  PROVE  /\ use.kind = "list" /\ UNCHANGED <<use, scene, free>> /\ scene # <<>> /\ gpu.drawn = <<>>
         /\ ram' = GpuList(Devices, use.top).ram /\ gpu' = GpuList(Devices, use.top).gpu
<1> DEFINE c == Armed("list", TRUE, FALSE)
           r == Ran(GpuChannel, use.top, NoBlocks, c)
<1>1. /\ use.kind = "list" /\ UNCHANGED <<use, scene, free>> /\ scene # <<>> /\ gpu.drawn = <<>>
      /\ StartChannel(GpuChannel, use.top, NoBlocks, c)
  BY DEF DrawList, Others, listVars
<1>2. Triggered(c) /\ c.sync = "list"
  BY DEF Triggered, Armed
<1> HIDE DEF c
<1>3. r.devices = GpuList(Devices, use.top)
  <2>1. r = [devices |-> GpuList(Devices, use.top), madr |-> LinkSpace - 1]
    BY <1>2 DEF Ran, Otc, GpuChannel
  <2> QED BY <2>1
<1>4. ram' = r.devices.ram /\ gpu' = r.devices.gpu
  BY <1>1, <1>2 DEF StartChannel
<1> QED BY <1>1, <1>3, <1>4

\* A table that threads its scene is drawn in the painter's order.
LEMMA DrawStep ==
  ASSUME TableInv, DrawList
  PROVE  TableInv' /\ gpu'.drawn = Commands(Flat(Flat(scene)))
<1>0. use \in Uses /\ use.kind = "list" /\ Laid
  BY DrawRun DEF TableInv
<1>1. /\ UNCHANGED <<use, scene, free>> /\ scene # <<>> /\ gpu.drawn = <<>>
      /\ ram' = GpuList(Devices, use.top).ram /\ gpu' = GpuList(Devices, use.top).gpu
  BY DrawRun
<1> DEFINE text == Flat(Flat(scene))
<1>2. /\ scene \in Scenes /\ free \in use.base..RamWords /\ TotalPackets <= use.most
      /\ (\E at : Threads(at)) /\ DOMAIN gpu = GpuFields /\ Fresh(gpu) /\ IsWord(gpu.latch)
  BY <1>0, <1>1 DEF Laid
<1>3. PICK at : Threads(at)
  BY <1>2
<1>4. /\ ram' = ram /\ Opens(text) /\ Heard(gpu', text) /\ text \in Seq(Speech)
      /\ text = <<>> => gpu' = gpu
  BY <1>0, <1>1, <1>2, <1>3, TableIsWalked
<1> HIDE DEF text
<1>5. Vocabulary(Speech)
  BY <1>0, ListUse
<1>6. gpu'.drawn = Commands(text)
  <2>1. ParsedIn(Speech, gpu', text)
    BY <1>4, <1>5 DEF Heard, Parsed
  <2> QED BY <1>4, <1>5, <2>1, ParsedIsCommands
<1>7. DOMAIN gpu' = GpuFields /\ IsWord(gpu'.latch)
  BY <1>4 DEF Heard, Parsed
<1>8. ASSUME gpu'.drawn = <<>> PROVE Fresh(gpu')
  <2>1. text = <<>>
    BY <1>4, <1>5, <1>6, <1>8, OpensIsDrawn
  <2> QED BY <1>2, <1>4, <2>1
<1>9. Threads(at)'
  BY <1>1, <1>3, <1>4, SceneStays
<1>10. scene' \in Scenes' /\ free' \in (use.base..RamWords)' /\ TotalPackets' <= use'.most
  <2>1. Scenes' = Scenes /\ TotalPackets' = TotalPackets
    BY <1>1, <1>4, SceneStays
  <2> QED BY <1>1, <1>2, <2>1
<1>11. \E V : ram' \in [0..(RamWords - 1) -> V]
  BY <1>0, <1>4 DEF Laid
<1>12. Laid'
  BY <1>7, <1>8, <1>9, <1>10, <1>11 DEF Laid
<1> QED BY <1>0, <1>1, <1>6, <1>12 DEF TableInv, text

\* The next frame begins between commands, with the table as it was.
LEMMA FrameStep == TableInv /\ NextFrame => TableInv'
<1> SUFFICES ASSUME TableInv, NextFrame PROVE TableInv'
  OBVIOUS
<1>1. /\ use.kind = "list" /\ UNCHANGED <<use, scene, free>> /\ ram' = ram
      /\ gpu' = Gp1Write(gpu, [op |-> "clear"])
  BY DEF NextFrame, Others, listVars, WriteGp1
<1>2. use \in Uses /\ Laid
  BY <1>1 DEF TableInv
<1>3. DOMAIN gpu = GpuFields /\ IsWord(gpu.latch)
  BY <1>2 DEF Laid
<1>4. gpu' = [gpu EXCEPT !.buf = <<>>, !.need = 0, !.line = FALSE, !.load = NoTransfer,
                         !.store = NoTransfer, !.drawn = <<>>]
  BY <1>1 DEF Gp1Write
<1>5. Fresh(gpu') /\ DOMAIN gpu' = GpuFields /\ IsWord(gpu'.latch)
  BY <1>3, <1>4 DEF Fresh, GpuFields
<1>6. Scenes' = Scenes /\ TotalPackets' = TotalPackets /\ \A at : Threads(at) => Threads(at)'
  BY <1>1, SceneStays
<1>7. (scene \in Scenes /\ free \in use.base..RamWords /\ TotalPackets <= use.most)
        => (scene \in Scenes /\ free \in use.base..RamWords /\ TotalPackets <= use.most)'
  BY <1>1, <1>6
<1>8. Laid'
  <2>1. \E V : ram' \in [0..(RamWords - 1) -> V]
    BY <1>1, <1>2 DEF Laid
  <2>2. scene' # <<>> => /\ (scene \in Scenes /\ free \in use.base..RamWords /\ TotalPackets <= use.most)'
                         /\ \E at : Threads(at)'
    BY <1>1, <1>2, <1>6, <1>7 DEF Laid
  <2> QED BY <1>5, <2>1, <2>2 DEF Laid
<1> QED BY <1>1, <1>2, <1>8 DEF TableInv

(***************************************************************************)
(* Adding a packet                                                         *)
(***************************************************************************)
\* A packet goes in memory above the table, which takes no notice of where.
LEMMA AddFacts ==
  ASSUME use \in Uses, use.kind = "list", Laid, NEW z \in DOMAIN scene, NEW p \in Parcels,
         AddPacket(z, p)
  PROVE  /\ UNCHANGED <<use, gpu>> /\ scene # <<>>
         /\ scene' = [scene EXCEPT ![z] = <<p>> \o @] /\ free' = free + Len(p) + 1
         /\ TotalPackets < use.most /\ free + Len(p) < RamWords
         /\ Len(p) \in Nat /\ free \in use.base..RamWords
         /\ DOMAIN ram = 0..(RamWords - 1) /\ DOMAIN ram' = 0..(RamWords - 1)
         /\ \E V : ram' \in [0..(RamWords - 1) -> V]
         /\ \A a \in 0..(RamWords - 1) :
              ram'[a] = CASE a = Entry(z) -> [link |-> free]
                          [] a = free -> [link |-> ram[Entry(z)].link, count |-> Len(p)]
                          [] a \in (free + 1)..(free + Len(p)) -> p[a - free]
                          [] OTHER -> ram[a]
<1> DEFINE New(a) == CASE a = Entry(z) -> [link |-> free]
                       [] a = free -> [link |-> ram[Entry(z)].link, count |-> Len(p)]
                       [] a \in (free + 1)..(free + Len(p)) -> p[a - free]
                       [] OTHER -> ram[a]
<1>1. /\ use' = use /\ gpu' = gpu
      /\ scene' = [scene EXCEPT ![z] = <<p>> \o @] /\ free' = free + Len(p) + 1
      /\ TotalPackets < use.most /\ free + Len(p) < RamWords
      /\ ram' = [a \in DOMAIN ram |-> New(a)]
  BY DEF AddPacket, Others, Entry
<1>2. scene # <<>>
  OBVIOUS
<1>3. DOMAIN ram = 0..(RamWords - 1) /\ free \in use.base..RamWords
  BY <1>2 DEF Laid
<1>4. Len(p) \in Nat
  BY ListUse
<1> HIDE DEF New
<1>5. DOMAIN ram' = 0..(RamWords - 1) /\ \A a \in 0..(RamWords - 1) : ram'[a] = New(a)
  BY <1>1, <1>3
<1>6. ram' \in [0..(RamWords - 1) -> {New(a) : a \in 0..(RamWords - 1)}]
  BY <1>1, <1>3
<1> QED BY <1>1, <1>2, <1>3, <1>4, <1>5, <1>6 DEF New

\* The packet's entry gets one more, before the others; no other entry changes.
LEMMA AddToScene ==
  ASSUME use \in Uses, use.kind = "list", Laid, NEW z \in DOMAIN scene, NEW p \in Parcels,
         AddPacket(z, p)
  PROVE  /\ scene' \in Scenes' /\ z \in 1..use.size
         /\ \A y \in 1..use.size : Packets(y) \in Nat /\ (y # z => scene'[y] = scene[y])
         /\ Packets(z)' = Packets(z) + 1 /\ scene'[z][1] = p
         /\ \A j \in 1..Packets(z) : scene'[z][j + 1] = scene[z][j]
         /\ TotalPackets' <= use'.most
<1>1. /\ use' = use /\ scene # <<>> /\ scene' = [scene EXCEPT ![z] = <<p>> \o @]
      /\ TotalPackets < use.most
  BY AddFacts
<1>2. scene \in [1..use.size -> Seq(Parcels)] /\ use.size \in Nat /\ use.most \in Nat
  BY <1>1, ListUse DEF Laid, Scenes
<1>3. z \in 1..use.size /\ \A y \in 1..use.size : scene[y] \in Seq(Parcels) /\ Packets(y) \in Nat
  BY <1>2 DEF Packets
<1>4. /\ <<p>> \o scene[z] \in Seq(Parcels) /\ Len(<<p>> \o scene[z]) = Packets(z) + 1
      /\ (<<p>> \o scene[z])[1] = p
      /\ \A j \in 1..Packets(z) : (<<p>> \o scene[z])[j + 1] = scene[z][j]
  <2>1. <<p>> \in Seq(Parcels) /\ Len(<<p>>) = 1 /\ <<p>>[1] = p
    OBVIOUS
  <2> DEFINE P == Parcels
             s == scene[z]
  <2>2. p \in P /\ s \in Seq(P) /\ Packets(z) = Len(s)
    BY <1>3 DEF Packets
  <2> HIDE DEF P, s
  <2>3. /\ <<p>> \o s \in Seq(P) /\ Len(<<p>> \o s) = Len(s) + 1 /\ (<<p>> \o s)[1] = p
        /\ \A j \in 1..Len(s) : (<<p>> \o s)[j + 1] = s[j]
    BY <2>2
  <2> QED BY <2>2, <2>3 DEF P, s
<1>5. /\ scene'[z] = <<p>> \o scene[z] /\ \A y \in 1..use.size : y # z => scene'[y] = scene[y]
      /\ scene' \in [1..use.size -> Seq(Parcels)] /\ DOMAIN scene' = 1..use.size
  <2> DEFINE q == <<p>> \o scene[z]
  <2>1. q \in Seq(Parcels) /\ scene' = [scene EXCEPT ![z] = q]
    BY <1>1, <1>4
  <2> HIDE DEF q
  <2>2. /\ scene'[z] = q /\ \A y \in 1..use.size : y # z => scene'[y] = scene[y]
        /\ scene' \in [1..use.size -> Seq(Parcels)] /\ DOMAIN scene' = 1..use.size
    BY <1>2, <1>3, <2>1
  <2> QED BY <2>2 DEF q
<1>6. scene' \in Scenes'
  <2>1. Parcels' = Parcels
    BY <1>1 DEF Parcels
  <2> QED BY <1>1, <1>5, <2>1 DEF Scenes
<1>7. Packets(z)' = Packets(z) + 1 /\ \A y \in 1..use.size : y # z => Packets(y)' = Packets(y)
  BY <1>4, <1>5 DEF Packets
<1>8. TotalPackets' = TotalPackets + 1 /\ TotalPackets \in Nat
  <2>1. Counts \in [1..use.size -> Nat] /\ \A y \in 1..use.size : Counts[y] = Packets(y)
    BY <1>2, <1>3 DEF Counts
  <2>2. Counts' = [Counts EXCEPT ![z] = Counts[z] + 1]
    <3>1. Counts' = [y \in 1..use.size |-> Packets(y)']
      BY <1>5 DEF Counts
    <3>2. DOMAIN Counts = 1..use.size /\ Counts = [y \in 1..use.size |-> Packets(y)]
      BY <1>2 DEF Counts
    <3> QED BY <1>3, <1>7, <2>1, <3>1, <3>2
  <2>3. PICK n, ns : n = use.size /\ ns = Counts
    OBVIOUS
  <2>4. n \in Nat /\ ns \in [1..n -> Nat] /\ z \in 1..n
    BY <1>2, <1>3, <2>1, <2>3
  <2>5. Added([ns EXCEPT ![z] = ns[z] + 1]) = Added(ns) + 1
    BY <2>4, SumOneMore DEF Added
  <2>6. Added(ns) \in Nat
    <3>1. PICK f : f \in [0..n -> Nat] /\ f[n] = Added(ns)
      BY <2>4, SumInTurn DEF Added
    <3> QED BY <2>4, <3>1
  <2> QED BY <2>2, <2>3, <2>5, <2>6, TotalIs, TotalNext
<1>9. TotalPackets' <= use'.most
  BY <1>1, <1>2, <1>8
<1> QED BY <1>3, <1>4, <1>5, <1>6, <1>7, <1>9

\* What lies in memory given out and is no entry stays where it is.
LEMMA AddKeepsMemory ==
  ASSUME use \in Uses, use.kind = "list", Laid, NEW z \in DOMAIN scene, NEW p \in Parcels,
         AddPacket(z, p)
  PROVE  /\ \A y \in 1..use.size : y # z => ram'[Entry(y)] = ram[Entry(y)]
         /\ ram'[Entry(z)] = [link |-> free]
         /\ ram'[free] = [link |-> ram[Entry(z)].link, count |-> Len(p)]
         /\ \A i \in 1..Len(p) : ram'[free + i] = p[i]
         /\ \A a \in use.base..(free - 1) : ram'[a] = ram[a]
<1> DEFINE New(a) == CASE a = Entry(z) -> [link |-> free]
                       [] a = free -> [link |-> ram[Entry(z)].link, count |-> Len(p)]
                       [] a \in (free + 1)..(free + Len(p)) -> p[a - free]
                       [] OTHER -> ram[a]
<1>1. /\ free + Len(p) < RamWords /\ Len(p) \in Nat /\ free \in use.base..RamWords
      /\ \A a \in 0..(RamWords - 1) : ram'[a] = New(a)
  BY AddFacts
<1>2. PICK top, size, base, n : /\ top = use.top /\ size = use.size /\ base = use.base /\ n = Len(p)
  OBVIOUS
<1>3. /\ top \in 0..(RamWords - 1) /\ size \in 1..(top + 1) /\ base \in (top + 1)..RamWords
      /\ n \in Nat /\ free \in base..RamWords /\ free + n < RamWords /\ z \in 1..size
  BY <1>1, <1>2, ListUse, AddToScene
<1>4. /\ \A y \in 1..size : /\ Entry(y) \in 0..(RamWords - 1) /\ Entry(y) < base
                            /\ y # z => Entry(y) # Entry(z)
  <2>1. \A y \in 1..size : Entry(y) = top - (y - 1)
    BY <1>2 DEF Entry
  <2>2. \A y \in 1..size : top - (y - 1) \in 0..(RamWords - 1) /\ top - (y - 1) < base
                           /\ (y # z => top - (y - 1) # top - (z - 1))
    BY <1>3, DmaAssumption
  <2> QED BY <1>3, <2>1, <2>2
<1>5. /\ free \in 0..(RamWords - 1) /\ \A i \in 1..n : free + i \in 0..(RamWords - 1)
      /\ \A a \in base..(free - 1) : a \in 0..(RamWords - 1)
  BY <1>3, DmaAssumption
<1>6. PICK e : e = Entry(z)
  OBVIOUS
<1>7. e \in 0..(RamWords - 1) /\ e < base
  BY <1>3, <1>4, <1>6
<1> HIDE DEF New
<1>8. ASSUME NEW y \in 1..use.size, y # z PROVE ram'[Entry(y)] = ram[Entry(y)]
  <2>1. PICK b : b = Entry(y)
    OBVIOUS
  <2>2. b \in 0..(RamWords - 1) /\ b < base /\ b # e
    BY <1>2, <1>4, <1>6, <1>8, <2>1
  <2>3. b # free /\ b \notin (free + 1)..(free + n)
    BY <1>3, <2>2, DmaAssumption
  <2>4. New(b) = ram[b]
    BY <1>2, <1>6, <2>2, <2>3 DEF New
  <2> QED BY <1>1, <2>1, <2>2, <2>4
<1>9. ram'[Entry(z)] = [link |-> free]
  <2>1. e # free /\ e \notin (free + 1)..(free + n)
    BY <1>3, <1>7, DmaAssumption
  <2>2. New(e) = [link |-> free]
    BY <1>2, <1>6, <2>1 DEF New
  <2> QED BY <1>1, <1>6, <1>7, <2>2
<1>10. ram'[free] = [link |-> ram[Entry(z)].link, count |-> Len(p)]
  <2>1. free # e
    BY <1>3, <1>7, DmaAssumption
  <2>2. New(free) = [link |-> ram[Entry(z)].link, count |-> Len(p)]
    BY <1>6, <2>1 DEF New
  <2> QED BY <1>1, <1>5, <2>2
<1>11. ASSUME NEW i \in 1..Len(p) PROVE ram'[free + i] = p[i]
  <2>1. /\ free + i # e /\ free + i # free /\ free + i \in (free + 1)..(free + n)
        /\ (free + i) - free = i /\ i \in 1..n
    BY <1>2, <1>3, <1>7, DmaAssumption
  <2>2. New(free + i) = p[i]
    BY <1>2, <1>6, <2>1 DEF New
  <2> QED BY <1>1, <1>5, <2>1, <2>2
<1>12. ASSUME NEW a \in use.base..(free - 1) PROVE ram'[a] = ram[a]
  <2>1. a \in base..(free - 1)
    BY <1>2
  <2>2. a # e /\ a # free /\ a \notin (free + 1)..(free + n)
    BY <1>3, <1>7, <2>1, DmaAssumption
  <2>3. New(a) = ram[a]
    BY <1>2, <1>6, <2>2 DEF New
  <2> QED BY <1>1, <1>5, <2>1, <2>3
<1> QED BY <1>8, <1>9, <1>10, <1>11, <1>12

\* A packet added: its entry links to it, it to what the entry linked to.
LEMMA AddThreads ==
  ASSUME use \in Uses, use.kind = "list", Laid, NEW z \in DOMAIN scene, NEW p \in Parcels,
         AddPacket(z, p), NEW at, Threads(at)
  PROVE  \E bt : Threads(bt)'
<1>1. /\ use' = use /\ free' = free + Len(p) + 1 /\ free + Len(p) < RamWords /\ Len(p) \in Nat
      /\ free \in use.base..RamWords
  BY AddFacts
<1>2. /\ z \in 1..use.size
      /\ \A y \in 1..use.size : Packets(y) \in Nat /\ (y # z => scene'[y] = scene[y])
      /\ Packets(z)' = Packets(z) + 1 /\ scene'[z][1] = p
      /\ \A j \in 1..Packets(z) : scene'[z][j + 1] = scene[z][j]
  BY AddToScene
<1>3. /\ \A y \in 1..use.size : y # z => ram'[Entry(y)] = ram[Entry(y)]
      /\ ram'[Entry(z)] = [link |-> free]
      /\ ram'[free] = [link |-> ram[Entry(z)].link, count |-> Len(p)]
      /\ \A i \in 1..Len(p) : ram'[free + i] = p[i]
      /\ \A a \in use.base..(free - 1) : ram'[a] = ram[a]
  BY AddKeepsMemory
<1>4. use.base \in Nat /\ \A y : Entry(y)' = Entry(y) /\ Below(y)' = Below(y)
  BY <1>1, ListUse, DmaAssumption DEF Entry, Below
<1>5. PICK bt : bt = [y \in 1..use.size |->
                        IF y = z THEN [j \in 1..(Packets(z) + 1) |-> IF j = 1 THEN free ELSE at[z][j - 1]]
                        ELSE at[y]]
  OBVIOUS
<1>6. /\ bt[z][1] = free /\ \A j \in 1..Packets(z) : bt[z][j + 1] = at[z][j]
      /\ \A y \in 1..use.size : y # z => bt[y] = at[y]
  <2>1. bt[z] = [j \in 1..(Packets(z) + 1) |-> IF j = 1 THEN free ELSE at[z][j - 1]]
        /\ \A y \in 1..use.size : y # z => bt[y] = at[y]
    BY <1>2, <1>5
  <2>2. Packets(z) \in Nat
    BY <1>2
  <2>3. bt[z][1] = free
    BY <2>1, <2>2
  <2>4. ASSUME NEW j \in 1..Packets(z) PROVE bt[z][j + 1] = at[z][j]
    <3>1. j + 1 \in 1..(Packets(z) + 1) /\ j + 1 # 1 /\ (j + 1) - 1 = j
      BY <2>2
    <3> QED BY <2>1, <3>1
  <2> QED BY <2>1, <2>3, <2>4
<1>7. /\ \A y \in 1..use.size : y # z => Packets(y)' = Packets(y)
      /\ Packets(z) \in Nat
  BY <1>2 DEF Packets
<1>8. \A y \in 1..use.size, j \in Nat : y # z => Hop(bt, y, j)' = Hop(at, y, j)
  <2> SUFFICES ASSUME NEW y \in 1..use.size, NEW j \in Nat, y # z
               PROVE  Hop(bt, y, j)' = Hop(at, y, j)
    OBVIOUS
  <2>1. Hop(bt, y, j)' = IF j > Packets(y)' THEN Below(y)' ELSE bt[y][j]
    BY DEF Hop
  <2> QED BY <1>4, <1>6, <1>7, <2>1 DEF Hop
<1>9. \A j \in Nat \ {0} : Hop(bt, z, j + 1)' = Hop(at, z, j)
  <2> SUFFICES ASSUME NEW j \in Nat \ {0} PROVE Hop(bt, z, j + 1)' = Hop(at, z, j)
    OBVIOUS
  <2>1. Hop(bt, z, j + 1)' = IF j + 1 > Packets(z)' THEN Below(z)' ELSE bt[z][j + 1]
    BY DEF Hop
  <2>2. j + 1 > Packets(z)' <=> j > Packets(z)
    BY <1>2, <1>7
  <2>3. CASE j > Packets(z)
    BY <1>4, <2>1, <2>2, <2>3 DEF Hop
  <2>4. CASE ~ (j > Packets(z))
    <3>1. j \in 1..Packets(z)
      BY <1>7, <2>4
    <3> QED BY <1>6, <2>1, <2>2, <2>4, <3>1 DEF Hop
  <2> QED BY <2>3, <2>4
<1>10. Hop(bt, z, 1)' = free
  <2>1. Hop(bt, z, 1)' = IF 1 > Packets(z)' THEN Below(z)' ELSE bt[z][1]
    BY DEF Hop
  <2> QED BY <1>2, <1>6, <1>7, <2>1
\* A packet placed before keeps its place.
<1>11. ASSUME NEW y \in 1..use.size, NEW j \in 1..Packets(y), NEW k \in Nat,
              bt[y][k] = at[y][j], scene'[y][k] = scene[y][j],
              Hop(bt, y, k + 1)' = Hop(at, y, j + 1)
       PROVE  Placed(bt, y, k)'
  <2>1. PICK a, q, b : a = at[y][j] /\ q = scene[y][j] /\ b = Hop(at, y, j + 1)
    OBVIOUS
  <2>2. a \in use.base..(free - 1) /\ a + Len(q) < free /\ Heads(a, b, q)
    <3>1. Placed(at, y, j)
      BY DEF Threads
    <3> QED BY <2>1, <3>1 DEF Placed
  <2>3. Len(q) \in Nat
    <3>1. scene \in [1..use.size -> Seq(Parcels)]
      BY DEF Laid, Scenes
    <3>2. q \in Parcels
      BY <2>1, <3>1 DEF Packets
    <3> QED BY <3>2, ListUse
  <2>4. ram'[a] = ram[a] /\ \A i \in 1..Len(q) : ram'[a + i] = ram[a + i]
    <3>1. \A i \in 1..Len(q) : a + i \in use.base..(free - 1)
      BY <1>1, <1>4, <2>2, <2>3
    <3> QED BY <1>3, <2>2, <3>1
  <2>5. Heads(a, b, q)'
    BY <2>2, <2>4 DEF Heads
  <2>6. a \in use'.base..(free' - 1) /\ a + Len(q) < free'
    <3>1. a + Len(q) \in Int /\ a \in Int /\ a >= use.base /\ a <= free - 1 /\ use.base \in Int /\ free \in Int
      BY <1>1, <1>4, <2>2, <2>3, DmaAssumption
    <3> QED BY <1>1, <2>2, <3>1
  <2>7. bt[y][k] = a /\ scene'[y][k] = q /\ Hop(bt, y, k + 1)' = b
    BY <1>11, <2>1
  <2> QED BY <2>5, <2>6, <2>7 DEF Placed, Heads
<1>12. Placed(bt, z, 1)'
  <2>1. PICK a, b : a = free /\ b = Hop(at, z, 1)
    OBVIOUS
  <2>2. ram'[a] = [link |-> b, count |-> Len(p)] /\ \A i \in 1..Len(p) : ram'[a + i] = p[i]
    <3>1. ram[Entry(z)] = [link |-> Hop(at, z, 1)]
      BY <1>2 DEF Threads
    <3> QED BY <1>3, <2>1, <3>1
  <2>3. Heads(a, b, p)'
    <3>1. Field(ram'[a], "link", 0) = b /\ Field(ram'[a], "count", 0) = Len(p)
      BY <2>2 DEF Field
    <3> QED BY <1>1, <2>1, <2>2, <3>1 DEF Heads
  <2>4. Hop(bt, z, 1 + 1)' = b
    BY <1>9, <2>1
  <2>5. a \in use'.base..(free' - 1) /\ a + Len(p) < free'
    <3>1. a \in Int /\ a >= use.base /\ use.base \in Int
      BY <1>1, <1>4, <2>1, DmaAssumption
    <3> QED BY <1>1, <2>1, <3>1
  <2> QED BY <1>2, <1>6, <2>1, <2>3, <2>4, <2>5 DEF Placed, Heads
<1>13. ASSUME NEW y \in 1..use.size
       PROVE  ram'[Entry(y)] = [link |-> Hop(bt, y, 1)'] /\ \A j \in 1..Packets(y)' : Placed(bt, y, j)'
  <2>1. CASE y = z
    <3>1. \A j \in 1..Packets(z) : Placed(bt, z, j + 1)'
      <4> SUFFICES ASSUME NEW j \in 1..Packets(z) PROVE Placed(bt, z, j + 1)'
        OBVIOUS
      <4>1. j \in Nat \ {0} /\ j + 1 \in Nat /\ j + 1 \in Nat \ {0}
        BY <1>7
      <4>2. bt[z][j + 1] = at[z][j] /\ scene'[z][j + 1] = scene[z][j]
            /\ Hop(bt, z, (j + 1) + 1)' = Hop(at, z, j + 1)
        BY <1>2, <1>6, <1>9, <4>1
      <4> QED BY <1>2, <1>11, <4>1, <4>2
    <3>2. \A j \in 1..Packets(z)' : Placed(bt, z, j)'
      <4> SUFFICES ASSUME NEW j \in 1..Packets(z)' PROVE Placed(bt, z, j)'
        OBVIOUS
      <4>1. j \in 1..(Packets(z) + 1)
        BY <1>2
      <4>2. CASE j = 1
        BY <1>12, <4>2
      <4>3. CASE j # 1
        <5>1. j - 1 \in 1..Packets(z) /\ (j - 1) + 1 = j
          BY <1>7, <4>1, <4>3
        <5> QED BY <3>1, <5>1
      <4> QED BY <4>2, <4>3
    <3> QED BY <1>3, <1>10, <2>1, <3>2
  <2>2. CASE y # z
    <3>1. ram'[Entry(y)] = [link |-> Hop(bt, y, 1)']
      <4>1. ram[Entry(y)] = [link |-> Hop(at, y, 1)]
        BY DEF Threads
      <4> QED BY <1>3, <1>8, <2>2, <4>1
    <3>2. ASSUME NEW j \in 1..Packets(y) PROVE Placed(bt, y, j)'
      <4>1. j \in Nat /\ j + 1 \in Nat
        BY <1>2
      <4>2. bt[y][j] = at[y][j] /\ scene'[y][j] = scene[y][j]
            /\ Hop(bt, y, j + 1)' = Hop(at, y, j + 1)
        BY <1>2, <1>6, <1>8, <2>2, <4>1
      <4> QED BY <1>11, <4>1, <4>2
    <3> QED BY <1>7, <2>2, <3>1, <3>2
  <2> QED BY <2>1, <2>2
<1>14. Threads(bt)'
  <2>1. use'.size = use.size /\ \A y \in 1..use.size : Entry(y)' = Entry(y)
    BY <1>1, <1>4
  <2> QED BY <1>13, <2>1 DEF Threads
<1> QED BY <1>14

\* Adding a packet keeps the table threaded.
LEMMA AddStep ==
  ASSUME TableInv, NEW z \in DOMAIN scene, NEW p \in Parcels, AddPacket(z, p)
  PROVE  TableInv'
<1>0. use \in Uses /\ use.kind = "list" /\ Laid
  BY DEF TableInv, AddPacket, Others
<1>1. /\ use' = use /\ gpu' = gpu /\ scene # <<>> /\ free' = free + Len(p) + 1
      /\ free + Len(p) < RamWords /\ Len(p) \in Nat /\ free \in use.base..RamWords
      /\ \E V : ram' \in [0..(RamWords - 1) -> V]
  BY <1>0, AddFacts
<1>2. scene' \in Scenes' /\ TotalPackets' <= use'.most
  BY <1>0, AddToScene
<1>3. \E bt : Threads(bt)'
  <2>1. PICK at : Threads(at)
    BY <1>0, <1>1 DEF Laid
  <2> QED BY <1>0, <2>1, AddThreads
<1>4. free' \in use'.base..RamWords
  <2>1. use.base \in Nat
    BY <1>0, ListUse, DmaAssumption
  <2> QED BY <1>1, <2>1, DmaAssumption
<1>5. DOMAIN gpu' = GpuFields /\ IsWord(gpu'.latch) /\ (gpu'.drawn = <<>> => Fresh(gpu'))
  BY <1>0, <1>1 DEF Laid
<1>6. Laid'
  BY <1>1, <1>2, <1>3, <1>4, <1>5 DEF Laid
<1> QED BY <1>0, <1>1, <1>6 DEF TableInv

\* Programs of the other kinds have no table.
LEMMA NoTable ==
  ASSUME TableInv, NEW kind, kind # "list", Others(kind)
  PROVE  TableInv'
BY DEF TableInv, Others

\* Every step does.
LEMMA TableStep == TableInv /\ [Next]_vars => TableInv'
<1> SUFFICES ASSUME TableInv, [Next]_vars PROVE TableInv'
  OBVIOUS
<1>1. CASE ClearTable \/ DrawList \/ NextFrame
  BY <1>1, ClearStep, DrawStep, FrameStep
<1>2. ASSUME NEW z \in DOMAIN scene, NEW p \in Field(use, "packets", {}), AddPacket(z, p)
      PROVE  TableInv'
  <2>1. p \in Parcels
    BY DEF Parcels
  <2> QED BY <1>2, <2>1, AddStep
<1>3. CASE \/ \E w \in Field(use, "words", {}) : SendWord(w)
           \/ \E b \in Field(use, "blocks", {}), down \in BOOLEAN : SendBlock(b, down)
           \/ \E c \in Field(use, "controls", {}) : Control(c)
           \/ ReadWord
           \/ \E b \in Field(use, "reads", {}) : ReadBlock(b)
  BY <1>3, NoTable DEF SendWord, SendBlock, Control, ReadWord, ReadBlock
<1>4. CASE \/ \E n \in Field(use, "chunks", {}) : FeedByDma(n)
           \/ FeedByCpu
           \/ \E n \in Field(use, "chunks", {}) : Drain(n)
           \/ OpenUpload \/ Upload \/ Restart
  BY <1>4, NoTable DEF FeedByDma, FeedByCpu, Drain, OpenUpload, Upload, Restart
<1>5. CASE \/ \E c \in Field(use, "control", {}) : Configure(c)
           \/ \E ch \in Field(use, "channels", {}), c \in Field(use, "modes", {}) : Start(ch, c)
           \/ Enter \/ ReadFlags \/ AckFlags
  BY <1>5, NoTable DEF Configure, Start, Enter, ReadFlags, AckFlags
<1>6. CASE UNCHANGED vars
  <2>1. UNCHANGED <<use, scene, free, ram, gpu>>
    BY <1>6 DEF vars, listVars, dmaVars, deviceVars
  <2>2. use' \in Uses
    BY <2>1 DEF TableInv
  <2>3. ASSUME use.kind = "list" PROVE Laid'
    <3>1. Laid
      BY <2>3 DEF TableInv
    <3>2. Scenes' = Scenes /\ TotalPackets' = TotalPackets /\ \A at : Threads(at) => Threads(at)'
      BY <2>1, SceneStays
    <3> QED BY <2>1, <3>1, <3>2 DEF Laid
  <2> QED BY <2>1, <2>2, <2>3 DEF TableInv
<1> QED BY <1>1, <1>2, <1>3, <1>4, <1>5, <1>6 DEF Next

\* For every table and memory and every set of packets: what the GPU runs of a list
\* are the commands of its packets from the first entry to the last, in an entry the
\* last added first (run_otc and run_gpu_linked_list of dma.rs).
THEOREM TableIsDrawnInOrder == Spec => PaintersOrder
<1>1. TableInv /\ [Next]_vars => [DrawList => gpu'.drawn = Commands(Flat(Flat(scene)))]_vars
  BY DrawStep
<1> QED BY <1>1, TableInit, TableStep, PTL DEF Spec, PaintersOrder

(***************************************************************************)
(* The fill rule                                                           *)
(***************************************************************************)
IsPoint(p) == p.x \in Int /\ p.y \in Int
Apart(a, b) == a.x # b.x \/ a.y # b.y

\* An edge turned round gives the opposite sign.
LEMMA EdgeTurned ==
  ASSUME NEW a, NEW b, NEW p, IsPoint(a), IsPoint(b), IsPoint(p)
  PROVE  Edge(b, a, p) = -Edge(a, b, p) /\ Edge(a, b, p) \in Int
<1>1. ASSUME NEW ax \in Int, NEW ay \in Int, NEW bx \in Int, NEW by \in Int,
             NEW px \in Int, NEW py \in Int
      PROVE  (ax - bx) * (py - by) - (ay - by) * (px - bx)
               = -((bx - ax) * (py - ay) - (by - ay) * (px - ax))
  <2> DEFINE u == bx - ax
             v == by - ay
             m == px - ax
             n == py - ay
  <2>1. u \in Int /\ v \in Int /\ m \in Int /\ n \in Int
    OBVIOUS
  <2>2. (-u) * (n - v) - (-v) * (m - u) = -(u * n - v * m)
    <3> HIDE DEF u, v, m, n
    <3> QED BY <2>1
  <2>3. ax - bx = -u /\ py - by = n - v /\ ay - by = -v /\ px - bx = m - u
    OBVIOUS
  <2> QED BY <2>2, <2>3
<1> QED BY <1>1 DEF Edge, IsPoint

\* Of the two directions of an edge exactly one is a top or left edge.
LEMMA OneDirectionOwns ==
  ASSUME NEW a, NEW b, IsPoint(a), IsPoint(b), Apart(a, b)
  PROVE  TopLeft(a, b) <=> ~ TopLeft(b, a)
BY DEF TopLeft, IsPoint, Apart

\* "Shared edges between adjacent triangles are covered once": whatever the
\* pixel, an edge that two triangles run through in opposite directions gives
\* it to exactly one of them.
THEOREM SeamHasOneOwner ==
  ASSUME NEW a, NEW b, NEW p, IsPoint(a), IsPoint(b), IsPoint(p), Apart(a, b)
  PROVE  Owns(a, b, p) <=> ~ Owns(b, a, p)
<1>1. Edge(b, a, p) = -Edge(a, b, p) /\ Edge(a, b, p) \in Int
  BY EdgeTurned
<1>2. TopLeft(a, b) <=> ~ TopLeft(b, a)
  BY OneDirectionOwns
<1> HIDE DEF Edge, TopLeft
<1> QED BY <1>1, <1>2 DEF Owns

\* Two triangles that share an edge in opposite directions have no pixel in
\* common, so a semi-transparent quad split along it blends no pixel twice.
THEOREM NeighboursAreDisjoint ==
  ASSUME NEW t, NEW s, NEW p, IsPoint(p),
         \A i \in 1..3 : IsPoint(t[i]) /\ IsPoint(s[i]),
         NEW i \in 1..3, NEW j \in 1..3,
         t[i] = s[(j % 3) + 1], s[j] = t[(i % 3) + 1], Apart(t[i], s[j])
  PROVE  ~ (Covers(t, p) /\ Covers(s, p))
<1>1. Covers(t, p) => Owns(t[i], t[(i % 3) + 1], p)
  <2>1. CASE i = 1  BY <2>1 DEF Covers
  <2>2. CASE i = 2  BY <2>2 DEF Covers
  <2>3. CASE i = 3  BY <2>3 DEF Covers
  <2> QED BY <2>1, <2>2, <2>3
<1>2. Covers(s, p) => Owns(s[j], s[(j % 3) + 1], p)
  <2>1. CASE j = 1  BY <2>1 DEF Covers
  <2>2. CASE j = 2  BY <2>2 DEF Covers
  <2>3. CASE j = 3  BY <2>3 DEF Covers
  <2> QED BY <2>1, <2>2, <2>3
<1>3. Owns(t[i], s[j], p) <=> ~ Owns(s[j], t[i], p)
  BY SeamHasOneOwner
<1> QED BY <1>1, <1>2, <1>3

(***************************************************************************)
(* The shades                                                              *)
(***************************************************************************)
\* The weights of the corners at a pixel share out the triangle's area.
LEMMA WeightsShareTheArea ==
  ASSUME NEW t, NEW p, IsPoint(p), \A i \in 1..3 : IsPoint(t[i])
  PROVE  /\ \A i \in 1..3 : Weight(t, i, p) \in Int
         /\ Weight(t, 1, p) + Weight(t, 2, p) + Weight(t, 3, p) = Edge(t[1], t[2], t[3])
<1>1. /\ Weight(t, 1, p) = Edge(t[2], t[3], p)
      /\ Weight(t, 2, p) = Edge(t[3], t[1], p)
      /\ Weight(t, 3, p) = Edge(t[1], t[2], p)
  BY DEF Weight
<1>2. ASSUME NEW ax \in Int, NEW ay \in Int, NEW bx \in Int, NEW by \in Int,
             NEW cx \in Int, NEW cy \in Int, NEW px \in Int, NEW py \in Int
      PROVE    ((cx - bx) * (py - by) - (cy - by) * (px - bx))
             + ((ax - cx) * (py - cy) - (ay - cy) * (px - cx))
             + ((bx - ax) * (py - ay) - (by - ay) * (px - ax))
               = (bx - ax) * (cy - ay) - (by - ay) * (cx - ax)
  OBVIOUS
<1>3. \A i \in 1..3 : Weight(t, i, p) \in Int
  <2>1. \A i \in 1..3, j \in 1..3 : Edge(t[i], t[j], p) \in Int
    BY EdgeTurned
  <2> QED BY <1>1, <2>1
<1> QED BY <1>1, <1>2, <1>3 DEF Edge, IsPoint

\* An average whose weights are not negative lies where the values lie.
LEMMA AverageBetween ==
  ASSUME NEW u \in Nat, NEW v \in Nat, NEW w \in Nat, u + v + w > 0,
         NEW a \in Int, NEW b \in Int, NEW c \in Int, NEW lo \in Int, NEW hi \in Int,
         lo <= a /\ a <= hi, lo <= b /\ b <= hi, lo <= c /\ c <= hi
  PROVE  LET q == (u * a + v * b + w * c) \div (u + v + w)
         IN  q \in Int /\ lo <= q /\ q <= hi
<1> DEFINE n == u * a + v * b + w * c
           d == u + v + w
<1>1. ASSUME NEW k \in Nat, NEW x \in Int, NEW y \in Int, x <= y
      PROVE  k * x \in Int /\ k * y \in Int /\ k * x <= k * y
  BY <1>1
<1>2. n \in Int /\ d \in Nat \ {0}
  <2>1. u * a \in Int /\ v * b \in Int /\ w * c \in Int
    BY <1>1
  <2> QED BY <2>1
<1>3. u * lo <= u * a /\ v * lo <= v * b /\ w * lo <= w * c
  BY <1>1
<1>4. u * a <= u * hi /\ v * b <= v * hi /\ w * c <= w * hi
  BY <1>1
<1>5. d * lo = u * lo + v * lo + w * lo /\ d * hi = u * hi + v * hi + w * hi
  OBVIOUS
<1>6. d * lo <= n /\ n <= d * hi
  BY <1>1, <1>3, <1>4, <1>5
<1>7. ASSUME NEW m \in Int, NEW e \in Nat \ {0}, e * lo <= m, m <= e * hi
      PROVE  m \div e \in Int /\ lo <= m \div e /\ m \div e <= hi
  <2> DEFINE q == m \div e
  <2>1. q \in Int /\ e * q <= m /\ m < e * (q + 1)
    BY <1>7
  <2> HIDE DEF q
  <2>2. ASSUME NEW x \in Int, NEW y \in Int, e * x < e * y
        PROVE  x < y
    <3>1. CASE y <= x
      <4>1. e * y <= e * x
        BY <1>1, <3>1
      <4>2. e * x \in Int /\ e * y \in Int
        OBVIOUS
      <4> QED BY <4>1, <4>2, <2>2
    <3> QED BY <3>1
  <2>3. e * lo < e * (q + 1)
    BY <1>7, <2>1
  <2>4. lo < q + 1
    BY <2>1, <2>2, <2>3
  <2>5. e * q < e * (hi + 1)
    BY <1>7, <2>1
  <2>6. q < hi + 1
    BY <2>1, <2>2, <2>5
  <2> QED BY <2>1, <2>4, <2>6 DEF q
<1> QED BY <1>2, <1>6, <1>7

\* What interp gives at a pixel the triangle covers lies between the least and
\* the greatest of the corners' values, whatever the triangle: the clamp of
\* quant never cuts off a shade for being interpolated.
THEOREM InterpolationStaysBetween ==
  ASSUME NEW t, NEW p, IsPoint(p), \A i \in 1..3 : IsPoint(t[i]),
         Covers(t, p), Edge(t[1], t[2], t[3]) # 0,
         NEW values \in [1..3 -> Int], NEW lo \in Int, NEW hi \in Int,
         \A i \in 1..3 : lo <= values[i] /\ values[i] <= hi
  PROVE  Interpolated(t, p, values) \in lo..hi
<1>1. /\ Weight(t, 1, p) = Edge(t[2], t[3], p)
      /\ Weight(t, 2, p) = Edge(t[3], t[1], p)
      /\ Weight(t, 3, p) = Edge(t[1], t[2], p)
  BY DEF Weight
<1>2. \A i \in 1..3 : Weight(t, i, p) \in Nat
  BY <1>1, WeightsShareTheArea DEF Covers, Owns
<1>3. Weight(t, 1, p) + Weight(t, 2, p) + Weight(t, 3, p) = Edge(t[1], t[2], t[3])
  BY WeightsShareTheArea
<1> HIDE DEF Weight, Edge
<1>4. Weight(t, 1, p) + Weight(t, 2, p) + Weight(t, 3, p) > 0
  BY <1>2, <1>3
<1> DEFINE Mean(u, v, w) == (u * values[1] + v * values[2] + w * values[3]) \div (u + v + w)
<1>5. ASSUME NEW u \in Nat, NEW v \in Nat, NEW w \in Nat, u + v + w > 0
      PROVE  Mean(u, v, w) \in lo..hi
  BY <1>5, AverageBetween
<1>6. Interpolated(t, p, values) = Mean(Weight(t, 1, p), Weight(t, 2, p), Weight(t, 3, p))
  BY <1>3 DEF Interpolated
<1> HIDE DEF Mean
<1> QED BY <1>2, <1>4, <1>5, <1>6

\* At a corner the interpolation gives the corner's own value.
THEOREM CornersKeepTheirValue ==
  ASSUME NEW t, \A i \in 1..3 : IsPoint(t[i]), Edge(t[1], t[2], t[3]) > 0,
         NEW values \in [1..3 -> Int], NEW k \in 1..3
  PROVE  Interpolated(t, t[k], values) = values[k]
<1>1. /\ Weight(t, 1, t[k]) = Edge(t[2], t[3], t[k])
      /\ Weight(t, 2, t[k]) = Edge(t[3], t[1], t[k])
      /\ Weight(t, 3, t[k]) = Edge(t[1], t[2], t[k])
  BY DEF Weight
<1>2. ASSUME NEW a, NEW b, IsPoint(a), IsPoint(b)
      PROVE  Edge(a, b, a) = 0 /\ Edge(a, b, b) = 0
  BY <1>2 DEF Edge, IsPoint
<1>3. /\ Weight(t, 1, t[k]) + Weight(t, 2, t[k]) + Weight(t, 3, t[k]) = Edge(t[1], t[2], t[3])
      /\ \A i \in 1..3 : Weight(t, i, t[k]) \in Int
  BY WeightsShareTheArea
<1>4. ASSUME NEW d \in Nat \ {0}, NEW v \in Int
      PROVE  (d * v) \div d = v
  BY <1>4
<1> HIDE DEF Weight, Edge
<1>5. \A i \in 1..3 : Weight(t, i, t[k]) = IF i = k THEN Edge(t[1], t[2], t[3]) ELSE 0
  <2>1. CASE k = 1  BY <2>1, <1>1, <1>2, <1>3
  <2>2. CASE k = 2  BY <2>2, <1>1, <1>2, <1>3
  <2>3. CASE k = 3  BY <2>3, <1>1, <1>2, <1>3
  <2> QED BY <2>1, <2>2, <2>3
<1>6. Edge(t[1], t[2], t[3]) \in Nat \ {0}
  BY <1>3
<1>7. Interpolated(t, t[k], values) = (Edge(t[1], t[2], t[3]) * values[k]) \div Edge(t[1], t[2], t[3])
  <2>1. CASE k = 1  BY <2>1, <1>5, <1>6 DEF Interpolated
  <2>2. CASE k = 2  BY <2>2, <1>5, <1>6 DEF Interpolated
  <2>3. CASE k = 3  BY <2>3, <1>5, <1>6 DEF Interpolated
  <2> QED BY <2>1, <2>2, <2>3
<1> QED BY <1>4, <1>6, <1>7
(***************************************************************************)
(* Recursion on the naturals                                               *)
(***************************************************************************)
\* A function on 0..k with a first value and, after each value, the one that
\* `step' gives of it.
Unfolds(f, S, s0, step, k) ==
  /\ f \in [0..k -> S] /\ f[0] = s0
  /\ \A n \in 1..k : f[n] = step[<<n, f[n - 1]>>]

\* There is such a function for every step and every length.
LEMMA Recursion ==
  ASSUME NEW S, NEW s0 \in S, NEW step \in [Nat \X S -> S], NEW k \in Nat
  PROVE  \E f : Unfolds(f, S, s0, step, k)
<1> DEFINE Follows(m, f) == f[0] = s0 /\ \A n \in 1..m : f[n] = step[<<n, f[n - 1]>>]
           T == {m \in Nat : m <= k => \E f \in [0..k -> S] : Follows(m, f)}
<1>1. 0 \in T
  <2>1. [n \in 0..k |-> s0] \in [0..k -> S] /\ Follows(0, [n \in 0..k |-> s0])
    OBVIOUS
  <2> QED BY <2>1
<1>2. ASSUME NEW m \in T PROVE m + 1 \in T
  <2> SUFFICES ASSUME m + 1 <= k
               PROVE  \E f \in [0..k -> S] : Follows(m + 1, f)
    OBVIOUS
  <2>1. PICK f \in [0..k -> S] : Follows(m, f)
    OBVIOUS
  <2> DEFINE v == step[<<m + 1, f[m]>>]
             g == [f EXCEPT ![m + 1] = v]
  <2>2. m \in 0..k /\ m + 1 \in 0..k /\ v \in S
    OBVIOUS
  <2>3. g \in [0..k -> S] /\ g[m + 1] = v /\ \A n \in 0..k : n # m + 1 => g[n] = f[n]
    BY <2>2
  <2> HIDE DEF g
  <2>4. \A n \in 1..(m + 1) : g[n] = step[<<n, g[n - 1]>>]
    <3> SUFFICES ASSUME NEW n \in 1..(m + 1) PROVE g[n] = step[<<n, g[n - 1]>>]
      OBVIOUS
    <3>1. n - 1 \in 0..k /\ g[n - 1] = f[n - 1]
      BY <2>2, <2>3
    <3>2. CASE n = m + 1
      BY <2>3, <3>1, <3>2
    <3>3. CASE n # m + 1
      BY <2>1, <2>2, <2>3, <3>1, <3>3
    <3> QED BY <3>2, <3>3
  <2>5. g[0] = s0
    BY <2>1, <2>2, <2>3
  <2> QED BY <2>3, <2>4, <2>5
<1>3. T = Nat
  <2>1. T \in SUBSET Nat
    OBVIOUS
  <2> HIDE DEF T
  <2> QED BY <1>1, <1>2, <2>1, Induction
<1>4. k \in T
  BY <1>3
<1> HIDE DEF Follows
<1>5. PICK f \in [0..k -> S] : Follows(k, f)
  BY <1>4
<1> QED BY <1>5 DEF Follows, Unfolds

\* A function that starts so and goes on so wherever its values are known stays
\* in the set.
Recurs(g, S, s0, step, k) ==
  /\ g[0] = s0
  /\ \A n \in 1..k : g[n - 1] \in S => g[n] = step[<<n, g[n - 1]>>]

LEMMA RecursionStays ==
  ASSUME NEW S, NEW s0 \in S, NEW step \in [Nat \X S -> S], NEW k \in Nat,
         NEW g, Recurs(g, S, s0, step, k)
  PROVE  \A n \in 0..k : g[n] \in S
<1> DEFINE T == {m \in Nat : m <= k => g[m] \in S}
<1>1. 0 \in T
  BY DEF Recurs
<1>2. ASSUME NEW m \in T PROVE m + 1 \in T
  <2> SUFFICES ASSUME m + 1 <= k PROVE g[m + 1] \in S
    OBVIOUS
  <2>1. m + 1 \in 1..k /\ (m + 1) - 1 = m /\ g[m] \in S
    OBVIOUS
  <2>2. g[m + 1] = step[<<m + 1, g[m]>>]
    BY <2>1 DEF Recurs
  <2>3. <<m + 1, g[m]>> \in Nat \X S
    BY <2>1
  <2> QED BY <2>2, <2>3
<1>3. T = Nat
  <2>1. T \in SUBSET Nat
    OBVIOUS
  <2> HIDE DEF T
  <2> QED BY <1>1, <1>2, <2>1, Induction
<1> QED BY <1>3

(***************************************************************************)
(* Lines                                                                   *)
(***************************************************************************)
\* The width and the height of a line are naturals, its steps the greater.
LEMMA LineSizes ==
  ASSUME NEW a, NEW b, IsPoint(a), IsPoint(b)
  PROVE  /\ Across(a, b) = IF a.x < b.x THEN b.x - a.x ELSE a.x - b.x
         /\ Down(a, b) = IF a.y < b.y THEN b.y - a.y ELSE a.y - b.y
         /\ Across(a, b) \in Nat /\ Down(a, b) \in Nat
         /\ Steps(a, b) = IF Across(a, b) > Down(a, b)
                          THEN Across(a, b) ELSE Down(a, b)
BY DEF Across, Down, Size, Most, Steps, IsPoint

RoundStates == [x: Int, y: Int, err: Int]
LastRound(a, b) == Across(a, b) + Down(a, b)

\* The loop's states: from the start, each from the one before.
LEMMA RoundsFollow ==
  ASSUME NEW a, NEW b, IsPoint(a), IsPoint(b)
  PROVE  /\ Rounds(a, b) \in [0..LastRound(a, b) -> RoundStates]
         /\ Rounds(a, b)[0] =
              [x |-> a.x, y |-> a.y, err |-> Across(a, b) - Down(a, b)]
         /\ \A i \in 1..LastRound(a, b) :
              Rounds(a, b)[i] = Round(a, b, Rounds(a, b)[i - 1])
<1> DEFINE k == LastRound(a, b)
           s0 == [x |-> a.x, y |-> a.y, err |-> Across(a, b) - Down(a, b)]
           step == [p \in Nat \X RoundStates |-> Round(a, b, p[2])]
           Def(f) == f = [i \in 0..k |-> IF i = 0 THEN s0 ELSE Round(a, b, f[i - 1])]
<1>1. k \in Nat /\ s0 \in RoundStates
  BY LineSizes DEF IsPoint, RoundStates, LastRound
<1>2. \A s \in RoundStates : Round(a, b, s) \in RoundStates
  BY LineSizes DEF Round, RoundStates, IsPoint
<1>3. step \in [Nat \X RoundStates -> RoundStates]
  BY <1>2
<1>4. PICK f \in [0..k -> RoundStates] : f[0] = s0 /\ \A n \in 1..k : f[n] = step[<<n, f[n - 1]>>]
  <2>1. k \in Nat
    BY <1>1
  <2>2. s0 \in RoundStates
    BY <1>1
  <2> HIDE DEF k, s0, step, Def, RoundStates
  <2>3. PICK f : Unfolds(f, RoundStates, s0, step, k)
    BY <1>3, <2>1, <2>2, Recursion
  <2> QED BY <2>3 DEF Unfolds
<1>5. \A n \in 1..k : f[n] = Round(a, b, f[n - 1])
  <2> SUFFICES ASSUME NEW n \in 1..k PROVE f[n] = Round(a, b, f[n - 1])
    OBVIOUS
  <2>1. n - 1 \in 0..k /\ <<n, f[n - 1]>> \in Nat \X RoundStates
    BY <1>1, <1>4
  <2> QED BY <1>4, <2>1
<1>6. Def(f)
  <2> HIDE DEF k, s0, step
  <2> QED BY <1>1, <1>4, <1>5
<1>7. Rounds(a, b) = CHOOSE g : Def(g)
  BY DEF Rounds, LastRound
<1> DEFINE r == Rounds(a, b)
<1>8. Def(r)
  <2> HIDE DEF Def
  <2> QED BY <1>6, <1>7
<1>9. r[0] = s0 /\ \A n \in 1..k : r[n] = Round(a, b, r[n - 1])
  <2>1. 0 \in 0..k /\ \A n \in 1..k : n \in 0..k /\ n # 0
    BY <1>1
  <2> HIDE DEF r, s0, k
  <2> QED BY <1>8, <2>1
<1>10. Recurs(r, RoundStates, s0, step, k)
  <2>1. \A n \in 1..k : r[n - 1] \in RoundStates => r[n] = step[<<n, r[n - 1]>>]
    BY <1>1, <1>9
  <2> HIDE DEF r, s0, step, k
  <2> QED BY <1>9, <2>1 DEF Recurs
<1>11. \A n \in 0..k : r[n] \in RoundStates
  <2>1. k \in Nat /\ s0 \in RoundStates
    BY <1>1
  <2> HIDE DEF r, s0, step, k, Def
  <2> QED BY <1>3, <1>10, <2>1, RecursionStays
<1>12. r \in [0..k -> RoundStates]
  <2>1. r = [i \in 0..k |-> r[i]]
    BY <1>8
  <2> HIDE DEF r, k
  <2> QED BY <1>11, <2>1
<1> QED BY <1>9, <1>12

\* n pixels from u towards v.
Towards(u, v, n) == IF u < v THEN u + n ELSE u - n

\* Where the loop is after i rounds: it has gone one pixel a round along the
\* longer side, and along the other as near to the line as pixels allow.
Nearest(dx, dy, i, m, n) ==
  /\ dx = dy => m = i /\ n = i
  /\ dx > dy => m = i /\ -dx <= 2 * (n * dx - i * dy) /\ 2 * (n * dx - i * dy) < dx
  /\ dx < dy => n = i /\ -dy < 2 * (i * dx - m * dy) /\ 2 * (i * dx - m * dy) <= dy

OnLine(a, b, i, s) ==
  \E m, n \in Nat :
    /\ s.x = Towards(a.x, b.x, m) /\ s.y = Towards(a.y, b.y, n)
    /\ s.err = (n + 1) * Across(a, b) - (m + 1) * Down(a, b)
    /\ Nearest(Across(a, b), Down(a, b), i, m, n)

\* A round goes on by a pixel along the longer side, and stays near the line.
LEMMA RoundNearest ==
  ASSUME NEW dx \in Nat, NEW dy \in Nat, NEW i \in Nat, NEW m \in Nat, NEW n \in Nat,
         Nearest(dx, dy, i, m, n), dx > 0 \/ dy > 0
  PROVE  LET err == (n + 1) * dx - (m + 1) * dy
         IN  Nearest(dx, dy, i + 1, IF 2 * err > -dy THEN m + 1 ELSE m,
                                    IF 2 * err < dx THEN n + 1 ELSE n)
<1> DEFINE err == (n + 1) * dx - (m + 1) * dy
<1>0. /\ n * dx \in Nat /\ m * dy \in Nat /\ i * dx \in Nat /\ i * dy \in Nat
      /\ (n + 1) * dx = n * dx + dx /\ (m + 1) * dy = m * dy + dy
      /\ (i + 1) * dx = i * dx + dx /\ (i + 1) * dy = i * dy + dy
  <2>1. \A u, v \in Nat : u * v \in Nat
    OBVIOUS
  <2>2. \A u, v \in Nat : (u + 1) * v = u * v + v
    OBVIOUS
  <2> QED BY <2>1, <2>2
<1>1. CASE dx = dy
  <2>1. err = 0
    BY <1>1 DEF Nearest
  <2> HIDE DEF err
  <2> QED BY <1>1, <2>1 DEF Nearest
<1>2. CASE dx > dy
  <2> DEFINE p == n * dx
             q == i * dy
  <2>1. m = i /\ -dx <= 2 * (p - q) /\ 2 * (p - q) < dx /\ err = p + dx - q - dy
    BY <1>0, <1>2 DEF Nearest
  <2>2. p \in Nat /\ q \in Nat
    BY <1>0
  <2>3. (i + 1) * dy = q + dy /\ (n + 1) * dx = p + dx
    BY <1>0
  <2> HIDE DEF err, p, q
  <2>4. 2 * err > -dy
    BY <1>2, <2>1, <2>2
  <2>5. CASE 2 * err < dx
    <3>1. -dx <= 2 * ((p + dx) - (q + dy)) /\ 2 * ((p + dx) - (q + dy)) < dx
      BY <1>2, <2>1, <2>2, <2>5
    <3> QED BY <1>2, <2>1, <2>3, <2>4, <2>5, <3>1 DEF Nearest
  <2>6. CASE ~ (2 * err < dx)
    <3>1. -dx <= 2 * (p - (q + dy)) /\ 2 * (p - (q + dy)) < dx
      BY <1>2, <2>1, <2>2, <2>6
    <3> QED BY <1>2, <2>1, <2>3, <2>4, <2>6, <3>1 DEF Nearest, p
  <2> QED BY <2>5, <2>6
<1>3. CASE dx < dy
  <2> DEFINE p == i * dx
             q == m * dy
  <2>1. n = i /\ -dy < 2 * (p - q) /\ 2 * (p - q) <= dy /\ err = p + dx - q - dy
    BY <1>0, <1>3 DEF Nearest
  <2>2. p \in Nat /\ q \in Nat
    BY <1>0
  <2>3. (i + 1) * dx = p + dx /\ (m + 1) * dy = q + dy
    BY <1>0
  <2> HIDE DEF err, p, q
  <2>4. 2 * err < dx
    BY <1>3, <2>1, <2>2
  <2>5. CASE 2 * err > -dy
    <3>1. -dy < 2 * ((p + dx) - (q + dy)) /\ 2 * ((p + dx) - (q + dy)) <= dy
      BY <1>3, <2>1, <2>2, <2>5
    <3> QED BY <1>3, <2>1, <2>3, <2>4, <2>5, <3>1 DEF Nearest
  <2>6. CASE ~ (2 * err > -dy)
    <3>1. -dy < 2 * ((p + dx) - q) /\ 2 * ((p + dx) - q) <= dy
      BY <1>3, <2>1, <2>2, <2>6
    <3> QED BY <1>3, <2>1, <2>3, <2>4, <2>6, <3>1 DEF Nearest, q
  <2> QED BY <2>5, <2>6
<1> QED BY <1>1, <1>2, <1>3

\* The loop stays near the line for as many rounds as the line has steps.
LEMMA RoundsOnLine ==
  ASSUME NEW a, NEW b, IsPoint(a), IsPoint(b)
  PROVE  \A i \in 0..Steps(a, b) : OnLine(a, b, i, Rounds(a, b)[i])
<1> DEFINE dx == Across(a, b)
           dy == Down(a, b)
           r  == Rounds(a, b)
           T  == {i \in Nat : i <= Steps(a, b) => OnLine(a, b, i, r[i])}
<1>1. /\ dx \in Nat /\ dy \in Nat
      /\ Steps(a, b) = IF dx > dy THEN dx ELSE dy
      /\ LastRound(a, b) = dx + dy
  BY LineSizes DEF LastRound
<1>2. 0 \in T
  <2>1. /\ Towards(a.x, b.x, 0) = a.x /\ Towards(a.y, b.y, 0) = a.y
        /\ (0 + 1) * dx = dx /\ (0 + 1) * dy = dy /\ 0 * dx = 0 /\ 0 * dy = 0
    BY <1>1 DEF Towards, IsPoint
  <2>2. Nearest(dx, dy, 0, 0, 0)
    BY <1>1, <2>1 DEF Nearest
  <2>3. r[0].x = a.x /\ r[0].y = a.y /\ r[0].err = dx - dy
    <3>1. r[0] = [x |-> a.x, y |-> a.y, err |-> dx - dy]
      BY RoundsFollow
    <3> HIDE DEF r, dx, dy
    <3> QED BY <3>1
  <2> HIDE DEF dx, dy, r
  <2>4. OnLine(a, b, 0, r[0])
    BY <2>1, <2>2, <2>3, 0 \in Nat DEF OnLine, dx, dy
  <2> QED BY <2>4
<1>3. ASSUME NEW i \in T PROVE i + 1 \in T
  <2> SUFFICES ASSUME i + 1 <= Steps(a, b) PROVE OnLine(a, b, i + 1, r[i + 1])
    OBVIOUS
  <2>1. /\ i \in Nat /\ (dx > 0 \/ dy > 0) /\ i + 1 \in 1..LastRound(a, b) /\ (i + 1) - 1 = i
        /\ i \in 0..LastRound(a, b)
    BY <1>1
  <2>2. PICK m, n \in Nat :
          /\ r[i].x = Towards(a.x, b.x, m) /\ r[i].y = Towards(a.y, b.y, n)
          /\ r[i].err = (n + 1) * dx - (m + 1) * dy
          /\ Nearest(dx, dy, i, m, n)
    BY <1>1, <2>1 DEF OnLine
  <2>3. r[i + 1] = Round(a, b, r[i])
    BY <2>1, RoundsFollow
  <2> DEFINE e  == (n + 1) * dx - (m + 1) * dy
             mm == IF 2 * e > -dy THEN m + 1 ELSE m
             nn == IF 2 * e < dx THEN n + 1 ELSE n
  <2>4. Nearest(dx, dy, i + 1, mm, nn)
    <3> HIDE DEF dx, dy, r
    <3> QED BY <1>1, <2>1, <2>2, RoundNearest
  <2>5. /\ r[i + 1].x = IF 2 * e > -dy THEN (IF a.x < b.x THEN r[i].x + 1 ELSE r[i].x - 1) ELSE r[i].x
        /\ r[i + 1].y = IF 2 * e < dx THEN (IF a.y < b.y THEN r[i].y + 1 ELSE r[i].y - 1) ELSE r[i].y
        /\ r[i + 1].err = e - (IF 2 * e > -dy THEN dy ELSE 0) + (IF 2 * e < dx THEN dx ELSE 0)
    BY <2>2, <2>3 DEF Round
  <2>6. mm \in Nat /\ nn \in Nat
    OBVIOUS
  <2>7. r[i + 1].x = Towards(a.x, b.x, mm) /\ r[i + 1].y = Towards(a.y, b.y, nn)
    <3> HIDE DEF dx, dy, r, e
    <3> QED BY <2>2, <2>5 DEF Towards, IsPoint
  <2>8. r[i + 1].err = (nn + 1) * dx - (mm + 1) * dy
    <3>1. \A u, v \in Nat : u * v \in Nat /\ ((u + 1) + 1) * v = (u + 1) * v + v
      <4>1. \A u, v \in Nat : u * v \in Nat
        OBVIOUS
      <4>2. \A u, v \in Nat : ((u + 1) + 1) * v = (u + 1) * v + v
        OBVIOUS
      <4> QED BY <4>1, <4>2
    <3>2. /\ (n + 1) * dx \in Nat /\ (m + 1) * dy \in Nat
          /\ ((n + 1) + 1) * dx = (n + 1) * dx + dx /\ ((m + 1) + 1) * dy = (m + 1) * dy + dy
      BY <1>1, <3>1
    <3> HIDE DEF dx, dy, r
    <3> QED BY <1>1, <2>5, <3>2
  <2> HIDE DEF mm, nn, r
  <2> QED BY <2>4, <2>6, <2>7, <2>8 DEF OnLine
<1>4. T = Nat
  <2>1. T \in SUBSET Nat
    OBVIOUS
  <2> HIDE DEF T
  <2> QED BY <1>2, <1>3, <2>1, Induction
<1>5. Steps(a, b) \in Nat
  BY <1>1
<1> QED BY <1>4, <1>5

\* The loop is at the second end after the last step, and not before.
LEMMA NearestAtTheEnd ==
  ASSUME NEW dx \in Nat, NEW dy \in Nat, NEW i \in Nat, NEW m \in Nat, NEW n \in Nat,
         Nearest(dx, dy, i, m, n), i <= dx \/ i <= dy
  PROVE  m = dx /\ n = dy <=> i = IF dx > dy THEN dx ELSE dy
<1>1. ASSUME NEW d \in Nat, NEW k \in Int, -d <= 2 * (k * d), 2 * (k * d) <= d, d > 0
      PROVE  k = 0
  <2>1. CASE k >= 1
    <3>1. k * d >= d
      BY <2>1
    <3> QED BY <1>1, <3>1
  <2>2. CASE k <= -1
    <3>1. k * d <= -d
      BY <2>2
    <3> QED BY <1>1, <3>1
  <2> QED BY <2>1, <2>2
<1>2. \A u, v, w \in Nat : u * w - w * v = (u - v) * w /\ (u - v) * w \in Int
  OBVIOUS
<1>3. CASE dx = dy
  BY <1>3 DEF Nearest
<1>4. CASE dx > dy
  <2>1. i = dx => n = dy
    <3> SUFFICES ASSUME i = dx PROVE n = dy
      OBVIOUS
    <3>1. n * dx - dx * dy = (n - dy) * dx /\ n - dy \in Int
      BY <1>2
    <3>2. -dx <= 2 * (n * dx - dx * dy) /\ 2 * (n * dx - dx * dy) <= dx
      <4>1. n * dx - dx * dy \in Int
        BY <3>1, <1>2
      <4> QED BY <1>4, <4>1 DEF Nearest
    <3>3. n - dy = 0
      BY <1>1, <1>4, <3>1, <3>2
    <3> QED BY <3>3
  <2> QED BY <1>4, <2>1 DEF Nearest
<1>5. CASE dx < dy
  <2>1. i = dy => m = dx
    <3> SUFFICES ASSUME i = dy PROVE m = dx
      OBVIOUS
    <3>1. dy * dx - m * dy = (dx - m) * dy /\ dx - m \in Int
      BY <1>2
    <3>2. -dy <= 2 * (dy * dx - m * dy) /\ 2 * (dy * dx - m * dy) <= dy
      <4>1. dy * dx - m * dy \in Int
        BY <3>1, <1>2
      <4> QED BY <1>5, <4>1 DEF Nearest
    <3>3. dx - m = 0
      BY <1>1, <1>5, <3>1, <3>2
    <3> QED BY <3>3
  <2> QED BY <1>5, <2>1 DEF Nearest
<1> QED BY <1>3, <1>4, <1>5

IsVertex(v) == IsPoint(v) /\ v.shade \in 0..255

\* Division towards zero of a multiple is exact, and of a part of a difference
\* of shades stays between none of it and all of it.
LEMMA QuotientExact ==
  ASSUME NEW d \in Nat \ {0}, NEW k \in Int
  PROVE  Quotient(k * d, d) = k
<1>1. \A m \in Nat : m * d \in Nat /\ (m * d) \div d = m
  OBVIOUS
<1>2. CASE k >= 0
  <2>1. k * d \in Nat /\ (k * d) \div d = k
    BY <1>1, <1>2
  <2> QED BY <2>1 DEF Quotient
<1>3. CASE k < 0
  <2>1. (-k) * d \in Nat /\ ((-k) * d) \div d = -k
    <3>1. -k \in Nat
      BY <1>3
    <3> QED BY <1>1, <3>1
  <2>2. -(k * d) = (-k) * d /\ k * d \in Int /\ ~ (k * d >= 0)
    <3>1. (-k) * d >= 1
      BY <1>3
    <3>2. -(k * d) = (-k) * d /\ k * d \in Int
      OBVIOUS
    <3> QED BY <3>1, <3>2
  <2> QED BY <2>1, <2>2 DEF Quotient
<1> QED BY <1>2, <1>3

\* A part of k is no further from 0 than k.
LEMMA QuotientBetween ==
  ASSUME NEW d \in Nat \ {0}, NEW k \in Int, NEW i \in 0..d
  PROVE  LET q == Quotient(k * i, d)
         IN  q \in Int /\ (k >= 0 => 0 <= q /\ q <= k) /\ (k < 0 => k <= q /\ q <= 0)
<1>1. ASSUME NEW n \in Nat
      PROVE  n * i \in Nat /\ (n * i) \div d \in Int /\ 0 <= (n * i) \div d /\ (n * i) \div d <= n
  <2>1. n * i \in Nat /\ n * i <= n * d
    BY <1>1
  <2>2. n * d \in Nat /\ (n * d) \div d = n
    BY <1>1
  <2>3. \A u, v \in Nat : u <= v => u \div d \in Nat /\ u \div d <= v \div d
    OBVIOUS
  <2> HIDE DEF Quotient
  <2> QED BY <2>1, <2>2, <2>3
<1>2. CASE k >= 0
  <2>1. k \in Nat
    BY <1>2
  <2>2. k * i \in Nat
    BY <1>1, <2>1
  <2> QED BY <1>1, <1>2, <2>1, <2>2 DEF Quotient
<1>3. CASE k < 0
  <2>1. -k \in Nat /\ -(k * i) = (-k) * i /\ k * i \in Int
    BY <1>3
  <2>2. CASE k * i >= 0
    <3>1. k * i = 0
      BY <1>1, <2>1, <2>2
    <3>2. 0 \div d = 0
      OBVIOUS
    <3> QED BY <1>3, <3>1, <3>2 DEF Quotient
  <2>3. CASE ~ (k * i >= 0)
    <3>1. Quotient(k * i, d) = -(((-k) * i) \div d)
      BY <2>1, <2>3 DEF Quotient
    <3>2. ((-k) * i) \div d \in Int /\ 0 <= ((-k) * i) \div d /\ ((-k) * i) \div d <= -k
      BY <1>1, <2>1
    <3> HIDE DEF Quotient
    <3> QED BY <1>3, <3>1, <3>2
  <2> QED BY <2>2, <2>3
<1> QED BY <1>2, <1>3

\* A line's shade is the first at its start, the second at its end and between
\* them everywhere.
LEMMA LineShades ==
  ASSUME NEW a, NEW b, IsVertex(a), IsVertex(b), NEW steps \in Nat
  PROVE  /\ \A i \in 0..steps : ShadeAt(a, b, i, steps) \in 0..255
         /\ ShadeAt(a, b, 0, steps) = a.shade
         /\ steps > 0 => ShadeAt(a, b, steps, steps) = b.shade
<1>0. /\ a.shade \in Int /\ 0 <= a.shade /\ a.shade <= 255
      /\ b.shade \in Int /\ 0 <= b.shade /\ b.shade <= 255
  BY DEF IsVertex
<1>1. CASE steps = 0
  BY <1>0, <1>1 DEF ShadeAt
<1>2. CASE steps > 0
  <2> DEFINE k == b.shade - a.shade
  <2>1. k \in Int /\ steps \in Nat \ {0}
    BY <1>0, <1>2
  <2>2. \A i \in 0..steps : ShadeAt(a, b, i, steps) = a.shade + Quotient(k * i, steps)
    BY <1>2 DEF ShadeAt
  <2>3. \A i \in 0..steps : ShadeAt(a, b, i, steps) \in 0..255
    <3> SUFFICES ASSUME NEW i \in 0..steps PROVE ShadeAt(a, b, i, steps) \in 0..255
      OBVIOUS
    <3> DEFINE q == Quotient(k * i, steps)
    <3>1. q \in Int /\ (k >= 0 => 0 <= q /\ q <= k) /\ (k < 0 => k <= q /\ q <= 0)
      <4> HIDE DEF k
      <4> QED BY <2>1, QuotientBetween
    <3>2. ShadeAt(a, b, i, steps) = a.shade + q
      BY <2>2
    <3> HIDE DEF q
    <3> QED BY <1>0, <3>1, <3>2
  <2>4. Quotient(k * steps, steps) = k /\ Quotient(k * 0, steps) = 0
    <3>1. k * 0 = 0 * steps
      BY <2>1
    <3> HIDE DEF k
    <3> QED BY <2>1, <3>1, QuotientExact
  <2> QED BY <1>0, <1>2, <2>2, <2>3, <2>4
<1> QED BY <1>1, <1>2

LEMMA LineShadeAtTheEnd ==
  ASSUME NEW a, NEW b, IsVertex(a), IsVertex(b), NEW steps \in Nat, steps > 0
  PROVE  ShadeAt(a, b, steps, steps) = b.shade
BY LineShades, ZenonT(90)

\* The loop reaches the second end in the last step, for the first time.
LEMMA LineEnds ==
  ASSUME NEW a, NEW b, IsPoint(a), IsPoint(b)
  PROVE  \A i \in 0..Steps(a, b) :
           Ends(Rounds(a, b)[i], b) <=> i = Steps(a, b)
<1> DEFINE dx == Across(a, b)
           dy == Down(a, b)
           r  == Rounds(a, b)
<1>1. /\ dx \in Nat /\ dy \in Nat
      /\ dx = (IF a.x < b.x THEN b.x - a.x ELSE a.x - b.x)
      /\ dy = (IF a.y < b.y THEN b.y - a.y ELSE a.y - b.y)
      /\ Steps(a, b) = IF dx > dy THEN dx ELSE dy
  BY LineSizes
<1> SUFFICES ASSUME NEW i \in 0..Steps(a, b)
             PROVE  Ends(r[i], b) <=> i = Steps(a, b)
  OBVIOUS
<1>2. PICK m, n \in Nat :
        /\ r[i].x = Towards(a.x, b.x, m) /\ r[i].y = Towards(a.y, b.y, n)
        /\ Nearest(dx, dy, i, m, n)
  BY RoundsOnLine DEF OnLine
<1>3. i \in Nat /\ (i <= dx \/ i <= dy)
  BY <1>1
<1>4. m = dx /\ n = dy <=> i = Steps(a, b)
  <2> HIDE DEF dx, dy
  <2> QED BY <1>1, <1>2, <1>3, NearestAtTheEnd, SMTT(30)
<1>5. Ends(r[i], b) <=> m = dx /\ n = dy
  <2> HIDE DEF dx, dy, r
  <2> QED BY <1>1, <1>2 DEF Ends, Towards, IsPoint
<1> QED BY <1>4, <1>5

\* So a line is the states of the loop up to that step.
LEMMA LineIs ==
  ASSUME NEW a, NEW b, IsPoint(a), IsPoint(b)
  PROVE  ShadedLine(a, b) =
           [k \in 1..(Steps(a, b) + 1) |->
              Plot(Rounds(a, b)[k - 1].x, Rounds(a, b)[k - 1].y,
                   ShadeAt(a, b, k - 1, Steps(a, b)), 0)]
<1> DEFINE r == Rounds(a, b)
           n == Steps(a, b)
           Stops(i) == Ends(r[i], b) /\ \A j \in 0..(i - 1) : ~ Ends(r[j], b)
<1>1. n \in Nat /\ DOMAIN r = 0..LastRound(a, b) /\ n <= LastRound(a, b) /\ LastRound(a, b) \in Nat
  <2>1. n \in Nat /\ n <= LastRound(a, b) /\ LastRound(a, b) \in Nat
    BY LineSizes DEF LastRound
  <2>2. r \in [0..LastRound(a, b) -> RoundStates]
    BY RoundsFollow
  <2> HIDE DEF r, n
  <2> QED BY <2>1, <2>2
<1>2. \A i \in 0..n : Ends(r[i], b) <=> i = n
  BY LineEnds
<1>3. \A i \in DOMAIN r : Stops(i) <=> i = n
  <2> SUFFICES ASSUME NEW i \in 0..LastRound(a, b) PROVE Stops(i) <=> i = n
    BY <1>1
  <2> HIDE DEF r, n
  <2>1. CASE i < n
    BY <1>1, <1>2, <2>1
  <2>2. CASE i = n
    BY <1>1, <1>2, <2>2
  <2>3. CASE i > n
    <3>1. n \in 0..(i - 1) /\ Ends(r[n], b)
      BY <1>1, <1>2, <2>3
    <3> QED BY <2>3, <3>1, <1>1
  <2> QED BY <1>1, <2>1, <2>2, <2>3
<1>4. (CHOOSE i \in DOMAIN r : Stops(i)) = n
  <2>1. n \in DOMAIN r
    BY <1>1
  <2> HIDE DEF Stops, r, n
  <2> QED BY <1>3, <2>1
<1> DEFINE pixels(m) == [k \in 1..(m + 1) |-> Plot(r[k - 1].x, r[k - 1].y,
                                                   ShadeAt(a, b, k - 1, n), 0)]
<1>5. ShadedLine(a, b) = pixels(CHOOSE i \in DOMAIN r : Stops(i))
  BY DEF ShadedLine
<1>6. ShadedLine(a, b) = pixels(n)
  <2> HIDE DEF pixels, Stops, r, n
  <2> QED BY <1>4, <1>5
<1> QED BY <1>6

PixelPlots == [x: Int, y: Int, shade: 0..255, u: Int]

Extent(u, v) == IF u < v THEN v - u ELSE u - v

\* Near the line: the distance of either coordinate from the line, times the steps.
LEMMA NearTheLine ==
  ASSUME NEW ax \in Int, NEW ay \in Int, NEW bx \in Int, NEW by \in Int,
         NEW i \in Nat, NEW m \in Nat, NEW n \in Nat,
         NEW dx \in Nat, dx = Extent(ax, bx), NEW dy \in Nat, dy = Extent(ay, by),
         Nearest(dx, dy, i, m, n),
         NEW steps \in Nat, steps = IF dx > dy THEN dx ELSE dy
  PROVE  /\ 2 * Size((Towards(ax, bx, m) - ax) * steps - (bx - ax) * i) <= steps
         /\ 2 * Size((Towards(ay, by, n) - ay) * steps - (by - ay) * i) <= steps
<1> DEFINE p == m * steps - dx * i
           q == n * steps - dy * i
<1>1. \A u, v \in Nat : u * v \in Nat /\ u * v = v * u
  OBVIOUS
<1>2. p \in Int /\ q \in Int
  <2>1. m * steps \in Nat /\ dx * i \in Nat /\ n * steps \in Nat /\ dy * i \in Nat
    BY <1>1
  <2> QED BY <2>1
<1>3. -steps <= 2 * p /\ 2 * p <= steps /\ -steps <= 2 * q /\ 2 * q <= steps
  <2>1. CASE dx = dy
    <3>1. p = 0 /\ q = 0
      BY <1>1, <2>1 DEF Nearest
    <3> HIDE DEF p, q
    <3> QED BY <3>1
  <2>2. CASE dx > dy
    <3>1. steps = dx /\ m = i
      BY <2>2 DEF Nearest
    <3>2. p = 0
      BY <1>1, <3>1
    <3>3. q = n * dx - i * dy
      BY <1>1, <3>1
    <3>4. -dx <= 2 * q /\ 2 * q < dx
      BY <2>2, <3>3 DEF Nearest
    <3> HIDE DEF p, q
    <3> QED BY <1>2, <3>1, <3>2, <3>4
  <2>3. CASE dx < dy
    <3>1. steps = dy /\ n = i
      BY <2>3 DEF Nearest
    <3>2. q = 0
      BY <1>1, <3>1
    <3>3. -p = i * dx - m * dy
      BY <1>1, <1>2, <3>1
    <3>4. -dy < 2 * (-p) /\ 2 * (-p) <= dy
      BY <2>3, <3>3 DEF Nearest
    <3> HIDE DEF p, q
    <3> QED BY <1>2, <3>1, <3>2, <3>4
  <2> QED BY <2>1, <2>2, <2>3
<1>4. \A k \in Int : -steps <= 2 * k /\ 2 * k <= steps
                       => 2 * Size(k) <= steps /\ 2 * Size(-k) <= steps
  BY DEF Size, Most
<1>5. \A v \in Int : (-v) * steps = -(v * steps) /\ (-v) * i = -(v * i)
                     /\ v * steps \in Int /\ v * i \in Int
  OBVIOUS
<1>6. \/ (Towards(ax, bx, m) - ax) * steps - (bx - ax) * i = p
      \/ (Towards(ax, bx, m) - ax) * steps - (bx - ax) * i = -p
  <2>1. CASE ax < bx
    <3>1. Towards(ax, bx, m) - ax = m /\ bx - ax = dx
      BY <2>1 DEF Towards, Extent
    <3> QED BY <3>1
  <2>2. CASE ~ (ax < bx)
    <3>1. Towards(ax, bx, m) - ax = -m /\ bx - ax = -dx
      BY <2>2 DEF Towards, Extent
    <3>2. (-m) * steps - (-dx) * i = -(m * steps - dx * i)
      BY <1>5
    <3> QED BY <3>1, <3>2
  <2> QED BY <2>1, <2>2
<1>7. \/ (Towards(ay, by, n) - ay) * steps - (by - ay) * i = q
      \/ (Towards(ay, by, n) - ay) * steps - (by - ay) * i = -q
  <2>1. CASE ay < by
    <3>1. Towards(ay, by, n) - ay = n /\ by - ay = dy
      BY <2>1 DEF Towards, Extent
    <3> QED BY <3>1
  <2>2. CASE ~ (ay < by)
    <3>1. Towards(ay, by, n) - ay = -n /\ by - ay = -dy
      BY <2>2 DEF Towards, Extent
    <3>2. (-n) * steps - (-dy) * i = -(n * steps - dy * i)
      BY <1>5
    <3> QED BY <3>1, <3>2
  <2> QED BY <2>1, <2>2
<1> HIDE DEF p, q
<1> QED BY <1>2, <1>3, <1>4, <1>6, <1>7

\* A line is a sequence of pixels.
LEMMA LineIsSequence ==
  ASSUME NEW a, NEW b, IsVertex(a), IsVertex(b)
  PROVE  ShadedLine(a, b) \in Seq(PixelPlots)
<1> DEFINE n == Steps(a, b)
           r == Rounds(a, b)
           plot(k) == Plot(r[k - 1].x, r[k - 1].y, ShadeAt(a, b, k - 1, n), 0)
<1>1. IsPoint(a) /\ IsPoint(b)
  BY DEF IsVertex
<1>2. n \in Nat /\ n <= LastRound(a, b) /\ LastRound(a, b) \in Nat
  BY <1>1, LineSizes DEF LastRound
<1>3. ShadedLine(a, b) = [k \in 1..(n + 1) |-> plot(k)]
  BY <1>1, LineIs
<1>4. \A k \in 1..(n + 1) : plot(k) \in PixelPlots
  <2> SUFFICES ASSUME NEW k \in 1..(n + 1) PROVE plot(k) \in PixelPlots
    OBVIOUS
  <2>1. k - 1 \in 0..n /\ k - 1 \in 0..LastRound(a, b)
    BY <1>2
  <2>2. r \in [0..LastRound(a, b) -> RoundStates]
    BY <1>1, RoundsFollow
  <2>3. ShadeAt(a, b, k - 1, n) \in 0..255
    <3> HIDE DEF n
    <3> QED BY <1>2, <2>1, LineShades
  <2>4. r[k - 1].x \in Int /\ r[k - 1].y \in Int
    <3> HIDE DEF n, r
    <3> QED BY <2>1, <2>2 DEF RoundStates
  <2> HIDE DEF n, r
  <2> QED BY <2>3, <2>4 DEF Plot, PixelPlots
<1> HIDE DEF n, plot
<1> QED BY <1>2, <1>3, <1>4

\* A line is whole.
LEMMA LineSpans ==
  ASSUME NEW a, NEW b, IsVertex(a), IsVertex(b)
  PROVE  Spans(a, b, ShadedLine(a, b))
<1> DEFINE n  == Steps(a, b)
           r  == Rounds(a, b)
           ps == ShadedLine(a, b)
           dx == Across(a, b)
           dy == Down(a, b)
           plot(k) == Plot(r[k - 1].x, r[k - 1].y, ShadeAt(a, b, k - 1, n), 0)
<1>1. IsPoint(a) /\ IsPoint(b)
  BY DEF IsVertex
<1>2. n \in Nat /\ n <= LastRound(a, b) /\ LastRound(a, b) \in Nat
  BY <1>1, LineSizes DEF LastRound
<1>3. ps = [k \in 1..(n + 1) |-> plot(k)]
  BY <1>1, LineIs
<1>4. Len(ps) = n + 1 /\ \A k \in 1..(n + 1) : ps[k] = plot(k)
  <2> HIDE DEF n, plot, ps
  <2> QED BY <1>2, <1>3
<1>5. ps[1] = Plot(a.x, a.y, a.shade, 0)
  <2>1. r[0].x = a.x /\ r[0].y = a.y
    <3>1. r[0] = [x |-> a.x, y |-> a.y, err |-> dx - dy]
      BY <1>1, RoundsFollow
    <3> HIDE DEF r, dx, dy
    <3> QED BY <3>1
  <2>2. ShadeAt(a, b, 0, n) = a.shade
    <3> HIDE DEF n
    <3> QED BY <1>2, LineShades, ZenonT(90)
  <2>3. 1 \in 1..(n + 1) /\ 1 - 1 = 0
    BY <1>2
  <2> HIDE DEF n, r, ps
  <2> QED BY <1>4, <2>1, <2>2, <2>3
<1>6. ASSUME n > 0
      PROVE  ps[n + 1] = Plot(b.x, b.y, b.shade, 0)
  <2>1. n + 1 \in 1..(n + 1) /\ (n + 1) - 1 = n /\ n \in 0..n
    BY <1>2
  <2>2. Ends(r[n], b)
    <3>1. \A i \in 0..n : Ends(r[i], b) <=> i = n
      BY <1>1, LineEnds
    <3> HIDE DEF n, r
    <3> QED BY <2>1, <3>1
  <2>3. ShadeAt(a, b, n, n) = b.shade
    <3> HIDE DEF n
    <3> QED BY <1>2, <1>6, LineShadeAtTheEnd
  <2> HIDE DEF n, r, ps
  <2> QED BY <1>4, <2>1, <2>2, <2>3 DEF Ends
<1>7. ASSUME NEW i \in 1..n
      PROVE  /\ Size(ps[i + 1].x - ps[i].x) <= 1 /\ Size(ps[i + 1].y - ps[i].y) <= 1
             /\ 2 * Size((ps[i].x - a.x) * n - (b.x - a.x) * (i - 1)) <= n
             /\ 2 * Size((ps[i].y - a.y) * n - (b.y - a.y) * (i - 1)) <= n
  <2>1. /\ i \in 1..(n + 1) /\ i + 1 \in 1..(n + 1) /\ (i + 1) - 1 = i /\ i - 1 \in 0..n
        /\ i - 1 \in Nat /\ i - 1 \in 0..LastRound(a, b) /\ i \in 1..LastRound(a, b)
    BY <1>2
  <2>2. /\ ps[i].x = r[i - 1].x /\ ps[i].y = r[i - 1].y
        /\ ps[i + 1].x = r[i].x /\ ps[i + 1].y = r[i].y
    <3>1. ps[i] = plot(i) /\ ps[i + 1] = plot(i + 1)
      <4> HIDE DEF plot, ps, n
      <4> QED BY <1>4, <2>1
    <3>2. plot(i).x = r[i - 1].x /\ plot(i).y = r[i - 1].y
          /\ plot(i + 1).x = r[(i + 1) - 1].x /\ plot(i + 1).y = r[(i + 1) - 1].y
      BY DEF Plot
    <3> HIDE DEF plot, ps, n, r
    <3> QED BY <2>1, <3>1, <3>2
  <2>3. r[i - 1].x \in Int /\ r[i - 1].y \in Int
    <3>1. r \in [0..LastRound(a, b) -> RoundStates]
      BY <1>1, RoundsFollow
    <3> HIDE DEF r
    <3> QED BY <2>1, <3>1 DEF RoundStates
  <2>4. Size(r[i].x - r[i - 1].x) <= 1 /\ Size(r[i].y - r[i - 1].y) <= 1
    <3>1. r[i] = Round(a, b, r[i - 1])
      BY <1>1, <2>1, RoundsFollow
    <3>2. /\ r[i].x \in {r[i - 1].x - 1, r[i - 1].x, r[i - 1].x + 1}
          /\ r[i].y \in {r[i - 1].y - 1, r[i - 1].y, r[i - 1].y + 1}
      <4> HIDE DEF r
      <4> QED BY <3>1 DEF Round
    <3> HIDE DEF r
    <3> QED BY <2>3, <3>2 DEF Size, Most
  <2>5. PICK m, k \in Nat :
          /\ r[i - 1].x = Towards(a.x, b.x, m) /\ r[i - 1].y = Towards(a.y, b.y, k)
          /\ Nearest(dx, dy, i - 1, m, k)
    BY <1>1, <2>1, RoundsOnLine DEF OnLine
  <2>6. /\ a.x \in Int /\ a.y \in Int /\ b.x \in Int /\ b.y \in Int /\ dx \in Nat /\ dy \in Nat
        /\ dx = Extent(a.x, b.x) /\ dy = Extent(a.y, b.y)
        /\ n = IF dx > dy THEN dx ELSE dy
    BY <1>1, LineSizes DEF IsPoint, Extent
  <2>7. /\ 2 * Size((Towards(a.x, b.x, m) - a.x) * n - (b.x - a.x) * (i - 1)) <= n
        /\ 2 * Size((Towards(a.y, b.y, k) - a.y) * n - (b.y - a.y) * (i - 1)) <= n
    <3> HIDE DEF n, r, ps, dx, dy
    <3> QED BY <1>2, <2>1, <2>5, <2>6, NearTheLine, ZenonT(90)
  <2> HIDE DEF n, r, ps, dx, dy
  <2> QED BY <2>2, <2>4, <2>5, <2>7
<1> DEFINE Spanned(steps, q) ==
             /\ Len(q) = steps + 1
             /\ q[1] = Plot(a.x, a.y, a.shade, 0)
             /\ steps > 0 => q[steps + 1] = Plot(b.x, b.y, b.shade, 0)
             /\ \A i \in 1..steps :
                  /\ Size(q[i + 1].x - q[i].x) <= 1 /\ Size(q[i + 1].y - q[i].y) <= 1
                  /\ 2 * Size((q[i].x - a.x) * steps - (b.x - a.x) * (i - 1)) <= steps
                  /\ 2 * Size((q[i].y - a.y) * steps - (b.y - a.y) * (i - 1)) <= steps
<1>8. Spans(a, b, ps) <=> Spanned(n, ps)
  BY DEF Spans
<1>9. Spanned(n, ps)
  <2> HIDE DEF ps, n
  <2> QED BY <1>4, <1>5, <1>6, <1>7
<1> QED BY <1>8, <1>9

(***************************************************************************)
(* The drawing area                                                        *)
(***************************************************************************)
EnvOK == env \in [x0: Nat, y0: Nat, x1: Nat, y1: Nat, dx: Int, dy: Int,
                  set: BOOLEAN, check: BOOLEAN, mode: 0..3]

AreaSize == AreaWidth * AreaHeight

\* The area's sizes count its columns and rows.
LEMMA AreaTypes ==
  ASSUME EnvOK
  PROVE  /\ env.x0 \in Nat /\ env.y0 \in Nat /\ env.x1 \in Nat /\ env.y1 \in Nat
         /\ AreaWidth \in Nat /\ AreaHeight \in Nat /\ AreaSize \in Nat
         /\ \A x \in Int : x \in env.x0..env.x1 <=> x - env.x0 \in 0..(AreaWidth - 1)
         /\ \A y \in Int : y \in env.y0..env.y1 <=> y - env.y0 \in 0..(AreaHeight - 1)
<1>1. env.x0 \in Nat /\ env.y0 \in Nat /\ env.x1 \in Nat /\ env.y1 \in Nat
  BY DEF EnvOK
<1>2. /\ AreaWidth \in Nat /\ AreaHeight \in Nat
      /\ \A x \in Int : x \in env.x0..env.x1 <=> x - env.x0 \in 0..(AreaWidth - 1)
      /\ \A y \in Int : y \in env.y0..env.y1 <=> y - env.y0 \in 0..(AreaHeight - 1)
  BY <1>1 DEF AreaWidth, AreaHeight, Most
<1>3. \A u, v \in Nat : u * v \in Nat
  OBVIOUS
<1> QED BY <1>1, <1>2, <1>3 DEF AreaSize

\* Rows and columns of a number, counted row by row.
LEMMA RowAndColumn ==
  ASSUME NEW w \in Nat, NEW h \in Nat
  PROVE  /\ \A n \in 0..(w * h - 1) : /\ n \div w \in 0..(h - 1) /\ n % w \in 0..(w - 1)
                                      /\ n = w * (n \div w) + (n % w)
         /\ \A c \in 0..(w - 1), r \in 0..(h - 1) :
              /\ w * r + c \in 0..(w * h - 1)
              /\ (w * r + c) \div w = r /\ (w * r + c) % w = c
<1>0. \A u, v \in Nat : u * v \in Nat
  OBVIOUS
<1>1. ASSUME NEW n \in 0..(w * h - 1)
      PROVE  /\ n \div w \in 0..(h - 1) /\ n % w \in 0..(w - 1)
             /\ n = w * (n \div w) + (n % w)
  <2>1. w # 0
    <3>1. w = 0 => w * h = 0
      OBVIOUS
    <3> QED BY <3>1
  <2>2. n \in Nat /\ n < w * h /\ w * h \in Nat
    BY <1>0
  <2>3. n \div w \in Nat /\ n % w \in 0..(w - 1) /\ n = w * (n \div w) + (n % w)
    <3>1. \A u \in Nat, v \in Nat \ {0} :
            u \div v \in Nat /\ u % v \in 0..(v - 1) /\ u = v * (u \div v) + (u % v)
      OBVIOUS
    <3> QED BY <2>1, <2>2, <3>1
  <2>4. n \div w < h
    <3> SUFFICES ASSUME n \div w >= h PROVE FALSE
      BY <2>3
    <3>1. \A q \in Nat : q >= h => w * q >= w * h /\ w * q \in Nat
      <4>1. \A q \in Nat : w * q \in Nat
        BY <1>0
      <4>2. \A q \in Nat : q >= h => w * q >= w * h
        OBVIOUS
      <4> QED BY <4>1, <4>2
    <3> QED BY <2>2, <2>3, <3>1
  <2> QED BY <2>3, <2>4
<1>2. ASSUME NEW c \in 0..(w - 1), NEW r \in 0..(h - 1)
      PROVE  /\ w * r + c \in 0..(w * h - 1)
             /\ (w * r + c) \div w = r /\ (w * r + c) % w = c
  <2>1. w \in Nat \ {0} /\ r \in Nat /\ c \in Nat /\ c < w /\ w * r \in Nat /\ w * h \in Nat
    BY <1>0
  <2>2. w * r + w <= w * h
    <3>1. w * (r + 1) = w * r + w
      OBVIOUS
    <3>2. r + 1 <= h => w * (r + 1) <= w * h
      OBVIOUS
    <3> QED BY <3>1, <3>2
  <2>3. (w * r + c) \div w = r /\ (w * r + c) % w = c
    BY <2>1
  <2> QED BY <2>1, <2>2, <2>3
<1> QED BY <1>1, <1>2

\* The pixels of the area are counted once each.
LEMMA AreaPixels ==
  ASSUME EnvOK
  PROVE  /\ \A n \in 0..(AreaSize - 1) :
              IsPoint(AreaPixel(n)) /\ InArea(AreaPixel(n))
         /\ \A n, m \in 0..(AreaSize - 1) :
              n # m => Apart(AreaPixel(n), AreaPixel(m))
         /\ \A p : IsPoint(p) /\ InArea(p)
              => \E n \in 0..(AreaSize - 1) :
                   AreaPixel(n).x = p.x /\ AreaPixel(n).y = p.y
<1> DEFINE w == AreaWidth
           h == AreaHeight
<1>1. /\ env.x0 \in Nat /\ env.y0 \in Nat /\ w \in Nat /\ h \in Nat
      /\ \A x \in Int : x \in env.x0..env.x1 <=> x - env.x0 \in 0..(w - 1)
      /\ \A y \in Int : y \in env.y0..env.y1 <=> y - env.y0 \in 0..(h - 1)
  BY AreaTypes
<1>2. \A n : /\ AreaPixel(n).x = env.x0 + (n % w)
             /\ AreaPixel(n).y = env.y0 + (n \div w)
  BY DEF AreaPixel
<1>3. AreaSize = w * h
  BY DEF AreaSize
<1> HIDE DEF w, h
<1>4. \A n \in 0..(AreaSize - 1) : /\ n \div w \in 0..(h - 1) /\ n % w \in 0..(w - 1)
                                   /\ n = w * (n \div w) + (n % w)
  BY <1>1, <1>3, RowAndColumn
<1>5. \A c \in 0..(w - 1), r \in 0..(h - 1) :
        /\ w * r + c \in 0..(AreaSize - 1)
        /\ (w * r + c) \div w = r /\ (w * r + c) % w = c
  <2>1. \A c \in 0..(w - 1), r \in 0..(h - 1) :
          /\ w * r + c \in 0..(w * h - 1)
          /\ (w * r + c) \div w = r /\ (w * r + c) % w = c
    BY <1>1, RowAndColumn
  <2> HIDE DEF AreaSize
  <2> QED BY <1>3, <2>1
<1>6. \A n \in 0..(AreaSize - 1) :
        IsPoint(AreaPixel(n)) /\ InArea(AreaPixel(n))
  <2> SUFFICES ASSUME NEW n \in 0..(AreaSize - 1)
               PROVE  IsPoint(AreaPixel(n)) /\ InArea(AreaPixel(n))
    OBVIOUS
  <2> DEFINE c == n % w
             r == n \div w
  <2>1. c \in 0..(w - 1) /\ r \in 0..(h - 1)
    BY <1>4
  <2>2. AreaPixel(n).x = env.x0 + c /\ AreaPixel(n).y = env.y0 + r
    BY <1>2
  <2> HIDE DEF c, r
  <2> QED BY <1>1, <2>1, <2>2 DEF IsPoint, InArea
<1>7. \A n, m \in 0..(AreaSize - 1) :
        n # m => Apart(AreaPixel(n), AreaPixel(m))
  <2> SUFFICES ASSUME NEW n \in 0..(AreaSize - 1), NEW m \in 0..(AreaSize - 1),
                      ~ Apart(AreaPixel(n), AreaPixel(m))
               PROVE  n = m
    OBVIOUS
  <2>1. env.x0 + (n % w) = env.x0 + (m % w) /\ env.y0 + (n \div w) = env.y0 + (m \div w)
    BY <1>2 DEF Apart
  <2>2. n % w = m % w /\ n \div w = m \div w
    BY <1>1, <1>4, <2>1
  <2>3. n = w * (n \div w) + (n % w) /\ m = w * (m \div w) + (m % w)
    BY <1>4
  <2> QED BY <2>2, <2>3
<1>8. ASSUME NEW p, IsPoint(p), InArea(p)
      PROVE  \E n \in 0..(AreaSize - 1) :
               AreaPixel(n).x = p.x /\ AreaPixel(n).y = p.y
  <2> DEFINE c == p.x - env.x0
             r == p.y - env.y0
             n == w * r + c
  <2>1. c \in 0..(w - 1) /\ r \in 0..(h - 1) /\ env.x0 + c = p.x /\ env.y0 + r = p.y
    BY <1>1, <1>8 DEF IsPoint, InArea
  <2> HIDE DEF c, r
  <2>2. n \in 0..(AreaSize - 1) /\ n \div w = r /\ n % w = c
    BY <1>5, <2>1
  <2> HIDE DEF n
  <2> QED BY <1>2, <2>1, <2>2
<1> QED BY <1>6, <1>7, <1>8

(***************************************************************************)
(* A triangle's pixels                                                     *)
(***************************************************************************)
\* Only where a pixel is matters.
LEMMA SamePlace ==
  ASSUME NEW p, NEW q, ~ Apart(p, q)
  PROVE  /\ \A a, b : Edge(a, b, p) = Edge(a, b, q)
         /\ \A t : Covers(t, p) <=> Covers(t, q)
         /\ \A t, v : Interpolated(t, p, v) = Interpolated(t, q, v)
<1>1. p.x = q.x /\ p.y = q.y
  BY DEF Apart
<1>2. \A a, b : Edge(a, b, p) = Edge(a, b, q)
  BY <1>1 DEF Edge
<1>3. \A t, i : Weight(t, i, p) = Weight(t, i, q)
  BY <1>2 DEF Weight
<1>4. \A t : Covers(t, p) <=> Covers(t, q)
  BY <1>2 DEF Covers, Owns
<1>5. \A t, v : Interpolated(t, p, v) = Interpolated(t, q, v)
  BY <1>3 DEF Interpolated
<1> QED BY <1>2, <1>4, <1>5

Corner(v) == IsVertex(v) /\ v.u \in Int

LEMMA CornerTypes ==
  ASSUME NEW v, Corner(v)
  PROVE  IsPoint(v) /\ v.u \in Int /\ v.shade \in Int /\ 0 <= v.shade /\ v.shade <= 255
BY DEF Corner, IsVertex

Corners(t) == \A k \in 1..3 : Corner(t[k])
Shades(t) == [k \in 1..3 |-> t[k].shade]

\* A pixel the triangle covers is plotted where it is, in an interpolated shade.
LEMMA TrianglePlots ==
  ASSUME NEW t, Corners(t), Edge(t[1], t[2], t[3]) > 0,
         NEW p, IsPoint(p), Covers(t, p)
  PROVE  /\ TrianglePlot(t, p) \in PixelPlots
         /\ TrianglePlot(t, p).x = p.x /\ TrianglePlot(t, p).y = p.y
         /\ TrianglePlot(t, p).shade = Interpolated(t, p, Shades(t))
<1> DEFINE coordinates == [k \in 1..3 |-> t[k].u]
           q == TrianglePlot(t, p)
<1>1. \A k \in 1..3 : /\ IsPoint(t[k]) /\ t[k].u \in Int
                      /\ t[k].shade \in Int /\ 0 <= t[k].shade /\ t[k].shade <= 255
  BY CornerTypes DEF Corners
<1>2. Interpolated(t, p, Shades(t)) \in 0..255
  <2>1. Shades(t) \in [1..3 -> Int] /\ \A k \in 1..3 : 0 <= Shades(t)[k] /\ Shades(t)[k] <= 255
    BY <1>1 DEF Shades
  <2>2. \A lo, hi \in Int :
          (\A k \in 1..3 : lo <= Shades(t)[k] /\ Shades(t)[k] <= hi)
            => Interpolated(t, p, Shades(t)) \in lo..hi
    BY <1>1, <2>1, InterpolationStaysBetween
  <2>3. PICK lo, hi \in Int : lo = 0 /\ hi = 255
    OBVIOUS
  <2>4. Interpolated(t, p, Shades(t)) \in lo..hi
    BY <2>1, <2>2, <2>3
  <2> QED BY <2>3, <2>4
<1>3. Interpolated(t, p, coordinates) \in Int
  <2>1. coordinates \in [1..3 -> Int]
    BY <1>1
  <2>2. PICK lo \in Int, hi \in Int : \A k \in 1..3 : lo <= coordinates[k] /\ coordinates[k] <= hi
    <3>1. \A u, v, w \in Int : \E lo \in Int, hi \in Int :
            lo <= u /\ u <= hi /\ lo <= v /\ v <= hi /\ lo <= w /\ w <= hi
      <4> SUFFICES ASSUME NEW u \in Int, NEW v \in Int, NEW w \in Int
                   PROVE  \E lo \in Int, hi \in Int :
                            lo <= u /\ u <= hi /\ lo <= v /\ v <= hi /\ lo <= w /\ w <= hi
        OBVIOUS
      <4> DEFINE m == IF u < v THEN u ELSE v
                 n == IF u < v THEN v ELSE u
                 lo == IF m < w THEN m ELSE w
                 hi == IF n < w THEN w ELSE n
      <4>1. lo \in Int /\ hi \in Int /\ lo <= u /\ u <= hi /\ lo <= v /\ v <= hi /\ lo <= w /\ w <= hi
        OBVIOUS
      <4> HIDE DEF lo, hi
      <4> QED BY <4>1
    <3>2. coordinates[1] \in Int /\ coordinates[2] \in Int /\ coordinates[3] \in Int
      BY <2>1
    <3> HIDE DEF coordinates
    <3> QED BY <3>1, <3>2
  <2> HIDE DEF coordinates
  <2>3. Interpolated(t, p, coordinates) \in lo..hi
    BY <1>1, <2>1, <2>2, InterpolationStaysBetween
  <2> QED BY <2>3
<1>4. q = Plot(p.x, p.y, Interpolated(t, p, Shades(t)), Interpolated(t, p, coordinates))
  BY DEF TrianglePlot, Shades
<1>5. p.x \in Int /\ p.y \in Int
  BY DEF IsPoint
<1> HIDE DEF q, coordinates
<1> QED BY <1>2, <1>3, <1>4, <1>5 DEF Plot, PixelPlots, q

\* The scan: no pixel before it, and after each pixel of the area one more or the
\* same.
ScansTo(t, r) ==
  /\ r \in [0..AreaSize -> Seq(PixelPlots)] /\ r[0] = <<>>
  /\ \A n \in 1..AreaSize :
       r[n] = IF Covers(t, AreaPixel(n - 1))
              THEN Append(r[n - 1], TrianglePlot(t, AreaPixel(n - 1)))
              ELSE r[n - 1]

\* Scanned is the recursive function that adds a pixel of the area at a time.
LEMMA ScanExists ==
  ASSUME EnvOK, NEW t, Corners(t), Edge(t[1], t[2], t[3]) > 0
  PROVE  \E r : ScansTo(t, r) /\ Scanned(t) = r[AreaSize]
<1> DEFINE k == AreaSize
           at(n) == AreaPixel(n - 1)
           S == Seq(PixelPlots)
           Go(n, q) == IF Covers(t, at(n)) THEN Append(q, TrianglePlot(t, at(n))) ELSE q
           step == [p \in Nat \X S |-> IF p[1] \in 1..k THEN Go(p[1], p[2]) ELSE p[2]]
           Def(f) == f = [n \in 0..k |->
                            IF n = 0 THEN <<>>
                            ELSE IF Covers(t, at(n))
                                 THEN Append(f[n - 1], TrianglePlot(t, at(n)))
                                 ELSE f[n - 1]]
<1>1. k \in Nat /\ <<>> \in S
  BY AreaTypes
<1>2. \A n \in 1..k : IsPoint(at(n))
  BY <1>1, AreaPixels
<1>3. ASSUME NEW n \in 1..k, NEW q \in S
      PROVE  Go(n, q) \in S
  <2>1. CASE Covers(t, at(n))
    <3>1. TrianglePlot(t, at(n)) \in PixelPlots
      <4> HIDE DEF at
      <4> QED BY <1>2, <2>1, TrianglePlots
    <3> HIDE DEF at
    <3> QED BY <2>1, <3>1
  <2>2. CASE ~ Covers(t, at(n))
    BY <2>2
  <2> QED BY <2>1, <2>2
<1>4. step \in [Nat \X S -> S]
  <2> HIDE DEF Go, S, k
  <2> QED BY <1>3
<1>5. \A n \in 1..k, q \in S : step[<<n, q>>] = Go(n, q)
  <2>1. \A n \in 1..k : n \in Nat
    BY <1>1
  <2> HIDE DEF Go, S, k
  <2> QED BY <2>1
<1>6. PICK f : Unfolds(f, S, <<>>, step, k)
  <2>1. k \in Nat
    BY <1>1
  <2>2. <<>> \in S
    BY <1>1
  <2> HIDE DEF S, k, step, Go, Def
  <2> QED BY <1>4, <2>1, <2>2, Recursion
<1>7. /\ f \in [0..k -> S] /\ f[0] = <<>>
      /\ \A n \in 1..k : f[n] = Go(n, f[n - 1])
  <2>1. /\ f \in [0..k -> S] /\ f[0] = <<>>
        /\ \A n \in 1..k : f[n] = step[<<n, f[n - 1]>>]
    <3> HIDE DEF S, k, step, Go
    <3> QED BY <1>6 DEF Unfolds
  <2>2. \A n \in 1..k : n - 1 \in 0..k
    BY <1>1
  <2> HIDE DEF S, k, step, Go
  <2> QED BY <1>5, <2>1, <2>2
<1>8. Def(f)
  <2>1. \A n \in 1..k : Go(n, f[n - 1]) = IF Covers(t, at(n))
                                         THEN Append(f[n - 1], TrianglePlot(t, at(n)))
                                         ELSE f[n - 1]
    OBVIOUS
  <2>2. \A n \in 0..k : n # 0 => n \in 1..k
    BY <1>1
  <2> HIDE DEF S, k, step, Go, at
  <2> QED BY <1>7, <2>1, <2>2
<1>9. Scanned(t) = (CHOOSE g : Def(g))[k]
  BY DEF Scanned, AreaSize
<1> DEFINE r == CHOOSE g : Def(g)
<1>10. Def(r)
  <2> HIDE DEF Def
  <2> QED BY <1>8
<1>11. r[0] = <<>> /\ \A n \in 1..k : r[n] = Go(n, r[n - 1])
  <2>1. 0 \in 0..k /\ \A n \in 1..k : n \in 0..k /\ n # 0
    BY <1>1
  <2>2. \A n \in 1..k : Go(n, r[n - 1]) = IF Covers(t, at(n))
                                         THEN Append(r[n - 1], TrianglePlot(t, at(n)))
                                         ELSE r[n - 1]
    <3> HIDE DEF r
    <3> QED OBVIOUS
  <2> HIDE DEF r, k, Go, at
  <2> QED BY <1>10, <2>1, <2>2
<1>12. Recurs(r, S, <<>>, step, k)
  <2> HIDE DEF r, k, Go, step, S
  <2> QED BY <1>5, <1>11 DEF Recurs
<1>13. \A n \in 0..k : r[n] \in S
  <2>1. k \in Nat
    BY <1>1
  <2>2. <<>> \in S
    BY <1>1
  <2> HIDE DEF r, S, k, step, Go, Def
  <2> QED BY <1>4, <1>12, <2>1, <2>2, RecursionStays
<1>14. r \in [0..k -> S]
  <2>1. r = [n \in 0..k |-> r[n]]
    <3> HIDE DEF r
    <3> QED BY <1>10
  <2> HIDE DEF r, k, S
  <2> QED BY <1>13, <2>1
<1>15. ScansTo(t, r)
  <2> HIDE DEF r
  <2> QED BY <1>11, <1>14 DEF ScansTo
<1> HIDE DEF r
<1> QED BY <1>9, <1>15 DEF r

\* The first n pixels of the area are plotted where the triangle covers them,
\* once each.
PlotsFirst(t, n, q) ==
  /\ \A i \in 1..Len(q) : \E j \in 0..(n - 1) :
       Covers(t, AreaPixel(j)) /\ q[i] = TrianglePlot(t, AreaPixel(j))
  /\ \A j \in 0..(n - 1) : Covers(t, AreaPixel(j))
       => \E i \in 1..Len(q) : q[i] = TrianglePlot(t, AreaPixel(j))
  /\ \A i, j \in 1..Len(q) : i # j => Apart(q[i], q[j])

\* One more pixel of the area.
LEMMA ScanStep ==
  ASSUME EnvOK, NEW t, Corners(t), Edge(t[1], t[2], t[3]) > 0,
         NEW n \in 0..(AreaSize - 1), NEW q \in Seq(PixelPlots), PlotsFirst(t, n, q)
  PROVE  PlotsFirst(t, n + 1, IF Covers(t, AreaPixel(n))
                              THEN Append(q, TrianglePlot(t, AreaPixel(n)))
                              ELSE q)
<1> DEFINE p == AreaPixel(n)
           w == TrianglePlot(t, p)
           e == Append(q, w)
<1>1. AreaSize \in Nat /\ n \in Nat /\ Len(q) \in Nat
  BY AreaTypes
<1>2. \A j \in 0..n : IsPoint(AreaPixel(j)) /\ j \in 0..(AreaSize - 1)
  <2>1. \A j \in 0..n : j \in 0..(AreaSize - 1)
    BY <1>1
  <2> QED BY <2>1, AreaPixels
<1>3. CASE ~ Covers(t, p)
  <2>1. PlotsFirst(t, n + 1, q)
    <3>1. \A j \in 0..((n + 1) - 1) : Covers(t, AreaPixel(j)) => j \in 0..(n - 1)
      BY <1>1, <1>3
    <3>2. \A j \in 0..(n - 1) : j \in 0..((n + 1) - 1)
      BY <1>1
    <3> HIDE DEF p
    <3> QED BY <3>1, <3>2 DEF PlotsFirst
  <2> QED BY <1>3, <2>1
<1>4. CASE Covers(t, p)
  <2>1. w \in PixelPlots /\ w.x = p.x /\ w.y = p.y
    <3>1. IsPoint(p)
      BY <1>1, <1>2
    <3> HIDE DEF p
    <3> QED BY <1>4, <3>1, TrianglePlots
  <2>2. Len(e) = Len(q) + 1 /\ e[Len(q) + 1] = w /\ \A i \in 1..Len(q) : e[i] = q[i]
    <3> HIDE DEF w
    <3> QED BY <1>1, <2>1
  <2>3. \A i \in 1..Len(e) : \E j \in 0..((n + 1) - 1) :
          Covers(t, AreaPixel(j)) /\ e[i] = TrianglePlot(t, AreaPixel(j))
    <3> SUFFICES ASSUME NEW i \in 1..Len(e)
                 PROVE  \E j \in 0..((n + 1) - 1) :
                          /\ Covers(t, AreaPixel(j))
                          /\ e[i] = TrianglePlot(t, AreaPixel(j))
      OBVIOUS
    <3>1. CASE i = Len(q) + 1
      <4>1. n \in 0..((n + 1) - 1)
        BY <1>1
      <4> HIDE DEF e
      <4> QED BY <1>4, <2>2, <3>1, <4>1
    <3>2. CASE i # Len(q) + 1
      <4>1. i \in 1..Len(q)
        BY <1>1, <2>2, <3>2
      <4>2. PICK j \in 0..(n - 1) :
              /\ Covers(t, AreaPixel(j))
              /\ q[i] = TrianglePlot(t, AreaPixel(j))
        BY <4>1 DEF PlotsFirst
      <4>3. j \in 0..((n + 1) - 1) /\ e[i] = q[i]
        <5> HIDE DEF e
        <5> QED BY <1>1, <2>2, <4>1
      <4> HIDE DEF e
      <4> QED BY <4>2, <4>3
    <3> QED BY <3>1, <3>2
  <2>4. \A j \in 0..((n + 1) - 1) : Covers(t, AreaPixel(j))
          => \E i \in 1..Len(e) : e[i] = TrianglePlot(t, AreaPixel(j))
    <3> SUFFICES ASSUME NEW j \in 0..((n + 1) - 1), Covers(t, AreaPixel(j))
                 PROVE  \E i \in 1..Len(e) : e[i] = TrianglePlot(t, AreaPixel(j))
      OBVIOUS
    <3>1. CASE j = n
      <4>1. Len(q) + 1 \in 1..Len(e) /\ e[Len(q) + 1] = TrianglePlot(t, AreaPixel(j))
        <5>1. Len(q) + 1 \in 1..Len(e)
          <6> HIDE DEF e
          <6> QED BY <1>1, <2>2
        <5> HIDE DEF e
        <5> QED BY <2>2, <3>1, <5>1
      <4> HIDE DEF e
      <4> QED BY <4>1
    <3>2. CASE j # n
      <4>1. j \in 0..(n - 1)
        BY <1>1, <3>2
      <4>2. PICK i \in 1..Len(q) : q[i] = TrianglePlot(t, AreaPixel(j))
        BY <4>1 DEF PlotsFirst
      <4>3. i \in 1..Len(e) /\ e[i] = q[i]
        <5> HIDE DEF e
        <5> QED BY <1>1, <2>2
      <4> HIDE DEF e
      <4> QED BY <4>2, <4>3
    <3> QED BY <3>1, <3>2
  <2>5. ASSUME NEW i \in 1..Len(q) PROVE Apart(q[i], w) /\ Apart(w, q[i])
    <3>1. PICK j \in 0..(n - 1) :
            /\ Covers(t, AreaPixel(j))
            /\ q[i] = TrianglePlot(t, AreaPixel(j))
      BY DEF PlotsFirst
    <3>2. j \in 0..n /\ n \in 0..n /\ j # n
      BY <1>1
    <3>3. q[i].x = AreaPixel(j).x /\ q[i].y = AreaPixel(j).y
      <4>1. IsPoint(AreaPixel(j))
        BY <1>2, <3>2
      <4> QED BY <3>1, <4>1, TrianglePlots
    <3>4. Apart(AreaPixel(j), p)
      BY <1>2, <3>2, AreaPixels
    <3> HIDE DEF p, w
    <3> QED BY <2>1, <3>3, <3>4 DEF Apart
  <2>6. \A i, j \in 1..Len(e) : i # j => Apart(e[i], e[j])
    <3> SUFFICES ASSUME NEW i \in 1..Len(e), NEW j \in 1..Len(e), i # j
                 PROVE  Apart(e[i], e[j])
      OBVIOUS
    <3>1. /\ i = Len(q) + 1 \/ i \in 1..Len(q)
          /\ j = Len(q) + 1 \/ j \in 1..Len(q)
      <4> HIDE DEF e
      <4> QED BY <1>1, <2>2
    <3> HIDE DEF e, w
    <3> QED BY <2>2, <2>5, <3>1 DEF PlotsFirst
  <2>7. PlotsFirst(t, n + 1, e)
    <3> HIDE DEF e
    <3> QED BY <2>3, <2>4, <2>6 DEF PlotsFirst
  <2> QED BY <1>4, <2>7
<1> QED BY <1>3, <1>4

\* What a triangle paints: the pixels of the drawing area it covers, once each,
\* in interpolated shades.
Paints(t, q) ==
  /\ q \in Seq(PixelPlots)
  /\ \A i \in 1..Len(q) : /\ Covers(t, q[i]) /\ InArea(q[i])
                          /\ q[i].shade = Interpolated(t, q[i], Shades(t))
  /\ \A p : IsPoint(p) /\ InArea(p) /\ Covers(t, p) => \E i \in 1..Len(q) : ~ Apart(q[i], p)
  /\ \A i, j \in 1..Len(q) : i # j => Apart(q[i], q[j])

\* What the scan of the whole area paints.
LEMMA ScannedPaints ==
  ASSUME EnvOK, NEW t, Corners(t), Edge(t[1], t[2], t[3]) > 0
  PROVE  Paints(t, Scanned(t))
<1>1. PICK r : ScansTo(t, r) /\ Scanned(t) = r[AreaSize]
  BY ScanExists
<1>2. AreaSize \in Nat /\ \A n \in 0..AreaSize : r[n] \in Seq(PixelPlots)
  BY <1>1, AreaTypes DEF ScansTo
<1> DEFINE T == {n \in Nat : n <= AreaSize => PlotsFirst(t, n, r[n])}
<1>3. 0 \in T
  <2>1. r[0] = <<>> /\ Len(<<>>) = 0
    BY <1>1 DEF ScansTo
  <2>2. PlotsFirst(t, 0, <<>>)
    BY DEF PlotsFirst
  <2> QED BY <2>1, <2>2
<1>4. ASSUME NEW n \in T PROVE n + 1 \in T
  <2> SUFFICES ASSUME n + 1 <= AreaSize PROVE PlotsFirst(t, n + 1, r[n + 1])
    OBVIOUS
  <2>1. /\ n \in 0..(AreaSize - 1) /\ n + 1 \in 1..AreaSize /\ (n + 1) - 1 = n
        /\ PlotsFirst(t, n, r[n]) /\ r[n] \in Seq(PixelPlots)
    BY <1>2
  <2>2. r[n + 1] = IF Covers(t, AreaPixel(n))
                   THEN Append(r[n], TrianglePlot(t, AreaPixel(n)))
                   ELSE r[n]
    BY <1>1, <2>1 DEF ScansTo
  <2> QED BY <2>1, <2>2, ScanStep
<1>5. T = Nat
  <2>1. T \in SUBSET Nat
    OBVIOUS
  <2> HIDE DEF T
  <2> QED BY <1>3, <1>4, <2>1, Induction
<1> DEFINE q == Scanned(t)
<1>6. PlotsFirst(t, AreaSize, q) /\ q \in Seq(PixelPlots)
  BY <1>1, <1>2, <1>5
<1> HIDE DEF q
<1>7. ASSUME NEW j \in 0..(AreaSize - 1), Covers(t, AreaPixel(j)),
             NEW v, v = TrianglePlot(t, AreaPixel(j))
      PROVE  /\ Covers(t, v) /\ InArea(v) /\ ~ Apart(v, AreaPixel(j))
             /\ v.shade = Interpolated(t, v, Shades(t))
  <2>1. IsPoint(AreaPixel(j)) /\ InArea(AreaPixel(j))
    BY AreaPixels
  <2>2. /\ v.x = AreaPixel(j).x /\ v.y = AreaPixel(j).y
        /\ v.shade = Interpolated(t, AreaPixel(j), Shades(t))
    BY <1>7, <2>1, TrianglePlots
  <2>3. ~ Apart(v, AreaPixel(j))
    BY <2>2 DEF Apart
  <2>4. /\ Covers(t, v) <=> Covers(t, AreaPixel(j))
        /\ Interpolated(t, v, Shades(t)) = Interpolated(t, AreaPixel(j), Shades(t))
    <3>1. Covers(t, v) <=> Covers(t, AreaPixel(j))
      BY <2>3, SamePlace
    <3>2. \A x : Interpolated(t, v, x) = Interpolated(t, AreaPixel(j), x)
      BY <2>3, SamePlace
    <3> QED BY <3>1, <3>2
  <2> QED BY <1>7, <2>1, <2>2, <2>3, <2>4 DEF InArea
<1>8. \A i \in 1..Len(q) : /\ Covers(t, q[i]) /\ InArea(q[i])
                           /\ q[i].shade = Interpolated(t, q[i], Shades(t))
  BY <1>6, <1>7 DEF PlotsFirst
<1>9. ASSUME NEW p, IsPoint(p), InArea(p), Covers(t, p)
      PROVE  \E i \in 1..Len(q) : ~ Apart(q[i], p)
  <2>1. PICK j \in 0..(AreaSize - 1) :
          AreaPixel(j).x = p.x /\ AreaPixel(j).y = p.y
    BY <1>9, AreaPixels
  <2>2. ~ Apart(p, AreaPixel(j))
    BY <2>1 DEF Apart
  <2>3. Covers(t, AreaPixel(j))
    BY <1>9, <2>2, SamePlace
  <2>4. PICK i \in 1..Len(q) : q[i] = TrianglePlot(t, AreaPixel(j))
    BY <1>6, <2>3 DEF PlotsFirst
  <2>5. ~ Apart(q[i], AreaPixel(j))
    BY <1>7, <2>3, <2>4
  <2> QED BY <2>2, <2>5 DEF Apart
<1> QED BY <1>6, <1>8, <1>9 DEF Paints, PlotsFirst, q

\* An edge seen from a corner: turned round, or from the next corner.
LEMMA EdgeOfCorners ==
  ASSUME NEW a, NEW b, NEW c, IsPoint(a), IsPoint(b), IsPoint(c)
  PROVE  /\ Edge(a, b, c) \in Int
         /\ Edge(b, c, a) = Edge(a, b, c) /\ Edge(c, a, b) = Edge(a, b, c)
         /\ Edge(a, c, b) = -Edge(a, b, c) /\ Edge(b, a, c) = -Edge(a, b, c)
         /\ Edge(c, b, a) = -Edge(a, b, c)
         /\ Edge(a, b, a) = 0 /\ Edge(a, b, b) = 0
<1>1. \A p, q, r : IsPoint(p) /\ IsPoint(q) /\ IsPoint(r)
        => Edge(q, p, r) = -Edge(p, q, r) /\ Edge(p, q, r) \in Int
  BY EdgeTurned
<1>2. ASSUME NEW p, NEW q, NEW r, IsPoint(p), IsPoint(q), IsPoint(r)
      PROVE  Edge(q, r, p) = Edge(p, q, r)
  <2>1. ASSUME NEW px \in Int, NEW py \in Int, NEW qx \in Int, NEW qy \in Int,
               NEW rx \in Int, NEW ry \in Int
        PROVE  (rx - qx) * (py - qy) - (ry - qy) * (px - qx)
                 = (qx - px) * (ry - py) - (qy - py) * (rx - px)
    OBVIOUS
  <2> QED BY <1>2, <2>1 DEF Edge, IsPoint
<1>3. Edge(b, c, a) = Edge(a, b, c) /\ Edge(c, a, b) = Edge(a, b, c)
  BY <1>2
<1>4. Edge(b, a, c) = -Edge(a, b, c) /\ Edge(c, b, a) = -Edge(b, c, a)
      /\ Edge(a, c, b) = -Edge(c, a, b)
  BY <1>1
<1>5. Edge(a, b, a) = 0 /\ Edge(a, b, b) = 0
  BY DEF Edge, IsPoint
<1>6. Edge(a, b, c) \in Int
  BY <1>1
<1> QED BY <1>3, <1>4, <1>5, <1>6

\* The corners in the order that makes the area positive.
LEMMA TurnedCorners ==
  ASSUME NEW a, NEW b, NEW c, Corner(a), Corner(b), Corner(c), Edge(a, b, c) # 0
  PROVE  LET t == Turned(a, b, c)
         IN  /\ Corners(t) /\ Edge(t[1], t[2], t[3]) > 0
             /\ t = (IF Edge(a, b, c) > 0 THEN <<a, b, c>> ELSE <<a, c, b>>)
<1>1. Edge(a, b, c) \in Int /\ Edge(a, c, b) = -Edge(a, b, c)
  BY EdgeOfCorners DEF Corner, IsVertex
<1>2. Turned(a, b, c) = IF Edge(a, b, c) > 0 THEN <<a, b, c>> ELSE <<a, c, b>>
  BY <1>1 DEF Turned
<1>3. CASE Edge(a, b, c) > 0
  <2>1. Turned(a, b, c) = <<a, b, c>>
    BY <1>2, <1>3
  <2>2. Corners(<<a, b, c>>)
    BY DEF Corners
  <2> QED BY <1>2, <1>3, <2>1, <2>2
<1>4. CASE ~ (Edge(a, b, c) > 0)
  <2>1. Turned(a, b, c) = <<a, c, b>>
    BY <1>2, <1>4
  <2>2. Corners(<<a, c, b>>)
    BY DEF Corners
  <2>3. Edge(a, c, b) > 0
    BY <1>1, <1>4
  <2> QED BY <1>2, <1>4, <2>1, <2>2, <2>3
<1> QED BY <1>3, <1>4

\* What raster_triangle paints.
LEMMA TrianglePaints ==
  ASSUME EnvOK, NEW a, NEW b, NEW c, Corner(a), Corner(b), Corner(c)
  PROVE  /\ Triangle(a, b, c) \in Seq(PixelPlots)
         /\ Edge(a, b, c) = 0 => Triangle(a, b, c) = <<>>
         /\ Edge(a, b, c) # 0 => Paints(Turned(a, b, c), Triangle(a, b, c))
<1>1. CASE Edge(a, b, c) = 0
  <2>1. Triangle(a, b, c) = <<>>
    BY <1>1 DEF Triangle
  <2> QED BY <1>1, <2>1
<1>2. CASE Edge(a, b, c) # 0
  <2> DEFINE t == Turned(a, b, c)
  <2>1. Corners(t) /\ Edge(t[1], t[2], t[3]) > 0
    BY <1>2, TurnedCorners
  <2>2. Triangle(a, b, c) = Scanned(t)
    BY <1>2 DEF Triangle
  <2>3. Paints(t, Triangle(a, b, c))
    <3> HIDE DEF t
    <3> QED BY <2>1, <2>2, ScannedPaints
  <2> QED BY <1>2, <2>3 DEF Paints
<1> QED BY <1>1, <1>2

(***************************************************************************)
(* Polygons                                                                *)
(***************************************************************************)
\* Moving a vertex moves it, and keeps its shade; edges do not notice.
LEMMA MovedVertex ==
  ASSUME EnvOK, NEW v \in Vertices
  PROVE  /\ Offset(v) \in Vertices /\ Offset(v).shade = v.shade
         /\ Offset(v).x = v.x + env.dx /\ Offset(v).y = v.y + env.dy
         /\ env.dx \in Int /\ env.dy \in Int
         /\ Corner(Offset(v)) /\ IsPoint(v)
<1>1. env.dx \in Int /\ env.dy \in Int
  BY DEF EnvOK
<1>2. Offset(v) = [v EXCEPT !.x = v.x + env.dx, !.y = v.y + env.dy]
  BY DEF Offset
<1>3. /\ Offset(v) \in Vertices /\ Offset(v).shade = v.shade
      /\ Offset(v).x = v.x + env.dx /\ Offset(v).y = v.y + env.dy
  <2>1. v.x \in Int /\ v.y \in Int /\ v.shade \in 0..255 /\ v.u \in 0..255
    BY DEF Vertices
  <2>2. Offset(v) = [x |-> v.x + env.dx, y |-> v.y + env.dy, shade |-> v.shade, u |-> v.u]
    BY <1>2 DEF Vertices
  <2>3. v.x + env.dx \in Int /\ v.y + env.dy \in Int
    BY <1>1, <2>1
  <2> QED BY <2>1, <2>2, <2>3 DEF Vertices
<1>4. \A w \in Vertices : Corner(w) /\ IsPoint(w)
  BY DEF Vertices, Corner, IsVertex, IsPoint
<1> QED BY <1>1, <1>3, <1>4

LEMMA EdgeMoved ==
  ASSUME EnvOK, NEW a \in Vertices, NEW b \in Vertices, NEW c \in Vertices
  PROVE  Edge(Offset(a), Offset(b), Offset(c)) = Edge(a, b, c)
<1>1. \A v \in Vertices : /\ Offset(v).x = v.x + env.dx /\ Offset(v).y = v.y + env.dy
                          /\ v.x \in Int /\ v.y \in Int
  BY MovedVertex DEF IsPoint
<1>2. env.dx \in Int /\ env.dy \in Int
  BY DEF EnvOK
<1>3. \A p, q, d \in Int : (p + d) - (q + d) = p - q
  OBVIOUS
<1>4. /\ Offset(b).x - Offset(a).x = b.x - a.x
      /\ Offset(c).y - Offset(a).y = c.y - a.y
      /\ Offset(b).y - Offset(a).y = b.y - a.y
      /\ Offset(c).x - Offset(a).x = c.x - a.x
  BY <1>1, <1>2, <1>3
<1> QED BY <1>4 DEF Edge

\* A polygon's corners, where they are drawn.
Polygons == {vs \in Seq(Vertices) : Len(vs) \in {3, 4}}
Drawn(vs) == [i \in DOMAIN vs |-> Offset(vs[i])]

\* A primitive's vertices stay vertices where they are drawn.
LEMMA DrawnVertices ==
  ASSUME EnvOK, NEW vs \in Seq(Vertices)
  PROVE  /\ Drawn(vs) \in Seq(Vertices) /\ Len(Drawn(vs)) = Len(vs) /\ Len(vs) \in Nat
         /\ \A i \in 1..Len(vs) : /\ Drawn(vs)[i] = Offset(vs[i])
                                  /\ Corner(Drawn(vs)[i]) /\ vs[i] \in Vertices
                                  /\ Drawn(vs)[i].shade = vs[i].shade
<1>1. DOMAIN vs = 1..Len(vs) /\ Len(vs) \in Nat /\ \A i \in 1..Len(vs) : vs[i] \in Vertices
  OBVIOUS
<1>2. \A i \in 1..Len(vs) : /\ Offset(vs[i]) \in Vertices /\ Corner(Offset(vs[i]))
                            /\ Offset(vs[i]).shade = vs[i].shade
  BY <1>1, MovedVertex
<1>3. Drawn(vs) = [i \in 1..Len(vs) |-> Offset(vs[i])]
  BY <1>1 DEF Drawn
<1> QED BY <1>1, <1>2, <1>3

\* Both halves of a quad given around its corners lie on the same side of their
\* edges.
Convex(w) == \/ Edge(w[1], w[2], w[3]) > 0 /\ Edge(w[1], w[3], w[4]) > 0
             \/ Edge(w[1], w[2], w[3]) < 0 /\ Edge(w[1], w[3], w[4]) < 0

\* A quad given around its corners has both halves turning the same way.
LEMMA AroundIsConvex ==
  ASSUME EnvOK, NEW vs \in Polygons, Len(vs) = 4, Around(vs)
  PROVE  Convex(Drawn(vs))
<1>1. vs[1] \in Vertices /\ vs[2] \in Vertices /\ vs[3] \in Vertices /\ vs[4] \in Vertices
  <2>1. vs \in Seq(Vertices)
    BY DEF Polygons
  <2>2. \A i \in 1..4 : vs[i] \in Vertices
    BY <2>1, ElementOfSeq
  <2> QED BY <2>2
<1>2. PICK side \in {1, -1} : \A i \in DOMAIN vs :
         side * Edge(vs[i], Following(vs, i), Following(vs, (i % Len(vs)) + 1)) > 0
  BY DEF Around
<1>3. /\ Following(vs, 1) = vs[2] /\ Following(vs, (1 % Len(vs)) + 1) = vs[3]
      /\ Following(vs, 3) = vs[4] /\ Following(vs, (3 % Len(vs)) + 1) = vs[1]
  BY DEF Following
<1>4. 1 \in DOMAIN vs /\ 3 \in DOMAIN vs
  BY DEF Polygons
<1>5. side * Edge(vs[1], vs[2], vs[3]) > 0 /\ side * Edge(vs[3], vs[4], vs[1]) > 0
  BY <1>2, <1>3, <1>4
<1>6. /\ Edge(vs[3], vs[4], vs[1]) = Edge(vs[1], vs[3], vs[4])
      /\ Edge(vs[1], vs[2], vs[3]) \in Int /\ Edge(vs[1], vs[3], vs[4]) \in Int
  <2>1. IsPoint(vs[1]) /\ IsPoint(vs[2]) /\ IsPoint(vs[3]) /\ IsPoint(vs[4])
    BY <1>1, MovedVertex
  <2> QED BY <2>1, EdgeOfCorners
<1>7. /\ Edge(Drawn(vs)[1], Drawn(vs)[2], Drawn(vs)[3]) = Edge(vs[1], vs[2], vs[3])
      /\ Edge(Drawn(vs)[1], Drawn(vs)[3], Drawn(vs)[4]) = Edge(vs[1], vs[3], vs[4])
  <2>1. \A i \in 1..4 : Drawn(vs)[i] = Offset(vs[i])
    BY DrawnVertices DEF Polygons
  <2> QED BY <1>1, <2>1, EdgeMoved
<1> QED BY <1>2, <1>5, <1>6, <1>7 DEF Convex

\* A corner on the far side of an edge is not the triangle's.
LEMMA FarCorner ==
  ASSUME NEW w, \A i \in 1..4 : Corner(w[i]), Convex(w)
  PROVE  /\ ~ Covers(Turned(w[1], w[2], w[3]), w[4])
         /\ ~ Covers(Turned(w[1], w[3], w[4]), w[2])
<1>1. IsPoint(w[1]) /\ IsPoint(w[2]) /\ IsPoint(w[3]) /\ IsPoint(w[4])
  BY DEF Corner, IsVertex
<1>2. /\ Edge(w[1], w[2], w[3]) \in Int /\ Edge(w[1], w[3], w[4]) \in Int
      /\ Edge(w[1], w[3], w[2]) = -Edge(w[1], w[2], w[3])
      /\ Edge(w[3], w[1], w[4]) = -Edge(w[1], w[3], w[4])
      /\ Edge(w[3], w[1], w[2]) = Edge(w[1], w[2], w[3])
  BY <1>1, EdgeOfCorners
<1>3. CASE Edge(w[1], w[2], w[3]) > 0 /\ Edge(w[1], w[3], w[4]) > 0
  <2>1. /\ Turned(w[1], w[2], w[3]) = <<w[1], w[2], w[3]>>
        /\ Turned(w[1], w[3], w[4]) = <<w[1], w[3], w[4]>>
    BY <1>2, <1>3 DEF Turned
  <2>2. ~ Owns(w[3], w[1], w[4]) /\ ~ Owns(w[1], w[3], w[2])
    BY <1>2, <1>3 DEF Owns
  <2> QED BY <2>1, <2>2 DEF Covers
<1>4. CASE Edge(w[1], w[2], w[3]) < 0 /\ Edge(w[1], w[3], w[4]) < 0
  <2>1. /\ Turned(w[1], w[2], w[3]) = <<w[1], w[3], w[2]>>
        /\ Turned(w[1], w[3], w[4]) = <<w[1], w[4], w[3]>>
    BY <1>2, <1>4 DEF Turned
  <2>2. ~ Owns(w[1], w[3], w[4]) /\ ~ Owns(w[3], w[1], w[2])
    BY <1>2, <1>4 DEF Owns
  <2> QED BY <2>1, <2>2 DEF Covers
<1> QED BY <1>3, <1>4 DEF Convex

\* A polygon paints its first triangle and, if it is a quad, its second.
Second(w) == IF Len(w) = 4 THEN Triangle(w[1], w[3], w[4]) ELSE <<>>

\* A polygon paints its triangles, one after the other.
LEMMA PolygonIs ==
  ASSUME EnvOK, NEW vs \in Polygons
  PROVE  LET w == Drawn(vs)
             p == Triangle(w[1], w[2], w[3])
             q == Second(w)
         IN  /\ Len(w) = Len(vs) /\ \A i \in 1..Len(w) : Corner(w[i])
             /\ p \in Seq(PixelPlots) /\ q \in Seq(PixelPlots)
             /\ Polygon(w) = p \o q /\ Polygon(w) \in Seq(PixelPlots)
<1> DEFINE w == Drawn(vs)
           p == Triangle(w[1], w[2], w[3])
           q == Second(w)
<1>1. Len(w) = Len(vs) /\ Len(w) \in {3, 4} /\ \A i \in 1..Len(w) : Corner(w[i])
  BY DrawnVertices DEF Polygons
<1>2. p \in Seq(PixelPlots)
  <2>1. Corner(w[1]) /\ Corner(w[2]) /\ Corner(w[3])
    BY <1>1
  <2> HIDE DEF w
  <2> QED BY <2>1, TrianglePaints
<1>3. q \in Seq(PixelPlots)
  <2>1. CASE Len(w) = 4
    <3>1. Corner(w[1]) /\ Corner(w[3]) /\ Corner(w[4])
      BY <1>1, <2>1
    <3> HIDE DEF w
    <3> QED BY <2>1, <3>1, TrianglePaints DEF Second
  <2>2. CASE Len(w) # 4
    BY <2>2 DEF Second
  <2> QED BY <2>1, <2>2
<1>4. Polygon(w) = p \o q
  BY DEF Polygon, Second
<1> HIDE DEF w, p, q
<1>5. Polygon(w) \in Seq(PixelPlots)
  BY <1>2, <1>3, <1>4
<1> QED BY <1>1, <1>2, <1>3, <1>4, <1>5 DEF w, p, q

\* A pixel of a triangle has a shade between those of the corners, and at a
\* corner the corner's.
LEMMA TriangleShades ==
  ASSUME EnvOK, NEW a, NEW b, NEW c, Corner(a), Corner(b), Corner(c),
         NEW i \in 1..Len(Triangle(a, b, c)),
         NEW p, p = Triangle(a, b, c)[i]
  PROVE  /\ \E s \in {a.shade, b.shade, c.shade} : s <= p.shade
         /\ \E s \in {a.shade, b.shade, c.shade} : p.shade <= s
         /\ \A v \in {a, b, c} : ~ Apart(p, v) => p.shade = v.shade
         /\ Covers(Turned(a, b, c), p) /\ Edge(a, b, c) # 0
<1> DEFINE t == Turned(a, b, c)
<1>1. Edge(a, b, c) # 0
  <2>1. Edge(a, b, c) = 0 => Len(Triangle(a, b, c)) = 0
    BY TrianglePaints
  <2> QED BY <2>1
<1>2. /\ Corners(t) /\ Edge(t[1], t[2], t[3]) > 0
      /\ t = <<a, b, c>> \/ t = <<a, c, b>>
  BY <1>1, TurnedCorners
<1>3. Paints(t, Triangle(a, b, c))
  BY <1>1, TrianglePaints
<1> HIDE DEF t
<1>4. Covers(t, p) /\ p.shade = Interpolated(t, p, Shades(t)) /\ IsPoint(p)
  <2>1. Covers(t, p) /\ p.shade = Interpolated(t, p, Shades(t)) /\ p \in PixelPlots
    BY <1>3 DEF Paints
  <2> QED BY <2>1 DEF PixelPlots, IsPoint
<1>5. /\ \A k \in 1..3 : IsPoint(t[k])
      /\ Shades(t) \in [1..3 -> Int]
      /\ \A k \in 1..3 : Shades(t)[k] = t[k].shade
  <2>1. \A k \in 1..3 : IsPoint(t[k]) /\ t[k].shade \in Int
    BY <1>2, CornerTypes DEF Corners
  <2> QED BY <2>1 DEF Shades
<1>6. {t[1].shade, t[2].shade, t[3].shade} = {a.shade, b.shade, c.shade}
      /\ \A v \in {a, b, c} : \E k \in 1..3 : v = t[k]
  BY <1>2
<1>7. \A lo, hi \in Int : (\A k \in 1..3 : lo <= t[k].shade /\ t[k].shade <= hi)
        => lo <= p.shade /\ p.shade <= hi
  <2>1. \A lo, hi \in Int :
          (\A k \in 1..3 : lo <= Shades(t)[k] /\ Shades(t)[k] <= hi)
            => Interpolated(t, p, Shades(t)) \in lo..hi
    BY <1>2, <1>4, <1>5, InterpolationStaysBetween
  <2> QED BY <1>4, <1>5, <2>1
<1>8. \E lo, hi \in {t[1].shade, t[2].shade, t[3].shade} :
        lo \in Int /\ hi \in Int /\ \A k \in 1..3 : lo <= t[k].shade /\ t[k].shade <= hi
  <2>1. \A x, y, z \in Int : \E lo, hi \in {x, y, z} :
          lo <= x /\ lo <= y /\ lo <= z /\ x <= hi /\ y <= hi /\ z <= hi
    OBVIOUS
  <2>2. t[1].shade \in Int /\ t[2].shade \in Int /\ t[3].shade \in Int
    BY <1>5
  <2> QED BY <2>1, <2>2
<1>9. /\ \E s \in {a.shade, b.shade, c.shade} : s <= p.shade
      /\ \E s \in {a.shade, b.shade, c.shade} : p.shade <= s
  BY <1>6, <1>7, <1>8
<1>10. ASSUME NEW k \in 1..3, ~ Apart(p, t[k])
       PROVE  p.shade = t[k].shade
  <2>1. \A x : Interpolated(t, p, x) = Interpolated(t, t[k], x)
    BY <1>10, SamePlace
  <2>2. Interpolated(t, t[k], Shades(t)) = Shades(t)[k]
    BY <1>2, <1>5, CornersKeepTheirValue
  <2> QED BY <1>4, <1>5, <2>1, <2>2
<1> QED BY <1>1, <1>4, <1>6, <1>9, <1>10 DEF t

\* The same of a polygon; at a corner only when its corners are given around it,
\* for then no triangle paints the other's.
LEMMA PolygonShades ==
  ASSUME EnvOK, NEW vs \in Polygons,
         NEW i \in 1..Len(Polygon(Drawn(vs))),
         NEW p, p = Polygon(Drawn(vs))[i]
  PROVE  /\ \E k \in 1..Len(vs) : vs[k].shade <= p.shade
         /\ \E k \in 1..Len(vs) : p.shade <= vs[k].shade
         /\ Around(vs) => \A k \in 1..Len(vs) :
              ~ Apart(p, Offset(vs[k])) => p.shade = vs[k].shade
<1> DEFINE w == Drawn(vs)
           first == Triangle(w[1], w[2], w[3])
           second == Second(w)
<1>1. /\ Len(w) = Len(vs) /\ Len(vs) \in {3, 4} /\ \A k \in 1..Len(w) : Corner(w[k])
      /\ first \in Seq(PixelPlots) /\ second \in Seq(PixelPlots)
      /\ Polygon(w) = first \o second
  BY PolygonIs DEF Polygons
<1>2. \A k \in 1..Len(vs) : w[k].shade = vs[k].shade /\ w[k] = Offset(vs[k])
  BY DrawnVertices DEF Polygons
<1>3. \/ i \in 1..Len(first) /\ p = first[i]
      \/ \E j \in 1..Len(second) : p = second[j]
  <2>1. i \in 1..(Len(first) + Len(second)) /\ Len(first) \in Nat /\ Len(second) \in Nat
    <3> HIDE DEF w, first, second
    <3> QED BY <1>1 DEF w
  <2>2. i > Len(first) => i - Len(first) \in 1..Len(second)
    <3> HIDE DEF w, first, second
    <3> QED BY <2>1
  <2>3. p = IF i <= Len(first) THEN first[i] ELSE second[i - Len(first)]
    <3> HIDE DEF w, first, second
    <3> QED BY <1>1, <2>1 DEF w
  <2> HIDE DEF w, first, second
  <2> QED BY <2>1, <2>2, <2>3
<1>4. ASSUME NEW k \in 1..Len(vs), Around(vs), Len(vs) = 4
      PROVE  /\ ~ Covers(Turned(w[1], w[2], w[3]), w[4])
             /\ ~ Covers(Turned(w[1], w[3], w[4]), w[2])
  <2>1. Convex(w)
    BY <1>4, AroundIsConvex
  <2>2. \A j \in 1..4 : Corner(w[j])
    BY <1>1, <1>4
  <2> HIDE DEF w
  <2> QED BY <2>1, <2>2, FarCorner
<1>5. CASE i \in 1..Len(first) /\ p = first[i]
  <2>1. Corner(w[1]) /\ Corner(w[2]) /\ Corner(w[3]) /\ 1 \in 1..Len(vs) /\ 2 \in 1..Len(vs)
        /\ 3 \in 1..Len(vs)
    BY <1>1
  <2>2. /\ \E s \in {w[1].shade, w[2].shade, w[3].shade} : s <= p.shade
        /\ \E s \in {w[1].shade, w[2].shade, w[3].shade} : p.shade <= s
        /\ \A v \in {w[1], w[2], w[3]} : ~ Apart(p, v) => p.shade = v.shade
        /\ Covers(Turned(w[1], w[2], w[3]), p)
    <3> HIDE DEF w
    <3> QED BY <1>5, <2>1, TriangleShades
  <2>3. ASSUME Around(vs), NEW k \in 1..Len(vs), ~ Apart(p, w[k])
        PROVE  p.shade = w[k].shade
    <3>1. CASE k \in 1..3
      BY <2>2, <2>3, <3>1
    <3>2. CASE k = 4
      <4>1. Len(vs) = 4 /\ Covers(Turned(w[1], w[2], w[3]), w[4])
        BY <1>1, <2>2, <2>3, <3>2, SamePlace
      <4> QED BY <1>4, <2>3, <4>1
    <3> QED BY <1>1, <3>1, <3>2
  <2> HIDE DEF w, first, second
  <2> QED BY <1>2, <2>1, <2>2, <2>3
<1>6. CASE \E j \in 1..Len(second) : p = second[j]
  <2>1. PICK j \in 1..Len(second) : p = second[j]
    BY <1>6
  <2>2. Len(vs) = 4 /\ second = Triangle(w[1], w[3], w[4])
    <3>1. Len(w) # 4 => Len(second) = 0
      BY DEF Second
    <3>2. Len(w) = 4 => second = Triangle(w[1], w[3], w[4])
      BY DEF Second
    <3> QED BY <1>1, <2>1, <3>1, <3>2, SMTT(30)
  <2>3. Corner(w[1]) /\ Corner(w[3]) /\ Corner(w[4]) /\ 1 \in 1..Len(vs) /\ 3 \in 1..Len(vs)
        /\ 4 \in 1..Len(vs)
    BY <1>1, <2>2
  <2>4. /\ \E s \in {w[1].shade, w[3].shade, w[4].shade} : s <= p.shade
        /\ \E s \in {w[1].shade, w[3].shade, w[4].shade} : p.shade <= s
        /\ \A v \in {w[1], w[3], w[4]} : ~ Apart(p, v) => p.shade = v.shade
        /\ Covers(Turned(w[1], w[3], w[4]), p)
    <3> HIDE DEF w, second
    <3> QED BY <2>1, <2>2, <2>3, TriangleShades
  <2>5. ASSUME Around(vs), NEW k \in 1..Len(vs), ~ Apart(p, w[k])
        PROVE  p.shade = w[k].shade
    <3>1. CASE k \in {1, 3, 4}
      BY <2>4, <2>5, <3>1
    <3>2. CASE k = 2
      <4>1. Covers(Turned(w[1], w[3], w[4]), w[2])
        BY <2>4, <2>5, <3>2, SamePlace
      <4> QED BY <1>4, <2>2, <2>5, <4>1
    <3> QED BY <2>2, <3>1, <3>2
  <2> HIDE DEF w, first, second
  <2> QED BY <1>2, <2>3, <2>4, <2>5
<1> QED BY <1>3, <1>5, <1>6

LEMMA PlotsOfPolygon ==
  ASSUME NEW d, d.kind = "poly"
  PROVE  Plots(d) = Polygon(Drawn(d.vs))
BY DEF Plots, Drawn

\* A primitive has vertices, a polygon three or four.
LEMMA DrawingHasVertices ==
  ASSUME NEW d, DrawingOK(d)
  PROVE  d.vs \in Seq(Vertices) /\ (d.kind = "poly" => d.vs \in Polygons)
BY DEF DrawingOK, Polygons

\* The shades of the primitive drawn last.
LEMMA ShadesOfDrawing ==
  ASSUME EnvOK, last.kind = "poly" => DrawingOK(last)
  PROVE  ShadesFit
<1> SUFFICES ASSUME last.kind = "poly" PROVE ShadesFit
  BY DEF ShadesFit
<1> DEFINE vs == last.vs
           ps == Polygon(Drawn(vs))
<1>1. vs \in Polygons /\ Plots(last) = ps
  BY DrawingHasVertices, PlotsOfPolygon
<1>2. DOMAIN vs = 1..Len(vs) /\ DOMAIN ps = 1..Len(ps)
  <2>1. ps \in Seq(PixelPlots)
    BY <1>1, PolygonIs
  <2> HIDE DEF ps
  <2> QED BY <1>1, <2>1 DEF Polygons
<1>3. \A i \in DOMAIN ps :
        /\ \E k \in DOMAIN vs : vs[k].shade <= ps[i].shade
        /\ \E k \in DOMAIN vs : ps[i].shade <= vs[k].shade
        /\ Around(vs) => \A k \in DOMAIN vs :
             ~ Apart(ps[i], Offset(vs[k])) => ps[i].shade = vs[k].shade
  <2> SUFFICES ASSUME NEW i \in 1..Len(Polygon(Drawn(vs)))
               PROVE  /\ \E k \in 1..Len(vs) : vs[k].shade <= ps[i].shade
                      /\ \E k \in 1..Len(vs) : ps[i].shade <= vs[k].shade
                      /\ Around(vs) => \A k \in 1..Len(vs) :
                           ~ Apart(ps[i], Offset(vs[k])) => ps[i].shade = vs[k].shade
    BY <1>2
  <2> HIDE DEF vs
  <2> QED BY <1>1, PolygonShades
<1>4. \A i \in DOMAIN ps :
        /\ \E s \in {vs[k].shade : k \in DOMAIN vs} : s <= ps[i].shade
        /\ \E s \in {vs[k].shade : k \in DOMAIN vs} : ps[i].shade <= s
        /\ Around(vs) => \A k \in DOMAIN vs :
             (ps[i].x = Offset(vs[k]).x /\ ps[i].y = Offset(vs[k]).y)
               => ps[i].shade = vs[k].shade
  <2> HIDE DEF vs, ps
  <2> QED BY <1>3 DEF Apart
<1> HIDE DEF ps
<1> QED BY <1>1, <1>4 DEF ShadesFit

(***************************************************************************)
(* Everything drawn is a sequence of pixels                                *)
(***************************************************************************)
LEMMA RectangleIsSequence ==
  ASSUME NEW v \in Vertices, NEW w \in Nat, NEW h \in Nat
  PROVE  Rectangle(v, w, h) \in Seq(PixelPlots)
<1> DEFINE plot(i) == Plot(v.x + ((i - 1) % w), v.y + ((i - 1) \div w),
                           v.shade, v.u + ((i - 1) % w))
<1>1. w * h \in Nat
  OBVIOUS
<1>2. v.x \in Int /\ v.y \in Int /\ v.shade \in 0..255 /\ v.u \in Int
  BY DEF Vertices
<1>3. ASSUME NEW i \in 1..(w * h) PROVE plot(i) \in PixelPlots
  <2>1. i - 1 \in 0..(w * h - 1)
    BY <1>1
  <2>2. (i - 1) % w \in 0..(w - 1) /\ (i - 1) \div w \in 0..(h - 1)
    BY <2>1, RowAndColumn
  <2>3. (i - 1) % w \in Int /\ (i - 1) \div w \in Int
    BY <2>2
  <2>4. v.x + ((i - 1) % w) \in Int /\ v.y + ((i - 1) \div w) \in Int /\ v.u + ((i - 1) % w) \in Int
    BY <1>2, <2>3
  <2> QED BY <1>2, <2>4 DEF Plot, PixelPlots
<1>4. Rectangle(v, w, h) = [i \in 1..(w * h) |-> plot(i)]
  BY DEF Rectangle
<1> DEFINE n == w * h
<1>5. n \in Nat /\ \A i \in 1..n : plot(i) \in PixelPlots
  BY <1>1, <1>3
<1> HIDE DEF n, plot
<1>6. [i \in 1..n |-> plot(i)] \in Seq(PixelPlots)
  BY <1>5
<1> QED BY <1>4, <1>6 DEF n

\* A poly-line joins the lines between its vertices.
LEMMA LinesAreSequence ==
  ASSUME NEW vs, NEW m \in Nat, Len(vs) = m + 1, \A i \in 1..(m + 1) : IsVertex(vs[i])
  PROVE  Lines(vs) \in Seq(PixelPlots)
<1> DEFINE S == Seq(PixelPlots)
           step == [p \in Nat \X S |->
                      IF p[1] \in 1..m THEN p[2] \o ShadedLine(vs[p[1]], vs[p[1] + 1]) ELSE p[2]]
           Def(f) == f = [n \in 0..(Len(vs) - 1) |->
                            IF n = 0 THEN <<>> ELSE f[n - 1] \o ShadedLine(vs[n], vs[n + 1])]
           r == CHOOSE f : Def(f)
<1>1. Len(vs) - 1 = m
  OBVIOUS
<1>2. \A n \in 1..m : ShadedLine(vs[n], vs[n + 1]) \in S
  <2> SUFFICES ASSUME NEW n \in 1..m PROVE ShadedLine(vs[n], vs[n + 1]) \in S
    OBVIOUS
  <2>1. n \in 1..(m + 1) /\ n + 1 \in 1..(m + 1)
    OBVIOUS
  <2> QED BY <2>1, LineIsSequence
<1>3. <<>> \in S /\ \A s, u \in S : s \o u \in S
  OBVIOUS
<1>4. step \in [Nat \X S -> S]
  <2> HIDE DEF S
  <2> QED BY <1>2, <1>3
<1>5. \A n \in 1..m, q \in S : step[<<n, q>>] = q \o ShadedLine(vs[n], vs[n + 1])
  <2>1. \A n \in 1..m : n \in Nat
    OBVIOUS
  <2> HIDE DEF S
  <2> QED BY <2>1
<1>6. PICK f : Unfolds(f, S, <<>>, step, m)
  <2>1. <<>> \in S
    BY <1>3
  <2> HIDE DEF S, step, Def
  <2> QED BY <1>4, <2>1, Recursion
<1>7. /\ f \in [0..m -> S] /\ f[0] = <<>>
      /\ \A n \in 1..m : f[n] = f[n - 1] \o ShadedLine(vs[n], vs[n + 1])
  <2>1. /\ f \in [0..m -> S] /\ f[0] = <<>>
        /\ \A n \in 1..m : f[n] = step[<<n, f[n - 1]>>]
    <3> HIDE DEF S, step
    <3> QED BY <1>6 DEF Unfolds
  <2>2. \A n \in 1..m : n - 1 \in 0..m
    OBVIOUS
  <2> HIDE DEF S, step
  <2> QED BY <1>5, <2>1, <2>2
<1>8. Def(f)
  <2>1. \A n \in 0..m : n # 0 => n \in 1..m
    OBVIOUS
  <2>2. f = [n \in 0..m |-> IF n = 0 THEN <<>> ELSE f[n - 1] \o ShadedLine(vs[n], vs[n + 1])]
    <3> HIDE DEF S
    <3> QED BY <1>7, <2>1
  <2> QED BY <1>1, <2>2
<1>9. Def(r)
  <2> HIDE DEF Def
  <2> QED BY <1>8
<1>10. r[0] = <<>> /\ \A n \in 1..m : r[n] = r[n - 1] \o ShadedLine(vs[n], vs[n + 1])
  <2>1. 0 \in 0..m /\ \A n \in 1..m : n \in 0..m /\ n # 0
    OBVIOUS
  <2> HIDE DEF r
  <2> QED BY <1>1, <1>9, <2>1
<1>11. Recurs(r, S, <<>>, step, m)
  <2> HIDE DEF r, step, S
  <2> QED BY <1>5, <1>10 DEF Recurs
<1>12. \A n \in 0..m : r[n] \in S
  <2>1. <<>> \in S
    BY <1>3
  <2> HIDE DEF r, S, step, Def
  <2> QED BY <1>4, <1>11, <2>1, RecursionStays
<1>13. Lines(vs) = r[m]
  <2>1. Lines(vs) = r[Len(vs) - 1]
    BY DEF Lines
  <2> HIDE DEF r
  <2> QED BY <1>1, <2>1
<1> HIDE DEF r
<1> QED BY <1>12, <1>13

\* So is every primitive.
LEMMA PlotsType ==
  ASSUME EnvOK, NEW d, DrawingOK(d)
  PROVE  Plots(d) \in Seq(PixelPlots)
<1> DEFINE w == Drawn(d.vs)
<1>1. /\ w \in Seq(Vertices) /\ Len(w) = Len(d.vs) /\ Len(w) \in Nat
      /\ \A i \in 1..Len(w) : Corner(w[i]) /\ w[i] \in Vertices
  <2>1. d.vs \in Seq(Vertices)
    BY DrawingHasVertices
  <2>2. /\ w \in Seq(Vertices) /\ Len(w) = Len(d.vs) /\ Len(d.vs) \in Nat
        /\ \A i \in 1..Len(d.vs) : Corner(w[i])
    BY <2>1, DrawnVertices
  <2> HIDE DEF w
  <2> QED BY <2>2
<1>2. CASE d.kind = "poly"
  <2>1. d.vs \in Polygons
    BY <1>2, DrawingHasVertices
  <2> QED BY <1>2, <2>1, PlotsOfPolygon, PolygonIs
<1>3. CASE d.kind = "rect"
  <2>1. Len(d.vs) = 1 /\ d.w \in Nat /\ d.h \in Nat
    BY <1>3 DEF DrawingOK
  <2>2. Plots(d) = Rectangle(w[1], d.w, d.h)
    BY <1>3 DEF Plots, Drawn
  <2>3. w[1] \in Vertices
    BY <1>1, <2>1
  <2> HIDE DEF w
  <2> QED BY <2>1, <2>2, <2>3, RectangleIsSequence
<1>4. CASE d.kind = "line"
  <2>1. Len(d.vs) >= 2
    BY <1>4 DEF DrawingOK
  <2>2. /\ Len(w) = 2 => Plots(d) = SingleLine(w)
        /\ Len(w) > 2 => Plots(d) = Lines(w)
    <3>1. w = [i \in DOMAIN d.vs |-> Offset(d.vs[i])]
      BY DEF Drawn
    <3> HIDE DEF w
    <3>2. Len(w) = 2 => Plots(d) = SingleLine(w)
      <4>1. Len(w) = 2 => ~ (Len(w) > 2)
        OBVIOUS
      <4> QED BY <1>4, <3>1, <4>1, ZenonT(30) DEF Plots
    <3>3. Len(w) > 2 => Plots(d) = Lines(w)
      BY <1>4, <3>1 DEF Plots
    <3> QED BY <3>2, <3>3
  <2>3. \A i \in 1..Len(w) : IsVertex(w[i])
    BY <1>1 DEF Corner
  <2> HIDE DEF w
  <2>4. CASE Len(w) = 2
    <3>1. IsVertex(w[1]) /\ IsVertex(w[2])
      BY <2>3, <2>4
    <3> QED BY <2>2, <2>4, <3>1, LineIsSequence DEF SingleLine
  <2>5. CASE Len(w) # 2
    <3>1. PICK m \in Nat : Len(w) = m + 1 /\ Len(w) > 2
      <4>1. Len(w) \in Nat /\ Len(w) >= 2
        BY <1>1, <2>1
      <4>2. \A n \in Nat : n >= 2 /\ n # 2 => n - 1 \in Nat /\ n = (n - 1) + 1 /\ n > 2
        OBVIOUS
      <4> QED BY <2>5, <4>1, <4>2
    <3>2. \A i \in 1..(m + 1) : IsVertex(w[i])
      BY <2>3, <3>1
    <3> QED BY <2>2, <3>1, <3>2, LinesAreSequence
  <2> QED BY <2>4, <2>5
<1> QED BY <1>2, <1>3, <1>4 DEF DrawingOK

(***************************************************************************)
(* Which pixels a polygon plots                                            *)
(***************************************************************************)
\* The triangles of a quad given around its corners have no pixel in common.
LEMMA HalvesAreDisjoint ==
  ASSUME NEW w, \A i \in 1..4 : Corner(w[i]), Convex(w), NEW p, IsPoint(p)
  PROVE  ~ (/\ Covers(Turned(w[1], w[2], w[3]), p)
            /\ Covers(Turned(w[1], w[3], w[4]), p))
<1>1. IsPoint(w[1]) /\ IsPoint(w[2]) /\ IsPoint(w[3]) /\ IsPoint(w[4])
  BY DEF Corner, IsVertex
<1>2. Apart(w[1], w[3])
  <2>1. ~ Apart(w[3], w[1]) => Edge(w[1], w[2], w[3]) = Edge(w[1], w[2], w[1])
    BY SamePlace
  <2>2. Edge(w[1], w[2], w[1]) = 0
    BY <1>1, EdgeOfCorners
  <2>3. Edge(w[1], w[2], w[3]) # 0
    BY DEF Convex
  <2> QED BY <2>1, <2>2, <2>3 DEF Apart
<1>3. ASSUME NEW a, NEW b, NEW c, NEW d, IsPoint(a), IsPoint(b), IsPoint(c), IsPoint(d), Apart(c, a)
      PROVE  ~ (Covers(<<a, b, c>>, p) /\ Covers(<<a, c, d>>, p))
  <2> DEFINE t == <<a, b, c>>
             s == <<a, c, d>>
  <2>1. \A i \in 1..3 : IsPoint(t[i]) /\ IsPoint(s[i])
    BY <1>3
  <2>2. t[3] = s[(1 % 3) + 1] /\ s[1] = t[(3 % 3) + 1] /\ Apart(t[3], s[1])
    BY <1>3
  <2>3. 3 \in 1..3 /\ 1 \in 1..3
    OBVIOUS
  <2> HIDE DEF t, s
  <2>4. ~ (Covers(t, p) /\ Covers(s, p))
    BY <2>1, <2>2, <2>3, NeighboursAreDisjoint
  <2> QED BY <2>4 DEF t, s
<1>4. Apart(w[3], w[1]) /\ Edge(w[1], w[2], w[3]) \in Int /\ Edge(w[1], w[3], w[4]) \in Int
  BY <1>1, <1>2, EdgeOfCorners DEF Apart
<1>5. CASE Edge(w[1], w[2], w[3]) > 0 /\ Edge(w[1], w[3], w[4]) > 0
  <2>1. /\ Turned(w[1], w[2], w[3]) = <<w[1], w[2], w[3]>>
        /\ Turned(w[1], w[3], w[4]) = <<w[1], w[3], w[4]>>
    BY <1>4, <1>5 DEF Turned
  <2> QED BY <1>1, <1>3, <1>4, <2>1
<1>6. CASE Edge(w[1], w[2], w[3]) < 0 /\ Edge(w[1], w[3], w[4]) < 0
  <2>1. /\ Turned(w[1], w[2], w[3]) = <<w[1], w[3], w[2]>>
        /\ Turned(w[1], w[3], w[4]) = <<w[1], w[4], w[3]>>
    BY <1>4, <1>6 DEF Turned
  <2> QED BY <1>1, <1>3, <1>4, <2>1
<1> QED BY <1>5, <1>6 DEF Convex

\* A triangle covers the pixels inside it, whichever way its corners are given.
LEMMA InsideIsCovered ==
  ASSUME NEW a, NEW b, NEW c, NEW p, IsPoint(a), IsPoint(b), IsPoint(c), IsPoint(p),
         \/ Owns(a, b, p) /\ Owns(b, c, p) /\ Owns(c, a, p) /\ Edge(a, b, c) > 0
         \/ Owns(b, a, p) /\ Owns(c, b, p) /\ Owns(a, c, p) /\ Edge(a, b, c) < 0
  PROVE  Covers(Turned(a, b, c), p) /\ Edge(a, b, c) # 0
<1>1. Edge(a, b, c) > 0 => Turned(a, b, c) = <<a, b, c>>
  BY EdgeOfCorners DEF Turned
<1>2. Edge(a, b, c) < 0 => Turned(a, b, c) = <<a, c, b>>
  BY DEF Turned
<1>3. Edge(a, b, c) \in Int
  BY EdgeOfCorners
<1> QED BY <1>1, <1>2, <1>3 DEF Covers

\* The edges seen from a pixel make up the area.
LEMMA EdgesMakeTheArea ==
  ASSUME NEW a, NEW b, NEW c, NEW p, IsPoint(a), IsPoint(b), IsPoint(c), IsPoint(p)
  PROVE  /\ Edge(a, b, p) \in Int /\ Edge(b, c, p) \in Int /\ Edge(c, a, p) \in Int
         /\ Edge(a, b, p) + Edge(b, c, p) + Edge(c, a, p) = Edge(a, b, c)
<1> DEFINE t == <<a, b, c>>
<1>1. \A i \in 1..3 : IsPoint(t[i])
  OBVIOUS
<1>2. t[1] = a /\ t[2] = b /\ t[3] = c
  OBVIOUS
<1>3. /\ Weight(t, 1, p) = Edge(t[2], t[3], p) /\ Weight(t, 2, p) = Edge(t[3], t[1], p)
      /\ Weight(t, 3, p) = Edge(t[1], t[2], p)
  BY DEF Weight
<1> HIDE DEF t
<1>4. /\ \A i \in 1..3 : Weight(t, i, p) \in Int
      /\ Weight(t, 1, p) + Weight(t, 2, p) + Weight(t, 3, p) = Edge(t[1], t[2], t[3])
  BY <1>1, WeightsShareTheArea
<1>5. Weight(t, 1, p) \in Int /\ Weight(t, 2, p) \in Int /\ Weight(t, 3, p) \in Int
  BY <1>4
<1>6. Weight(t, 1, p) = Edge(b, c, p) /\ Weight(t, 2, p) = Edge(c, a, p) /\ Weight(t, 3, p) = Edge(a, b, p)
      /\ Edge(t[1], t[2], t[3]) = Edge(a, b, c)
  BY <1>2, <1>3
<1> QED BY <1>4, <1>5, <1>6

\* A pixel is inside a polygon when it lies on the same side of all edges.
LEMMA InsideOfTriangle ==
  ASSUME NEW w, Len(w) = 3, DOMAIN w = 1..3, NEW p, Inside(w, p)
  PROVE  \/ Edge(w[1], w[2], p) > 0 /\ Edge(w[2], w[3], p) > 0 /\ Edge(w[3], w[1], p) > 0
         \/ Edge(w[1], w[2], p) < 0 /\ Edge(w[2], w[3], p) < 0 /\ Edge(w[3], w[1], p) < 0
<1> DEFINE E == {Edge(w[i], Following(w, i), p) : i \in DOMAIN w}
           sign(e) == IF e > 0 THEN 1 ELSE IF e < 0 THEN -1 ELSE 0
<1>1. Sides(w, p) = {sign(e) : e \in E}
  BY DEF Sides
<1>2. Following(w, 1) = w[2] /\ Following(w, 2) = w[3] /\ Following(w, 3) = w[1]
  BY DEF Following
<1>3. Edge(w[1], w[2], p) \in E /\ Edge(w[2], w[3], p) \in E /\ Edge(w[3], w[1], p) \in E
  <2>1. 1 \in DOMAIN w /\ 2 \in DOMAIN w /\ 3 \in DOMAIN w
    OBVIOUS
  <2> QED BY <1>2, <2>1
<1> HIDE DEF E
<1>4. PICK s \in {1, -1} : \A e \in E : sign(e) = s
  <2>1. Sides(w, p) = {1} \/ Sides(w, p) = {-1}
    BY DEF Inside
  <2> HIDE DEF sign
  <2> QED BY <1>1, <2>1
<1> QED BY <1>3, <1>4

LEMMA InsideOfQuad ==
  ASSUME NEW w, Len(w) = 4, DOMAIN w = 1..4, NEW p, Inside(w, p)
  PROVE  \/ /\ Edge(w[1], w[2], p) > 0 /\ Edge(w[2], w[3], p) > 0
            /\ Edge(w[3], w[4], p) > 0 /\ Edge(w[4], w[1], p) > 0
         \/ /\ Edge(w[1], w[2], p) < 0 /\ Edge(w[2], w[3], p) < 0
            /\ Edge(w[3], w[4], p) < 0 /\ Edge(w[4], w[1], p) < 0
<1> DEFINE E == {Edge(w[i], Following(w, i), p) : i \in DOMAIN w}
           sign(e) == IF e > 0 THEN 1 ELSE IF e < 0 THEN -1 ELSE 0
<1>1. Sides(w, p) = {sign(e) : e \in E}
  BY DEF Sides
<1>2. /\ Following(w, 1) = w[2] /\ Following(w, 2) = w[3]
      /\ Following(w, 3) = w[4] /\ Following(w, 4) = w[1]
  BY DEF Following
<1>3. /\ Edge(w[1], w[2], p) \in E /\ Edge(w[2], w[3], p) \in E
      /\ Edge(w[3], w[4], p) \in E /\ Edge(w[4], w[1], p) \in E
  <2>1. 1 \in DOMAIN w /\ 2 \in DOMAIN w /\ 3 \in DOMAIN w /\ 4 \in DOMAIN w
    OBVIOUS
  <2> QED BY <1>2, <2>1
<1> HIDE DEF E
<1>4. PICK s \in {1, -1} : \A e \in E : sign(e) = s
  <2>1. Sides(w, p) = {1} \/ Sides(w, p) = {-1}
    BY DEF Inside
  <2> HIDE DEF sign
  <2> QED BY <1>1, <2>1
<1> QED BY <1>3, <1>4

\* What a polygon paints.
PaintsPolygon(w, ps) ==
  /\ ps \in Seq(PixelPlots)
  /\ \A i, j \in 1..Len(ps) : i # j => Apart(ps[i], ps[j])
  /\ \A p : IsPoint(p) /\ InArea(p) /\ Inside(w, p)
       => \E i \in 1..Len(ps) : ~ Apart(ps[i], p)

\* A triangle paints the pixels inside it, once each.
LEMMA TrianglePaintsInside ==
  ASSUME EnvOK, NEW w, Len(w) = 3, DOMAIN w = 1..3, \A i \in 1..3 : Corner(w[i])
  PROVE  PaintsPolygon(w, Triangle(w[1], w[2], w[3]))
<1> DEFINE t == Turned(w[1], w[2], w[3])
           ps == Triangle(w[1], w[2], w[3])
<1>1. /\ ps \in Seq(PixelPlots)
      /\ Edge(w[1], w[2], w[3]) = 0 => ps = <<>>
      /\ Edge(w[1], w[2], w[3]) # 0 => Paints(t, ps)
  BY TrianglePaints
<1> HIDE DEF t, ps
<1>2. ASSUME NEW i \in 1..Len(ps), NEW j \in 1..Len(ps), i # j
      PROVE  Apart(ps[i], ps[j])
  <2>1. ps # <<>>
    OBVIOUS
  <2> QED BY <1>1, <1>2, <2>1 DEF Paints
<1>3. ASSUME NEW p, IsPoint(p), InArea(p), Inside(w, p)
      PROVE  \E i \in 1..Len(ps) : ~ Apart(ps[i], p)
  <2>1. IsPoint(w[1]) /\ IsPoint(w[2]) /\ IsPoint(w[3])
    BY DEF Corner, IsVertex
  <2>2. \/ Edge(w[1], w[2], p) > 0 /\ Edge(w[2], w[3], p) > 0 /\ Edge(w[3], w[1], p) > 0
        \/ Edge(w[1], w[2], p) < 0 /\ Edge(w[2], w[3], p) < 0 /\ Edge(w[3], w[1], p) < 0
    BY <1>3, InsideOfTriangle
  <2>3. /\ Edge(w[1], w[2], p) \in Int /\ Edge(w[2], w[3], p) \in Int /\ Edge(w[3], w[1], p) \in Int
        /\ Edge(w[1], w[2], p) + Edge(w[2], w[3], p) + Edge(w[3], w[1], p) = Edge(w[1], w[2], w[3])
    BY <1>3, <2>1, EdgesMakeTheArea
  <2>4. /\ Edge(w[2], w[1], p) = -Edge(w[1], w[2], p) /\ Edge(w[3], w[2], p) = -Edge(w[2], w[3], p)
        /\ Edge(w[1], w[3], p) = -Edge(w[3], w[1], p)
    BY <1>3, <2>1, EdgeTurned
  <2>5. Covers(t, p) /\ Edge(w[1], w[2], w[3]) # 0
    <3>1. CASE Edge(w[1], w[2], p) > 0 /\ Edge(w[2], w[3], p) > 0 /\ Edge(w[3], w[1], p) > 0
      <4>1. Owns(w[1], w[2], p) /\ Owns(w[2], w[3], p) /\ Owns(w[3], w[1], p)
        BY <3>1 DEF Owns
      <4>2. Edge(w[1], w[2], w[3]) > 0
        BY <2>3, <3>1
      <4> QED BY <1>3, <2>1, <4>1, <4>2, InsideIsCovered DEF t
    <3>2. CASE Edge(w[1], w[2], p) < 0 /\ Edge(w[2], w[3], p) < 0 /\ Edge(w[3], w[1], p) < 0
      <4>1. Owns(w[2], w[1], p) /\ Owns(w[3], w[2], p) /\ Owns(w[1], w[3], p)
        BY <2>3, <2>4, <3>2 DEF Owns
      <4>2. Edge(w[1], w[2], w[3]) < 0
        BY <2>3, <3>2
      <4> QED BY <1>3, <2>1, <4>1, <4>2, InsideIsCovered DEF t
    <3> QED BY <2>2, <3>1, <3>2
  <2> QED BY <1>1, <1>3, <2>5 DEF Paints
<1>4. PaintsPolygon(w, ps)
  BY <1>1, <1>2, <1>3 DEF PaintsPolygon
<1> QED BY <1>4 DEF ps

\* A pixel inside a quad belongs to one of its halves.
LEMMA InsideIsInAHalf ==
  ASSUME NEW w, Len(w) = 4, DOMAIN w = 1..4, \A i \in 1..4 : Corner(w[i]), Convex(w),
         NEW p, IsPoint(p), Inside(w, p)
  PROVE  \/ Covers(Turned(w[1], w[2], w[3]), p) /\ Edge(w[1], w[2], w[3]) # 0
         \/ Covers(Turned(w[1], w[3], w[4]), p) /\ Edge(w[1], w[3], w[4]) # 0
<1>1. IsPoint(w[1]) /\ IsPoint(w[2]) /\ IsPoint(w[3]) /\ IsPoint(w[4])
  BY DEF Corner, IsVertex
<1>2. /\ Edge(w[1], w[2], p) \in Int /\ Edge(w[2], w[3], p) \in Int /\ Edge(w[3], w[1], p) \in Int
      /\ Edge(w[1], w[2], p) + Edge(w[2], w[3], p) + Edge(w[3], w[1], p) = Edge(w[1], w[2], w[3])
  BY <1>1, EdgesMakeTheArea
<1>3. /\ Edge(w[1], w[3], p) \in Int /\ Edge(w[3], w[4], p) \in Int /\ Edge(w[4], w[1], p) \in Int
      /\ Edge(w[1], w[3], p) + Edge(w[3], w[4], p) + Edge(w[4], w[1], p) = Edge(w[1], w[3], w[4])
  BY <1>1, EdgesMakeTheArea
<1>4. /\ Edge(w[2], w[1], p) = -Edge(w[1], w[2], p) /\ Edge(w[3], w[2], p) = -Edge(w[2], w[3], p)
      /\ Edge(w[4], w[3], p) = -Edge(w[3], w[4], p) /\ Edge(w[1], w[4], p) = -Edge(w[4], w[1], p)
      /\ Edge(w[1], w[3], p) = -Edge(w[3], w[1], p)
  BY <1>1, EdgeTurned
<1>5. Owns(w[1], w[3], p) \/ Owns(w[3], w[1], p)
  <2>1. Edge(w[1], w[2], w[1]) = 0 /\ Edge(w[1], w[2], w[3]) # 0
    BY <1>1, EdgeOfCorners DEF Convex
  <2>2. Apart(w[1], w[3])
    <3>1. ~ Apart(w[1], w[3]) => Edge(w[1], w[2], w[1]) = Edge(w[1], w[2], w[3])
      BY SamePlace
    <3> QED BY <2>1, <3>1
  <2> QED BY <1>1, <2>2, SeamHasOneOwner
<1>6. \/ /\ Edge(w[1], w[2], p) > 0 /\ Edge(w[2], w[3], p) > 0
         /\ Edge(w[3], w[4], p) > 0 /\ Edge(w[4], w[1], p) > 0
      \/ /\ Edge(w[1], w[2], p) < 0 /\ Edge(w[2], w[3], p) < 0
         /\ Edge(w[3], w[4], p) < 0 /\ Edge(w[4], w[1], p) < 0
  BY InsideOfQuad
<1>7. CASE /\ Edge(w[1], w[2], p) > 0 /\ Edge(w[2], w[3], p) > 0
           /\ Edge(w[3], w[4], p) > 0 /\ Edge(w[4], w[1], p) > 0
  <2>1. Owns(w[1], w[2], p) /\ Owns(w[2], w[3], p) /\ Owns(w[3], w[4], p) /\ Owns(w[4], w[1], p)
    BY <1>7 DEF Owns
  <2>2. Edge(w[1], w[2], w[3]) > 0 /\ Edge(w[1], w[3], w[4]) > 0
    BY <1>2, <1>3, <1>4, <1>7 DEF Convex
  <2>3. CASE Owns(w[1], w[3], p)
    BY <1>1, <2>1, <2>2, <2>3, InsideIsCovered
  <2>4. CASE Owns(w[3], w[1], p)
    BY <1>1, <2>1, <2>2, <2>4, InsideIsCovered
  <2> QED BY <1>5, <2>3, <2>4
<1>8. CASE /\ Edge(w[1], w[2], p) < 0 /\ Edge(w[2], w[3], p) < 0
           /\ Edge(w[3], w[4], p) < 0 /\ Edge(w[4], w[1], p) < 0
  <2>1. Owns(w[2], w[1], p) /\ Owns(w[3], w[2], p) /\ Owns(w[4], w[3], p) /\ Owns(w[1], w[4], p)
    BY <1>2, <1>3, <1>4, <1>8 DEF Owns
  <2>2. Edge(w[1], w[2], w[3]) < 0 /\ Edge(w[1], w[3], w[4]) < 0
    BY <1>2, <1>3, <1>4, <1>8 DEF Convex
  <2>3. CASE Owns(w[1], w[3], p)
    BY <1>1, <2>1, <2>2, <2>3, InsideIsCovered
  <2>4. CASE Owns(w[3], w[1], p)
    BY <1>1, <2>1, <2>2, <2>4, InsideIsCovered
  <2> QED BY <1>5, <2>3, <2>4
<1> QED BY <1>6, <1>7, <1>8

\* A quad given around its corners paints the pixels inside it, its diagonal
\* included, once each.
LEMMA QuadPaintsInside ==
  ASSUME EnvOK, NEW w, Len(w) = 4, DOMAIN w = 1..4, \A i \in 1..4 : Corner(w[i]), Convex(w)
  PROVE  PaintsPolygon(w, Triangle(w[1], w[2], w[3]) \o Triangle(w[1], w[3], w[4]))
<1> DEFINE t == Turned(w[1], w[2], w[3])
           u == Turned(w[1], w[3], w[4])
           qs == Triangle(w[1], w[2], w[3])
           rs == Triangle(w[1], w[3], w[4])
           ps == qs \o rs
<1>1. Corner(w[1]) /\ Corner(w[2]) /\ Corner(w[3]) /\ Corner(w[4])
  OBVIOUS
<1>2. Edge(w[1], w[2], w[3]) # 0 /\ Edge(w[1], w[3], w[4]) # 0
  BY DEF Convex
<1>3. Paints(t, qs) /\ Paints(u, rs)
  BY <1>1, <1>2, TrianglePaints
<1>4. \A p : IsPoint(p) => ~ (Covers(t, p) /\ Covers(u, p))
  BY HalvesAreDisjoint
<1>5. \A p : IsPoint(p) /\ Inside(w, p) => Covers(t, p) \/ Covers(u, p)
  BY InsideIsInAHalf
<1> HIDE DEF t, u, qs, rs
<1>6. qs \in Seq(PixelPlots) /\ rs \in Seq(PixelPlots) /\ Len(qs) \in Nat /\ Len(rs) \in Nat
  BY <1>3 DEF Paints
<1>7. /\ ps \in Seq(PixelPlots) /\ Len(ps) = Len(qs) + Len(rs)
      /\ \A i \in 1..Len(qs) : ps[i] = qs[i]
      /\ \A i \in 1..Len(rs) : ps[Len(qs) + i] = rs[i]
  BY <1>6
<1>8. \A i \in 1..Len(ps) : i \in 1..Len(qs) \/ \E k \in 1..Len(rs) : i = Len(qs) + k
  <2> SUFFICES ASSUME NEW i \in 1..Len(ps), i \notin 1..Len(qs)
               PROVE  i - Len(qs) \in 1..Len(rs) /\ i = Len(qs) + (i - Len(qs))
    OBVIOUS
  <2> HIDE DEF ps
  <2> QED BY <1>6, <1>7
<1> HIDE DEF ps
<1>9. \A i \in 1..Len(qs), k \in 1..Len(rs) : Apart(qs[i], rs[k]) /\ Apart(rs[k], qs[i])
  <2> SUFFICES ASSUME NEW i \in 1..Len(qs), NEW k \in 1..Len(rs) PROVE Apart(qs[i], rs[k])
    BY DEF Apart
  <2>1. Covers(t, qs[i]) /\ Covers(u, rs[k])
    BY <1>3 DEF Paints
  <2>2. IsPoint(qs[i])
    <3>1. qs[i] \in PixelPlots
      BY <1>6
    <3> QED BY <3>1 DEF PixelPlots, IsPoint
  <2>3. ~ Apart(qs[i], rs[k]) => Covers(u, qs[i])
    BY <2>1, SamePlace
  <2> QED BY <1>4, <2>1, <2>2, <2>3
<1>10. ASSUME NEW i \in 1..Len(ps), NEW j \in 1..Len(ps), i # j
       PROVE  Apart(ps[i], ps[j])
  <2>1. CASE i \in 1..Len(qs) /\ j \in 1..Len(qs)
    BY <1>3, <1>7, <1>10, <2>1 DEF Paints
  <2>2. CASE i \in 1..Len(qs) /\ j \notin 1..Len(qs)
    BY <1>7, <1>8, <1>9, <2>2
  <2>3. CASE i \notin 1..Len(qs) /\ j \in 1..Len(qs)
    BY <1>7, <1>8, <1>9, <2>3
  <2>4. CASE i \notin 1..Len(qs) /\ j \notin 1..Len(qs)
    <3>1. PICK k \in 1..Len(rs) : i = Len(qs) + k
      BY <1>8, <2>4
    <3>2. PICK l \in 1..Len(rs) : j = Len(qs) + l
      BY <1>8, <2>4
    <3>3. k # l /\ ps[i] = rs[k] /\ ps[j] = rs[l]
      BY <1>7, <1>10, <3>1, <3>2
    <3> QED BY <1>3, <3>3 DEF Paints
  <2> QED BY <2>1, <2>2, <2>3, <2>4
<1>11. ASSUME NEW p, IsPoint(p), InArea(p), Inside(w, p)
       PROVE  \E i \in 1..Len(ps) : ~ Apart(ps[i], p)
  <2>1. CASE Covers(t, p)
    <3>1. PICK i \in 1..Len(qs) : ~ Apart(qs[i], p)
      BY <1>3, <1>11, <2>1 DEF Paints
    <3>2. i \in 1..Len(ps) /\ ps[i] = qs[i]
      BY <1>6, <1>7
    <3> QED BY <3>1, <3>2
  <2>2. CASE Covers(u, p)
    <3>1. PICK k \in 1..Len(rs) : ~ Apart(rs[k], p)
      BY <1>3, <1>11, <2>2 DEF Paints
    <3>2. Len(qs) + k \in 1..Len(ps) /\ ps[Len(qs) + k] = rs[k]
      BY <1>6, <1>7
    <3> QED BY <3>1, <3>2
  <2> QED BY <1>5, <1>11, <2>1, <2>2
<1>12. PaintsPolygon(w, ps)
  BY <1>7, <1>10, <1>11 DEF PaintsPolygon
<1> QED BY <1>12 DEF ps, qs, rs

\* A polygon of which each pixel is plotted once.
LEMMA PolygonPaintsInside ==
  ASSUME EnvOK, NEW vs \in Polygons, Around(vs)
  PROVE  PaintsPolygon(Drawn(vs), Polygon(Drawn(vs)))
<1> DEFINE w == Drawn(vs)
<1>1. vs \in Seq(Vertices) /\ Len(vs) \in {3, 4}
  BY DEF Polygons
<1>2. w \in Seq(Vertices) /\ Len(w) = Len(vs) /\ \A i \in 1..Len(w) : Corner(w[i])
  BY <1>1, DrawnVertices
<1>3. Len(vs) = 4 => Convex(w)
  BY AroundIsConvex
<1> HIDE DEF w
<1>4. DOMAIN w = 1..Len(w)
  BY <1>2
<1>5. CASE Len(w) = 3
  <2>1. PaintsPolygon(w, Triangle(w[1], w[2], w[3]))
    BY <1>2, <1>4, <1>5, TrianglePaintsInside
  <2>2. Triangle(w[1], w[2], w[3]) \in Seq(PixelPlots)
    BY <2>1 DEF PaintsPolygon
  <2>3. Polygon(w) = Triangle(w[1], w[2], w[3]) \o <<>>
    BY <1>5 DEF Polygon
  <2>4. \A s \in Seq(PixelPlots) : s \o <<>> = s
    OBVIOUS
  <2> QED BY <2>1, <2>2, <2>3, <2>4 DEF w
<1>6. CASE Len(w) = 4
  <2>1. PaintsPolygon(w, Triangle(w[1], w[2], w[3]) \o Triangle(w[1], w[3], w[4]))
    BY <1>2, <1>3, <1>4, <1>6, QuadPaintsInside
  <2>2. Polygon(w) = Triangle(w[1], w[2], w[3]) \o Triangle(w[1], w[3], w[4])
    BY <1>6 DEF Polygon
  <2> QED BY <2>1, <2>2 DEF w
<1> QED BY <1>1, <1>2, <1>5, <1>6

(***************************************************************************)
(* LoadWords written one after the other                                      *)
(***************************************************************************)
Coats == Seq([shade: 0..255, mode: 0..4])
States == [coats: Coats, mask: BOOLEAN]
Canvases == [Pixels -> States]

\* The pixel a plot falls on.
On(plot) == [x |-> plot.x, y |-> plot.y]

\* What shade_and_plot writes when it writes.
CoatOf(d, mode, plot) ==
  [shade |-> plot.shade,
   mode  |-> IF d.semi /\ Texel(d, plot.u) # "solid" THEN mode ELSE 4]

Lands(v, d, plot) ==
  /\ On(plot).x \in env.x0..env.x1 /\ On(plot).y \in env.y0..env.y1 /\ On(plot) \in Pixels
  /\ Texel(d, plot.u) # "clear"
  /\ ~ (env.check /\ v[On(plot)].mask)

\* Written, by whether the pixel lands.
LEMMA WrittenIs ==
  ASSUME NEW v, NEW d, NEW mode, NEW plot
  PROVE  Written(v, d, mode, plot)
           = IF Lands(v, d, plot)
             THEN [v EXCEPT ![On(plot)] =
                     [coats |-> Blended(v[On(plot)].coats, CoatOf(d, mode, plot)),
                      mask  |-> env.set \/ Texel(d, plot.u) = "stp"]]
             ELSE v
BY DEF Written, Lands, On, CoatOf, Opaque

\* A canvas written on is a canvas.
LEMMA WrittenKeepsTypes ==
  ASSUME EnvOK, NEW v \in Canvases, NEW d, d.semi \in BOOLEAN, NEW mode \in 0..3,
         NEW plot \in PixelPlots
  PROVE  Written(v, d, mode, plot) \in Canvases
<1> DEFINE p == On(plot)
           coat == CoatOf(d, mode, plot)
           state == [coats |-> Blended(v[p].coats, coat),
                     mask  |-> env.set \/ Texel(d, plot.u) = "stp"]
<1>1. CASE ~ Lands(v, d, plot)
  BY <1>1, WrittenIs
<1>2. CASE Lands(v, d, plot)
  <2>1. p \in Pixels
    BY <1>2 DEF Lands
  <2>2. coat \in [shade: 0..255, mode: 0..4]
    <3>1. plot.shade \in 0..255
      BY DEF PixelPlots
    <3>2. mode \in 0..4 /\ 4 \in 0..4
      OBVIOUS
    <3> QED BY <3>1, <3>2 DEF CoatOf
  <2>3. v[p].coats \in Coats
    BY <2>1 DEF Canvases, States
  <2> HIDE DEF coat, p
  <2>4. Blended(v[p].coats, coat) \in Coats
    <3>1. <<coat>> \in Coats /\ Append(v[p].coats, coat) \in Coats
      BY <2>2, <2>3 DEF Coats
    <3> QED BY <3>1 DEF Blended
  <2>5. env.set \in BOOLEAN
    BY DEF EnvOK
  <2>6. state \in States
    BY <2>4, <2>5 DEF States
  <2>7. Written(v, d, mode, plot) = [v EXCEPT ![p] = state]
    BY <1>2, WrittenIs DEF p, coat
  <2> HIDE DEF state
  <2> QED BY <2>1, <2>6, <2>7 DEF Canvases
<1> QED BY <1>1, <1>2

Blending(d) == d.semi /\ ~ d.textured

\* A semi-transparent polygon without texture blends a coat into the pixel
\* under the plot, unless the mask or the area keeps it out; no other changes.
LEMMA WrittenBlends ==
  ASSUME EnvOK, NEW v \in Canvases, NEW d, Blending(d), NEW mode \in 0..3,
         NEW plot \in PixelPlots, NEW p \in Pixels
  PROVE  /\ Apart(plot, p) => Written(v, d, mode, plot)[p] = v[p]
         /\ Len(Written(v, d, mode, plot)[p].coats) - Len(v[p].coats) \in {0, 1}
         /\ ~ Apart(plot, p) /\ InArea(p) /\ ~ (env.check /\ v[p].mask)
              => Len(Written(v, d, mode, plot)[p].coats) = Len(v[p].coats) + 1
<1> DEFINE q == On(plot)
           coat == CoatOf(d, mode, plot)
           next == Written(v, d, mode, plot)
           state == [coats |-> Blended(v[q].coats, coat),
                     mask  |-> env.set \/ Texel(d, plot.u) = "stp"]
<1>1. Texel(d, plot.u) = "none"
  BY DEF Texel, Blending
<1>2. coat.mode = mode /\ mode # Opaque
  BY <1>1 DEF CoatOf, Opaque, Blending
<1>3. v[p] \in States /\ v[p].coats \in Coats /\ Len(v[p].coats) \in Nat
  <2>1. v[p] \in States
    BY DEF Canvases
  <2>2. v[p].coats \in Coats
    BY <2>1 DEF States
  <2> QED BY <2>1, <2>2 DEF Coats
<1>4. DOMAIN v = Pixels
  BY DEF Canvases
<1>5. p = [x |-> p.x, y |-> p.y]
  BY DEF Pixels
<1>6. q = p <=> ~ Apart(plot, p)
  <2>1. q = p => plot.x = p.x /\ plot.y = p.y
    BY DEF On
  <2>2. plot.x = p.x /\ plot.y = p.y => q = p
    BY <1>5 DEF On
  <2> QED BY <2>1, <2>2 DEF Apart
<1>7. CASE ~ Lands(v, d, plot)
  <2>1. next = v
    BY <1>7, WrittenIs
  <2>2. ~ (~ Apart(plot, p) /\ InArea(p) /\ ~ (env.check /\ v[p].mask))
    BY <1>1, <1>6, <1>7 DEF Lands, InArea
  <2> HIDE DEF next
  <2> QED BY <1>3, <2>1, <2>2 DEF next
<1>8. CASE Lands(v, d, plot)
  <2>1. next = [v EXCEPT ![q] = state]
    BY <1>8, WrittenIs
  <2>2. q \in Pixels
    BY <1>8 DEF Lands
  <2>3. state.coats = Append(v[q].coats, coat)
    BY <1>2 DEF Blended
  <2> HIDE DEF next, state, coat, q
  <2>4. q # p => next[p] = v[p]
    BY <1>4, <2>1
  <2>5. q = p => next[p] = state
    BY <1>4, <2>1, <2>2
  <2>6. q = p => Len(next[p].coats) = Len(v[p].coats) + 1
    <3>1. \A s \in Coats : Len(Append(s, coat)) = Len(s) + 1
      BY DEF Coats
    <3> QED BY <1>3, <2>3, <2>5, <3>1
  <2>7. Len(next[p].coats) - Len(v[p].coats) \in {0, 1}
    BY <1>3, <2>4, <2>6
  <2> QED BY <1>6, <2>4, <2>6, <2>7 DEF next
<1> QED BY <1>7, <1>8

\* The canvas after each pixel of a primitive.
WritesTo(d, r) ==
  LET plots == Plots(d)
  IN  /\ r[0] = vram /\ \A n \in 0..Len(plots) : r[n] \in Canvases
      /\ \A n \in 1..Len(plots) : r[n] = Written(r[n - 1], d, Mode(d), plots[n])

LEMMA ModeType ==
  ASSUME EnvOK, NEW d, DrawingOK(d)
  PROVE  Mode(d) \in 0..3
BY DEF Mode, DrawingOK, EnvOK

\* Painted is the recursive function that writes a pixel at a time.
LEMMA PaintedUnfolds ==
  ASSUME EnvOK, vram \in Canvases, NEW d, DrawingOK(d)
  PROVE  \E r : WritesTo(d, r) /\ Painted(d) = r[Len(Plots(d))]
<1> DEFINE ps == Plots(d)
           k == Len(ps)
           m == Mode(d)
           S == Canvases
           Go(n, v) == Written(v, d, m, ps[n])
           step == [p \in Nat \X S |-> IF p[1] \in 1..k THEN Go(p[1], p[2]) ELSE p[2]]
           Def(f) == f = [n \in 0..k |-> IF n = 0 THEN vram ELSE Go(n, f[n - 1])]
           r == CHOOSE f : Def(f)
<1>1. ps \in Seq(PixelPlots) /\ k \in Nat /\ \A n \in 1..k : ps[n] \in PixelPlots
  <2>1. ps \in Seq(PixelPlots)
    BY PlotsType
  <2> HIDE DEF ps
  <2> QED BY <2>1
<1>2. m \in 0..3 /\ d.semi \in BOOLEAN
  BY ModeType DEF DrawingOK
<1>3. Painted(d) = r[k]
  BY DEF Painted
<1> HIDE DEF ps, k, m, S
<1>4. \A n \in 1..k, v \in S : Go(n, v) \in S
  BY <1>1, <1>2, WrittenKeepsTypes DEF S
<1> HIDE DEF Go
<1>5. step \in [Nat \X S -> S]
  BY <1>4
<1>6. \A n \in 1..k, v \in S : step[<<n, v>>] = Go(n, v)
  <2>1. \A n \in 1..k : n \in Nat
    BY <1>1
  <2> QED BY <2>1
<1>7. vram \in S
  BY DEF S
<1>8. PICK f : Unfolds(f, S, vram, step, k)
  <2> HIDE DEF step, Def
  <2> QED BY <1>1, <1>5, <1>7, Recursion
<1>9. f \in [0..k -> S] /\ f[0] = vram /\ \A n \in 1..k : f[n] = Go(n, f[n - 1])
  <2>1. f \in [0..k -> S] /\ f[0] = vram /\ \A n \in 1..k : f[n] = step[<<n, f[n - 1]>>]
    <3> HIDE DEF step
    <3> QED BY <1>8 DEF Unfolds
  <2>2. \A n \in 1..k : n - 1 \in 0..k
    BY <1>1
  <2> HIDE DEF step
  <2> QED BY <1>6, <2>1, <2>2
<1>10. Def(f)
  <2>1. \A n \in 0..k : n # 0 => n \in 1..k
    BY <1>1
  <2> QED BY <1>9, <2>1
<1>11. Def(r)
  <2> HIDE DEF Def
  <2> QED BY <1>10
<1>12. r[0] = vram /\ \A n \in 1..k : r[n] = Go(n, r[n - 1])
  <2>1. 0 \in 0..k /\ \A n \in 1..k : n \in 0..k /\ n # 0
    BY <1>1
  <2> HIDE DEF r
  <2> QED BY <1>11, <2>1
<1>13. Recurs(r, S, vram, step, k)
  <2> HIDE DEF r, step
  <2> QED BY <1>6, <1>12 DEF Recurs
<1>14. \A n \in 0..k : r[n] \in S
  <2> HIDE DEF r, step, Def
  <2> QED BY <1>1, <1>5, <1>7, <1>13, RecursionStays
<1> HIDE DEF r
<1>15. WritesTo(d, r)
  BY <1>12, <1>14 DEF WritesTo, ps, k, m, S, Go
<1> QED BY <1>3, <1>15 DEF k, ps

\* A canvas painted on is a canvas.
LEMMA PaintedType ==
  ASSUME EnvOK, vram \in Canvases, NEW d, DrawingOK(d)
  PROVE  Painted(d) \in Canvases
<1>1. PICK r : WritesTo(d, r) /\ Painted(d) = r[Len(Plots(d))]
  BY PaintedUnfolds
<1>2. Len(Plots(d)) \in Nat
  <2>1. Plots(d) \in Seq(PixelPlots)
    BY PlotsType
  <2> QED BY <2>1
<1> QED BY <1>1, <1>2 DEF WritesTo

\* A primitive that plots each pixel once at most blends one coat into it at
\* most; one coat if it plots it and the mask leaves it open.
LEMMA CoatsOfPainted ==
  ASSUME EnvOK, vram \in Canvases, NEW d, DrawingOK(d), Blending(d),
         \A i, j \in 1..Len(Plots(d)) :
           i # j => Apart(Plots(d)[i], Plots(d)[j]),
         NEW p \in Pixels
  PROVE  /\ Len(Painted(d)[p].coats) - Len(vram[p].coats) \in {0, 1}
         /\ (\E i \in 1..Len(Plots(d)) : ~ Apart(Plots(d)[i], p))
              /\ InArea(p) /\ ~ (env.check /\ vram[p].mask)
              => Len(Painted(d)[p].coats) - Len(vram[p].coats) = 1
<1> DEFINE ps == Plots(d)
           k == Len(ps)
           m == Mode(d)
<1>1. ps \in Seq(PixelPlots) /\ k \in Nat /\ \A n \in 1..k : ps[n] \in PixelPlots
  <2>1. ps \in Seq(PixelPlots)
    BY PlotsType
  <2> HIDE DEF ps
  <2> QED BY <2>1
<1>2. m \in 0..3
  BY ModeType
<1>3. PICK r : WritesTo(d, r) /\ Painted(d) = r[k]
  BY PaintedUnfolds
<1> DEFINE Free == InArea(p) /\ ~ (env.check /\ vram[p].mask)
           len(n) == Len(r[n][p].coats)
           Hit(n) == \E i \in 1..n : ~ Apart(ps[i], p)
           Good(n) == /\ ~ Hit(n) => r[n][p] = vram[p]
                      /\ len(n) - len(0) \in {0, 1}
                      /\ Hit(n) /\ Free => len(n) - len(0) = 1
           T == {n \in Nat : n <= k => Good(n)}
<1>4. /\ r[0] = vram /\ \A n \in 0..k : r[n] \in Canvases
      /\ \A n \in 1..k : r[n] = Written(r[n - 1], d, m, ps[n])
  BY <1>3 DEF WritesTo
<1>5. \A n \in 0..k : len(n) \in Nat
  <2> SUFFICES ASSUME NEW n \in 0..k PROVE len(n) \in Nat
    OBVIOUS
  <2>1. r[n] \in Canvases
    BY <1>4
  <2>2. r[n][p] \in States
    BY <2>1 DEF Canvases
  <2>3. r[n][p].coats \in Coats
    BY <2>2 DEF States
  <2> QED BY <2>3 DEF Coats
<1>6. \A i, j \in 1..k : ~ Apart(ps[i], p) /\ ~ Apart(ps[j], p) => i = j
  <2>1. \A i, j \in 1..k : i # j => Apart(ps[i], ps[j])
    OBVIOUS
  <2>2. \A a, b : ~ Apart(a, p) /\ ~ Apart(b, p) => ~ Apart(a, b)
    BY DEF Apart
  <2> HIDE DEF ps, k
  <2> QED BY <2>1, <2>2
<1>7. \A n \in 1..k : /\ Apart(ps[n], p) => r[n][p] = r[n - 1][p]
                      /\ len(n) - len(n - 1) \in {0, 1}
                      /\ ~ Apart(ps[n], p) /\ InArea(p) /\ ~ (env.check /\ r[n - 1][p].mask)
                           => len(n) = len(n - 1) + 1
  <2> SUFFICES ASSUME NEW n \in 1..k
               PROVE  /\ Apart(ps[n], p) => r[n][p] = r[n - 1][p]
                      /\ len(n) - len(n - 1) \in {0, 1}
                      /\ ~ Apart(ps[n], p) /\ InArea(p) /\ ~ (env.check /\ r[n - 1][p].mask)
                           => len(n) = len(n - 1) + 1
    OBVIOUS
  <2>1. n - 1 \in 0..k
    BY <1>1
  <2>2. r[n - 1] \in Canvases /\ ps[n] \in PixelPlots /\ r[n] = Written(r[n - 1], d, m, ps[n])
    BY <1>1, <1>4, <2>1
  <2> HIDE DEF ps, k, m
  <2>3. PICK v \in Canvases : v = r[n - 1]
    BY <2>2
  <2>4. PICK plot \in PixelPlots : plot = ps[n]
    BY <2>2
  <2>5. PICK mode \in 0..3 : mode = m
    BY <1>2
  <2>6. r[n] = Written(v, d, mode, plot)
    BY <2>2, <2>3, <2>4, <2>5
  <2>7. /\ Apart(plot, p) => Written(v, d, mode, plot)[p] = v[p]
        /\ Len(Written(v, d, mode, plot)[p].coats) - Len(v[p].coats) \in {0, 1}
        /\ ~ Apart(plot, p) /\ InArea(p) /\ ~ (env.check /\ v[p].mask)
             => Len(Written(v, d, mode, plot)[p].coats) = Len(v[p].coats) + 1
    BY WrittenBlends
  <2> QED BY <2>3, <2>4, <2>6, <2>7
<1> HIDE DEF ps, k, m
<1>8. 0 \in T
  <2>1. ~ Hit(0)
    OBVIOUS
  <2>2. r[0][p] = vram[p]
    BY <1>4
  <2>3. len(0) - len(0) = 0
    BY <1>1, <1>5
  <2> HIDE DEF Hit, len
  <2> QED BY <2>1, <2>2, <2>3
<1>9. ASSUME NEW n \in T PROVE n + 1 \in T
  <2> SUFFICES ASSUME n + 1 <= k PROVE Good(n + 1)
    OBVIOUS
  <2>1. n \in Nat /\ n \in 0..k /\ n + 1 \in 1..k /\ (n + 1) - 1 = n /\ 0 \in 0..k
    BY <1>1
  <2>2. Good(n)
    BY <2>1
  <2>3. len(n) \in Nat /\ len(n + 1) \in Nat /\ len(0) \in Nat
    BY <1>1, <1>5, <2>1
  <2>4. /\ Apart(ps[n + 1], p) => r[n + 1][p] = r[n][p]
        /\ len(n + 1) - len(n) \in {0, 1}
        /\ ~ Apart(ps[n + 1], p) /\ InArea(p) /\ ~ (env.check /\ r[n][p].mask)
             => len(n + 1) = len(n) + 1
    BY <1>7, <2>1
  <2>5. Hit(n + 1) <=> Hit(n) \/ ~ Apart(ps[n + 1], p)
    <3>1. \A i \in 1..n : i \in 1..(n + 1)
      BY <2>1
    <3>2. \A i \in 1..(n + 1) : i \in 1..n \/ i = n + 1
      BY <2>1
    <3>3. n + 1 \in 1..(n + 1)
      BY <2>1
    <3> QED BY <3>1, <3>2, <3>3
  <2>6. ~ Apart(ps[n + 1], p) => ~ Hit(n)
    <3>1. \A i \in 1..n : i \in 1..k /\ i # n + 1
      BY <1>1, <2>1
    <3> QED BY <1>6, <2>1, <3>1
  <2> HIDE DEF Hit
  <2>7. CASE Apart(ps[n + 1], p)
    <3>1. r[n + 1][p] = r[n][p] /\ (Hit(n + 1) <=> Hit(n))
      BY <2>4, <2>5, <2>7
    <3> QED BY <2>2, <3>1
  <2>8. CASE ~ Apart(ps[n + 1], p)
    <3>1. r[n][p] = vram[p] /\ Hit(n + 1)
      BY <2>2, <2>5, <2>6, <2>8
    <3>2. len(n) = len(0)
      BY <1>4, <3>1
    <3>3. len(n + 1) - len(0) \in {0, 1}
      BY <2>4, <3>2
    <3>4. Free => len(n + 1) - len(0) = 1
      <4>1. Free => len(n + 1) = len(0) + 1
        BY <2>4, <2>8, <3>1, <3>2
      <4> HIDE DEF len, Free
      <4> QED BY <2>3, <4>1
    <3> HIDE DEF len, Free
    <3> QED BY <3>1, <3>3, <3>4
  <2> QED BY <2>7, <2>8
<1>10. k \in T
  <2>1. T \in SUBSET Nat
    OBVIOUS
  <2> HIDE DEF T
  <2>2. T = Nat
    BY <1>8, <1>9, <2>1, Induction
  <2> QED BY <1>1, <2>2
<1>11. Good(k)
  <2> HIDE DEF Good
  <2> QED BY <1>1, <1>10
<1>12. len(k) = Len(Painted(d)[p].coats) /\ len(0) = Len(vram[p].coats)
  BY <1>3, <1>4
<1>13. len(k) - len(0) \in {0, 1} /\ (Hit(k) /\ Free => len(k) - len(0) = 1)
  <2> HIDE DEF len, Hit, Free
  <2> QED BY <1>11
<1>14. Hit(k) <=> \E i \in 1..Len(Plots(d)) : ~ Apart(Plots(d)[i], p)
  BY DEF ps, k
<1> HIDE DEF len, Hit, Good, T
<1> QED BY <1>12, <1>13, <1>14

(***************************************************************************)
(* What is painted                                                         *)
(***************************************************************************)
\* What the canvas, the attributes and the primitive drawn last always are.
CanvasInv ==
  /\ EnvOK /\ vram \in Canvases
  /\ drawn \in 0..Len(Drawings)
  /\ (last = NoDrawing) <=> (drawn = 0)
  /\ drawn # 0 => DrawingOK(last)

\* Setting an attribute (GP0 E1, E3 to E6) keeps the attributes well-formed.
LEMMA SettingKeepsTypes ==
  ASSUME EnvOK, NEW s, DOMAIN s \subseteq DOMAIN Attributes,
         \A f \in DOMAIN s : s[f] \in Attributes[f], Set(s)
  PROVE  EnvOK'
<1> DEFINE A == Attributes
<1>0. DOMAIN A = DOMAIN env
  BY DEF EnvOK, Attributes
<1>1. \A f \in DOMAIN A : env[f] \in A[f]
  BY DEF EnvOK, Attributes
<1>2. env' = [f \in DOMAIN env |-> IF f \in DOMAIN s THEN s[f] ELSE env[f]]
  BY DEF Set
<1>3. env' = [f \in DOMAIN A |-> IF f \in DOMAIN s THEN s[f] ELSE env[f]]
  BY <1>0, <1>2
<1>4. \A f \in DOMAIN A : env'[f] \in A[f]
  BY <1>1, <1>3
<1>5. DOMAIN A = {"x0", "y0", "x1", "y1", "dx", "dy", "set", "check", "mode"}
  BY DEF Attributes
<1> QED BY <1>3, <1>4, <1>5 DEF EnvOK, Attributes

\* So does the page a textured polygon brings.
LEMMA DrawingSetsTheMode ==
  ASSUME EnvOK, NEW d, DrawingOK(d), Draw(d)
  PROVE  EnvOK'
<1>1. Mode(d) \in 0..3
  BY DEF Mode, DrawingOK, EnvOK
<1>2. env' = [env EXCEPT !.mode = Mode(d)]
  BY DEF Draw
<1> QED BY <1>1, <1>2 DEF EnvOK

\* Every step keeps it so.
LEMMA CanvasStep ==
  ASSUME ProgramOK, CanvasInv, [CanvasNext]_canvasVars
  PROVE  CanvasInv'
<1>1. CASE UNCHANGED canvasVars
  BY <1>1 DEF CanvasInv, EnvOK, canvasVars, Canvases, Pixels
<1>2. ASSUME NEW s \in Settings, Set(s) PROVE CanvasInv'
  <2>1. EnvOK'
    <3>1. DOMAIN s \subseteq DOMAIN Attributes /\ \A f \in DOMAIN s : s[f] \in Attributes[f]
      BY DEF ProgramOK
    <3> QED BY <1>2, <3>1, SettingKeepsTypes DEF CanvasInv
  <2>2. last' = last /\ drawn' = drawn /\ vram' = vram
    BY <1>2 DEF Set
  <2> QED BY <2>1, <2>2 DEF CanvasInv
<1>3. ASSUME drawn < Len(Drawings), NEW d \in Drawings[drawn + 1], Draw(d)
      PROVE  CanvasInv'
  <2>1. drawn \in Nat /\ Len(Drawings) \in Nat
    BY DEF CanvasInv, ProgramOK
  <2>2. DrawingOK(d)
    BY <1>3, <2>1 DEF ProgramOK
  <2>3. last' = d /\ drawn' = drawn + 1 /\ vram' = Painted(d)
    BY <1>3 DEF Draw
  <2>4. EnvOK'
    BY <1>3, <2>2, DrawingSetsTheMode DEF CanvasInv
  <2>5. d # NoDrawing
    BY <2>2 DEF DrawingOK, NoDrawing
  <2>6. vram' \in Canvases
    BY <2>2, <2>3, PaintedType DEF CanvasInv
  <2> QED BY <1>3, <2>1, <2>2, <2>3, <2>4, <2>5, <2>6 DEF CanvasInv
<1> QED BY <1>1, <1>2, <1>3 DEF CanvasNext

\* The canvas holds pixels, the attributes are those a program can set, and
\* what was drawn last is a primitive.
THEOREM CanvasInvariant == CanvasSpec => []CanvasInv
<1>1. ASSUME CanvasInit PROVE CanvasInv
  <2>1. EnvOK /\ drawn = 0 /\ last = NoDrawing /\ Len(Drawings) \in Nat
    BY <1>1, RasterAssumption DEF CanvasInit, NewEnv, ProgramOK, EnvOK
  <2>2. vram \in Canvases
    <3>1. <<>> \in Coats
      BY DEF Coats
    <3>2. [coats |-> <<>>, mask |-> FALSE] \in States
      BY <3>1 DEF States
    <3>3. vram = [p \in Pixels |-> [coats |-> <<>>, mask |-> FALSE]]
      BY <1>1 DEF CanvasInit
    <3> QED BY <3>2, <3>3 DEF Canvases
  <2> QED BY <2>1, <2>2 DEF CanvasInv
<1>2. CanvasInv /\ [CanvasNext]_canvasVars => CanvasInv'
  BY RasterAssumption, CanvasStep
<1> QED BY <1>1, <1>2, PTL DEF CanvasSpec

\* Type correctness of what the GPU paints, for every size of VRAM and every
\* sequence of primitives.
THEOREM CanvasTypes == CanvasSpec => []CanvasTypeOK
<1>1. CanvasInv => CanvasTypeOK
  BY DEF CanvasInv, EnvOK, CanvasTypeOK, Canvases, States, Coats, Opaque
<1> QED BY <1>1, CanvasInvariant, PTL

\* The shades raster_triangle interpolates stay between those of the polygon's
\* corners and are a corner's own at that corner, for every polygon wherever it
\* is drawn.
THEOREM PolygonShadesFit == CanvasSpec => []ShadesFit
<1>1. CanvasInv => ShadesFit
  <2>1. drawn = 0 /\ CanvasInv => last.kind # "poly"
    BY DEF CanvasInv, NoDrawing
  <2> QED BY <2>1, ShadesOfDrawing DEF CanvasInv
<1> QED BY <1>1, CanvasInvariant, PTL

\* "The line spans steps + 1 pixels": draw_line_shaded ends, goes from end to end
\* by neighbouring pixels within half a pixel of the line, and reaches its second
\* shade, whatever the vertices.
THEOREM LinesSpanTheirSteps == CanvasSpec => []LinesSpan
<1>1. CanvasInv => LinesSpan
  <2> SUFFICES ASSUME CanvasInv, last.kind = "line", NEW k \in 1..(Len(last.vs) - 1)
               PROVE  Spans(last.vs[k], last.vs[k + 1],
                            ShadedLine(last.vs[k], last.vs[k + 1]))
    BY DEF LinesSpan
  <2>1. drawn # 0
    BY DEF CanvasInv, NoDrawing
  <2>2. last.vs \in Seq(Vertices)
    BY <2>1, DrawingHasVertices DEF CanvasInv
  <2>3. k \in 1..Len(last.vs) /\ k + 1 \in 1..Len(last.vs)
    BY <2>2
  <2>4. last.vs[k] \in Vertices /\ last.vs[k + 1] \in Vertices
    BY <2>2, <2>3
  <2>5. IsVertex(last.vs[k]) /\ IsVertex(last.vs[k + 1])
    BY <2>4 DEF Vertices, IsVertex, IsPoint
  <2> QED BY <2>5, LineSpans
<1> QED BY <1>1, CanvasInvariant, PTL

\* What a step that draws a semi-transparent polygon does to a pixel.
LEMMA SeamPaintedOnce ==
  ASSUME CanvasInv, NEW d, DrawingOK(d), Blends(d), Around(d.vs),
         vram' = Painted(d), NEW p \in Pixels
  PROVE  CoatedOnce(d, p)
<1> DEFINE w == Drawn(d.vs)
           ps == Plots(d)
           more == Len(vram'[p].coats) - Len(vram[p].coats)
<1>1. d.kind = "poly" /\ Blending(d) /\ d.vs \in Polygons
  BY DrawingHasVertices DEF Blends, Blending
<1>2. ps = Polygon(w)
  BY <1>1, PlotsOfPolygon
<1>3. PaintsPolygon(w, ps)
  BY <1>1, <1>2, PolygonPaintsInside DEF CanvasInv
<1>4. IsPoint(p)
  <2>1. \A n \in Int : n \in Int
    OBVIOUS
  <2> QED BY DEF IsPoint, Pixels
<1>5. \A i, j \in 1..Len(ps) : i # j => Apart(ps[i], ps[j])
  BY <1>3 DEF PaintsPolygon
<1>6. Inside(w, p) /\ InArea(p) => \E i \in 1..Len(ps) : ~ Apart(ps[i], p)
  BY <1>3, <1>4 DEF PaintsPolygon
<1>7. /\ more \in {0, 1}
      /\ (\E i \in 1..Len(ps) : ~ Apart(ps[i], p)) /\ InArea(p) /\ ~ (env.check /\ vram[p].mask)
           => more = 1
  BY <1>1, <1>5, CoatsOfPainted DEF CanvasInv
<1>8. w = [i \in DOMAIN d.vs |-> Offset(d.vs[i])]
  BY DEF Drawn
<1> HIDE DEF w, ps, more
<1>9. CoatedOnce(d, p) <=> /\ more \in {0, 1}
                           /\ Inside(w, p) /\ InArea(p)
                                /\ ~ (env.check /\ vram[p].mask) => more = 1
  BY <1>8 DEF CoatedOnce, more
<1> QED BY <1>6, <1>7, <1>9

\* "No double blend for semi-transparent primitives, no gaps": a step that draws
\* a semi-transparent triangle, or a convex quad given around its corners, blends
\* one coat at most into any pixel, and one into every open pixel inside it, the
\* seam between a quad's triangles included.
THEOREM SeamsArePaintedOnce == CanvasSpec => SeamsPaintedOnce
<1>1. ASSUME CanvasInv, [CanvasNext]_canvasVars, drawn' # drawn,
             Blends(last'), Around(last'.vs), NEW p \in Pixels
      PROVE  CoatedOnce(last', p)
  <2>1. CanvasNext
    BY <1>1 DEF canvasVars
  <2>2. PICK d \in Drawings[drawn + 1] : drawn < Len(Drawings) /\ Draw(d)
    BY <1>1, <2>1 DEF CanvasNext, Set
  <2>3. DrawingOK(d)
    <3>1. drawn \in Nat /\ Len(Drawings) \in Nat
      BY <1>1, RasterAssumption DEF CanvasInv, ProgramOK
    <3> QED BY <2>2, <3>1, RasterAssumption DEF ProgramOK
  <2>4. last' = d /\ vram' = Painted(d)
    BY <2>2 DEF Draw
  <2> QED BY <1>1, <2>3, <2>4, SeamPaintedOnce
<1>2. CanvasInv /\ [CanvasNext]_canvasVars
        => [drawn' # drawn /\ Blends(last') /\ Around(last'.vs)
              => \A p \in Pixels : CoatedOnce(last', p)]_canvasVars
  BY <1>1
<1> QED BY <1>2, CanvasInvariant, PTL DEF CanvasSpec, SeamsPaintedOnce
==============================================================================
