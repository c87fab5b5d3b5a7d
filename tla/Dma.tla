-------------------------------- MODULE Dma --------------------------------
(***************************************************************************)
(* The DMA controller (dma.rs, Dma), main memory, and the devices it       *)
(* connects: the GPU (Gp0), the macroblock decoder (Mdec), the data FIFO   *)
(* of the CD-ROM controller and the sample memory of the SPU.  A channel   *)
(* runs to its end inside the store that starts it.  Addresses are word    *)
(* addresses.  DPCR is a latch that nothing reads and is left out; of a    *)
(* channel's registers MADR and BCR are stored by the step that starts it. *)
(***************************************************************************)
EXTENDS Gp0, Mdec

CONSTANTS
  RamWords,    \* the words of main memory, 0x20_0000 / 4
  LinkSpace,   \* the word addresses a 24-bit link can hold, 0x100_0000 / 4
  ListCap,     \* the headers a list may have, 0x1_0000
  OtcMax,      \* the entries an ordering-table clear of count 0 writes, 0x1_0000
  SpuWords     \* the words of sample memory

MdecIn  == 0
MdecOut == 1
GpuChannel == 2
CdChannel  == 3
SpuChannel == 4
Otc == 6
Channels == 0..6
WordChannels == MdecIn..SpuChannel   \* those that move words one by one

ASSUME DmaAssumption ==
  /\ RamWords \in Nat \ {0} /\ SpuWords \in Nat \ {0} /\ OtcMax \in Nat \ {0}
  /\ ListCap \in Nat \ {0}
  /\ LinkSpace \in Nat /\ LinkSpace > 2 * RamWords /\ LinkSpace % 2 = 0

VARIABLES
  ram, gpu, mdec,
  cdFifo,    \* the sector words the CD-ROM controller holds
  spu,       \* [ram, at]: sample memory and its transfer address
  madr, bcr, chcr,
  dicr,      \* [enabled, flags \subseteq Channels; master, force, bit31]
  iStat      \* the Dma bit of I_STAT

deviceVars == <<ram, gpu, mdec, cdFifo, spu>>
channelVars == <<madr, bcr, chcr>>
irqVars == <<dicr, iStat>>
dmaVars == <<deviceVars, channelVars, irqVars>>

(***************************************************************************)
(* DICR                                                                    *)
(***************************************************************************)
\* update_dicr_master: bit 31.
Updated(d) == [d EXCEPT !.bit31 = d.force \/ (d.master /\ d.enabled \cap d.flags # {})]

\* A write sets the control bits; the flags written as 1 are cleared.
DicrWritten(d, w, ack) ==
  Updated([enabled |-> w.enabled, master |-> w.master, force |-> w.force,
           flags |-> d.flags \ ack, bit31 |-> FALSE])

\* raise_completion: the channel's flag, if the channel is to interrupt.
Rings(d, ch) == ch \in d.enabled /\ d.master

\* Mutant: bit 31 is left as it was.
Completed_NoUpdate(d, ch) == IF Rings(d, ch) THEN [d EXCEPT !.flags = @ \cup {ch}] ELSE d

Completed(d, ch) == IF Rings(d, ch) THEN Updated([d EXCEPT !.flags = @ \cup {ch}]) ELSE d

\* Mutant: I_STAT is set on a rise of bit 31 only.
Line_OnRise(d, ch, line) == line \/ (Rings(d, ch) /\ ~d.bit31)

\* Every such completion raises the line, also when bit 31 is set already.
Line(d, ch, line) == line \/ Rings(d, ch)

(***************************************************************************)
(* Transfers.  The state of memory and devices is a record here.           *)
(***************************************************************************)
Devices == [ram |-> ram, gpu |-> gpu, mdec |-> mdec, cd |-> cdFifo, spu |-> spu]

RamAddress(a) == a % RamWords

\* The addresses of n words from a, up or down, wrapping in memory.
Run(a, n, down) == [i \in 1..n |-> RamAddress(IF down THEN a - (i - 1) ELSE a + (i - 1))]
After(a, n, down) == RamAddress(IF down THEN a - n ELSE a + n)

BlockWords(b) == Bounded(b.size, 1) * Bounded(b.blocks, 1)

ToGpu(d, at)     == [d EXCEPT !.gpu = Gp0Write(@, d.ram[at])]
ToMdec(d, at)    == [d EXCEPT !.mdec = MdecWrite(@, d.ram[at])]
ToSpu(d, at)     == [d EXCEPT !.spu.ram[d.spu.at] = d.ram[at],
                              !.spu.at = (@ + 1) % SpuWords]
FromGpu(d, at)   == LET r == GpuRead(d.gpu)
                    IN  [d EXCEPT !.gpu = r.gpu, !.ram[at] = r.word]
FromMdec(d, at)  == LET r == MdecRead(d.mdec)
                    IN  [d EXCEPT !.mdec = r.mdec, !.ram[at] = r.word]
FromSpu(d, at)   == [d EXCEPT !.ram[at] = d.spu.ram[d.spu.at],
                              !.spu.at = (@ + 1) % SpuWords]
\* An empty data FIFO reads as zero bytes.
FromCd(d, at)    == [d EXCEPT !.ram[at] = IF d.cd = <<>> THEN Zero ELSE Head(d.cd),
                              !.cd = IF @ = <<>> THEN @ ELSE Tail(@)]

\* The linked list: each header's words, until a link with its top bit set.
ListStep(l) ==
  LET header == l.d.ram[l.at]
      link   == Field(header, "link", 0)
      words  == [i \in 1..Field(header, "count", 0) |-> RamAddress(l.at + i)]
      sent   == FoldLeft(ToGpu, l.d, words)
  IN  IF l.done THEN l
      ELSE [d |-> sent, done |-> link >= LinkSpace \div 2, at |-> RamAddress(link)]

GpuList(d, a) ==
  FoldLeft(LAMBDA l, i : ListStep(l), [d |-> d, done |-> FALSE, at |-> RamAddress(a)],
           [i \in 1..ListCap |-> i]).d

OtcCount(b) == IF b.size = 0 THEN OtcMax ELSE b.size

\* Mutant: the lowest entry is linked too, the end is never written.
Cleared_OneShort(m, a, n) ==
  FoldLeft(LAMBDA r, at : [r EXCEPT ![at] = [link |-> (at - 1) % LinkSpace]],
           m, Run(a, n, TRUE))

\* The ordering table: each entry links to the one below it, the lowest is the end.
Cleared(m, a, n) ==
  LET linked == FoldLeft(LAMBDA r, at : [r EXCEPT ![at] = [link |-> (at - 1) % LinkSpace]],
                         m, Run(a, n - 1, TRUE))
  IN  [linked EXCEPT ![RamAddress(a - (n - 1))] = [link |-> LinkSpace - 1]]

GpuWords(b, c) == IF c.sync = "request" THEN BlockWords(b) ELSE Bounded(b.size, 1)

\* A word of a channel's run.
Moved(ch, toDevice, d, at) ==
  CASE ch = MdecIn     -> ToMdec(d, at)
    [] ch = MdecOut    -> FromMdec(d, at)
    [] ch = GpuChannel -> IF toDevice THEN ToGpu(d, at) ELSE FromGpu(d, at)
    [] ch = CdChannel  -> FromCd(d, at)
    [] ch = SpuChannel -> IF toDevice THEN ToSpu(d, at) ELSE FromSpu(d, at)

Carried(ch, toDevice, d, ats) ==
  FoldLeft(LAMBDA e, at : Moved(ch, toDevice, e, at), d, ats)

\* A channel's run, with the MADR it leaves.
Ran(ch, a, b, c) ==
  LET d == Devices
      n == IF ch = GpuChannel THEN GpuWords(b, c) ELSE BlockWords(b)
  IN  CASE ch = GpuChannel /\ c.sync = "list" ->
             [devices |-> GpuList(d, a), madr |-> LinkSpace - 1]
        [] ch = Otc ->
             [devices |-> [d EXCEPT !.ram = Cleared(@, a, OtcCount(b))], madr |-> a]
        [] ch \in WordChannels /\ ~ (ch = GpuChannel /\ c.sync = "list") ->
             [devices |-> Carried(ch, c.toDevice, d, Run(a, n, c.down)),
              madr |-> After(a, n, c.down)]
        [] OTHER -> [devices |-> d, madr |-> a]

(***************************************************************************)
(* The guest's stores                                                      *)
(***************************************************************************)
Triggered(c) == c.on /\ (c.sync = "manual" => c.trigger)
Idle(c) == [c EXCEPT !.on = FALSE, !.trigger = FALSE]

\* MADR, BCR and then CHCR of a channel.
StartChannel(ch, a, b, c) ==
  /\ bcr' = [bcr EXCEPT ![ch] = b]
  /\ IF Triggered(c)
     THEN LET r == Ran(ch, a, b, c)
          IN  /\ ram' = r.devices.ram /\ gpu' = r.devices.gpu /\ mdec' = r.devices.mdec
              /\ cdFifo' = r.devices.cd /\ spu' = r.devices.spu
              /\ madr' = [madr EXCEPT ![ch] = r.madr]
              /\ chcr' = [chcr EXCEPT ![ch] = Idle(c)]
              /\ dicr' = Completed(dicr, ch) /\ iStat' = Line(dicr, ch, iStat)
     ELSE /\ madr' = [madr EXCEPT ![ch] = a] /\ chcr' = [chcr EXCEPT ![ch] = c]
          /\ UNCHANGED <<deviceVars, irqVars>>

WriteDicr(w, ack) ==
  dicr' = DicrWritten(dicr, w, ack) /\ UNCHANGED <<deviceVars, channelVars, iStat>>

AckLine == iStat' = FALSE /\ UNCHANGED <<deviceVars, channelVars, dicr>>

Store(words, at) ==
  /\ ram' = [a \in DOMAIN ram |-> IF a \in at..(at + Len(words) - 1)
                                  THEN words[a - at + 1] ELSE ram[a]]
  /\ UNCHANGED <<gpu, mdec, cdFifo, spu, channelVars, irqVars>>

WriteGp0(w)  == gpu' = Gp0Write(gpu, w) /\ UNCHANGED <<ram, mdec, cdFifo, spu, channelVars, irqVars>>
WriteGp1(c)  == gpu' = Gp1Write(gpu, c) /\ UNCHANGED <<ram, mdec, cdFifo, spu, channelVars, irqVars>>
ReadGpu      == gpu' = GpuRead(gpu).gpu /\ UNCHANGED <<ram, mdec, cdFifo, spu, channelVars, irqVars>>
WriteMdec(w) == mdec' = MdecWrite(mdec, w) /\ UNCHANGED <<ram, gpu, cdFifo, spu, channelVars, irqVars>>
ControlMdec(c) ==
  mdec' = MdecControl(mdec, c) /\ UNCHANGED <<ram, gpu, cdFifo, spu, channelVars, irqVars>>
=============================================================================
