----------------------------- MODULE DmaPrograms -----------------------------
(***************************************************************************)
(* What guests do with the DMA controller, and what they count on.  A      *)
(* behaviour runs one of four programs, named by `use':                    *)
(*   "list"   clears an ordering table, links packets into it and has the  *)
(*            GPU walk it;                                                 *)
(*   "port"   sends words to GP0 from the CPU and by block transfers;      *)
(*   "movie"  feeds a stream to the MDEC, drains the pictures and shows    *)
(*            them;                                                        *)
(*   "irq"    starts channels and takes their interrupts.                  *)
(***************************************************************************)
EXTENDS Dma

CONSTANTS
  Uses,       \* the programs, see UseOK
  MaxRestarts \* bound: the times a movie starts over

Kinds == {"list", "port", "movie", "irq"}

\* Every use has the words memory holds and the GP1 commands sent first.  "list": the
\* highest entry of the table and its size (it fits below that entry), where packets
\* go, the packets, none of them without a whole command unless it is empty, the most
\* of them (the list is no longer than the controller walks).
\* "port": the words and the GP1 commands sent, none of them ahead of the rest, the
\* <<address, size>> of blocks sent and read, the most words between resets.
\* "movie": the macroblocks, the stream's address and length, where the stream
\* begins after its tables, the address of the picture buffer, its words, the words
\* a transfer may have, the depth, the words that open an upload for each picture.
\* "irq": the channels started, the CHCR values and the control parts of DICR written.
UseOK(u) ==
  /\ u.kind \in Kinds /\ u.ram \in [0..(RamWords - 1) -> Range(u.ram)]
  /\ u.kind = "list" =>
       /\ u.top \in 0..(RamWords - 1) /\ u.size \in 1..(u.top + 1)
       /\ u.base \in (u.top + 1)..RamWords
       /\ u.most \in Nat /\ u.size + u.most <= ListCap /\ u.setup = <<>>
       /\ \A p \in u.packets : /\ p \in Seq(Range(p)) /\ \A w \in Range(p) : IsWord(w)
                               /\ p # <<>> => CommandEnd(p, 1) <= Len(p)
  /\ u.kind = "port" =>
       /\ \A b \in u.blocks \cup Field(u, "reads", {}) : b[1] \in 0..(RamWords - 1) /\ b[2] \in Nat
       /\ \A w \in u.words \cup Range(u.ram) : IsWord(w)
       /\ u.setup = <<>> /\ \A c \in u.controls : c.op \in Gp1Ops
  /\ u.kind = "irq" =>
       /\ u.channels \subseteq Channels
       /\ u.control \subseteq [enabled: SUBSET Channels, master: BOOLEAN, force: BOOLEAN]

ASSUME ProgramsAssumption ==
  /\ MaxRestarts \in Nat
  /\ \A u \in Uses : UseOK(u)

VARIABLES
  use,
  scene,    \* list: entry -> its packets, the last added first; <<>> before a clear
  free,     \* list: where the next packet goes
  stream,   \* port: the words sent since the last reset
  fed,      \* movie: words of the stream fed
  drained,  \* movie: words of the next picture drained
  opened,   \* movie: words sent that open the upload of that picture
  shown,    \* movie: pictures uploaded
  restarts, \* movie: the times it started over
  handler,  \* irq: where the interrupt handler is
  taken,    \* irq: the flags the handler read
  owed      \* irq: the completions not yet taken care of

listVars  == <<scene, free>>
movieVars == <<fed, drained, opened, shown, restarts>>
irqProgVars == <<handler, taken, owed>>
vars == <<dmaVars, use, listVars, stream, movieVars, irqProgVars>>

NoBlocks == [size |-> 0, blocks |-> 0]
Armed(sync, toDevice, down) ==
  [on |-> TRUE, trigger |-> sync = "manual", sync |-> sync, toDevice |-> toDevice, down |-> down]
Off == [on |-> FALSE, trigger |-> FALSE, sync |-> "manual", toDevice |-> FALSE, down |-> FALSE]

Init ==
  /\ use \in Uses
  /\ ram = use.ram
  /\ gpu = FoldLeft(Gp1Write, NewGpu, use.setup)
  /\ mdec = NewMdec /\ cdFifo = use.sector
  /\ spu = [ram |-> [a \in 0..(SpuWords - 1) |-> Zero], at |-> 0]
  /\ madr = [ch \in Channels |-> 0] /\ bcr = [ch \in Channels |-> NoBlocks]
  /\ chcr = [ch \in Channels |-> Off]
  /\ dicr = [enabled |-> {}, flags |-> {}, master |-> FALSE, force |-> FALSE, bit31 |-> FALSE]
  /\ iStat = FALSE
  /\ scene = <<>> /\ free = 0 /\ stream = <<>>
  /\ fed = 0 /\ drained = 0 /\ opened = 0 /\ shown = 0 /\ restarts = 0
  /\ handler = "main" /\ taken = {} /\ owed = {}

(***************************************************************************)
(* The display list                                                        *)
(***************************************************************************)
Others(kind) ==
  /\ use.kind = kind
  /\ UNCHANGED use
  /\ kind # "list"  => UNCHANGED listVars
  /\ kind # "port"  => UNCHANGED stream
  /\ kind # "movie" => UNCHANGED movieVars
  /\ kind # "irq"   => UNCHANGED irqProgVars

ClearTable ==
  /\ Others("list")
  /\ StartChannel(Otc, use.top, [size |-> use.size, blocks |-> 0], Armed("manual", FALSE, TRUE))
  /\ scene' = [z \in 1..use.size |-> <<>>] /\ free' = use.base

Packets(z) == Len(scene[z])
TotalPackets == FoldLeft(+, 0, [z \in DOMAIN scene |-> Packets(z)])

\* AddPrim: the packet takes over the entry's link, the entry links to the packet.
AddPacket(z, p) ==
  LET entry == use.top - (z - 1)
      at    == free
  IN  /\ Others("list")
      /\ TotalPackets < use.most /\ at + Len(p) < RamWords
      /\ ram' = [a \in DOMAIN ram |->
                   CASE a = entry -> [link |-> at]
                     [] a = at    -> [link |-> ram[entry].link, count |-> Len(p)]
                     [] a \in (at + 1)..(at + Len(p)) -> p[a - at]
                     [] OTHER -> ram[a]]
      /\ UNCHANGED <<gpu, mdec, cdFifo, spu, channelVars, irqVars>>
      /\ scene' = [scene EXCEPT ![z] = <<p>> \o @]
      /\ free' = at + Len(p) + 1

DrawList ==
  /\ Others("list") /\ scene # <<>> /\ gpu.drawn = <<>>
  /\ StartChannel(GpuChannel, use.top, NoBlocks, Armed("list", TRUE, FALSE))
  /\ UNCHANGED listVars

NextFrame ==
  /\ Others("list") /\ gpu.drawn # <<>>
  /\ WriteGp1([op |-> "clear"])
  /\ UNCHANGED listVars

(***************************************************************************)
(* The command port                                                        *)
(***************************************************************************)
SendWord(w) ==
  /\ Others("port") /\ Len(stream) < use.most
  /\ WriteGp0(w)
  /\ stream' = Append(stream, w)

SendBlock(b, down) ==
  LET at == Run(b[1], Bounded(b[2], 1), down)
  IN  /\ Others("port") /\ Len(stream) + Len(at) <= use.most
      /\ StartChannel(GpuChannel, b[1], [size |-> b[2], blocks |-> 0], Armed("manual", TRUE, down))
      /\ stream' = stream \o [i \in DOMAIN at |-> ram[at[i]]]

Control(c) ==
  /\ Others("port") /\ WriteGp1(c)
  /\ stream' = IF c.op \in {"clear", "reset"} THEN <<>> ELSE stream

ReadWord  == Others("port") /\ ReadGpu /\ UNCHANGED stream

ReadBlock(b) ==
  /\ Others("port") /\ gpu.store # NoTransfer
  /\ StartChannel(GpuChannel, b[1], [size |-> b[2], blocks |-> 0], Armed("request", FALSE, FALSE))
  /\ UNCHANGED stream

(***************************************************************************)
(* The movie                                                               *)
(***************************************************************************)
InStream(n) == fed + n <= use.length

FeedByDma(n) ==
  /\ Others("movie") /\ InStream(n)
  /\ StartChannel(MdecIn, use.at + fed, [size |-> n, blocks |-> 1], Armed("request", TRUE, FALSE))
  /\ fed' = fed + n /\ UNCHANGED <<drained, opened, shown, restarts>>

FeedByCpu ==
  /\ Others("movie") /\ InStream(1)
  /\ WriteMdec(ram[use.at + fed])
  /\ fed' = fed + 1 /\ UNCHANGED <<drained, opened, shown, restarts>>

\* The player looks at MDEC1 before it drains.
Drain(n) ==
  /\ Others("movie") /\ ~MdecStatus(mdec).empty /\ drained + n <= use.picture
  /\ StartChannel(MdecOut, use.buffer + drained, [size |-> 1, blocks |-> n],
                  Armed("request", FALSE, FALSE))
  /\ drained' = drained + n /\ UNCHANGED <<fed, opened, shown, restarts>>

OpenUpload ==
  /\ Others("movie") /\ drained = use.picture /\ opened < 3
  /\ WriteGp0(use.open[shown + 1][opened + 1])
  /\ opened' = opened + 1 /\ UNCHANGED <<fed, drained, shown, restarts>>

Upload ==
  /\ Others("movie") /\ opened = 3
  /\ StartChannel(GpuChannel, use.buffer, [size |-> use.picture, blocks |-> 1],
                  Armed("request", TRUE, FALSE))
  /\ shown' = shown + 1 /\ opened' = 0 /\ drained' = 0 /\ UNCHANGED <<fed, restarts>>

\* The player gives up a movie, resets the decoder and starts over; it does not
\* load the tables again when they are there.
Restart ==
  /\ Others("movie") /\ restarts < MaxRestarts /\ opened = 0
  /\ ControlMdec([reset |-> TRUE, dmaIn |-> FALSE, dmaOut |-> FALSE])
  /\ restarts' = restarts + 1
  /\ fed' = IF fed >= use.tables THEN use.tables ELSE 0
  /\ shown' = 0 /\ drained' = 0 /\ UNCHANGED opened

(***************************************************************************)
(* Interrupts                                                              *)
(***************************************************************************)
Configure(control) ==
  /\ Others("irq") /\ handler = "main"
  /\ WriteDicr(control, {})
  /\ UNCHANGED irqProgVars

\* A handler may start a channel that it has not just found finished.
Start(ch, c) ==
  /\ Others("irq") /\ ch \notin taken
  /\ StartChannel(ch, 0, [size |-> 1, blocks |-> 1], c)
  /\ owed' = IF Triggered(c) /\ Rings(dicr, ch) THEN owed \cup {ch} ELSE owed
  /\ UNCHANGED <<handler, taken>>

Enter ==
  /\ Others("irq") /\ handler = "main" /\ iStat
  /\ AckLine
  /\ handler' = "entered" /\ UNCHANGED <<taken, owed>>

ReadFlags ==
  /\ Others("irq") /\ handler = "entered"
  /\ taken' = dicr.flags /\ handler' = "read" /\ UNCHANGED <<dmaVars, owed>>

AckFlags ==
  /\ Others("irq") /\ handler = "read"
  /\ WriteDicr(dicr, taken)
  /\ owed' = owed \ taken /\ taken' = {} /\ handler' = "main"

Next ==
  \/ ClearTable \/ DrawList \/ NextFrame
  \/ \E z \in DOMAIN scene, p \in Field(use, "packets", {}) : AddPacket(z, p)
  \/ \E w \in Field(use, "words", {}) : SendWord(w)
  \/ \E b \in Field(use, "blocks", {}), down \in BOOLEAN : SendBlock(b, down)
  \/ \E c \in Field(use, "controls", {}) : Control(c)
  \/ ReadWord
  \/ \E b \in Field(use, "reads", {}) : ReadBlock(b)
  \/ \E n \in Field(use, "chunks", {}) : FeedByDma(n)
  \/ FeedByCpu
  \/ \E n \in Field(use, "chunks", {}) : Drain(n)
  \/ OpenUpload \/ Upload \/ Restart
  \/ \E c \in Field(use, "control", {}) : Configure(c)
  \/ \E ch \in Field(use, "channels", {}), c \in Field(use, "modes", {}) : Start(ch, c)
  \/ Enter \/ ReadFlags \/ AckFlags

Spec == Init /\ [][Next]_vars

(***************************************************************************)
(* What holds                                                              *)
(***************************************************************************)
\* Registers, devices and programs keep their shape; a channel that still reads as
\* busy is one that was armed for a manual start and not triggered.
TypeOK ==
  /\ DOMAIN ram = 0..(RamWords - 1)
  /\ gpu.need >= 0 /\ (gpu.need # 0 => Len(gpu.buf) < gpu.need)
  /\ gpu.line => gpu.need = 0 /\ gpu.load = NoTransfer
  /\ mdec.pending \in {"idle", "decode", "quant", "quants", "scale"}
  /\ mdec.pending # "idle" => mdec.left > 0
  /\ \A ch \in Channels :
       /\ madr[ch] \in 0..(LinkSpace - 1)
       /\ chcr[ch].on => chcr[ch].sync = "manual" /\ ~chcr[ch].trigger
  /\ dicr.enabled \subseteq Channels /\ dicr.flags \subseteq Channels
  /\ dicr.bit31 = (dicr.force \/ (dicr.master /\ dicr.enabled \cap dicr.flags # {}))
  /\ iStat \in BOOLEAN
  /\ handler \in {"main", "entered", "read"} /\ taken \subseteq Channels /\ owed \subseteq Channels

\* The commands the GPU has run are the commands of the words it was sent, whether
\* the CPU or a channel sent them, in whatever portions.
CommandsAreTheStream == use.kind = "port" => gpu.drawn = Commands(stream)

\* The GPU draws a table's packets from the first entry to the last, and in an entry
\* the last added first.
Flat(seqs) == FoldLeft(\o, <<>>, seqs)
PaintersOrder == [][DrawList => gpu'.drawn = Commands(Flat(Flat(scene)))]_vars

\* The pixel a stream's macroblock has at x, y, worked out from the macroblock.
RefCoefs(block, table) ==
  LET at(j) == FoldLeft(+, 0, [i \in 2..j |-> block[i][1] + 1])
  IN  [k \in 0..(Coefs - 1) |->
         IF k = 0 THEN Coef(block[1][2], table, block[1][1])
         ELSE LET js == {j \in 2..Len(block) : at(j) = k}
              IN  IF js = {} THEN <<>>
                  ELSE Coef(block[CHOOSE j \in js : TRUE][2], table, block[1][1])]

RefPixel(mb, x, y) ==
  LET half(n) == n \div 2
      luma    == 3 + x \div Side + 2 * (y \div Side)
      chroma(b) == Sample(RefCoefs(mb[b], use.chroma), use.scale, half(x) + half(y) * Side)
  IN  <<chroma(1), chroma(2),
        Sample(RefCoefs(mb[luma], use.luma), use.scale, (x % Side) + (y % Side) * Side)>>

\* Every picture of the movie that was uploaded is on the screen, pixel for pixel.
MovieIsShown ==
  use.kind = "movie" =>
    \A i \in 1..shown, x, y \in 0..(2 * Side - 1) :
      LET p == RefPixel(use.movie[i], x, y)
      IN  FramePixel(gpu, (i - 1) * 2 * Side + x, y)
            = IF use.deep THEN <<Red(p), Green(p), Blue(p)>> ELSE Fifteen(p)

\* A completion that was to interrupt keeps its flag, and the handler is called or on
\* its way to see it; while the channel stays enabled bit 31 shows it too.
CompletionsReachTheHandler ==
  \A ch \in owed :
    /\ ch \in dicr.flags
    /\ iStat \/ handler = "entered" \/ ch \in taken
    /\ ch \in dicr.enabled /\ dicr.master => dicr.bit31
=============================================================================
