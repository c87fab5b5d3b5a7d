------------------------------- MODULE MCDma -------------------------------
(***************************************************************************)
(* DmaPrograms for TLC: ten uses, each with its words and memory: two      *)
(* ordering tables, five streams for the GPU's port, a movie at either     *)
(* depth, and an interrupt handler over two channels.                      *)
(***************************************************************************)
EXTENDS DmaPrograms

CONSTANT zero

MCBlack  == <<zero, zero>>
MCFiller == [filler |-> TRUE]

Cmd(op)     == [op |-> op]
Memory(words) ==
  [a \in 0..(RamWords - 1) |-> IF a < Len(words) THEN words[a + 1] ELSE Zero]

Common ==
  [setup |-> <<>>, sector |-> <<>>, ram |-> Memory(<<>>)]

\* A rectangle, and two commands that share a packet.
Packet1 == <<Cmd("rect"), [x |-> 1]>>
Packet2 == <<[op |-> "rect", sized |-> TRUE], [x |-> 2], [w |-> 2], Cmd("irq")>>
Packet3 == <<>>

\* A table of two entries with an old header below it.
ListUse ==
  [kind |-> "list", top |-> 2, size |-> 2, base |-> 3, packets |-> {Packet2, Packet3},
   most |-> 2, ram |-> Memory(<<[count |-> 1, link |-> LinkSpace - 1]>>)] @@ Common
\* A table of one entry, at address 0.
SmallList == [kind |-> "list", top |-> 0, size |-> 1, base |-> 1, packets |-> {Packet1, Packet3}, most |-> 3] @@ Common

Stopper == [op |-> "line", shaded |-> TRUE, stop |-> TRUE]
Clears  == {[op |-> "clear"], [op |-> "reset"]}

Port(most, words, memory, blocks, controls) ==
  [kind |-> "port", most |-> most, words |-> words, ram |-> Memory(memory), blocks |-> blocks,
   controls |-> controls, setup |-> <<>>, sector |-> <<>>]

PolyLines ==
  Port(6, {[op |-> "line", more |-> TRUE, shaded |-> TRUE], [op |-> "line", more |-> TRUE],
        Stopper, [x |-> 1]},
       <<[op |-> "line", more |-> TRUE, shaded |-> TRUE], [x |-> 1], [x |-> 2], Stopper, Stopper>>,
       {<<0, 5>>, <<1, 0>>, <<3, 2>>}, {[op |-> "clear"]})
Rectangle == [w |-> 3, lo |-> <<1, 1>>, hi |-> <<2, 2>>]
Loads ==
  Port(6, {Cmd("load"), Rectangle}, <<[w |-> 2], Cmd("irq"), Cmd("load")>>, {<<0, 3>>}, Clears)
Stores ==
  Port(5, {Cmd("store"), Rectangle}, <<Rectangle, Cmd("load")>>, {<<0, 2>>}, {[op |-> "clear"]})
    @@ [reads |-> {<<5, 2>>}]
Shapes ==
  Port(8, {[op |-> "poly", shaded |-> TRUE], [op |-> "poly", textured |-> TRUE],
        [op |-> "rect", sized |-> TRUE, textured |-> TRUE], [op |-> "line", shaded |-> TRUE]},
       <<Cmd("poly"), Cmd("line"), Cmd("env")>>, {<<0, 4>>, <<1, 3>>}, {})
Paint ==
  Port(6, {[op |-> "fill", lo |-> <<7, 7>>], Cmd("copy"), Cmd("irq"), [x |-> 1, w |-> 2]},
       <<>>, {}, {[op |-> "ack"]})

(***************************************************************************)
(* Two macroblocks of two-by-two blocks.  A stream is the tables, then a   *)
(* decode command for each macroblock, padded to words.                    *)
(***************************************************************************)
B(q, level) == <<<<q, level>>, <<Coefs - 2, level>>>>
Short(level) == <<<<1, level>>, Eob>>
Long(level) == <<<<2, level>>, <<0, level>>, <<0, 9>>, <<0, 8>>>>
First  == <<B(1, 1), Short(2), B(0, 3), B(1, 4), Long(5), B(1, 6)>>
Second == <<Short(1), B(2, 2), B(1, 3), Long(4), Short(5), B(0, 1)>>

Cat(ss) == FoldLeft(\o, <<>>, ss)
Params(mb) ==
  LET hw     == Cat(mb)
      padded == IF Len(hw) % 2 = 0 THEN hw ELSE Append(hw, Eob)
  IN  [i \in 1..(Len(padded) \div 2) |-> [halves |-> <<padded[2 * i - 1], padded[2 * i]>>]]

LumaWord   == [tab |-> "luma"]
ChromaWord == [tab |-> "chroma"]
ScaleWord  == [tab |-> "scale"]
Tables == <<[mdec |-> "quants"], LumaWord, ChromaWord, [mdec |-> "scale"], ScaleWord>>
Decode(d, mbs) ==
  LET ps == Cat([i \in DOMAIN mbs |-> Params(mbs[i])])
  IN  <<[mdec |-> "decode", n |-> Len(ps), depth |-> d]>> \o ps

Open(i, halfwords) ==
  <<Cmd("load"), [x |-> (i - 1) * halfwords, y |-> 0], [w |-> halfwords, h |-> 2 * Side]>>

Movie(d, film) ==
  LET halfwords == IF d = 2 THEN 3 * Side ELSE 2 * Side
  IN  [kind |-> "movie", ram |-> Memory(film), setup |-> <<[op |-> "display", on |-> TRUE],
         [op |-> "start", x |-> 0, y |-> 0], [op |-> "mode", deep |-> d = 2]>>,
       sector |-> <<>>, at |-> 0, length |-> Len(film), tables |-> Len(Tables),
       buffer |-> Len(film), picture |-> halfwords * Side,
       chunks |-> {4, halfwords * Side}, depth |-> d, deep |-> d = 2,
       movie |-> <<First, Second>>, luma |-> <<LumaWord>>, chroma |-> <<ChromaWord>>,
       scale |-> <<ScaleWord>>,
       open |-> <<Open(1, halfwords), Open(2, halfwords)>>]

DeepMovie    == Movie(2, Tables \o Decode(2, <<First>>) \o Decode(2, <<Second>>))
FifteenMovie == Movie(3, Tables \o Decode(3, <<First, Second>>))

Controls == [enabled: {{SpuChannel}, {CdChannel, SpuChannel}}, master: BOOLEAN, force: BOOLEAN]
IrqUse ==
  [kind |-> "irq", channels |-> {CdChannel, SpuChannel}, control |-> Controls,
   modes |-> {Armed("request", FALSE, FALSE), Armed("request", TRUE, TRUE),
              [Armed("manual", FALSE, FALSE) EXCEPT !.trigger = FALSE]},
   sector |-> <<[lo |-> <<3, 3>>, hi |-> <<4, 4>>]>>] @@ Common

MCUses == {ListUse, SmallList, PolyLines, Loads, Stores, Shapes, Paint, DeepMovie, FifteenMovie, IrqUse}
=============================================================================
