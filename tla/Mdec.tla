-------------------------------- MODULE Mdec --------------------------------
(***************************************************************************)
(* The macroblock decoder (mdec.rs, Mdec): command words, their parameters,*)
(* the run-length blocks and macroblocks they hold, and the words the      *)
(* decoder packs its pixels into.  It decodes eagerly, when the last       *)
(* parameter of a command arrives.  What the arithmetic computes (inverse  *)
(* quantization, IDCT, color conversion) is a tuple of what it is computed *)
(* from; the signed and bit-15 flags, which only change pixel values, are  *)
(* left out.                                                               *)
(***************************************************************************)
EXTENDS Words

CONSTANTS
  Side,         \* the side of a block (8), a power of two
  TableWords,   \* the words of one quantization table (16)
  ScaleWords,   \* the words of the scale table (32)
  Filler        \* what an empty FIFO reads as (0xFFFF_FFFF)

ASSUME MdecAssumption == Side \in Nat \ {0, 1} /\ TableWords \in Nat \ {0}
                         /\ ScaleWords \in Nat \ {0}

Coefs == Side * Side

NewMdec ==
  [pending |-> "idle", left |-> 0, params |-> <<>>, depth |-> 0, out |-> <<>>,
   luma |-> <<>>, chroma |-> <<>>, scale |-> <<>>, dmaIn |-> FALSE, dmaOut |-> FALSE]

\* A reset forgets the command and the output and keeps the tables.
MdecReset(m) ==
  [NewMdec EXCEPT !.luma = m.luma, !.chroma = m.chroma, !.scale = m.scale]

MdecControl(m, c) ==
  IF c.reset THEN MdecReset(m) ELSE [m EXCEPT !.dmaIn = c.dmaIn, !.dmaOut = c.dmaOut]

MdecStatus(m) ==
  [empty |-> m.out = <<>>, busy |-> m.pending # "idle", wantsIn |-> m.dmaIn,
   hasOut |-> m.dmaOut /\ m.out # <<>>,
   left |-> IF m.pending = "idle" THEN 0 ELSE m.left - 1]

(***************************************************************************)
(* Run-length blocks.  A halfword is <<run, level>>; of the first of a     *)
(* block the run is the quantizer scale.  Eob is 0xFE00: between blocks it *)
(* is padding, in a block its run ends it.                                 *)
(***************************************************************************)
Eob == <<Coefs - 1, 0>>

\* One coefficient: raw when the scale is 0, else scaled by the table.
Coef(level, table, q) == IF q = 0 THEN <<level>> ELSE <<level, table, q>>

NoBlock == [k |-> -1, q |-> 0, coefs |-> [i \in 0..(Coefs - 1) |-> <<>>], next |-> 0,
            done |-> FALSE]

\* One halfword into a block.
BlockStep(b, h, table) ==
  LET k == b.k + h[1] + 1
  IN  CASE b.done -> b
        [] ~b.done /\ b.k = -1 /\ h = Eob -> [b EXCEPT !.next = @ + 1]
        [] ~b.done /\ b.k = -1 /\ h # Eob ->
             [b EXCEPT !.k = 0, !.q = h[1], !.next = @ + 1,
                       !.coefs[0] = Coef(h[2], table, h[1])]
        [] OTHER ->
             [b EXCEPT !.k = k, !.next = @ + 1, !.done = k >= Coefs - 1,
                       !.coefs = IF k < Coefs THEN [@ EXCEPT ![k] = Coef(h[2], table, b.q)]
                                 ELSE @]

\* The block that starts at `from'; its k is -1 if the stream is exhausted first.
Block(hw, from, table) ==
  FoldLeft(LAMBDA b, h : BlockStep(b, h, table), [NoBlock EXCEPT !.next = from],
           SubSeq(hw, from, Len(hw)))

\* The blocks of the stream one after the other, the i-th with tables[i]; they end
\* with the stream.
Blocks(hw, from, tables) ==
  FoldLeft(LAMBDA bs, t :
             LET b == Block(hw, bs.next, t)
             IN  IF ~bs.ok \/ b.k = -1 THEN [bs EXCEPT !.ok = FALSE]
                 ELSE [bs EXCEPT !.blocks = Append(@, b.coefs), !.next = b.next],
           [blocks |-> <<>>, next |-> from, ok |-> TRUE], tables)

(***************************************************************************)
(* Pixels                                                                  *)
(***************************************************************************)
Sample(blk, scale, i) == <<blk, scale, i>>

Mono(blocks, scale) == [i \in 1..Coefs |-> Sample(blocks[1], scale, i - 1)]

\* The four luma blocks are the quarters of the picture; a chroma sample is shared
\* by two pixels each way.
Quarter(blocks, scale, xx, yy, yblk) ==
  {<<(x + xx) + (y + yy) * 2 * Side,
     LET c == ((x + xx) \div 2) + ((y + yy) \div 2) * Side
     IN  <<Sample(blocks[1], scale, c), Sample(blocks[2], scale, c),
           Sample(blocks[yblk], scale, x + y * Side)>> >> :
     x \in 0..(Side - 1), y \in 0..(Side - 1)}

Colour(blocks, scale) ==
  LET all == UNION {Quarter(blocks, scale, 0, 0, 3), Quarter(blocks, scale, Side, 0, 4),
                    Quarter(blocks, scale, 0, Side, 5), Quarter(blocks, scale, Side, Side, 6)}
  IN  [i \in 1..(4 * Coefs) |-> (CHOOSE e \in all : e[1] = i - 1)[2]]

\* The bytes of a 24-bit pixel, the halfword of a 15-bit one, the bits of the others.
Red(p)   == <<p, "r">>
Green(p) == <<p, "g">>
Blue(p)  == <<p, "b">>
Fifteen(p) == <<<<p, "15 low">>, <<p, "15 high">>>>

Word4(b0, b1, b2, b3) == [lo |-> <<b0, b1>>, hi |-> <<b2, b3>>]

\* 24 bits: four pixels, the last byte of a word being the next pixel's first.
Pack24(px) ==
  FoldLeft(LAMBDA acc, p :
             CASE acc.state = 0 -> [acc EXCEPT !.state = 1, !.held = <<Red(p), Green(p), Blue(p)>>]
               [] acc.state = 1 ->
                    [acc EXCEPT !.state = 2, !.held = <<Green(p), Blue(p)>>,
                       !.words = Append(@, Word4(acc.held[1], acc.held[2], acc.held[3], Red(p)))]
               [] acc.state = 2 ->
                    [acc EXCEPT !.state = 3, !.held = <<Blue(p)>>,
                       !.words = Append(@, Word4(acc.held[1], acc.held[2], Red(p), Green(p)))]
               [] acc.state = 3 ->
                    [acc EXCEPT !.state = 0, !.held = <<>>,
                       !.words = Append(@, Word4(acc.held[1], Red(p), Green(p), Blue(p)))],
           [state |-> 0, held |-> <<>>, words |-> <<>>], px).words

\* 15 bits: two pixels a word; 8 and 4 bits: four and eight.
Pack15(px) == [i \in 1..(Len(px) \div 2) |-> [lo |-> Fifteen(px[2 * i - 1]), hi |-> Fifteen(px[2 * i])]]
PackMono(px, n) == [i \in 1..(Len(px) \div n) |-> [mono |-> SubSeq(px, n * (i - 1) + 1, n * i)]]

Pack(px, depth) ==
  CASE depth = 0 -> PackMono(px, 8)
    [] depth = 1 -> PackMono(px, 4)
    [] depth = 2 -> Pack24(px)
    [] depth = 3 -> Pack15(px)


(***************************************************************************)
(* Commands                                                                *)
(***************************************************************************)
\* Macroblocks until the stream runs out; an unfinished one is dropped.
RunDecode(m) ==
  LET hw     == FoldLeft(LAMBDA s, w : s \o w.halves, <<>>, m.params)
      mono   == m.depth <= 1
      tables == IF mono THEN <<m.luma>>
                ELSE <<m.chroma, m.chroma, m.luma, m.luma, m.luma, m.luma>>
      pixels(blocks) == IF mono THEN Mono(blocks, m.scale) ELSE Colour(blocks, m.scale)
      run == FoldLeft(LAMBDA acc, i :
               LET bs == Blocks(hw, acc.next, tables)
               IN  IF ~acc.ok \/ ~bs.ok THEN [acc EXCEPT !.ok = FALSE]
                   ELSE [acc EXCEPT !.next = bs.next,
                                    !.out = @ \o Pack(pixels(bs.blocks), m.depth)],
               [next |-> 1, ok |-> TRUE, out |-> m.out], hw)
  IN  [m EXCEPT !.out = run.out]

ExecuteCommand(m) ==
  LET done == [m EXCEPT !.pending = "idle", !.params = <<>>]
  IN  CASE m.pending = "quant"  -> [done EXCEPT !.luma = SubSeq(m.params, 1, TableWords)]
        [] m.pending = "quants" ->
             [done EXCEPT !.luma = SubSeq(m.params, 1, TableWords),
                          !.chroma = SubSeq(m.params, TableWords + 1, 2 * TableWords)]
        [] m.pending = "scale"  -> [done EXCEPT !.scale = m.params]
        [] m.pending = "decode" -> [done EXCEPT !.out = RunDecode(m).out]

BeginCommand(m, w) ==
  LET cmd == Field(w, "mdec", "nop")
      b   == [m EXCEPT !.params = <<>>]
  IN  CASE cmd = "decode" ->
             IF w.n = 0 THEN [b EXCEPT !.depth = w.depth]
             ELSE [b EXCEPT !.depth = w.depth, !.left = w.n, !.pending = "decode"]
        [] cmd = "quant"  -> [b EXCEPT !.left = TableWords, !.pending = "quant"]
        [] cmd = "quants" -> [b EXCEPT !.left = 2 * TableWords, !.pending = "quants"]
        [] cmd = "scale"  -> [b EXCEPT !.left = ScaleWords, !.pending = "scale"]
        [] OTHER -> b

MdecWrite(m, w) ==
  IF m.pending = "idle" THEN BeginCommand(m, w)
  ELSE LET b == [m EXCEPT !.params = Append(@, w), !.left = @ - 1]
       IN  IF b.left = 0 THEN ExecuteCommand(b) ELSE b

MdecRead(m) ==
  IF m.out = <<>> THEN [word |-> Filler, mdec |-> m]
  ELSE [word |-> Head(m.out), mdec |-> [m EXCEPT !.out = Tail(@)]]
=============================================================================
