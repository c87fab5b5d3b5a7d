----------------------------- MODULE Sio0Proofs -----------------------------
(***************************************************************************)
(* The serial port, for every use of it, every number of sectors and every *)
(* size of its FIFO: an acknowledge is always owed or given, and cards     *)
(* driven byte by byte do what CardSessions says of whole messages.        *)
(***************************************************************************)
EXTENDS Sio0, FiniteSetTheorems, SequenceTheorems, TLAPS

(***************************************************************************)
(* Pads                                                                    *)
(***************************************************************************)
LEMMA FreshPad ==
  ASSUME NEW kind \in Kinds, NEW buttons \in Byte
  PROVE  NewPad(kind, buttons) \in PadState
BY DEF NewPad, PadState, Byte, Centre

LEMMA ThawedPadType ==
  ASSUME NEW p \in PadState
  PROVE  ThawedPad(p) \in PadState
<1>1. 0 \in Byte
  BY DEF Byte
<1> QED BY <1>1 DEF ThawedPad, PadState

LEMMA ShortAnswer ==
  ASSUME NEW bytes \in Seq(Byte), NEW i \in Int, NEW otherwise \in Byte
  PROVE  At(bytes, i, otherwise) \in Byte
<1>1. CASE i + 1 \in DOMAIN bytes
  BY <1>1, ElementOfSeq DEF At
<1>2. CASE i + 1 \notin DOMAIN bytes
  BY <1>2 DEF At
<1> QED BY <1>1, <1>2

LEMMA ButtonsAndSticks ==
  ASSUME NEW p \in PadState
  PROVE  /\ ButtonBytes(p) \in Seq(Byte) /\ Len(ButtonBytes(p)) = 2
         /\ PollBytes(p) \in Seq(Byte) /\ Len(PollBytes(p)) = 6
<1>1. p.buttons \in Byte /\ p.axes \in Byte
  BY DEF PadState
<1>2. 255 - p.buttons \in Byte
  BY <1>1 DEF Byte
<1>3. ButtonBytes(p) \in Seq(Byte) /\ Len(ButtonBytes(p)) = 2
  BY <1>2 DEF ButtonBytes
<1>4. <<p.axes, p.axes, p.axes, p.axes>> \in Seq(Byte) /\ Len(<<p.axes, p.axes, p.axes, p.axes>>) = 4
  BY <1>1
<1>5. PollBytes(p) \in Seq(Byte) /\ Len(PollBytes(p)) = 6
  <2>1. PollBytes(p) \in Seq(Byte) /\ Len(PollBytes(p))
           = Len(ButtonBytes(p)) + Len(<<p.axes, p.axes, p.axes, p.axes>>)
    BY <1>3, <1>4, ConcatProperties DEF PollBytes
  <2> QED BY <1>3, <1>4, <2>1
<1> QED BY <1>3, <1>5

LEMMA Configuring ==
  ASSUME NEW p \in PadState, NEW i \in Int, NEW tx \in Byte
  PROVE  Configured(p, i, tx) \in PadState
<1>1. Rumbled(p, i, tx) \in PadState
  BY DEF Rumbled, PadState
<1>2. ASSUME i \in 0..5
      PROVE  [p EXCEPT !.vib[i] = tx] \in PadState
  BY <1>2 DEF PadState
<1>3. /\ [p EXCEPT !.config = (tx = 1)] \in PadState
      /\ [p EXCEPT !.analog = (tx = 1)] \in PadState
      /\ [p EXCEPT !.locked = (tx = 2)] \in PadState
      /\ [p EXCEPT !.arg = tx] \in PadState
  BY DEF PadState
<1> QED BY <1>1, <1>2, <1>3 DEF Configured

LEMMA Answering ==
  ASSUME NEW p \in PadState, NEW i \in Int, NEW tx \in Byte
  PROVE  Answer(p, i, tx) \in Byte
<1> DEFINE arg == IF i = 0 THEN tx ELSE p.arg
           led == IF p.analog THEN 1 ELSE 0
<1>0. {0, 1, 2, 4, 7, \h0A, \h14, \hFF} \subseteq Byte
  BY DEF Byte
<1>1. 0 \in Byte /\ \hFF \in Byte /\ led \in Byte
  BY <1>0
<1>2. \A a, b, c, d, e, f \in Byte : <<a, b, c, d, e, f>> \in Seq(Byte)
  OBVIOUS
<1>3. At(PollBytes(p), i, \hFF) \in Byte
  BY <1>1, ButtonsAndSticks, ShortAnswer
<1>4. At(<<1, 2, led, 2, 1, 0>>, i, 0) \in Byte
  <2>1. <<1, 2, led, 2, 1, 0>> \in Seq(Byte)
    BY <1>0, <1>1, <1>2
  <2> QED BY <1>1, <2>1, ShortAnswer
<1>5. At(IF arg = 0 THEN <<0, 0, 1, 2, 0, \h0A>> ELSE <<0, 0, 1, 1, 1, \h14>>, i, 0) \in Byte
  <2>1. <<0, 0, 1, 2, 0, \h0A>> \in Seq(Byte) /\ <<0, 0, 1, 1, 1, \h14>> \in Seq(Byte)
    BY <1>0, <1>2
  <2>2. (IF arg = 0 THEN <<0, 0, 1, 2, 0, \h0A>> ELSE <<0, 0, 1, 1, 1, \h14>>) \in Seq(Byte)
    BY <2>1
  <2> QED BY <1>1, <2>2, ShortAnswer
<1>6. At(<<0, 0, 2, 0, 1, 0>>, i, 0) \in Byte
  <2>1. <<0, 0, 2, 0, 1, 0>> \in Seq(Byte)
    BY <1>0, <1>2
  <2> QED BY <1>1, <2>1, ShortAnswer
<1>7. At(<<0, 0, 0, IF arg = 0 THEN 4 ELSE 7, 0, 0>>, i, 0) \in Byte
  <2>1. (IF arg = 0 THEN 4 ELSE 7) \in Byte
    BY <1>0
  <2>2. <<0, 0, 0, IF arg = 0 THEN 4 ELSE 7, 0, 0>> \in Seq(Byte)
    BY <1>1, <1>2, <2>1
  <2> QED BY <1>1, <2>2, ShortAnswer
<1>8. (IF i \in 0..5 THEN p.vib[i] ELSE \hFF) \in Byte
  BY <1>1 DEF PadState
<1> QED BY <1>1, <1>3, <1>4, <1>5, <1>6, <1>7, <1>8 DEF Answer

LEMMA ToldPad ==
  ASSUME NEW p \in PadState, NEW byte \in Byte
  PROVE  /\ \A ack \in BOOLEAN : /\ Tell(p, byte, ack) \in [pad: PadState, resp: Byte, ack: BOOLEAN]
                                /\ Tell(p, byte, ack).ack = ack
         /\ Tell(p, byte, TRUE) \in [pad: PadState, resp: Byte, ack: BOOLEAN]
         /\ Tell(p, byte, FALSE) \in [pad: PadState, resp: Byte, ack: BOOLEAN]
         /\ ~Tell(p, byte, FALSE).ack
BY DEF Tell

\* What a pad does with a byte; it acknowledges eight at most.
LEMMA PadExchanges ==
  ASSUME NEW p \in PadState, NEW ph \in Nat, NEW tx \in Byte
  PROVE  /\ PadExchange(p, ph, tx) \in [pad: PadState, resp: Byte, ack: BOOLEAN]
         /\ PadExchange(p, ph, tx).ack => ph < 8
<1>0. {0, \h41, \h53, \h5A, \h73, \hF3, \hFF} \subseteq Byte
  BY DEF Byte
<1>1. CASE p.kind = "analog"
  <2> DEFINE i == ph - 3
             done == i >= DataLen(p) - 1
             after == Configured(p, i, tx)
  <2>1. i \in Int /\ DataLen(p) \in {2, 6} /\ (~done => ph < 8)
    BY DEF DataLen
  <2>2. after \in PadState /\ ThawedPad(after) \in PadState
    BY <2>1, Configuring, ThawedPadType
  <2>3. Answer(p, i, tx) \in Byte
    BY <2>1, Answering
  <2> DEFINE reset == ThawedPad(p)
             asked == [p EXCEPT !.cmd = tx]
  <2>4. IdLow(p) \in Byte /\ OpenBus \in Byte /\ \h5A \in Byte
    BY <1>0 DEF IdLow, OpenBus
  <2>5. reset \in PadState /\ asked \in PadState
    <3>1. reset \in PadState
      BY ThawedPadType
    <3>2. asked \in PadState
      BY DEF PadState
    <3> QED BY <3>1, <3>2
  <2>6. PadExchange(p, ph, tx) =
          CASE ph = 0 -> Tell(reset, OpenBus, TRUE)
            [] ph = 1 -> Tell(asked, IdLow(p), TRUE)
            [] ph = 2 -> Tell(p, \h5A, TRUE)
            [] OTHER -> Tell(IF done THEN ThawedPad(after) ELSE after, Answer(p, i, tx), ~done)
    BY <1>1 DEF PadExchange, AnalogExchange, ThawedPad
  <2> HIDE DEF reset, asked, done, after, i
  <2>7. CASE ph = 0
    <3>1. PadExchange(p, ph, tx) = Tell(reset, OpenBus, TRUE)
      BY <2>6, <2>7
    <3>2. ph < 8
      BY <2>7
    <3>3. Tell(reset, OpenBus, TRUE) \in [pad: PadState, resp: Byte, ack: BOOLEAN]
      BY <2>4, <2>5, ToldPad
    <3> QED BY <3>1, <3>2, <3>3
  <2>8. CASE ph = 1
    <3>1. PadExchange(p, ph, tx) = Tell(asked, IdLow(p), TRUE)
      BY <2>6, <2>8
    <3>2. ph < 8
      BY <2>8
    <3>3. Tell(asked, IdLow(p), TRUE) \in [pad: PadState, resp: Byte, ack: BOOLEAN]
      BY <2>4, <2>5, ToldPad
    <3> QED BY <3>1, <3>2, <3>3
  <2>9. CASE ph = 2
    <3>1. PadExchange(p, ph, tx) = Tell(p, \h5A, TRUE)
      BY <2>6, <2>9
    <3>2. ph < 8
      BY <2>9
    <3>3. Tell(p, \h5A, TRUE) \in [pad: PadState, resp: Byte, ack: BOOLEAN]
      BY <2>4, ToldPad
    <3> QED BY <3>1, <3>2, <3>3
  <2>10. CASE ph > 2
    <3>1. PadExchange(p, ph, tx)
            = Tell(IF done THEN ThawedPad(after) ELSE after, Answer(p, i, tx), ~done)
      <4>1. ph # 0 /\ ph # 1 /\ ph # 2
        BY <2>10
      <4> QED BY <2>6, <4>1, Zenon
    <3>2. CASE done
      <4>1. PadExchange(p, ph, tx) = Tell(ThawedPad(after), Answer(p, i, tx), FALSE)
        BY <3>1, <3>2, Zenon
      <4>2. /\ Tell(ThawedPad(after), Answer(p, i, tx), FALSE) \in [pad: PadState, resp: Byte, ack: BOOLEAN]
            /\ ~Tell(ThawedPad(after), Answer(p, i, tx), FALSE).ack
        BY <2>2, <2>3, ToldPad
      <4> QED BY <4>1, <4>2
    <3>3. CASE ~done
      <4>1. PadExchange(p, ph, tx) = Tell(after, Answer(p, i, tx), TRUE)
        BY <3>1, <3>3, Zenon
      <4>2. Tell(after, Answer(p, i, tx), TRUE) \in [pad: PadState, resp: Byte, ack: BOOLEAN]
        BY <2>2, <2>3, ToldPad
      <4> QED BY <2>1, <3>3, <4>1, <4>2
    <3> QED BY <3>2, <3>3
  <2> QED BY <2>7, <2>8, <2>9, <2>10
<1>2. CASE p.kind = "none"
  <2>1. PadExchange(p, ph, tx) = Tell(p, OpenBus, FALSE)
    BY <1>2 DEF PadExchange
  <2>2. OpenBus \in Byte
    BY <1>0 DEF OpenBus
  <2> QED BY <2>1, <2>2, ToldPad
<1>3. CASE p.kind \notin {"analog", "none"}
  <2> DEFINE digital == <<OpenBus, \h41, \h5A>>
             stick   == <<OpenBus, \h53, \h5A>>
  <2>1. /\ digital \in Seq(Byte) /\ Len(digital) = 3
        /\ stick \in Seq(Byte) /\ Len(stick) = 3
    BY <1>0 DEF OpenBus
  <2>2. FixedReplies(p) \in Seq(Byte) /\ Len(FixedReplies(p)) \in {5, 9}
    <3>1. FixedReplies(p) = IF p.kind = "digital" THEN digital \o ButtonBytes(p)
                            ELSE stick \o PollBytes(p)
      BY DEF FixedReplies
    <3> HIDE DEF digital, stick
    <3>2. /\ ButtonBytes(p) \in Seq(Byte) /\ Len(ButtonBytes(p)) = 2
          /\ PollBytes(p) \in Seq(Byte) /\ Len(PollBytes(p)) = 6
      BY ButtonsAndSticks
    <3>3. /\ digital \o ButtonBytes(p) \in Seq(Byte)
          /\ Len(digital \o ButtonBytes(p)) = Len(digital) + Len(ButtonBytes(p))
      BY <2>1, <3>2, ConcatProperties
    <3>4. /\ stick \o PollBytes(p) \in Seq(Byte)
          /\ Len(stick \o PollBytes(p)) = Len(stick) + Len(PollBytes(p))
      BY <2>1, <3>2, ConcatProperties
    <3>5. Len(digital \o ButtonBytes(p)) = 5 /\ Len(stick \o PollBytes(p)) = 9
      BY <2>1, <3>2, <3>3, <3>4
    <3> QED BY <3>1, <3>3, <3>4, <3>5
  <2>3. At(FixedReplies(p), ph, OpenBus) \in Byte
    BY <1>0, <2>2, ShortAnswer DEF OpenBus
  <2>4. PadExchange(p, ph, tx)
          = Tell(p, At(FixedReplies(p), ph, OpenBus), ph + 1 < Len(FixedReplies(p)))
    BY <1>3 DEF PadExchange
  <2>5. ph + 1 < Len(FixedReplies(p)) => ph < 8
    <3>1. ASSUME NEW n \in {5, 9} PROVE ph + 1 < n => ph < 8
      BY <3>1
    <3> QED BY <2>2, <3>1
  <2>6. (ph + 1 < Len(FixedReplies(p))) \in BOOLEAN
    OBVIOUS
  <2> QED BY <2>3, <2>4, <2>5, <2>6, ToldPad
<1> QED BY <1>1, <1>2, <1>3

(***************************************************************************)
(* Multitaps                                                               *)
(***************************************************************************)
TapState ==
  [pads: [SubSlots -> PadState], cards: [SubSlots -> CardState \cup {NoCard}],
   armed: BOOLEAN, long: BOOLEAN]

LEMMA NotATap == ASSUME NEW t \in TapState PROVE t # NoTap
BY DEF TapState, NoTap

LEMMA NotACard == ASSUME NEW c \in CardState PROVE c # NoCard
BY DEF CardState, NoCard

LEMMA FreshTap == NewTap \in TapState
<1>1. \A kind \in Kinds : NewPad(kind, 0) \in PadState
  BY FreshPad DEF Byte
<1> QED BY <1>1 DEF NewTap, TapState, Kinds

\* The eight bytes of a slot in a burst.
LEMMA Bursting ==
  ASSUME NEW p \in PadState
  PROVE  BurstBytes(p) \in Seq(Byte) /\ Len(BurstBytes(p)) = 8
<1>0. {\h41, \h53, \h5A, \h73, \hFF} \subseteq Byte
  BY DEF Byte
<1> DEFINE unused == <<\hFF, \hFF, \hFF, \hFF>>
           digital == <<\h41, \h5A>>
           stick == <<\h53, \h5A>>
           analog == <<\h73, \h5A>>
<1>1. unused \in Seq(Byte) /\ Len(unused) = 4
  BY <1>0
<1>2. /\ digital \in Seq(Byte) /\ Len(digital) = 2
      /\ stick \in Seq(Byte) /\ Len(stick) = 2
      /\ analog \in Seq(Byte) /\ Len(analog) = 2
  BY <1>0
<1>3. BurstBytes(p) \in {unused \o unused, stick \o PollBytes(p), analog \o PollBytes(p),
                        digital \o ButtonBytes(p) \o unused}
  BY DEF BurstBytes
<1> HIDE DEF unused, digital, stick, analog
<1>4. /\ PollBytes(p) \in Seq(Byte) /\ Len(PollBytes(p)) = 6
      /\ ButtonBytes(p) \in Seq(Byte) /\ Len(ButtonBytes(p)) = 2
  BY ButtonsAndSticks
<1>5. unused \o unused \in Seq(Byte) /\ Len(unused \o unused) = 8
  <2>1. unused \o unused \in Seq(Byte) /\ Len(unused \o unused) = Len(unused) + Len(unused)
    BY <1>1, ConcatProperties
  <2> QED BY <1>1, <2>1
<1>6. stick \o PollBytes(p) \in Seq(Byte) /\ Len(stick \o PollBytes(p)) = 8
  <2>1. stick \o PollBytes(p) \in Seq(Byte) /\ Len(stick \o PollBytes(p)) = Len(stick) + Len(PollBytes(p))
    BY <1>2, <1>4, ConcatProperties
  <2> QED BY <1>2, <1>4, <2>1
<1>7. analog \o PollBytes(p) \in Seq(Byte) /\ Len(analog \o PollBytes(p)) = 8
  <2>1. analog \o PollBytes(p) \in Seq(Byte) /\ Len(analog \o PollBytes(p)) = Len(analog) + Len(PollBytes(p))
    BY <1>2, <1>4, ConcatProperties
  <2> QED BY <1>2, <1>4, <2>1
<1>8. digital \o ButtonBytes(p) \in Seq(Byte) /\ Len(digital \o ButtonBytes(p)) = 4
  <2>1. digital \o ButtonBytes(p) \in Seq(Byte) /\ Len(digital \o ButtonBytes(p)) = Len(digital) + Len(ButtonBytes(p))
    BY <1>2, <1>4, ConcatProperties
  <2> QED BY <1>2, <1>4, <2>1
<1> DEFINE short == digital \o ButtonBytes(p)
<1>9. short \o unused \in Seq(Byte) /\ Len(short \o unused) = 8
  <2> HIDE DEF short
  <2>1. short \in Seq(Byte) /\ Len(short) = 4
    BY <1>8 DEF short
  <2>2. short \o unused \in Seq(Byte) /\ Len(short \o unused) = Len(short) + Len(unused)
    BY <1>1, <2>1, ConcatProperties
  <2> QED BY <1>1, <2>1, <2>2
<1> QED BY <1>3, <1>5, <1>6, <1>7, <1>9

\* A multitap keeps its cards, and acknowledges no more than it has to say.
LEMMA TapExchanges ==
  ASSUME NEW t \in TapState, NEW ph \in Nat, NEW tx \in Byte
  PROVE  /\ ExchangeTap(t, ph, tx) \in [tap: TapState, resp: Byte, ack: BOOLEAN]
         /\ ExchangeTap(t, ph, tx).tap.cards = t.cards
         /\ ExchangeTap(t, ph, tx).ack => ph < 34
<1> DEFINE begun == IF ph = 0 THEN [t EXCEPT !.long = t.armed, !.armed = FALSE] ELSE t
           asked == IF ph = 2 /\ tx = 1 THEN [begun EXCEPT !.armed = TRUE] ELSE begun
           first == PadExchange(asked.pads[0], ph, tx)
           silent == [t EXCEPT !.long = FALSE, !.armed = FALSE]
<1>0. 0 \in SubSlots /\ TapSlots \in 1..4 /\ {\h5A, \h80, \hFF} \subseteq Byte
  BY PadsAssumption DEF SubSlots, Byte
<1>1. silent \in TapState /\ silent.cards = t.cards
  BY DEF TapState
<1>2. begun \in TapState /\ begun.cards = t.cards /\ begun.pads = t.pads
  BY DEF TapState
<1>3. asked \in TapState /\ asked.cards = t.cards /\ asked.pads = t.pads
  BY <1>2 DEF TapState
<1>4. first.pad \in PadState /\ first.resp \in Byte /\ first.ack \in BOOLEAN /\ (first.ack => ph < 8)
  <2> HIDE DEF asked
  <2>1. asked.pads[0] \in PadState
    BY <1>0, <1>3 DEF TapState
  <2> QED BY <2>1, PadExchanges
<1> HIDE DEF asked, first, begun, silent
<1>5. /\ ExchangeLong(begun, ph).tap = begun
      /\ ExchangeLong(begun, ph).resp \in Byte
      /\ ExchangeLong(begun, ph).ack \in BOOLEAN
      /\ ExchangeLong(begun, ph).ack => ph < 34
  <2>1. LastBurstPhase \in Nat /\ LastBurstPhase <= 34
    BY <1>0 DEF LastBurstPhase
  <2>2. ASSUME ph \in 3..LastBurstPhase
        PROVE  BurstBytes(begun.pads[(ph - 3) \div 8])[((ph - 3) % 8) + 1] \in Byte
    <3>1. (ph - 3) \div 8 \in SubSlots /\ ((ph - 3) % 8) + 1 \in 1..8
      BY <1>0, <2>2 DEF LastBurstPhase, SubSlots
    <3>2. begun.pads[(ph - 3) \div 8] \in PadState
      BY <1>2, <3>1 DEF TapState
    <3> QED BY <3>1, <3>2, Bursting, ElementOfSeq
  <2>3. ExchangeLong(begun, ph).resp \in Byte
    BY <1>0, <2>1, <2>2 DEF ExchangeLong, OpenBus
  <2>4. /\ ExchangeLong(begun, ph).tap = begun
        /\ ExchangeLong(begun, ph).ack = (ph < LastBurstPhase)
    BY DEF ExchangeLong
  <2>5. (ph < LastBurstPhase) \in BOOLEAN /\ (ph < LastBurstPhase => ph < 34)
    BY <2>1
  <2> QED BY <2>3, <2>4, <2>5, Zenon
<1>6. [asked EXCEPT !.pads[0] = first.pad] \in TapState
      /\ [asked EXCEPT !.pads[0] = first.pad].cards = t.cards
  BY <1>0, <1>3, <1>4 DEF TapState
<1>7. ExchangeTap(t, ph, tx) =
        IF ph = 0 /\ t.pads[0].kind = "none"
        THEN [tap |-> silent, resp |-> OpenBus, ack |-> FALSE]
        ELSE IF begun.long THEN ExchangeLong(begun, ph)
        ELSE [tap |-> [asked EXCEPT !.pads[0] = first.pad], resp |-> first.resp, ack |-> first.ack]
  BY DEF ExchangeTap, asked, first, begun, silent
<1>8. CASE ph = 0 /\ t.pads[0].kind = "none"
  BY <1>0, <1>1, <1>7, <1>8 DEF OpenBus
<1>9. CASE ~(ph = 0 /\ t.pads[0].kind = "none") /\ begun.long
  <2>1. ExchangeTap(t, ph, tx) = ExchangeLong(begun, ph)
    BY <1>7, <1>9
  <2>2. ExchangeLong(begun, ph) \in [tap: TapState, resp: Byte, ack: BOOLEAN]
    BY <1>2, <1>5 DEF ExchangeLong
  <2> QED BY <1>2, <1>5, <2>1, <2>2
<1>10. CASE ~(ph = 0 /\ t.pads[0].kind = "none") /\ ~begun.long
  BY <1>4, <1>6, <1>7, <1>10
<1> QED BY <1>8, <1>9, <1>10

(***************************************************************************)
(* Cards                                                                   *)
(***************************************************************************)
LengthOf(cmd) ==
  CASE cmd = "read" -> 12 + SectorBytes [] cmd = "write" -> 10 + SectorBytes [] cmd = "id" -> 10

\* The registers of a card that a message has been sent to so far.
Follows(c, msg) ==
  /\ Len(msg) = 1 => c.cmd = "none"
  /\ Len(msg) > 1 /\ c.cmd # "none" =>
       /\ msg[2] \in DOMAIN CommandOf /\ c.cmd = CommandOf[msg[2]]
       /\ Len(msg) < LengthOf(c.cmd)
  /\ Len(msg) > 1 /\ c.cmd \in {"read", "write"} =>
       /\ Len(msg) = 5 => c.addr = msg[5] * 256
       /\ Len(msg) > 5 => c.addr = msg[5] * 256 + msg[6]
  /\ Len(msg) > 1 /\ c.cmd = "write" =>
       /\ \A i \in 1..SectorBytes : 6 + i <= Len(msg) => c.buf[i] = msg[6 + i]
       /\ Len(msg) > 6 + SectorBytes => c.sum = msg[7 + SectorBytes]

LEMMA Sizes == SectorBytes \in Nat /\ SectorBytes > 0 /\ SectorBytes <= 128 /\ NumSectors \in Nat
<1>1. SectorBytes \in 1..128 /\ NumSectors \in 1..65536
  BY MemoryCardAssumption
<1>2. SectorBytes \in Nat /\ SectorBytes > 0 /\ SectorBytes <= 128
  BY <1>1
<1>3. NumSectors \in Nat
  BY <1>1
<1> QED BY <1>2, <1>3

LEMMA CommandBytes ==
  /\ DOMAIN CommandOf = {\h52, \h57, \h53}
  /\ CommandOf[\h52] = "read" /\ CommandOf[\h57] = "write" /\ CommandOf[\h53] = "id"
BY DEF CommandOf

LEMMA FreshCard == ASSUME NEW img \in Image PROVE NewCard(img) \in CardState
<1>1. Blank \in Sector /\ 0 \in Address
  BY DEF Blank, Sector, Address
<1> QED BY <1>1 DEF NewCard, CardState

LEMMA ThawedCardType ==
  ASSUME NEW c \in CardState
  PROVE  /\ Thawed(c) \in CardState /\ Thawed(c).cmd = "none"
         /\ Thawed(c).data = c.data /\ Thawed(c).dirty = c.dirty
<1>1. Blank \in Sector /\ 0 \in Address
  BY DEF Blank, Sector, Address
<1>2. Thawed(c) \in CardState
  <2> DEFINE d == [c EXCEPT !.cmd = "none", !.addr = 0]
             e == [d EXCEPT !.buf = Blank]
  <2>1. d \in CardState
    BY <1>1 DEF CardState
  <2>2. Thawed(c) = [e EXCEPT !.sum = 0]
    BY DEF Thawed
  <2> HIDE DEF d
  <2>3. e \in CardState
    BY <1>1, <2>1 DEF CardState
  <2> HIDE DEF e
  <2>4. [e EXCEPT !.sum = 0] \in CardState
    BY <2>3 DEF CardState
  <2> QED BY <2>2, <2>4
<1>3. Thawed(c).cmd = "none" /\ Thawed(c).data = c.data /\ Thawed(c).dirty = c.dirty
  BY DEF Thawed, CardState
<1> QED BY <1>2, <1>3

\* A list of bytes given by a function on 1..n.
LEMMA ListOf ==
  ASSUME NEW n \in Nat, NEW f \in [1..n -> Byte]
  PROVE  f \in Seq(Byte) /\ Len(f) = n
<1>1. f \in Seq(Byte)
  BY SeqDef
<1>2. DOMAIN f = 1..n /\ Len(f) \in Nat /\ DOMAIN f = 1..Len(f)
  BY <1>1, LenProperties
<1>3. ASSUME NEW a \in Nat, NEW b \in Nat, 1..a = 1..b PROVE a = b
  <2>1. a \in 1..a \/ a = 0
    OBVIOUS
  <2>2. b \in 1..b \/ b = 0
    OBVIOUS
  <2> QED BY <1>3, <2>1, <2>2
<1> QED BY <1>1, <1>2, <1>3

LEMMA ListedReply ==
  ASSUME NEW c, NEW replies \in Seq(Byte), NEW ph \in Nat
  PROVE  /\ Listed(c, replies, ph).card = c
         /\ Listed(c, replies, ph).resp \in Byte
         /\ ph - 1 \in 1..Len(replies) => Listed(c, replies, ph).resp = replies[ph - 1]
         /\ Listed(c, replies, ph).ack \in BOOLEAN
         /\ Listed(c, replies, ph).ack <=> (ph > 1 /\ ph - 1 < Len(replies))
<1>0. OpenBus \in Byte /\ DOMAIN replies = 1..Len(replies) /\ Len(replies) \in Nat
  BY LenProperties DEF OpenBus, Byte
<1>1. CASE ph - 1 \in 1..Len(replies)
  <2>1. Listed(c, replies, ph) = Reply(c, replies[ph - 1], ph - 1 < Len(replies))
    BY <1>0, <1>1 DEF Listed
  <2>2. replies[ph - 1] \in Byte
    BY <1>1, ElementOfSeq
  <2>3. (ph - 1 < Len(replies)) \in BOOLEAN /\ ph > 1
    BY <1>1
  <2>4. /\ Listed(c, replies, ph).card = c /\ Listed(c, replies, ph).resp = replies[ph - 1]
        /\ Listed(c, replies, ph).ack = (ph - 1 < Len(replies))
    BY <2>1 DEF Reply
  <2> QED BY <2>2, <2>3, <2>4
<1>2. CASE ph - 1 \notin 1..Len(replies)
  <2>1. Listed(c, replies, ph) = Reply(c, OpenBus, FALSE)
    BY <1>0, <1>2 DEF Listed
  <2>2. ~(ph > 1 /\ ph - 1 < Len(replies))
    BY <1>0, <1>2
  <2> QED BY <1>0, <1>2, <2>1, <2>2 DEF Reply
<1> QED BY <1>1, <1>2

\* The two halves of an address are bytes.
LEMMA Halves ==
  ASSUME NEW addr \in Address
  PROVE  High(addr) \in Byte /\ Low(addr) \in Byte
<1>1. addr \in Nat /\ addr <= 65535
  BY DEF Address
<1>2. addr \div 256 \in Nat /\ addr \div 256 <= 255 /\ addr % 256 \in Nat /\ addr % 256 <= 255
  BY <1>1
<1> QED BY <1>2 DEF High, Low, Byte

LEMMA HalvesOf ==
  ASSUME NEW hi \in Byte, NEW lo \in Byte
  PROVE  /\ hi * 256 + lo \in Address
         /\ High(hi * 256 + lo) = hi /\ Low(hi * 256 + lo) = lo
<1>1. hi \in Nat /\ hi <= 255 /\ lo \in Nat /\ lo <= 255
  BY DEF Byte
<1>2. /\ hi * 256 + lo \in Nat /\ hi * 256 + lo <= 65535
      /\ (hi * 256 + lo) \div 256 = hi /\ (hi * 256 + lo) % 256 = lo
  BY <1>1
<1> QED BY <1>2 DEF High, Low, Address

LEMMA Bits == Sector \subseteq [1..SectorBytes -> Byte]
BY DEF Sector, Byte

LEMMA OnesCount ==
  ASSUME NEW sector \in Sector
  PROVE  /\ Ones(sector) = Cardinality({i \in 1..SectorBytes : sector[i] = 1})
         /\ IsFiniteSet({i \in 1..SectorBytes : sector[i] = 1})
         /\ Ones(sector) \in Nat
<1>1. IsFiniteSet(1..SectorBytes)
  BY Sizes, FS_Interval
<1>2. {i \in 1..SectorBytes : sector[i] = 1} \in SUBSET (1..SectorBytes)
  OBVIOUS
<1>3. IsFiniteSet({i \in 1..SectorBytes : sector[i] = 1})
  BY <1>1, <1>2, FS_Subset
<1>4. DOMAIN sector = 1..SectorBytes
  BY DEF Sector
<1> QED BY <1>3, <1>4, FS_CardinalityType DEF Ones

LEMMA ChecksumIsABit ==
  ASSUME NEW addr \in Address, NEW sector \in Sector
  PROVE  Checksum(addr, sector) \in 0..1
<1>1. Ones(sector) \in Nat
  BY OnesCount
<1>2. High(addr) \in Nat /\ Low(addr) \in Nat
  BY Halves DEF Byte
<1>3. \A n \in Nat : n % 2 \in 0..1
  OBVIOUS
<1>4. High(addr) + Low(addr) + Ones(sector) \in Nat
  BY <1>1, <1>2
<1> QED BY <1>3, <1>4 DEF Checksum

LEMMA CardFields ==
  ASSUME NEW c \in CardState
  PROVE  /\ c.data \in Image /\ c.fresh \in BOOLEAN /\ c.dirty \in BOOLEAN
         /\ c.cmd \in {"none", "read", "write", "id"}
         /\ c.addr \in Address /\ c.buf \in Sector /\ c.sum \in 0..1
BY DEF CardState

\* The address bytes end up in the address register.
LEMMA Addressing ==
  ASSUME NEW c \in CardState, c.cmd \in {"read", "write"}, NEW msg \in Seq(Byte), NEW tx \in Byte,
         Len(msg) > 1, Follows(c, msg)
  PROVE  LET m == Append(msg, tx)
             a == Addressed(c, Len(msg), tx)
         IN /\ a \in CardState /\ a.cmd = c.cmd /\ a.data = c.data /\ a.dirty = c.dirty
            /\ a.buf = c.buf /\ a.sum = c.sum
            /\ Len(m) = 5 => a.addr = m[5] * 256
            /\ Len(m) > 5 => a.addr = m[5] * 256 + m[6]
<1> DEFINE m == Append(msg, tx)
           a == Addressed(c, Len(msg), tx)
<1>0. /\ Len(msg) \in Nat /\ Len(m) = Len(msg) + 1
      /\ \A i \in 1..Len(msg) : m[i] = msg[i] /\ msg[i] \in Byte
      /\ m[Len(msg) + 1] = tx
  BY AppendProperties, LenProperties, ElementOfSeq
<1>4. a = Addressed(c, Len(msg), tx)
  OBVIOUS
<1> SUFFICES /\ a \in CardState /\ a.cmd = c.cmd /\ a.data = c.data /\ a.dirty = c.dirty
             /\ a.buf = c.buf /\ a.sum = c.sum
             /\ Len(m) = 5 => a.addr = m[5] * 256
             /\ Len(m) > 5 => a.addr = m[5] * 256 + m[6]
  OBVIOUS
<1> HIDE DEF m, a
<1>1. CASE Len(msg) = 4
  <2>1. a = [c EXCEPT !.addr = tx * 256]
    BY <1>1, <1>4 DEF Addressed
  <2>2. tx * 256 \in Address
    BY DEF Byte, Address
  <2>3. m[5] = tx /\ Len(m) = 5
    BY <1>0, <1>1
  <2> QED BY <2>1, <2>2, <2>3 DEF CardState
<1>2. CASE Len(msg) = 5
  <2>1. a = [c EXCEPT !.addr = c.addr + tx]
    BY <1>2, <1>4 DEF Addressed, CardState
  <2>2. c.addr = msg[5] * 256
    BY <1>2 DEF Follows
  <2>3. m[5] = msg[5] /\ msg[5] \in Byte /\ m[6] = tx /\ Len(m) = 6
    BY <1>0, <1>2
  <2>4. c.addr + tx = m[5] * 256 + m[6] /\ c.addr + tx \in Address
    BY <2>2, <2>3, HalvesOf
  <2> QED BY <2>1, <2>3, <2>4 DEF CardState
<1>3. CASE Len(msg) \notin {4, 5}
  <2>1. a = c
    BY <1>3, <1>4 DEF Addressed
  <2>2. Len(msg) > 5 => m[5] = msg[5] /\ m[6] = msg[6]
    BY <1>0
  <2>4. Len(m) # 5 /\ (Len(m) > 5 => Len(msg) > 5)
    <3> DEFINE k == Len(msg)
               n == Len(m)
    <3>1. k \in Nat /\ n = k + 1 /\ k # 4 /\ k # 5
      BY <1>0, <1>3
    <3> HIDE DEF k, n
    <3>2. n # 5 /\ (n > 5 => k > 5)
      BY <3>1
    <3> QED BY <3>2 DEF k, n
  <2>5. Len(msg) > 5 => c.addr = msg[5] * 256 + msg[6]
    BY DEF Follows
  <2> QED BY <2>1, <2>2, <2>4, <2>5
<1> QED BY <1>1, <1>2, <1>3

LEMMA ContentsType ==
  ASSUME NEW img \in Image, NEW addr \in Address
  PROVE  Contents(img, addr) \in Sector
<1>1. CASE InRange(addr)
  BY <1>1, Sizes DEF Contents, InRange, Image, Address
<1>2. CASE ~InRange(addr)
  BY <1>2 DEF Contents, Blank, Sector
<1> QED BY <1>1, <1>2

\* The replies of a read: eight bytes, the sector, its checksum and the end.
RepliesOfRead(hi, lo, sector, sum, fin) ==
  <<\h5A, \h5D, 0, 0, \h5C, \h5D, hi, lo>> \o sector \o <<sum, fin>>

LEMMA ReadReplies ==
  ASSUME NEW hi \in Byte, NEW lo \in Byte, NEW sector \in Sector, NEW sum \in Byte, NEW fin \in Byte
  PROVE  /\ RepliesOfRead(hi, lo, sector, sum, fin) \in Seq(Byte)
         /\ Len(RepliesOfRead(hi, lo, sector, sum, fin)) = 10 + SectorBytes
         /\ \A j \in 9..(8 + SectorBytes) : RepliesOfRead(hi, lo, sector, sum, fin)[j] = sector[j - 8]
         /\ RepliesOfRead(hi, lo, sector, sum, fin)[10 + SectorBytes] = fin
<1> DEFINE all == RepliesOfRead(hi, lo, sector, sum, fin)
           head == <<\h5A, \h5D, 0, 0, \h5C, \h5D, hi, lo>>
           last == <<sum, fin>>
           both == head \o sector
<1>1. {0, \h5A, \h5D, \h5C} \subseteq Byte
  BY DEF Byte
<1>2. head \in Seq(Byte) /\ Len(head) = 8
  BY <1>1
<1>3. last \in Seq(Byte) /\ Len(last) = 2 /\ last[2] = fin
  OBVIOUS
<1>4. sector \in Seq(Byte) /\ Len(sector) = SectorBytes
  BY Bits, Sizes, ListOf
<1> HIDE DEF head, last, all
<1>5. /\ both \in Seq(Byte) /\ Len(both) = Len(head) + Len(sector)
      /\ \A i \in 1..(Len(head) + Len(sector)) :
           both[i] = IF i <= Len(head) THEN head[i] ELSE sector[i - Len(head)]
  BY <1>2, <1>4, ConcatProperties
<1> HIDE DEF both
<1>12. both \in Seq(Byte)
  BY <1>5
<1>6. /\ both \o last \in Seq(Byte) /\ Len(both \o last) = Len(both) + Len(last)
      /\ \A i \in 1..(Len(both) + Len(last)) :
           (both \o last)[i] = IF i <= Len(both) THEN both[i] ELSE last[i - Len(both)]
  BY <1>3, <1>12, ConcatProperties
<1>7. all = both \o last
  BY DEF both, head, last, all, RepliesOfRead
<1>8. Len(both) = 8 + SectorBytes
  BY <1>2, <1>4, <1>5
<1>9. Len(all) = 10 + SectorBytes
  BY <1>3, <1>6, <1>7, <1>8, Sizes
<1>10. ASSUME NEW j \in 9..(8 + SectorBytes) PROVE all[j] = sector[j - 8]
  <2>1. /\ j \in 1..(8 + SectorBytes) /\ ~(j <= 8) /\ j <= 8 + SectorBytes
        /\ j \in 1..((8 + SectorBytes) + 2)
    BY Sizes
  <2>2. both[j] = sector[j - 8]
    BY <1>2, <1>4, <1>5, <2>1
  <2>3. all[j] = both[j]
    BY <1>3, <1>6, <1>7, <1>8, <2>1
  <2> QED BY <2>2, <2>3
<1>11. all[10 + SectorBytes] = fin
  <2>1. /\ 10 + SectorBytes \in 1..((8 + SectorBytes) + 2)
        /\ ~(10 + SectorBytes <= 8 + SectorBytes)
        /\ (10 + SectorBytes) - (8 + SectorBytes) = 2
    BY Sizes
  <2> QED BY <1>3, <1>6, <1>7, <1>8, <2>1
<1> QED BY <1>6, <1>7, <1>9, <1>10, <1>11 DEF all

LEMMA ReadData ==
  ASSUME NEW hi \in Byte, NEW lo \in Byte, NEW sector \in Sector, NEW sum \in Byte, NEW fin \in Byte,
         NEW j \in 9..(8 + SectorBytes)
  PROVE  RepliesOfRead(hi, lo, sector, sum, fin)[j] = sector[j - 8]
BY ReadReplies

LEMMA Growing ==
  ASSUME NEW msg \in Seq(Byte), NEW tx \in Byte, NEW m, m = Append(msg, tx)
  PROVE  /\ m \in Seq(Byte) /\ Len(msg) \in Nat /\ Len(m) = Len(msg) + 1
         /\ \A i \in 1..Len(msg) : m[i] = msg[i] /\ msg[i] \in Byte
         /\ m[Len(msg) + 1] = tx
BY AppendProperties, LenProperties, ElementOfSeq

\* What a message says it is, from the command its card has taken.
LEMMA SameCommand ==
  ASSUME NEW c \in CardState, NEW msg \in Seq(Byte), Len(msg) > 1, Follows(c, msg), c.cmd # "none",
         NEW tx \in Byte, NEW m, m = Append(msg, tx)
  PROVE  /\ Sessions!Reads(m) <=> c.cmd = "read"
         /\ Sessions!Writes(m) <=> c.cmd = "write"
         /\ Sessions!Asks(m) <=> c.cmd = "id"
         /\ Sessions!Length(m) = LengthOf(c.cmd)
<1>1. m[2] = msg[2] /\ Len(m) > 1
  BY Growing
<1>2. msg[2] \in {\h52, \h57, \h53} /\ c.cmd = CommandOf[msg[2]]
  BY CommandBytes DEF Follows
<1>3. \/ m[2] = \h52 /\ c.cmd = "read"
      \/ m[2] = \h57 /\ c.cmd = "write"
      \/ m[2] = \h53 /\ c.cmd = "id"
  BY <1>1, <1>2, CommandBytes
<1>4. /\ Sessions!Reads(m) <=> m[2] = \h52
      /\ Sessions!Writes(m) <=> m[2] = \h57
      /\ Sessions!Asks(m) <=> m[2] = \h53
  BY <1>1 DEF Sessions!Reads, Sessions!Writes, Sessions!Asks
<1>5. Sessions!Length(m) = CASE Sessions!Reads(m)  -> 12 + SectorBytes
                             [] Sessions!Writes(m) -> 10 + SectorBytes
                             [] Sessions!Asks(m)   -> 10
                             [] OTHER       -> 2
  BY DEF Sessions!Length
<1> QED BY <1>3, <1>4, <1>5 DEF LengthOf

\* What a card makes of the byte tx after the bytes msg is what a message says.
AsToldTo(c, msg, tx, r) ==
  LET m == Append(msg, tx)
  IN /\ r.card \in CardState /\ r.resp \in Byte /\ r.ack \in BOOLEAN
     /\ r.ack <=> Len(m) < Sessions!Length(m)
     /\ r.ack => Follows(r.card, m) /\ (Len(m) > 1 => r.card.cmd # "none")
     /\ Sessions!Told(c.data, m, r.resp)
     /\ IF Sessions!Takes(m)
        THEN /\ r.card.data = [c.data EXCEPT ![Sessions!AddressOf(m)] = Sessions!DataOf(m)]
             /\ r.card.dirty
        ELSE r.card.data = c.data /\ r.card.dirty = c.dirty

LEMMA ReadExchange ==
  ASSUME NEW c \in CardState, NEW msg \in Seq(Byte), Len(msg) > 1, Follows(c, msg), c.cmd = "read",
         NEW tx \in Byte
  PROVE  AsToldTo(c, msg, tx, ExchangeRead(c, Len(msg), tx))
<1> DEFINE m == Append(msg, tx)
           a == Addressed(c, Len(msg), tx)
           sector == Contents(c.data, c.addr)
           fin == IF InRange(c.addr) THEN Good ELSE OpenBus
           sum == Checksum(c.addr, sector)
           all == RepliesOfRead(High(c.addr), Low(c.addr), sector, sum, fin)
           r == ExchangeRead(c, Len(msg), tx)
<1>1. r = Listed(a, all, Len(msg))
  BY DEF ExchangeRead, RepliesOfRead
<1>2. sector \in Sector /\ sum \in Byte /\ fin \in Byte /\ High(c.addr) \in Byte /\ Low(c.addr) \in Byte
  <2>1. c.data \in Image /\ c.addr \in Address
    BY CardFields
  <2>2. sector \in Sector
    BY <2>1, ContentsType
  <2>3. sum \in 0..1
    <3> HIDE DEF sector
    <3> QED BY <2>1, <2>2, ChecksumIsABit
  <2>4. fin \in Byte /\ 0..1 \subseteq Byte
    BY DEF Good, OpenBus, Byte
  <2>5. High(c.addr) \in Byte /\ Low(c.addr) \in Byte
    BY <2>1, Halves
  <2> HIDE DEF sector, sum, fin
  <2> QED BY <2>2, <2>3, <2>4, <2>5
<1> HIDE DEF m, a, sector, fin, sum, all
<1>3. /\ all \in Seq(Byte) /\ Len(all) = 10 + SectorBytes
      /\ \A j \in 9..(8 + SectorBytes) : all[j] = sector[j - 8]
      /\ all[10 + SectorBytes] = fin
  <2>1. all = RepliesOfRead(High(c.addr), Low(c.addr), sector, sum, fin)
    BY DEF all
  <2>2. sector \in Sector /\ sum \in Byte /\ fin \in Byte /\ High(c.addr) \in Byte /\ Low(c.addr) \in Byte
    BY <1>2
  <2>3. RepliesOfRead(High(c.addr), Low(c.addr), sector, sum, fin) \in Seq(Byte)
    BY <2>2, ReadReplies
  <2>4. Len(RepliesOfRead(High(c.addr), Low(c.addr), sector, sum, fin)) = 10 + SectorBytes
    BY <2>2, ReadReplies
  <2>5. RepliesOfRead(High(c.addr), Low(c.addr), sector, sum, fin)[10 + SectorBytes] = fin
    BY <2>2, ReadReplies
  <2>6. \A j \in 9..(8 + SectorBytes) :
          RepliesOfRead(High(c.addr), Low(c.addr), sector, sum, fin)[j] = sector[j - 8]
    BY <2>2, ReadData
  <2> QED BY <2>1, <2>3, <2>4, <2>5, <2>6
<1>4. /\ a \in CardState /\ a.cmd = "read" /\ a.data = c.data /\ a.dirty = c.dirty
      /\ Len(m) = 5 => a.addr = m[5] * 256
      /\ Len(m) > 5 => a.addr = m[5] * 256 + m[6]
  <2>1. c.cmd \in {"read", "write"}
    OBVIOUS
  <2> QED BY <2>1, Addressing DEF a, m
<1>5. /\ m \in Seq(Byte) /\ Len(msg) \in Nat /\ Len(m) = Len(msg) + 1
      /\ \A i \in 1..Len(msg) : m[i] = msg[i] /\ msg[i] \in Byte
  BY Growing DEF m
<1>6. /\ Sessions!Reads(m) /\ ~Sessions!Writes(m) /\ Sessions!Length(m) = 12 + SectorBytes
  BY SameCommand DEF m, LengthOf
<1>7. /\ r.card = a /\ r.resp \in Byte /\ r.ack \in BOOLEAN
      /\ Len(msg) - 1 \in 1..Len(all) => r.resp = all[Len(msg) - 1]
      /\ r.ack <=> (Len(msg) > 1 /\ Len(msg) - 1 < Len(all))
  BY <1>1, <1>3, <1>5, ListedReply
<1> HIDE DEF r
<1>8. r.ack <=> Len(m) < 12 + SectorBytes
  BY <1>3, <1>5, <1>7, Sizes
<1>9. m[2] \in DOMAIN CommandOf /\ CommandOf[m[2]] = "read"
  BY <1>6, CommandBytes DEF Sessions!Reads
<1>10. r.ack => Follows(r.card, m)
  <2>1. r.card.cmd = "read" /\ LengthOf("read") = 12 + SectorBytes
    BY <1>4, <1>7 DEF LengthOf
  <2>2. Len(m) # 1
    BY <1>5
  <2> QED BY <1>4, <1>7, <1>8, <1>9, <2>1, <2>2 DEF Follows
<1>11. Len(msg) < 12 + SectorBytes
  BY DEF Follows, LengthOf
<1>12. ASSUME Len(msg) > 5
       PROVE  c.addr = Sessions!AddressOf(m)
  <2>1. m[5] = msg[5] /\ m[6] = msg[6]
    BY <1>5, <1>12
  <2> QED BY <1>12, <2>1 DEF Follows, Sessions!AddressOf
<1>13. Sessions!Told(c.data, m, r.resp)
  <2>1. ASSUME Len(m) \in 11..(10 + SectorBytes)
        PROVE  r.resp = Sessions!SectorAt(c.data, Sessions!AddressOf(m))[Len(m) - 10]
    <3>1. /\ Len(msg) - 1 \in 1..(10 + SectorBytes) /\ Len(msg) - 1 \in 9..(8 + SectorBytes)
          /\ (Len(msg) - 1) - 8 = Len(m) - 10 /\ Len(msg) > 5
      BY <1>5, <2>1, Sizes
    <3>2. r.resp = sector[Len(m) - 10]
      BY <1>3, <1>7, <3>1
    <3>3. sector = Sessions!SectorAt(c.data, Sessions!AddressOf(m))
      BY <1>12, <3>1 DEF sector, Contents, InRange, Blank, Sessions!SectorAt
    <3> QED BY <3>2, <3>3
  <2>2. ASSUME Len(m) = 12 + SectorBytes
        PROVE  r.resp = \h47 <=> Sessions!AddressOf(m) < NumSectors
    <3>1. Len(msg) - 1 = 10 + SectorBytes /\ Len(msg) > 5 /\ Len(msg) - 1 \in 1..(10 + SectorBytes)
      BY <1>5, <2>2, Sizes
    <3>2. r.resp = fin
      BY <1>3, <1>7, <3>1
    <3> QED BY <1>12, <3>1, <3>2 DEF fin, InRange, Good, OpenBus
  <2> QED BY <1>6, <2>1, <2>2 DEF Sessions!Told
<1>14. ~Sessions!Takes(m)
  BY <1>6 DEF Sessions!Takes
<1>15. AsToldTo(c, msg, tx, r)
  BY <1>4, <1>6, <1>7, <1>8, <1>10, <1>13, <1>14 DEF AsToldTo, m
<1> QED BY <1>15 DEF r

RepliesOfWrite(fin) ==
  <<\h5A, \h5D, 0, 0>> \o [i \in 1..(SectorBytes + 1) |-> 0] \o <<\h5C, \h5D, fin>>

LEMMA WriteReplies ==
  ASSUME NEW fin \in Byte
  PROVE  /\ RepliesOfWrite(fin) \in Seq(Byte) /\ Len(RepliesOfWrite(fin)) = 8 + SectorBytes
         /\ RepliesOfWrite(fin)[8 + SectorBytes] = fin
<1> DEFINE all == RepliesOfWrite(fin)
           head == <<\h5A, \h5D, 0, 0>>
           zeros == [i \in 1..(SectorBytes + 1) |-> 0]
           last == <<\h5C, \h5D, fin>>
           both == head \o zeros
<1>1. {0, \h5A, \h5D, \h5C} \subseteq Byte
  BY DEF Byte
<1>2. head \in Seq(Byte) /\ Len(head) = 4
  BY <1>1
<1>3. last \in Seq(Byte) /\ Len(last) = 3 /\ last[3] = fin
  BY <1>1
<1>4. zeros \in Seq(Byte) /\ Len(zeros) = SectorBytes + 1
  BY <1>1, Sizes, ListOf
<1>5. all = both \o last
  BY DEF RepliesOfWrite
<1> HIDE DEF all, head, zeros, last
<1>6. both \in Seq(Byte) /\ Len(both) = Len(head) + Len(zeros)
  BY <1>2, <1>4, ConcatProperties
<1> HIDE DEF both
<1>10. both \in Seq(Byte)
  BY <1>6
<1>11. /\ both \o last \in Seq(Byte) /\ Len(both \o last) = Len(both) + Len(last)
       /\ \A i \in 1..(Len(both) + Len(last)) :
            (both \o last)[i] = IF i <= Len(both) THEN both[i] ELSE last[i - Len(both)]
  BY <1>3, <1>10, ConcatProperties
<1>7. /\ all \in Seq(Byte) /\ Len(all) = Len(both) + Len(last)
      /\ \A i \in 1..(Len(both) + Len(last)) :
           all[i] = IF i <= Len(both) THEN both[i] ELSE last[i - Len(both)]
  BY <1>5, <1>11
<1>8. Len(both) = 5 + SectorBytes /\ Len(all) = 8 + SectorBytes
  BY <1>2, <1>3, <1>4, <1>6, <1>7, Sizes
<1>9. all[8 + SectorBytes] = fin
  <2>1. /\ 8 + SectorBytes \in 1..((5 + SectorBytes) + 3)
        /\ ~(8 + SectorBytes <= 5 + SectorBytes)
        /\ (8 + SectorBytes) - (5 + SectorBytes) = 3
    BY Sizes
  <2> QED BY <1>3, <1>7, <1>8, <2>1
<1> QED BY <1>7, <1>8, <1>9 DEF all

LEMMA OddBytes ==
  ASSUME NEW m \in Seq(Byte), NEW k \in 1..Len(m)
  PROVE  /\ m[k] % 2 \in 0..1
         /\ Cardinality({i \in {k} : m[i] % 2 = 1}) = m[k] % 2
         /\ IsFiniteSet({i \in {k} : m[i] % 2 = 1})
<1>1. m[k] \in Nat
  <2>1. m[k] \in Byte
    BY ElementOfSeq
  <2>2. Byte \subseteq Nat
    BY DEF Byte
  <2> QED BY <2>1, <2>2
<1>2. m[k] % 2 \in 0..1
  BY <1>1
<1>3. CASE m[k] % 2 = 1
  <2>1. {i \in {k} : m[i] % 2 = 1} = {k}
    BY <1>3
  <2> QED BY <1>2, <1>3, <2>1, FS_Singleton
<1>4. CASE m[k] % 2 = 0
  <2>1. {i \in {k} : m[i] % 2 = 1} = {}
    BY <1>4
  <2> QED BY <1>2, <1>4, <2>1, FS_EmptySet
<1> QED BY <1>2, <1>3, <1>4

\* The checksum of the registers is the parity of the message they come from.
LEMMA ChecksumAgrees ==
  ASSUME NEW m \in Seq(Byte), Len(m) > 6 + SectorBytes, NEW sector \in Sector,
         \A i \in 1..SectorBytes : sector[i] = m[6 + i]
  PROVE  Checksum(m[5] * 256 + m[6], sector) = Sessions!Parity(m)
<1> DEFINE odd == {i \in 5..(6 + SectorBytes) : m[i] % 2 = 1}
           high == {i \in {5} : m[i] % 2 = 1}
           low == {i \in {6} : m[i] % 2 = 1}
           data == {i \in 7..(6 + SectorBytes) : m[i] % 2 = 1}
           ones == {i \in 1..SectorBytes : sector[i] = 1}
<1>1. /\ m[5] \in Byte /\ m[6] \in Byte /\ 5 \in 1..Len(m) /\ 6 \in 1..Len(m)
  BY Sizes, ElementOfSeq
<1>2. odd = (high \cup low) \cup data
  BY Sizes
<1>3. IsFiniteSet(ones) /\ Cardinality(ones) = Ones(sector) /\ Ones(sector) \in Nat
  BY OnesCount
<1>4. IsFiniteSet(data) /\ Cardinality(data) = Cardinality(ones)
  <2> DEFINE f == [i \in ones |-> i + 6]
  <2>1. ASSUME NEW i \in ones PROVE i + 6 \in data
    <3>1. m[6 + i] = 1 /\ i \in Nat /\ i + 6 = 6 + i /\ i + 6 \in 7..(6 + SectorBytes)
      BY Sizes
    <3> QED BY <3>1
  <2>2. ASSUME NEW j \in data PROVE \E i \in ones : i + 6 = j
    <3>1. j - 6 \in 1..SectorBytes /\ 6 + (j - 6) = j /\ (j - 6) + 6 = j
      BY Sizes
    <3>2. sector[j - 6] = m[j] /\ sector[j - 6] \in 0..1
      BY <3>1 DEF Sector
    <3>3. sector[j - 6] = 1
      BY <3>2
    <3> QED BY <3>1, <3>3
  <2>3. \A a, b \in ones : f[a] = f[b] => a = b
    BY Sizes
  <2>4. f \in Bijection(ones, data)
    BY <2>1, <2>2, <2>3 DEF Bijection, Injection, Surjection, IsInjective
  <2> HIDE DEF f, ones, data
  <2>5. ExistsBijection(ones, data)
    BY <2>4 DEF ExistsBijection
  <2> QED BY <1>3, <2>5, FS_Bijection
<1>5. /\ IsFiniteSet(high) /\ Cardinality(high) = m[5] % 2 /\ m[5] % 2 \in 0..1
      /\ IsFiniteSet(low) /\ Cardinality(low) = m[6] % 2 /\ m[6] % 2 \in 0..1
  BY <1>1, OddBytes
<1>6. high \cap low = {} /\ (high \cup low) \cap data = {}
  BY Sizes
<1> HIDE DEF odd, high, low, data, ones
<1>7. IsFiniteSet(high \cup low) /\ Cardinality(high \cup low) = (m[5] % 2) + (m[6] % 2)
  <2>1. Cardinality(high \cup low) = Cardinality(high) + Cardinality(low) - Cardinality({})
    BY <1>5, <1>6, FS_Union
  <2>2. Cardinality({}) = 0 /\ IsFiniteSet(high \cup low)
    BY <1>5, FS_Union, FS_EmptySet
  <2> QED BY <1>5, <2>1, <2>2
<1>8. Cardinality(odd) = ((m[5] % 2) + (m[6] % 2)) + Ones(sector)
  <2>1. Cardinality(odd) = Cardinality(high \cup low) + Cardinality(data) - 0
    BY <1>2, <1>4, <1>6, <1>7, FS_Union, FS_EmptySet
  <2> QED BY <1>3, <1>4, <1>5, <1>7, <2>1
<1>9. \A a \in Nat, b \in Nat, n \in Nat : (a + b + n) % 2 = (((a % 2) + (b % 2)) + n) % 2
  OBVIOUS
<1>10. (m[5] + m[6] + Ones(sector)) % 2 = (((m[5] % 2) + (m[6] % 2)) + Ones(sector)) % 2
  <2>1. m[5] \in Nat /\ m[6] \in Nat
    <3>1. Byte \subseteq Nat
      BY DEF Byte
    <3> QED BY <1>1, <3>1
  <2> QED BY <1>3, <1>9, <2>1
<1>11. High(m[5] * 256 + m[6]) = m[5] /\ Low(m[5] * 256 + m[6]) = m[6]
  BY <1>1, HalvesOf
<1>12. Sessions!Parity(m) = Cardinality(odd) % 2
  BY DEF Sessions!Parity, odd, Cardinality, Sessions!Cardinality
<1>13. Checksum(m[5] * 256 + m[6], sector) = (m[5] + m[6] + Ones(sector)) % 2
  BY <1>11 DEF Checksum
<1> QED BY <1>8, <1>10, <1>12, <1>13

\* What a byte of a write leaves in the registers.
Buffered(c, ph, tx) == [c EXCEPT !.buf[ph - 5] = tx]
TakenBy(c, ph, tx) ==
  CASE ph \in DataPhases -> Buffered(c, ph, tx)
    [] ph = SumPhase     -> [c EXCEPT !.sum = tx]
    [] ph = CommitPhase  -> CommitWrite(c)
    [] OTHER             -> Addressed(c, ph, tx)

LEMMA Positions ==
  ASSUME NEW k \in Nat, NEW i \in 1..SectorBytes,
         k >= 6 + SectorBytes \/ (k < 6 /\ 6 + i <= k + 1)
  PROVE  6 + i <= k /\ 6 + i \in 1..k
BY Sizes

LEMMA WriteAgrees ==
  ASSUME NEW c \in CardState, NEW m \in Seq(Byte), Len(m) = 10 + SectorBytes,
         c.addr = m[5] * 256 + m[6], \A i \in 1..SectorBytes : c.buf[i] = m[6 + i],
         c.sum = m[7 + SectorBytes], m[2] = \h57
  PROVE  /\ Verdict(c) = Good <=> Sessions!Takes(m)
         /\ c.addr = Sessions!AddressOf(m) /\ c.buf = Sessions!DataOf(m)
         /\ Verdict(c) \in Byte
<1>1. c.buf \in Sector /\ c.addr \in Address
  BY CardFields
<1>2. Checksum(c.addr, c.buf) = Sessions!Parity(m)
  <2>1. Len(m) > 6 + SectorBytes
    BY Sizes
  <2>2. Checksum(m[5] * 256 + m[6], c.buf) = Sessions!Parity(m)
    BY <1>1, <2>1, ChecksumAgrees
  <2> QED BY <2>2
<1>3. Sessions!Writes(m) /\ Sessions!Length(m) = 10 + SectorBytes
  <2>1. Len(m) > 1
    BY Sizes
  <2>2. Sessions!Writes(m) /\ ~Sessions!Reads(m) /\ ~Sessions!Asks(m)
    BY <2>1 DEF Sessions!Writes, Sessions!Reads, Sessions!Asks
  <2>3. Sessions!Length(m) = CASE Sessions!Reads(m)  -> 12 + SectorBytes
                               [] Sessions!Writes(m) -> 10 + SectorBytes
                               [] Sessions!Asks(m)   -> 10
                               [] OTHER       -> 2
    BY DEF Sessions!Length
  <2> QED BY <2>2, <2>3
<1>4. c.addr = Sessions!AddressOf(m) /\ c.sum = Sessions!SumOf(m)
  BY DEF Sessions!AddressOf, Sessions!SumOf
<1>5. c.buf = Sessions!DataOf(m)
  BY <1>1 DEF Sessions!DataOf, Sector
<1>6. Verdict(c) = Good <=> c.addr < NumSectors /\ Checksum(c.addr, c.buf) = c.sum
  BY DEF Verdict, InRange, Good, OpenBus, BadSum
<1>7. Verdict(c) \in Byte
  BY DEF Verdict, Good, OpenBus, BadSum, Byte
<1> QED BY <1>2, <1>3, <1>4, <1>5, <1>6, <1>7 DEF Sessions!Takes

LEMMA WriteExchange ==
  ASSUME NEW c \in CardState, NEW msg \in Seq(Byte), Len(msg) > 1, Follows(c, msg), c.cmd = "write",
         NEW tx \in Byte,
         \A i \in 7..(7 + SectorBytes) : i <= Len(Append(msg, tx)) => Append(msg, tx)[i] \in 0..1
  PROVE  AsToldTo(c, msg, tx, ExchangeWrite(c, Len(msg), tx))
<1> DEFINE m == Append(msg, tx)
           a == TakenBy(c, Len(msg), tx)
           fin == Verdict(c)
           all == RepliesOfWrite(fin)
           r == ExchangeWrite(c, Len(msg), tx)
<1>1. r = Listed(a, all, Len(msg))
  BY DEF ExchangeWrite, RepliesOfWrite, TakenBy, Buffered
<1>2. fin \in Byte
  BY DEF Verdict, Good, OpenBus, BadSum, Byte
<1>3. all \in Seq(Byte) /\ Len(all) = 8 + SectorBytes /\ all[8 + SectorBytes] = fin
  BY <1>2, WriteReplies
<1>4. \A i \in 7..(7 + SectorBytes) : i <= Len(m) => m[i] \in 0..1
  OBVIOUS
<1> HIDE DEF m, a, fin, all
<1>5. /\ m \in Seq(Byte) /\ Len(msg) \in Nat /\ Len(m) = Len(msg) + 1
      /\ \A i \in 1..Len(msg) : m[i] = msg[i] /\ msg[i] \in Byte
      /\ m[Len(msg) + 1] = tx
  BY Growing DEF m
<1>6. /\ ~Sessions!Reads(m) /\ Sessions!Writes(m) /\ Sessions!Length(m) = 10 + SectorBytes
  BY SameCommand DEF m, LengthOf
<1>7. /\ r.card = a /\ r.resp \in Byte /\ r.ack \in BOOLEAN
      /\ Len(msg) - 1 \in 1..Len(all) => r.resp = all[Len(msg) - 1]
      /\ r.ack <=> (Len(msg) > 1 /\ Len(msg) - 1 < Len(all))
  BY <1>1, <1>3, <1>5, ListedReply
<1> HIDE DEF r
<1>8. r.ack <=> Len(m) < 10 + SectorBytes
  BY <1>3, <1>5, <1>7, Sizes
<1>9. m[2] = \h57 /\ m[2] \in DOMAIN CommandOf /\ CommandOf[m[2]] = "write"
  BY <1>6, CommandBytes DEF Sessions!Writes
<1>10. Len(msg) < 10 + SectorBytes
  BY DEF Follows, LengthOf
<1>11. /\ Len(msg) = 5 => c.addr = msg[5] * 256
       /\ Len(msg) > 5 => c.addr = msg[5] * 256 + msg[6] /\ msg[5] = m[5] /\ msg[6] = m[6]
       /\ \A i \in 1..SectorBytes : 6 + i <= Len(msg) => c.buf[i] = msg[6 + i]
       /\ Len(msg) > 6 + SectorBytes => c.sum = msg[7 + SectorBytes]
  BY <1>5 DEF Follows
\* The byte before the last leaves the registers as the whole message has them.
<1>12. ASSUME Len(msg) = CommitPhase
       PROVE  /\ Verdict(c) = Good <=> Sessions!Takes(m)
              /\ c.addr = Sessions!AddressOf(m) /\ c.buf = Sessions!DataOf(m)
  <2>1. Len(m) = 10 + SectorBytes /\ Len(msg) > 5 /\ Len(msg) > 6 + SectorBytes
    BY <1>5, <1>12, Sizes DEF CommitPhase
  <2>2. c.sum = m[7 + SectorBytes]
    <3>1. 7 + SectorBytes \in 1..Len(msg)
      BY <1>12, Sizes DEF CommitPhase
    <3> QED BY <1>5, <1>11, <2>1, <3>1
  <2>3. ASSUME NEW i \in 1..SectorBytes PROVE c.buf[i] = m[6 + i]
    <3>1. 6 + i \in 1..Len(msg) /\ 6 + i <= Len(msg)
      BY <1>12, Sizes DEF CommitPhase
    <3> QED BY <1>5, <1>11, <3>1
  <2> QED BY <1>5, <1>9, <1>11, <2>1, <2>2, <2>3, WriteAgrees
<1>13. ASSUME Len(msg) # CommitPhase PROVE ~Sessions!Takes(m)
  <2>1. Len(m) # 10 + SectorBytes
    BY <1>5, <1>13, Sizes DEF CommitPhase
  <2> QED BY <1>6, <2>1 DEF Sessions!Takes
\* The registers.
<1>14. /\ a \in CardState /\ a.cmd = "write"
       /\ r.ack => Follows(a, m)
       /\ IF Sessions!Takes(m)
          THEN /\ a.data = [c.data EXCEPT ![Sessions!AddressOf(m)] = Sessions!DataOf(m)]
               /\ a.dirty
          ELSE a.data = c.data /\ a.dirty = c.dirty
  <2>1. SUFFICES
          /\ a \in CardState /\ a.cmd = "write"
          /\ r.ack => /\ Len(m) = 5 => a.addr = m[5] * 256
                      /\ Len(m) > 5 => a.addr = m[5] * 256 + m[6]
                      /\ \A i \in 1..SectorBytes : 6 + i <= Len(m) => a.buf[i] = m[6 + i]
                      /\ Len(m) > 6 + SectorBytes => a.sum = m[7 + SectorBytes]
          /\ IF Sessions!Takes(m)
             THEN /\ a.data = [c.data EXCEPT ![Sessions!AddressOf(m)] = Sessions!DataOf(m)]
                  /\ a.dirty
             ELSE a.data = c.data /\ a.dirty = c.dirty
    <3>1. Len(m) # 1 /\ LengthOf("write") = 10 + SectorBytes
      BY <1>5 DEF LengthOf
    <3> QED BY <1>8, <1>9, <3>1 DEF Follows
  <2>2. CASE Len(msg) \in DataPhases
    <3>1. a = [c EXCEPT !.buf[Len(msg) - 5] = tx] /\ Len(msg) # CommitPhase
      <4>1. Len(msg) # CommitPhase
        BY <1>5, <2>2, Sizes DEF DataPhases, CommitPhase
      <4>2. a = Buffered(c, Len(msg), tx)
        <5>1. Len(msg) # SumPhase
          BY <1>5, <2>2, Sizes DEF DataPhases, SumPhase
        <5> QED BY <2>2, <4>1, <5>1 DEF a, TakenBy
      <4> QED BY <4>1, <4>2 DEF Buffered
    <3>2. Len(m) \in 7..(6 + SectorBytes) /\ Len(msg) - 5 \in 1..SectorBytes /\ Len(msg) > 5
      BY <1>5, <2>2, Sizes DEF DataPhases
    <3>3. tx \in 0..1
      BY <1>4, <1>5, <3>2, Sizes
    <3>4. c.buf \in Sector
      BY CardFields
    <3>5. [c.buf EXCEPT ![Len(msg) - 5] = tx] \in Sector
      BY <3>2, <3>3, <3>4 DEF Sector
    <3>6. a \in CardState /\ a.cmd = "write" /\ a.data = c.data /\ a.dirty = c.dirty
          /\ a.addr = c.addr /\ a.buf = [c.buf EXCEPT ![Len(msg) - 5] = tx]
      BY <3>1, <3>5 DEF CardState
    <3>7. ASSUME NEW i \in 1..SectorBytes, 6 + i <= Len(m) PROVE a.buf[i] = m[6 + i]
      <4>1. CASE i = Len(msg) - 5
        <5>1. 6 + i = Len(msg) + 1
          BY <1>5, <4>1
        <5> QED BY <1>5, <3>2, <3>4, <3>6, <4>1, <5>1 DEF Sector
      <4>2. CASE i # Len(msg) - 5
        <5>1. 6 + i <= Len(msg) /\ 6 + i \in 1..Len(msg)
          BY <1>5, <3>7, <4>2
        <5> QED BY <1>5, <1>11, <3>4, <3>6, <4>2, <5>1 DEF Sector
      <4> QED BY <4>1, <4>2
    <3>8. ~(Len(m) > 6 + SectorBytes) /\ Len(m) # 5
      <4>1. \A n \in 7..(6 + SectorBytes) : ~(n > 6 + SectorBytes) /\ n # 5
        BY Sizes
      <4> QED BY <3>2, <4>1
    <3> QED BY <1>11, <1>13, <3>1, <3>2, <3>6, <3>7, <3>8
  <2>3. CASE Len(msg) = SumPhase
    <3>1. Len(msg) \notin DataPhases /\ Len(msg) # CommitPhase
      BY <2>3, Sizes DEF DataPhases, SumPhase, CommitPhase
    <3>2. a = [c EXCEPT !.sum = tx]
      BY <2>3, <3>1 DEF a, TakenBy
    <3>3. Len(m) = 7 + SectorBytes /\ Len(msg) > 5 /\ Len(msg) + 1 = 7 + SectorBytes /\ Len(m) # 5
      BY <1>5, <2>3, Sizes DEF SumPhase
    <3>4. tx \in 0..1 /\ m[7 + SectorBytes] = tx
      BY <1>4, <1>5, <3>3, Sizes
    <3>5. a \in CardState /\ a.cmd = "write" /\ a.data = c.data /\ a.dirty = c.dirty
          /\ a.addr = c.addr /\ a.buf = c.buf /\ a.sum = tx
      BY <3>2, <3>4 DEF CardState
    <3>6. ASSUME NEW i \in 1..SectorBytes PROVE c.buf[i] = m[6 + i]
      <4>1. 6 + i <= Len(msg) /\ 6 + i \in 1..Len(msg)
        <5>1. Len(msg) \in Nat /\ Len(msg) >= 6 + SectorBytes
          BY <1>5, <2>3, Sizes DEF SumPhase
        <5> QED BY <5>1, Positions
      <4> QED BY <1>5, <1>11, <4>1
    <3> QED BY <1>11, <1>13, <3>1, <3>3, <3>4, <3>5, <3>6
  <2>4. CASE Len(msg) = CommitPhase
    <3>1. Len(msg) \notin DataPhases /\ Len(msg) # SumPhase
      BY <2>4, Sizes DEF DataPhases, SumPhase, CommitPhase
    <3>2. a = CommitWrite(c)
      BY <2>4, <3>1 DEF a, TakenBy
    <3>3. ~r.ack
      BY <1>5, <1>8, <2>4, Sizes DEF CommitPhase
    <3>4. CASE Verdict(c) = Good
      <4>1. a = [c EXCEPT !.data[c.addr] = c.buf, !.dirty = TRUE, !.fresh = FALSE]
        BY <3>2, <3>4 DEF CommitWrite
      <4>2. c.data \in Image /\ c.buf \in Sector
        BY CardFields
      <4>3. [c.data EXCEPT ![c.addr] = c.buf] \in Image
        BY <4>2 DEF Image
      <4>4. a \in CardState /\ a.cmd = "write" /\ a.data = [c.data EXCEPT ![c.addr] = c.buf] /\ a.dirty
        BY <4>1, <4>3 DEF CardState
      <4> QED BY <1>12, <2>4, <3>3, <3>4, <4>4
    <3>5. CASE Verdict(c) # Good
      BY <1>12, <2>4, <3>2, <3>3, <3>5 DEF CommitWrite
    <3> QED BY <3>4, <3>5
  <2>5. CASE Len(msg) \notin DataPhases /\ Len(msg) # SumPhase /\ Len(msg) # CommitPhase
    <3>1. a = Addressed(c, Len(msg), tx)
      BY <2>5 DEF a, TakenBy
    <3>2. /\ a \in CardState /\ a.cmd = c.cmd /\ a.data = c.data /\ a.dirty = c.dirty
          /\ a.buf = c.buf /\ a.sum = c.sum
          /\ Len(m) = 5 => a.addr = m[5] * 256
          /\ Len(m) > 5 => a.addr = m[5] * 256 + m[6]
      <4>1. c.cmd \in {"read", "write"}
        OBVIOUS
      <4> QED BY <3>1, <4>1, Addressing DEF m
    <3>3. Len(msg) < 6 \/ Len(msg) > 6 + SectorBytes
      BY <1>5, <2>5, Sizes DEF DataPhases, SumPhase
    <3>4. ASSUME NEW i \in 1..SectorBytes, 6 + i <= Len(m) PROVE c.buf[i] = m[6 + i]
      <4>1. 6 + i <= Len(msg) /\ 6 + i \in 1..Len(msg)
        <5>1. Len(msg) \in Nat /\ 6 + i <= Len(msg) + 1
          BY <1>5, <3>4
        <5>2. Len(msg) >= 6 + SectorBytes \/ Len(msg) < 6
          BY <1>5, <3>3, Sizes
        <5> QED BY <5>1, <5>2, Positions
      <4> QED BY <1>5, <1>11, <4>1
    <3>5. ASSUME Len(m) > 6 + SectorBytes PROVE c.sum = m[7 + SectorBytes]
      <4>1. Len(msg) > 6 + SectorBytes /\ 7 + SectorBytes \in 1..Len(msg)
        BY <1>5, <3>3, <3>5, Sizes
      <4> QED BY <1>5, <1>11, <4>1
    <3> QED BY <1>13, <2>5, <3>2, <3>4, <3>5
  <2> QED BY <2>2, <2>3, <2>4, <2>5
\* The last reply.
<1>15. Sessions!Told(c.data, m, r.resp)
  <2>1. ASSUME Len(m) = 10 + SectorBytes PROVE r.resp = \h47 <=> Sessions!Takes(m)
    <3>1. /\ Len(msg) = CommitPhase /\ Len(msg) - 1 = 8 + SectorBytes
          /\ Len(msg) - 1 \in 1..(8 + SectorBytes)
      BY <1>5, <2>1, Sizes DEF CommitPhase
    <3> QED BY <1>3, <1>7, <1>12, <3>1 DEF fin, Good
  <2> QED BY <1>6, <2>1 DEF Sessions!Told
<1>16. AsToldTo(c, msg, tx, r)
  BY <1>6, <1>7, <1>8, <1>14, <1>15 DEF AsToldTo, m
<1> QED BY <1>16 DEF r

LEMMA IdExchange ==
  ASSUME NEW c \in CardState, NEW msg \in Seq(Byte), Len(msg) > 1, Follows(c, msg), c.cmd = "id",
         NEW tx \in Byte
  PROVE  AsToldTo(c, msg, tx, ExchangeGetId(c, Len(msg)))
<1> DEFINE m == Append(msg, tx)
           all == <<\h5A, \h5D, \h5C, \h5D, 4, 0, 0, \h80>>
           r == ExchangeGetId(c, Len(msg))
<1>1. r = Listed(c, all, Len(msg))
  BY DEF ExchangeGetId
<1>2. all \in Seq(Byte) /\ Len(all) = 8
  <2>1. {0, 4, \h5A, \h5D, \h5C, \h80} \subseteq Byte
    BY DEF Byte
  <2> QED BY <2>1
<1> HIDE DEF m, all
<1>10. all \in Seq(Byte)
  BY <1>2
<1>3. m \in Seq(Byte) /\ Len(msg) \in Nat /\ Len(m) = Len(msg) + 1
  BY Growing DEF m
<1>4. /\ ~Sessions!Reads(m) /\ ~Sessions!Writes(m) /\ Sessions!Asks(m) /\ Sessions!Length(m) = 10
  BY SameCommand DEF m, LengthOf
<1>5. /\ r.card = c /\ r.resp \in Byte /\ r.ack \in BOOLEAN
      /\ r.ack <=> (Len(msg) > 1 /\ Len(msg) - 1 < Len(all))
  BY <1>1, <1>3, <1>10, ListedReply
<1> HIDE DEF r
<1>6. r.ack <=> Len(m) < 10
  BY <1>2, <1>3, <1>5
<1>7. r.ack => Follows(c, m)
  <2>1. m[2] \in DOMAIN CommandOf /\ CommandOf[m[2]] = "id" /\ LengthOf("id") = 10
    BY <1>4, CommandBytes DEF Sessions!Asks, LengthOf
  <2>2. Len(m) # 1
    BY <1>3
  <2> QED BY <1>6, <2>1, <2>2 DEF Follows
<1>8. Sessions!Told(c.data, m, r.resp) /\ ~Sessions!Takes(m)
  BY <1>4 DEF Sessions!Told, Sessions!Takes
<1>9. AsToldTo(c, msg, tx, r)
  BY <1>4, <1>5, <1>6, <1>7, <1>8 DEF AsToldTo, m
<1> QED BY <1>9 DEF r

\* The byte that starts a message, and the one that says what it is.
LEMMA FirstByte ==
  ASSUME NEW c \in CardState, NEW tx \in Byte
  PROVE  AsToldTo(c, <<>>, tx, CardExchange(c, 0, tx))
<1> DEFINE m == Append(<<>>, tx)
           half == [c EXCEPT !.cmd = "none", !.addr = 0]
           d == [half EXCEPT !.sum = 0]
<1>1. CardExchange(c, 0, tx) = Reply(d, OpenBus, TRUE)
  BY DEF CardExchange
<1>2. Len(m) = 1
  OBVIOUS
<1>3. d \in CardState /\ d.cmd = "none" /\ d.data = c.data /\ d.dirty = c.dirty
  <2>1. 0 \in Address
    BY DEF Address
  <2>2. half \in CardState /\ half.cmd = "none" /\ half.data = c.data /\ half.dirty = c.dirty
    BY <2>1 DEF CardState
  <2> HIDE DEF half
  <2> QED BY <2>2 DEF CardState
<1> HIDE DEF m, d
<1>4. /\ ~Sessions!Reads(m) /\ ~Sessions!Writes(m) /\ ~Sessions!Asks(m) /\ Sessions!Length(m) = 2
  BY <1>2 DEF Sessions!Reads, Sessions!Writes, Sessions!Asks, Sessions!Length
<1>5. Follows(d, m)
  BY <1>2, <1>3 DEF Follows
<1>6. OpenBus \in Byte
  BY DEF OpenBus, Byte
<1>7. Sessions!Told(c.data, m, OpenBus) /\ ~Sessions!Takes(m)
  BY <1>4 DEF Sessions!Told, Sessions!Takes
<1> DEFINE r == Reply(d, OpenBus, TRUE)
<1>8. r.card = d /\ r.resp = OpenBus /\ r.ack \in BOOLEAN /\ r.ack
  BY DEF Reply
<1> HIDE DEF r
<1>9. ~(Len(m) > 1) /\ Len(m) < Sessions!Length(m)
  BY <1>2, <1>4
<1>10. AsToldTo(c, <<>>, tx, r)
  BY <1>3, <1>5, <1>6, <1>7, <1>8, <1>9 DEF AsToldTo, m
<1> QED BY <1>1, <1>10 DEF r

LEMMA SecondByte ==
  ASSUME NEW c \in CardState, NEW msg \in Seq(Byte), Len(msg) = 1, NEW tx \in Byte
  PROVE  AsToldTo(c, msg, tx, CardExchange(c, 1, tx))
<1> DEFINE m == Append(msg, tx)
           r == CardExchange(c, 1, tx)
<1>1. Len(m) = 2 /\ m[2] = tx
  <2>1. m = Append(msg, tx)
    OBVIOUS
  <2> HIDE DEF m
  <2>2. Len(m) = Len(msg) + 1 /\ m[Len(msg) + 1] = tx
    BY <2>1, Growing
  <2> QED BY <2>2
<1> HIDE DEF m, r
<1>2. /\ Sessions!Reads(m) <=> tx = \h52
      /\ Sessions!Writes(m) <=> tx = \h57
      /\ Sessions!Asks(m) <=> tx = \h53
  BY <1>1 DEF Sessions!Reads, Sessions!Writes, Sessions!Asks
<1>3. Sessions!Length(m) = CASE tx = \h52 -> 12 + SectorBytes
                             [] tx = \h57 -> 10 + SectorBytes
                             [] tx = \h53 -> 10
                             [] OTHER     -> 2
  BY <1>2 DEF Sessions!Length
<1>4. {0, 8, OpenBus} \subseteq Byte
  BY DEF OpenBus, Byte
<1>5. ASSUME NEW byte PROVE Sessions!Told(c.data, m, byte)
  <2>1. \A n \in Nat : ~(2 \in 11..n)
    OBVIOUS
  <2>2. Len(m) # 12 + SectorBytes /\ Len(m) # 10 + SectorBytes /\ Len(m) \notin 11..(10 + SectorBytes)
    BY <1>1, <2>1, Sizes
  <2> QED BY <1>2, <1>3, <2>2 DEF Sessions!Told
<1>6. ~Sessions!Takes(m)
  <2>1. 2 # 10 + SectorBytes
    BY Sizes
  <2> QED BY <1>1, <1>2, <1>3, <2>1 DEF Sessions!Takes
<1>7. CASE tx \in DOMAIN CommandOf
  <2> DEFINE d == [c EXCEPT !.cmd = CommandOf[tx]]
             byte == IF c.fresh THEN 8 ELSE 0
  <2>1. r = Reply(d, byte, TRUE)
    BY <1>7 DEF CardExchange, r
  <2>2. CommandOf[tx] \in {"read", "write", "id"}
    BY <1>7, CommandBytes
  <2>3. d \in CardState /\ d.cmd = CommandOf[tx] /\ d.data = c.data /\ d.dirty = c.dirty
    BY <2>2 DEF CardState
  <2>4. byte \in Byte
    BY <1>4
  <2>5. Sessions!Length(m) = LengthOf(CommandOf[tx]) /\ 2 < LengthOf(CommandOf[tx])
    <3>1. tx = \h52 \/ tx = \h57 \/ tx = \h53
      BY <1>7, CommandBytes
    <3> QED BY <1>3, <3>1, CommandBytes, Sizes DEF LengthOf
  <2> HIDE DEF d, byte
  <2>6. Follows(d, m)
    <3>1. \A i \in 1..SectorBytes : ~(6 + i <= 2)
      BY Sizes
    <3>2. ~(2 > 6 + SectorBytes)
      BY Sizes
    <3> QED BY <1>1, <1>7, <2>3, <2>5, <3>1, <3>2 DEF Follows
  <2>7. r.card = d /\ r.resp = byte /\ r.ack = TRUE
    BY <2>1 DEF Reply
  <2>8. d.cmd # "none"
    BY <2>2, <2>3
  <2>9. AsToldTo(c, msg, tx, r)
    BY <1>1, <1>5, <1>6, <2>3, <2>4, <2>5, <2>6, <2>7, <2>8 DEF AsToldTo, m
  <2> QED BY <2>9 DEF r
<1>8. CASE tx \notin DOMAIN CommandOf
  <2>1. r = Reply(c, OpenBus, FALSE)
    BY <1>8 DEF CardExchange, r
  <2>2. Sessions!Length(m) = 2
    BY <1>3, <1>8, CommandBytes
  <2>3. r.card = c /\ r.resp = OpenBus /\ r.ack \in BOOLEAN /\ ~r.ack
    BY <2>1 DEF Reply
  <2>5. ~(Len(m) < Sessions!Length(m)) /\ OpenBus \in Byte
    BY <1>1, <1>4, <2>2
  <2>4. AsToldTo(c, msg, tx, r)
    BY <1>5, <1>6, <2>3, <2>5 DEF AsToldTo, m
  <2> QED BY <2>4 DEF r
<1> QED BY <1>7, <1>8

\* A card that is being talked to does with the next byte what the message
\* says, whatever it was asked and however long ago.
LEMMA CardExchanges ==
  ASSUME NEW c \in CardState, NEW msg \in Seq(Byte), NEW tx \in Byte, Follows(c, msg),
         Len(msg) > 1 => c.cmd # "none",
         DataAreBits(Append(msg, tx)), msg # <<>> => msg[1] \in \h81..\h84
  PROVE  AsToldTo(c, msg, tx, CardExchange(c, Len(msg), tx))
<1> DEFINE r == CardExchange(c, Len(msg), tx)
<1>0. Len(msg) \in Nat
  BY LenProperties
<1>1. CASE Len(msg) = 0
  <2>1. msg = <<>>
    BY <1>1, EmptySeq
  <2>2. AsToldTo(c, <<>>, tx, CardExchange(c, 0, tx))
    BY FirstByte
  <2> QED BY <1>1, <2>1, <2>2, Zenon
<1>2. CASE Len(msg) = 1
  BY <1>2, SecondByte
<1>3. CASE Len(msg) > 1
  <2>1. c.cmd \in {"read", "write", "id"}
    BY <1>3, CardFields
  <2>2. CASE c.cmd = "read"
    <3>1. r = ExchangeRead(c, Len(msg), tx)
      BY <1>3, <2>2 DEF CardExchange
    <3> QED BY <1>3, <2>2, <3>1, ReadExchange
  <2>3. CASE c.cmd = "write"
    <3>1. r = ExchangeWrite(c, Len(msg), tx)
      BY <1>3, <2>3 DEF CardExchange
    <3>2. ASSUME NEW i \in 7..(7 + SectorBytes), i <= Len(Append(msg, tx))
          PROVE  Append(msg, tx)[i] \in 0..1
      <4> DEFINE m == Append(msg, tx)
      <4>1. m[1] = msg[1] /\ m[2] = msg[2]
        BY <1>3, Growing
      <4>2. msg # <<>>
        BY <1>3
      <4>3. m[2] = \h57
        BY <1>3, <2>3, <4>1, CommandBytes DEF Follows
      <4>4. Len(m) > 6
        <5>1. Len(m) \in Nat
          BY <1>0, Growing
        <5> QED BY <3>2, <5>1
      <4> QED BY <3>2, <4>1, <4>2, <4>3, <4>4 DEF DataAreBits
    <3>3. AsToldTo(c, msg, tx, ExchangeWrite(c, Len(msg), tx))
      BY <1>3, <2>3, <3>2, WriteExchange
    <3> QED BY <3>1, <3>3
  <2>4. CASE c.cmd = "id"
    <3>1. r = ExchangeGetId(c, Len(msg))
      BY <1>3, <2>4 DEF CardExchange
    <3> QED BY <1>3, <2>4, <3>1, IdExchange
  <2> QED BY <2>1, <2>2, <2>3, <2>4
<1>4. \A k \in Nat : k = 0 \/ k = 1 \/ k > 1
  OBVIOUS
<1> QED BY <1>0, <1>1, <1>2, <1>3, <1>4

(***************************************************************************)
(* The port                                                                *)
(***************************************************************************)
Registers ==
  /\ use \in Uses
  /\ ctrl \in [txen: BOOLEAN, dtr: BOOLEAN, ien: BOOLEAN, port: Ports]
  /\ rx \in Seq(Byte) /\ Len(rx) <= FifoCap
  /\ statIrq \in BOOLEAN /\ ackLevel \in BOOLEAN /\ iStat \in BOOLEAN /\ rung \in BOOLEAN
  /\ ackTimer \in -1..AckDelay
  /\ phase \in Byte /\ sent \in Seq(Byte) /\ Len(sent) = phase

Plugged ==
  /\ pads \in [Ports -> PadState]
  /\ cards \in [Ports -> CardState \cup {NoCard}]
  /\ taps \in [Ports -> TapState \cup {NoTap}]

Devs == [dev: {"none", "pad", "card", "tapPad", "tapCard"}, sub: 0..3]

\* A transfer under way is with something, while Select is held, and what was
\* sent to a card began with the address of one.
Partner ==
  /\ active \in Devs
  /\ phase = 0 <=> active.dev = "none"
  /\ phase > 0 => ctrl.dtr
  /\ active.dev = "tapCard" => active.sub \in SubSlots
  /\ active.dev \in {"card", "tapCard"} => sent[1] \in \h81..\h84
  /\ DataAreBits(sent)

PartnerCard ==
  IF active.dev = "card" THEN cards[ctrl.port]
  ELSE IF active.dev = "tapCard" THEN TapCard(ctrl.port, active.sub)
  ELSE NoCard

\* The card the transfer is with has in its registers what was sent so far.
RegistersFollow == PartnerCard # NoCard => Follows(PartnerCard, sent)

Sio0Inv == Registers /\ Plugged /\ Partner /\ RegistersFollow /\ EveryAckRings

LEMMA NoCommand ==
  ASSUME NEW c, c.cmd = "none", NEW msg
  PROVE  Follows(c, msg)
BY DEF Follows

LEMMA NoMessage ==
  ASSUME NEW c
  PROVE  Follows(c, <<>>)
<1>1. Len(<<>>) = 0
  OBVIOUS
<1> QED BY <1>1 DEF Follows

LEMMA ByteOrder == Byte \subseteq Nat /\ 0 \in Byte /\ OpenBus \in Byte /\ \A n \in Byte : n <= 255
BY DEF Byte, OpenBus

LEMMA UsesOK ==
  ASSUME Registers
  PROVE  UseOK(use) /\ use \in Uses /\ ctrl.port \in Ports /\ Ports \subseteq 0..1
BY Sio0Assumption DEF Registers

LEMMA InBays ==
  ASSUME Plugged, NEW port \in Ports
  PROVE  /\ cards[port] \in CardState \cup {NoCard}
         /\ taps[port] # NoTap => taps[port] \in TapState
         /\ \A sub : TapCard(port, sub) # NoCard =>
              /\ TapCard(port, sub) \in CardState /\ sub \in SubSlots
              /\ taps[port] \in TapState /\ taps[port] # NoTap
              /\ TapCard(port, sub) = taps[port].cards[sub]
BY DEF Plugged, TapCard, TapState

\* What the guest sends next goes on with a message it may send.
LEMMA NextByte ==
  ASSUME Registers, DataAreBits(sent), NEW tx \in NextBytes
  PROVE  tx \in Byte /\ tx \in TxBytes /\ DataAreBits(Append(sent, tx))
<1> DEFINE m == Append(sent, tx)
           going == {l \in use.messages[ctrl.port] : Len(l) > Len(sent)
                                            /\ SubSeq(l, 1, Len(sent)) = sent}
<1>1. sent \in Seq(Byte) /\ Len(sent) \in Nat
  BY LenProperties DEF Registers
<1>2. CASE going = {}
  <2>1. tx = 0 /\ 0 \in Byte
    BY <1>2, ByteOrder DEF NextBytes
  <2>2. /\ Len(m) = Len(sent) + 1 /\ m[Len(sent) + 1] = 0
        /\ \A i \in 1..Len(sent) : m[i] = sent[i]
    BY <1>1, <2>1, Growing
  <2>3. ASSUME Len(m) > 6, m[1] \in \h81..\h84, m[2] = \h57,
               NEW i \in 7..(7 + SectorBytes), i <= Len(m)
        PROVE  m[i] \in 0..1
    <3>1. m[1] = sent[1] /\ m[2] = sent[2]
      BY <1>1, <2>2, <2>3
    <3>2. CASE i = Len(sent) + 1
      BY <2>2, <3>2
    <3>3. CASE i # Len(sent) + 1
      <4>1. i <= Len(sent) /\ i \in 1..Len(sent) /\ Len(sent) > 6
        BY <1>1, <2>2, <2>3, <3>3
      <4> QED BY <2>2, <2>3, <3>1, <4>1 DEF DataAreBits
    <3> QED BY <3>2, <3>3
  <2>4. DataAreBits(m)
    BY <2>3 DEF DataAreBits
  <2> QED BY <2>1, <2>4 DEF TxBytes
<1>3. CASE going # {}
  <2>1. PICK l \in going : tx = l[Len(sent) + 1]
    BY <1>3 DEF NextBytes
  <2>2. l \in use.messages[ctrl.port] /\ l \in Seq(Byte) /\ DataAreBits(l) /\ Len(l) \in Nat
        /\ Len(l) > Len(sent) /\ SubSeq(l, 1, Len(sent)) = sent
    BY <2>1, UsesOK, LenProperties DEF UseOK
  <2>3. Len(sent) + 1 \in 1..Len(l)
    BY <1>1, <2>2
  <2>4. tx \in Byte
    BY <2>1, <2>2, <2>3, ElementOfSeq
  <2>5. tx \in TxBytes
    <3>1. tx \in Range(l)
      BY <2>1, <2>2, <2>3, LenProperties DEF Range
    <3>2. l \in UNION {u.messages[p] : u \in Uses, p \in Ports}
      BY <2>2, UsesOK
    <3> QED BY <3>1, <3>2 DEF TxBytes
  <2>6. \A i \in 1..Len(sent) : sent[i] = l[i]
    <3>1. Len(sent) \in 0..Len(l)
      BY <1>1, <2>2
    <3>2. ASSUME NEW i \in 1..Len(sent) PROVE SubSeq(l, 1, Len(sent))[i] = l[i]
      BY <2>2, <3>1, SubSeqProperties
    <3> QED BY <2>2, <3>2
  <2>7. /\ Len(m) = Len(sent) + 1 /\ m[Len(sent) + 1] = tx
        /\ \A i \in 1..Len(sent) : m[i] = sent[i]
    BY <1>1, <2>4, Growing
  <2>8. \A i \in 1..Len(m) : m[i] = l[i] /\ i <= Len(l)
    <3>1. ASSUME NEW i \in 1..Len(m) PROVE (i \in 1..Len(sent) \/ i = Len(sent) + 1) /\ i <= Len(l)
      BY <1>1, <2>3, <2>7
    <3> QED BY <2>1, <2>6, <2>7, <3>1
  <2>9. ASSUME Len(m) > 6, m[1] \in \h81..\h84, m[2] = \h57,
               NEW i \in 7..(7 + SectorBytes), i <= Len(m)
        PROVE  m[i] \in 0..1
    <3>1. Len(m) \in Nat /\ Len(l) > 6 /\ i \in 1..Len(m) /\ 1 \in 1..Len(m) /\ 2 \in 1..Len(m)
      BY <1>1, <2>2, <2>7, <2>9
    <3> QED BY <2>2, <2>8, <2>9, <3>1 DEF DataAreBits
  <2>10. DataAreBits(m)
    BY <2>9 DEF DataAreBits
  <2> QED BY <2>4, <2>5, <2>10
<1> QED BY <1>2, <1>3

LEMMA Addressees ==
  ASSUME Registers, Partner, NEW tx \in Byte
  PROVE  /\ AddressedBy(tx) \in Devs
         /\ phase > 0 => AddressedBy(tx) = active
         /\ phase = 0 /\ AddressedBy(tx).dev \in {"card", "tapCard"} => tx \in \h81..\h84
<1>1. phase \in Nat
  BY ByteOrder DEF Registers
<1>2. CASE phase > 0
  BY <1>1, <1>2 DEF AddressedBy, Partner
<1>3. CASE phase = 0
  <2>1. ASSUME tx \in \h81..\h84 PROVE tx - \h81 \in 0..3
    BY <2>1
  <2> QED BY <1>3, <2>1 DEF AddressedBy, Devs, Nobody
<1> QED BY <1>1, <1>2, <1>3

\* The end of every exchange.
LEMMA Exchanging ==
  ASSUME Sio0Inv, NEW tx \in NextBytes, NEW resp \in Byte, NEW ack \in BOOLEAN,
         Selected, Exchanged(tx, resp, ack),
         ack => /\ phase < 255 /\ AddressedBy(tx).dev # "none"
                /\ AddressedBy(tx).dev = "tapCard" => AddressedBy(tx).sub \in SubSlots
  PROVE  /\ Registers' /\ Partner' /\ EveryAckRings' /\ ctrl' = ctrl
         /\ IF ack THEN active' = AddressedBy(tx) /\ sent' = Append(sent, tx)
            ELSE active' = Nobody /\ sent' = <<>>
<1>1. tx \in Byte /\ DataAreBits(Append(sent, tx))
  BY NextByte DEF Sio0Inv, Partner
<1>2. rx' \in Seq(Byte) /\ Len(rx') <= FifoCap
  <2>1. rx \in Seq(Byte) /\ Len(rx) \in Nat /\ Len(rx) <= FifoCap /\ FifoCap \in Nat /\ FifoCap > 0
    BY LenProperties, Sio0Assumption DEF Sio0Inv, Registers
  <2>2. rx' = Append(IF Len(rx) >= FifoCap THEN Tail(rx) ELSE rx, resp)
    BY DEF Exchanged, Pushed
  <2>3. CASE Len(rx) >= FifoCap
    <3>1. rx # <<>>
      BY <2>1, <2>3
    <3>2. Tail(rx) \in Seq(Byte) /\ Len(Tail(rx)) = Len(rx) - 1
      BY <2>1, <3>1, HeadTailProperties
    <3>3. /\ Append(Tail(rx), resp) \in Seq(Byte)
          /\ Len(Append(Tail(rx), resp)) = Len(Tail(rx)) + 1
      BY <3>2, AppendProperties
    <3>4. Len(Append(Tail(rx), resp)) = Len(rx)
      BY <2>1, <3>2, <3>3
    <3> QED BY <2>1, <2>2, <2>3, <3>3, <3>4
  <2>4. CASE ~(Len(rx) >= FifoCap)
    <3>1. Append(rx, resp) \in Seq(Byte) /\ Len(Append(rx, resp)) = Len(rx) + 1
      BY <2>1, AppendProperties
    <3>2. Len(rx) + 1 <= FifoCap
      BY <2>1, <2>4
    <3> QED BY <2>2, <2>4, <3>1, <3>2
  <2> QED BY <2>3, <2>4
<1>3. /\ statIrq \in BOOLEAN /\ iStat \in BOOLEAN /\ use \in Uses /\ phase \in Nat /\ phase <= 255
      /\ ctrl \in [txen: BOOLEAN, dtr: BOOLEAN, ien: BOOLEAN, port: Ports]
      /\ sent \in Seq(Byte) /\ Len(sent) = phase /\ AckDelay \in Nat /\ AckDelay > 0
  BY ByteOrder, Sio0Assumption DEF Sio0Inv, Registers
<1>4. /\ ctrl' = ctrl /\ statIrq' = statIrq /\ iStat' = iStat /\ use' = use
      /\ ackLevel' = FALSE /\ rung' = FALSE
  BY DEF Exchanged
<1>5. CASE ack
  <2>1. /\ ackTimer' = AckDelay /\ phase' = (phase + 1) % 256 /\ active' = AddressedBy(tx)
        /\ sent' = Append(sent, tx)
    BY <1>5 DEF Exchanged
  <2>2. phase' = phase + 1 /\ phase' \in Byte /\ phase' # 0
    <3>1. \A k \in Nat : k < 255 => (k + 1) % 256 = k + 1 /\ k + 1 \in 0..255 /\ k + 1 # 0
      OBVIOUS
    <3> QED BY <1>3, <1>5, <2>1, <3>1 DEF Byte
  <2>3. sent' \in Seq(Byte) /\ Len(sent') = phase' /\ sent'[Len(sent) + 1] = tx
        /\ \A i \in 1..Len(sent) : sent'[i] = sent[i]
    BY <1>1, <1>3, <2>1, <2>2, Growing
  <2>4. Registers'
    <3>1. AckDelay \in -1..AckDelay
      BY <1>3
    <3> QED BY <1>2, <1>3, <1>4, <2>1, <2>2, <2>3, <3>1 DEF Registers
  <2>5. /\ AddressedBy(tx) \in Devs
        /\ phase > 0 => AddressedBy(tx) = active
        /\ phase = 0 /\ AddressedBy(tx).dev \in {"card", "tapCard"} => tx \in \h81..\h84
    BY <1>1, Addressees DEF Sio0Inv
  <2>6. active'.dev \in {"card", "tapCard"} => sent'[1] \in \h81..\h84
    <3>1. CASE phase = 0
      BY <1>3, <2>1, <2>3, <2>5, <3>1
    <3>2. CASE phase > 0
      <4>1. 1 \in 1..Len(sent)
        BY <1>3, <3>2
      <4> QED BY <2>1, <2>3, <2>5, <3>2, <4>1 DEF Sio0Inv, Partner
    <3> QED BY <1>3, <3>1, <3>2
  <2>7. Partner'
    <3>1. ctrl.dtr
      BY DEF Selected
    <3> QED BY <1>1, <1>4, <1>5, <2>1, <2>2, <2>5, <2>6, <3>1 DEF Partner
  <2>8. EveryAckRings'
    BY <1>3, <2>1 DEF EveryAckRings
  <2> QED BY <1>4, <1>5, <2>1, <2>4, <2>7, <2>8
<1>6. CASE ~ack
  <2>1. ackTimer' = -1 /\ phase' = 0 /\ active' = Nobody /\ sent' = <<>>
    BY <1>6 DEF Exchanged
  <2>2. <<>> \in Seq(Byte) /\ Len(<<>>) = 0
    OBVIOUS
  <2>3. Registers'
    <3>1. -1 \in -1..AckDelay
      BY <1>3
    <3> QED BY <1>2, <1>3, <1>4, <2>1, <2>2, <3>1, ByteOrder DEF Registers
  <2>4. Partner' /\ EveryAckRings'
    BY <2>1, <2>2 DEF Partner, EveryAckRings, Nobody, Devs, DataAreBits
  <2> QED BY <1>4, <1>6, <2>1, <2>3, <2>4
<1> QED BY <1>5, <1>6

\* A transfer with no card is no reason to look at the registers of one.
LEMMA ElsewhereFollows ==
  ASSUME active'.dev \notin {"card", "tapCard"}
  PROVE  RegistersFollow'
BY DEF RegistersFollow, PartnerCard

LEMMA PadShifts ==
  ASSUME Sio0Inv, NEW tx \in NextBytes, ShiftToPad(tx)
  PROVE  Sio0Inv'
<1> DEFINE r == PadExchange(pads[ctrl.port], phase, tx)
<1>1. /\ tx \in Byte /\ phase \in Nat /\ ctrl.port \in Ports /\ pads[ctrl.port] \in PadState
      /\ pads \in [Ports -> PadState]
  BY NextByte, UsesOK, ByteOrder DEF Sio0Inv, Registers, Plugged, Partner
<1>2. r.pad \in PadState /\ r.resp \in Byte /\ r.ack \in BOOLEAN /\ (r.ack => phase < 8)
  BY <1>1, PadExchanges
<1>3. /\ Selected /\ AddressedBy(tx).dev = "pad" /\ pads' = [pads EXCEPT ![ctrl.port] = r.pad]
      /\ Exchanged(tx, r.resp, r.ack) /\ UNCHANGED <<cards, taps>>
  BY DEF ShiftToPad
<1> HIDE DEF r
<1>4. r.ack => phase < 255
  BY <1>1, <1>2
<1>5. /\ Registers' /\ Partner' /\ EveryAckRings'
      /\ IF r.ack THEN active' = AddressedBy(tx) ELSE active' = Nobody
  BY <1>2, <1>3, <1>4, Exchanging
<1>6. Plugged'
  BY <1>1, <1>2, <1>3 DEF Sio0Inv, Plugged
<1>7. RegistersFollow'
  BY <1>3, <1>5, ElsewhereFollows DEF Nobody
<1> QED BY <1>5, <1>6, <1>7 DEF Sio0Inv

LEMMA TapPadShifts ==
  ASSUME Sio0Inv, NEW tx \in NextBytes, ShiftToTapPad(tx)
  PROVE  Sio0Inv'
<1> DEFINE r == ExchangeTap(taps[ctrl.port], phase, tx)
<1>1. /\ tx \in Byte /\ phase \in Nat /\ ctrl.port \in Ports /\ taps[ctrl.port] \in TapState
  BY NextByte, UsesOK, ByteOrder DEF Sio0Inv, Registers, Plugged, Partner, ShiftToTapPad
<1>2. r.tap \in TapState /\ r.resp \in Byte /\ r.ack \in BOOLEAN /\ (r.ack => phase < 34)
  BY <1>1, TapExchanges
<1>3. /\ Selected /\ AddressedBy(tx).dev = "tapPad" /\ taps' = [taps EXCEPT ![ctrl.port] = r.tap]
      /\ Exchanged(tx, r.resp, r.ack) /\ UNCHANGED <<pads, cards>>
  BY DEF ShiftToTapPad
<1> HIDE DEF r
<1>4. r.ack => phase < 255
  BY <1>1, <1>2
<1>5. /\ Registers' /\ Partner' /\ EveryAckRings'
      /\ IF r.ack THEN active' = AddressedBy(tx) ELSE active' = Nobody
  BY <1>2, <1>3, <1>4, Exchanging
<1>6. Plugged'
  BY <1>1, <1>2, <1>3 DEF Sio0Inv, Plugged
<1>7. RegistersFollow'
  BY <1>3, <1>5, ElsewhereFollows DEF Nobody
<1> QED BY <1>5, <1>6, <1>7 DEF Sio0Inv

\* A card that has given up stays silent, and keeps what it has.
LEMMA SilentCard ==
  ASSUME NEW c, c.cmd = "none", NEW ph \in Nat, ph > 1, NEW tx
  PROVE  CardExchange(c, ph, tx) = Reply(c, OpenBus, FALSE)
BY DEF CardExchange

\* The card a byte goes to.
Addressee(tx) ==
  IF AddressedBy(tx).dev = "card" THEN cards[ctrl.port] ELSE TapCard(ctrl.port, AddressedBy(tx).sub)

\* A byte to a card: what it makes of it, and that the port may go on counting.
LEMMA CardShifting ==
  ASSUME Sio0Inv, NEW tx \in NextBytes, AddressedBy(tx).dev \in {"card", "tapCard"},
         NEW c \in CardState, c = Addressee(tx)
  PROVE  LET r == CardExchange(c, phase, tx)
         IN /\ r.card \in CardState /\ r.resp \in Byte /\ r.ack \in BOOLEAN
            /\ r.ack => phase < 255 /\ Follows(r.card, Append(sent, tx))
            /\ Follows(c, sent)
            /\ phase > 1 /\ c.cmd = "none" => r = Reply(c, OpenBus, FALSE)
            /\ ~(phase > 1 /\ c.cmd = "none") => AsToldTo(c, sent, tx, r)
<1> DEFINE r == CardExchange(c, phase, tx)
           m == Append(sent, tx)
<1>1. /\ tx \in Byte /\ phase \in Nat /\ sent \in Seq(Byte) /\ Len(sent) = phase
      /\ DataAreBits(Append(sent, tx))
  BY NextByte, ByteOrder DEF Sio0Inv, Registers, Partner
<1>2. phase > 0 => AddressedBy(tx) = active
  BY <1>1, Addressees DEF Sio0Inv
<1>3. Follows(c, sent)
  <2>1. CASE phase = 0
    <3>1. sent = <<>>
      BY <1>1, <2>1, EmptySeq
    <3> QED BY <3>1, NoMessage
  <2>2. CASE phase > 0
    <3>1. c = PartnerCard /\ c # NoCard
      BY <1>2, <2>2, NotACard DEF Addressee, PartnerCard
    <3> QED BY <3>1 DEF Sio0Inv, RegistersFollow
  <2> QED BY <1>1, <2>1, <2>2
<1>4. sent # <<>> => sent[1] \in \h81..\h84
  <2>1. sent # <<>> => phase > 0
    BY <1>1, EmptySeq
  <2> QED BY <1>2, <2>1 DEF Sio0Inv, Partner
<1>5. CASE phase > 1 /\ c.cmd = "none"
  <2>1. r = Reply(c, OpenBus, FALSE)
    BY <1>1, <1>5, SilentCard
  <2>2. r.card = c /\ r.resp = OpenBus /\ r.ack \in BOOLEAN /\ ~r.ack
    BY <2>1 DEF Reply
  <2> QED BY <1>3, <1>5, <2>1, <2>2, ByteOrder
<1>6. CASE ~(phase > 1 /\ c.cmd = "none")
  <2>1. Len(sent) > 1 => c.cmd # "none"
    BY <1>1, <1>6
  <2>2. AsToldTo(c, sent, tx, CardExchange(c, Len(sent), tx))
    BY <1>1, <1>3, <1>4, <2>1, CardExchanges
  <2>3. AsToldTo(c, sent, tx, r)
    BY <1>1, <2>2
  <2> HIDE DEF r
  <2>4. /\ r.card \in CardState /\ r.resp \in Byte /\ r.ack \in BOOLEAN
        /\ r.ack => Len(m) < Sessions!Length(m) /\ Follows(r.card, m)
    BY <2>3 DEF AsToldTo
  <2>5. Sessions!Length(m) \in {12 + SectorBytes, 10 + SectorBytes, 10, 2}
    BY DEF Sessions!Length
  <2>6. Sessions!Length(m) <= 140 /\ Sessions!Length(m) \in Int
    BY <2>5, Sizes
  <2>7. Len(m) = phase + 1
    BY <1>1, Growing
  <2>8. r.ack => phase < 255
    BY <1>1, <2>4, <2>6, <2>7
  <2>9. /\ r.card \in CardState /\ r.resp \in Byte /\ r.ack \in BOOLEAN
        /\ r.ack => phase < 255 /\ Follows(r.card, Append(sent, tx))
    BY <2>4, <2>8
  <2> QED BY <1>3, <1>6, <2>3, <2>9 DEF r
<1> QED BY <1>5, <1>6

LEMMA CardShifts ==
  ASSUME Sio0Inv, NEW tx \in NextBytes, ShiftToCard(tx)
  PROVE  Sio0Inv'
<1> DEFINE c == cards[ctrl.port]
           r == CardExchange(c, phase, tx)
<1>1. ctrl.port \in Ports /\ c \in CardState /\ c = Addressee(tx)
  BY UsesOK, InBays DEF Sio0Inv, ShiftToCard, Addressee
<1>2. /\ Selected /\ AddressedBy(tx).dev = "card" /\ cards' = [cards EXCEPT ![ctrl.port] = r.card]
      /\ Exchanged(tx, r.resp, r.ack) /\ UNCHANGED <<pads, taps>>
  BY DEF ShiftToCard
<1>3. /\ r.card \in CardState /\ r.resp \in Byte /\ r.ack \in BOOLEAN
      /\ r.ack => phase < 255 /\ Follows(r.card, Append(sent, tx))
  BY <1>1, <1>2, CardShifting
<1> HIDE DEF r, c
<1>4. /\ Registers' /\ Partner' /\ EveryAckRings' /\ ctrl' = ctrl
      /\ IF r.ack THEN active' = AddressedBy(tx) /\ sent' = Append(sent, tx)
         ELSE active' = Nobody /\ sent' = <<>>
  BY <1>2, <1>3, Exchanging
<1>5. Plugged' /\ cards'[ctrl.port] = r.card
  BY <1>1, <1>2, <1>3 DEF Sio0Inv, Plugged
<1>6. RegistersFollow'
  <2>1. CASE r.ack
    <3>1. PartnerCard' = r.card /\ sent' = Append(sent, tx)
      BY <1>2, <1>4, <1>5, <2>1 DEF PartnerCard
    <3> QED BY <1>3, <2>1, <3>1 DEF RegistersFollow
  <2>2. CASE ~r.ack
    BY <1>4, <2>2, ElsewhereFollows DEF Nobody
  <2> QED BY <2>1, <2>2
<1> QED BY <1>4, <1>5, <1>6 DEF Sio0Inv

LEMMA TapCardShifts ==
  ASSUME Sio0Inv, NEW tx \in NextBytes, ShiftToTapCard(tx)
  PROVE  Sio0Inv'
<1> DEFINE sub == AddressedBy(tx).sub
           c == TapCard(ctrl.port, sub)
           r == CardExchange(c, phase, tx)
<1>1. /\ ctrl.port \in Ports /\ c \in CardState /\ c = Addressee(tx) /\ sub \in SubSlots
      /\ taps[ctrl.port] \in TapState /\ c = taps[ctrl.port].cards[sub]
  BY UsesOK, InBays DEF Sio0Inv, ShiftToTapCard, Addressee
<1>2. /\ Selected /\ AddressedBy(tx).dev = "tapCard"
      /\ taps' = [taps EXCEPT ![ctrl.port].cards[sub] = r.card]
      /\ Exchanged(tx, r.resp, r.ack) /\ UNCHANGED <<pads, cards>>
  BY DEF ShiftToTapCard
<1>3. /\ r.card \in CardState /\ r.resp \in Byte /\ r.ack \in BOOLEAN
      /\ r.ack => phase < 255 /\ Follows(r.card, Append(sent, tx))
  BY <1>1, <1>2, CardShifting
<1> HIDE DEF r, c
<1>4. /\ Registers' /\ Partner' /\ EveryAckRings' /\ ctrl' = ctrl
      /\ IF r.ack THEN active' = AddressedBy(tx) /\ sent' = Append(sent, tx)
         ELSE active' = Nobody /\ sent' = <<>>
  BY <1>1, <1>2, <1>3, Exchanging
<1>5. Plugged' /\ taps'[ctrl.port] \in TapState /\ taps'[ctrl.port].cards[sub] = r.card
  <2> DEFINE t == taps[ctrl.port]
             u == [t EXCEPT !.cards[sub] = r.card]
  <2>1. u \in TapState /\ u.cards[sub] = r.card
    BY <1>1, <1>3 DEF TapState
  <2>2. taps' = [taps EXCEPT ![ctrl.port] = u]
    BY <1>2
  <2> HIDE DEF u
  <2> QED BY <1>1, <1>2, <2>1, <2>2 DEF Sio0Inv, Plugged
<1>6. RegistersFollow'
  <2>1. CASE r.ack
    <3>1. PartnerCard' = r.card /\ sent' = Append(sent, tx)
      <4>1. taps'[ctrl.port] # NoTap
        BY <1>5, NotATap
      <4> QED BY <1>1, <1>2, <1>4, <1>5, <2>1, <4>1 DEF PartnerCard, TapCard
    <3> QED BY <1>3, <2>1, <3>1 DEF RegistersFollow
  <2>2. CASE ~r.ack
    BY <1>4, <2>2, ElsewhereFollows DEF Nobody
  <2> QED BY <2>1, <2>2
<1> QED BY <1>4, <1>5, <1>6 DEF Sio0Inv

LEMMA NobodyShifts ==
  ASSUME Sio0Inv, NEW tx \in NextBytes, ShiftToNobody(tx)
  PROVE  Sio0Inv'
<1>1. Selected /\ Exchanged(tx, OpenBus, FALSE) /\ UNCHANGED deviceVars
  BY DEF ShiftToNobody
<1>2. /\ Registers' /\ Partner' /\ EveryAckRings' /\ active' = Nobody
  BY <1>1, Exchanging, ByteOrder
<1>3. Plugged'
  BY <1>1 DEF Sio0Inv, Plugged, deviceVars
<1>4. RegistersFollow'
  BY <1>2, ElsewhereFollows DEF Nobody
<1> QED BY <1>2, <1>3, <1>4 DEF Sio0Inv

LEMMA Shifts == ASSUME Sio0Inv, Shift PROVE Sio0Inv'
<1>1. PICK tx \in NextBytes :
        \/ ShiftToPad(tx) \/ ShiftToCard(tx) \/ ShiftToTapPad(tx)
        \/ ShiftToTapCard(tx) \/ ShiftToNobody(tx)
  BY DEF Shift
<1> QED BY <1>1, PadShifts, CardShifts, TapPadShifts, TapCardShifts, NobodyShifts

LEMMA Reading == ASSUME Sio0Inv, ReadRx PROVE Sio0Inv'
<1>1. rx \in Seq(Byte) /\ Len(rx) \in Nat /\ Len(rx) <= FifoCap /\ FifoCap \in Nat
  BY LenProperties, Sio0Assumption DEF Sio0Inv, Registers
<1>2. rx # <<>> /\ rx' = Tail(rx)
  BY DEF ReadRx
<1>3. Tail(rx) \in Seq(Byte) /\ Len(Tail(rx)) = Len(rx) - 1
  BY <1>1, <1>2, HeadTailProperties
<1>4. rx' \in Seq(Byte) /\ Len(rx') <= FifoCap
  BY <1>1, <1>2, <1>3
<1>5. /\ UNCHANGED <<ctrl, statIrq, ackLevel, ackTimer, phase, active, iStat, sent, rung, use>>
      /\ UNCHANGED <<pads, cards, taps>>
  BY DEF ReadRx, deviceVars, historyVars
<1>6. Registers' /\ Plugged'
  BY <1>4, <1>5 DEF Sio0Inv, Registers, Plugged
<1>7. Partner' /\ RegistersFollow' /\ EveryAckRings'
  BY <1>5 DEF Sio0Inv, Partner, RegistersFollow, PartnerCard, TapCard, EveryAckRings
<1> QED BY <1>6, <1>7 DEF Sio0Inv

\* Select dropped or not, a transfer that goes on is the one there was.
LEMMA Controlling ==
  ASSUME Sio0Inv, NEW c \in use.ctrl, WriteCtrl(c)
  PROVE  Sio0Inv'
<1>1. /\ c \in [txen: BOOLEAN, dtr: BOOLEAN, ien: BOOLEAN, port: Ports, ack: BOOLEAN, reset: BOOLEAN]
      /\ 0 \in Ports /\ AckDelay \in Nat /\ FifoCap \in Nat
  BY UsesOK, Sio0Assumption DEF Sio0Inv, UseOK
<1>2. UNCHANGED <<pads, cards, taps, iStat, use>> /\ (c.port = ctrl.port \/ phase = 0 \/ ~c.dtr)
  BY DEF WriteCtrl, deviceVars
<1>3. Plugged'
  BY <1>2 DEF Sio0Inv, Plugged
<1>4. CASE c.reset
  <2>1. ResetPort
    BY <1>4 DEF WriteCtrl
  <2>2. <<>> \in Seq(Byte) /\ Len(<<>>) = 0
    OBVIOUS
  <2>3. Registers'
    <3>1. -1 \in -1..AckDelay /\ 0 <= FifoCap
      BY <1>1
    <3> QED BY <1>1, <1>2, <2>1, <2>2, <3>1, ByteOrder DEF Sio0Inv, Registers, ResetPort, CtrlZero
  <2>4. Partner' /\ EveryAckRings' /\ active'.dev = "none"
    BY <2>1, <2>2 DEF Partner, EveryAckRings, ResetPort, Nobody, Devs, DataAreBits
  <2>5. RegistersFollow'
    BY <2>4, ElsewhereFollows
  <2> QED BY <1>3, <2>3, <2>4, <2>5 DEF Sio0Inv
<1>5. CASE ~c.reset
  <2> DEFINE abandoned == ctrl.dtr /\ ~c.dtr
  <2>1. /\ ctrl' = [txen |-> c.txen, dtr |-> c.dtr, ien |-> c.ien, port |-> c.port]
        /\ statIrq' = (statIrq /\ ~c.ack) /\ ackLevel' = (ackLevel /\ ~c.ack)
        /\ rung' = (rung /\ ~abandoned) /\ rx' = rx /\ ackTimer' = ackTimer
    BY <1>5 DEF WriteCtrl, Control
  <2>2. ctrl' \in [txen: BOOLEAN, dtr: BOOLEAN, ien: BOOLEAN, port: Ports]
    BY <1>1, <2>1
  <2>3. statIrq' \in BOOLEAN /\ ackLevel' \in BOOLEAN /\ rung' \in BOOLEAN
    BY <2>1
  <2>4. CASE abandoned
    <3>1. phase' = 0 /\ active' = Nobody /\ sent' = <<>>
      BY <1>5, <2>4 DEF WriteCtrl, Control
    <3>2. <<>> \in Seq(Byte) /\ Len(<<>>) = 0
      OBVIOUS
    <3>3. Registers'
      BY <1>2, <2>1, <2>2, <2>3, <3>1, <3>2, ByteOrder DEF Sio0Inv, Registers
    <3>4. Partner' /\ EveryAckRings' /\ active'.dev = "none"
      BY <3>1, <3>2 DEF Partner, EveryAckRings, Nobody, Devs, DataAreBits
    <3>5. RegistersFollow'
      BY <3>4, ElsewhereFollows
    <3> QED BY <1>3, <3>3, <3>4, <3>5 DEF Sio0Inv
  <2>5. CASE ~abandoned
    <3>1. phase' = phase /\ active' = active /\ sent' = sent
      BY <1>5, <2>5 DEF WriteCtrl, Control
    <3>2. Registers'
      BY <1>2, <2>1, <2>2, <2>3, <3>1 DEF Sio0Inv, Registers
    <3>3. ctrl'.dtr = c.dtr /\ ctrl'.port = c.port
      BY <2>1
    <3>4. Partner'
      BY <2>5, <3>1, <3>3 DEF Sio0Inv, Partner
    <3>5. EveryAckRings'
      BY <2>1, <2>5, <3>1 DEF Sio0Inv, EveryAckRings
    <3>6. CASE phase = 0
      <4>1. active'.dev = "none"
        BY <3>1, <3>6 DEF Sio0Inv, Partner
      <4> QED BY <1>3, <3>2, <3>4, <3>5, <4>1, ElsewhereFollows DEF Sio0Inv
    <3>7. CASE phase # 0
      <4>1. phase > 0
        BY <3>7, ByteOrder DEF Sio0Inv, Registers
      <4>2. ctrl'.port = ctrl.port
        BY <1>2, <2>5, <3>3, <3>7, <4>1 DEF Sio0Inv, Partner
      <4>3. RegistersFollow'
        BY <1>2, <3>1, <4>2 DEF Sio0Inv, RegistersFollow, PartnerCard, TapCard
      <4> QED BY <1>3, <3>2, <3>4, <3>5, <4>3 DEF Sio0Inv
    <3> QED BY <3>6, <3>7
  <2> QED BY <2>4, <2>5
<1> QED BY <1>4, <1>5

LEMMA Ticking == ASSUME Sio0Inv, Tick PROVE Sio0Inv'
<1>1. /\ ackTimer' = TimerAfter(ackTimer, 1)
      /\ ackLevel' = (ackLevel \/ Fires(ackTimer, 1))
      /\ statIrq' = (statIrq \/ (Fires(ackTimer, 1) /\ ctrl.ien))
      /\ iStat' = (iStat \/ (Fires(ackTimer, 1) /\ ctrl.ien))
      /\ rung' = (rung \/ Fires(ackTimer, 1))
      /\ UNCHANGED <<ctrl, rx, phase, active, pads, cards, taps, sent, use>>
  BY DEF Tick, deviceVars
<1>2. ackTimer \in -1..AckDelay /\ AckDelay \in Nat
  BY Sio0Assumption DEF Sio0Inv, Registers
<1>3. ackTimer' \in -1..AckDelay
  BY <1>1, <1>2 DEF TimerAfter
<1>4. ackTimer >= 0 => ackTimer' >= 0 \/ Fires(ackTimer, 1)
  BY <1>1, <1>2 DEF TimerAfter, Fires
<1>5. ackLevel' \in BOOLEAN /\ statIrq' \in BOOLEAN /\ iStat' \in BOOLEAN /\ rung' \in BOOLEAN
  BY <1>1
<1>6. Registers' /\ Plugged'
  BY <1>1, <1>3, <1>5 DEF Sio0Inv, Registers, Plugged
<1>7. Partner' /\ RegistersFollow'
  BY <1>1 DEF Sio0Inv, Partner, RegistersFollow, PartnerCard, TapCard
<1>8. EveryAckRings'
  BY <1>1, <1>4 DEF Sio0Inv, EveryAckRings
<1> QED BY <1>6, <1>7, <1>8 DEF Sio0Inv

\* What the host does to devices leaves the port alone.
LEMMA HostKeeps ==
  ASSUME Sio0Inv, HostUnchanged
  PROVE  Registers' /\ Partner' /\ EveryAckRings' /\ ctrl' = ctrl /\ active' = active /\ sent' = sent
<1>1. UNCHANGED <<ctrl, rx, statIrq, ackLevel, ackTimer, phase, active, iStat, sent, rung, use>>
  BY DEF HostUnchanged, portVars, historyVars
<1> QED BY <1>1 DEF Sio0Inv, Registers, Partner, EveryAckRings

LEMMA Poking ==
  ASSUME NEW p \in PadState, Sio0Inv, NEW q \in Pokes(p)
  PROVE  q \in PadState
<1>1. use.kinds \subseteq Kinds /\ use.buttons \subseteq Byte
  BY UsesOK DEF Sio0Inv, UseOK
<1>2. p.buttons \in Byte /\ Centre \in Byte /\ {"digital", "analog"} \subseteq Kinds
  BY DEF PadState, Centre, Byte, Kinds
<1>3. \A k \in Kinds : NewPad(k, p.buttons) \in PadState
  BY <1>2, FreshPad
<1>4. ASSUME NEW b \in Byte PROVE WithButtons(p, b) \in PadState
  <2>1. NewPad("digital", b) \in PadState
    BY <1>2, FreshPad
  <2>2. [p EXCEPT !.buttons = b] \in PadState
    BY DEF PadState
  <2> QED BY <2>1, <2>2 DEF WithButtons
<1>5. WithSticks(p, Centre) \in PadState
  <2> DEFINE s == IF p.kind \in {"analog", "stick"} THEN p ELSE NewPad("analog", p.buttons)
  <2>1. s \in PadState
    BY <1>2, <1>3
  <2>2. WithSticks(p, Centre) = [s EXCEPT !.axes = Centre]
    BY DEF WithSticks
  <2> HIDE DEF s
  <2>3. [s EXCEPT !.axes = Centre] \in PadState
    BY <1>2, <2>1 DEF PadState
  <2> QED BY <2>2, <2>3
<1>6. AnalogPressed(p) \in PadState
  BY DEF AnalogPressed, PadState
<1>7. \A k \in use.kinds : Replugged(p, k) \in PadState
  BY <1>1, <1>3 DEF Replugged
<1> QED BY <1>1, <1>4, <1>5, <1>6, <1>7 DEF Pokes

LEMMA PokingPads ==
  ASSUME Sio0Inv, NEW port \in Ports, PokePad(port)
  PROVE  Sio0Inv'
<1>1. PICK q \in Pokes(pads[port]) : pads' = [pads EXCEPT ![port] = q]
  BY DEF PokePad
<1>2. pads[port] \in PadState
  BY DEF Sio0Inv, Plugged
<1>3. q \in PadState
  BY <1>1, <1>2, Poking
<1>4. HostUnchanged /\ UNCHANGED <<cards, taps>>
  BY DEF PokePad
<1>5. Registers' /\ Partner' /\ EveryAckRings' /\ ctrl' = ctrl /\ active' = active /\ sent' = sent
  BY <1>4, HostKeeps
<1>6. Plugged'
  BY <1>1, <1>3, <1>4 DEF Sio0Inv, Plugged
<1>7. RegistersFollow'
  BY <1>4, <1>5 DEF Sio0Inv, RegistersFollow, PartnerCard, TapCard
<1> QED BY <1>5, <1>6, <1>7 DEF Sio0Inv

LEMMA PokingTapPads ==
  ASSUME Sio0Inv, NEW port \in Ports, NEW sub \in SubSlots, PokeTapPad(port, sub)
  PROVE  Sio0Inv'
<1> DEFINE t == taps[port]
<1>1. PICK q \in Pokes(taps[port].pads[sub]) : taps' = [taps EXCEPT ![port].pads[sub] = q]
  BY DEF PokeTapPad
<1>2. t \in TapState /\ t.pads[sub] \in PadState
  BY InBays DEF Sio0Inv, PokeTapPad, TapState
<1>3. q \in PadState
  BY <1>1, <1>2, Poking
<1>4. HostUnchanged /\ UNCHANGED <<pads, cards>>
  BY DEF PokeTapPad
<1>5. Registers' /\ Partner' /\ EveryAckRings' /\ ctrl' = ctrl /\ active' = active /\ sent' = sent
  BY <1>4, HostKeeps
<1> DEFINE u == [t EXCEPT !.pads[sub] = q]
<1>6. u \in TapState /\ u.cards = t.cards /\ taps' = [taps EXCEPT ![port] = u]
  BY <1>1, <1>2, <1>3 DEF TapState
<1> HIDE DEF u
<1>7. Plugged'
  BY <1>2, <1>4, <1>6 DEF Sio0Inv, Plugged
<1>8. ASSUME NEW p \in Ports, NEW s PROVE TapCard(p, s)' = TapCard(p, s)
  BY <1>2, <1>6, NotATap DEF Sio0Inv, Plugged, TapCard
<1>9. RegistersFollow'
  <2>1. ctrl.port \in Ports
    BY UsesOK DEF Sio0Inv
  <2> QED BY <1>4, <1>5, <1>8, <2>1 DEF Sio0Inv, RegistersFollow, PartnerCard
<1> QED BY <1>5, <1>7, <1>9 DEF Sio0Inv

LEMMA SlotsOfBays ==
  ASSUME NEW port \in Ports, NEW slot \in 0..TapSlots, slot # 0
  PROVE  slot - 1 \in SubSlots
BY PadsAssumption DEF SubSlots

\* A card changed in a bay is the card in that bay, and no other is another.
LEMMA PutCards ==
  ASSUME Plugged, NEW port \in Ports, NEW slot \in 0..TapSlots,
         NEW card \in CardState \cup {NoCard}, PutCard(<<port, slot>>, card)
  PROVE  /\ Plugged'
         /\ \A p \in Ports : cards'[p] = IF slot = 0 /\ p = port THEN card ELSE cards[p]
         /\ \A p \in Ports : \A s : TapCard(p, s)' =
              IF slot # 0 /\ p = port /\ s = slot - 1 THEN card ELSE TapCard(p, s)
         /\ slot # 0 => taps[port] # NoTap
         /\ HostUnchanged
<1>1. HostUnchanged /\ UNCHANGED pads
  BY DEF PutCard
<1>2. CASE slot = 0
  <2>1. cards' = [cards EXCEPT ![port] = card] /\ taps' = taps
    BY <1>2 DEF PutCard
  <2> QED BY <1>1, <1>2, <2>1 DEF Plugged, TapCard
<1>3. CASE slot # 0
  <2> DEFINE sub == slot - 1
             t == taps[port]
             u == [t EXCEPT !.cards[sub] = card]
  <2>1. /\ taps[port] # NoTap /\ taps' = [taps EXCEPT ![port] = u] /\ cards' = cards
    BY <1>3 DEF PutCard
  <2>2. t \in TapState /\ sub \in SubSlots
    BY <1>3, <2>1, InBays, SlotsOfBays
  <2>3. u \in TapState /\ \A s \in SubSlots : u.cards[s] = IF s = sub THEN card ELSE t.cards[s]
    BY <2>2 DEF TapState
  <2> HIDE DEF u, sub
  <2>4. Plugged'
    BY <1>1, <2>1, <2>3 DEF Plugged
  <2>5. ASSUME NEW p \in Ports, NEW s
        PROVE  TapCard(p, s)' = IF p = port /\ s = sub THEN card ELSE TapCard(p, s)
    <3>1. CASE p = port
      <4>1. taps'[p] = u /\ u # NoTap /\ taps[p] = t
        BY <2>1, <2>3, <3>1, NotATap DEF Plugged
      <4> QED BY <2>1, <2>2, <2>3, <3>1, <4>1 DEF TapCard
    <3>2. CASE p # port
      BY <2>1, <3>2 DEF Plugged, TapCard
    <3> QED BY <3>1, <3>2
  <2> QED BY <1>1, <1>3, <2>1, <2>4, <2>5 DEF sub
<1> QED BY <1>2, <1>3

LEMMA PuttingCards ==
  ASSUME Sio0Inv, NEW port \in Ports, NEW slot \in 0..TapSlots,
         NEW card \in CardState \cup {NoCard}, PutCard(<<port, slot>>, card),
         card # NoCard =>
           \/ Follows(card, sent)
           \/ /\ CardIn(<<port, slot>>) # NoCard
              /\ Follows(CardIn(<<port, slot>>), sent) => Follows(card, sent)
  PROVE  Sio0Inv'
<1>1. /\ Plugged' /\ HostUnchanged
      /\ \A p \in Ports : cards'[p] = IF slot = 0 /\ p = port THEN card ELSE cards[p]
      /\ \A p \in Ports : \A s : TapCard(p, s)' =
           IF slot # 0 /\ p = port /\ s = slot - 1 THEN card ELSE TapCard(p, s)
  BY PutCards DEF Sio0Inv
<1>2. Registers' /\ Partner' /\ EveryAckRings' /\ ctrl' = ctrl /\ active' = active /\ sent' = sent
  BY <1>1, HostKeeps
<1>3. PartnerCard' = PartnerCard \/ (PartnerCard' = card /\ PartnerCard = CardIn(<<port, slot>>))
  <2>1. ctrl.port \in Ports
    BY UsesOK DEF Sio0Inv
  <2>2. CardIn(<<port, slot>>) = IF slot = 0 THEN cards[port] ELSE TapCard(port, slot - 1)
    BY DEF CardIn
  <2>3. CASE active.dev = "card"
    BY <1>1, <1>2, <2>1, <2>2, <2>3 DEF PartnerCard
  <2>4. CASE active.dev = "tapCard"
    <3>1. PICK p \in Ports, s \in {active.sub} : p = ctrl.port /\ s = active.sub
      BY <2>1
    <3>2. PartnerCard = TapCard(p, s) /\ PartnerCard' = TapCard(p, s)'
      BY <1>2, <2>4, <3>1 DEF PartnerCard, TapCard
    <3> QED BY <1>1, <2>1, <2>2, <3>2
  <2>5. CASE active.dev \notin {"card", "tapCard"}
    BY <1>2, <2>5 DEF PartnerCard
  <2> QED BY <2>3, <2>4, <2>5
<1>4. RegistersFollow'
  <2>1. PartnerCard # NoCard => Follows(PartnerCard, sent)
    BY DEF Sio0Inv, RegistersFollow
  <2>2. PartnerCard' # NoCard => Follows(PartnerCard', sent)
    BY <1>3, <2>1
  <2> QED BY <1>2, <2>2 DEF RegistersFollow
<1> QED BY <1>1, <1>2, <1>4 DEF Sio0Inv

LEMMA Swapping ==
  ASSUME Sio0Inv, NEW bay \in Bays, InsertCard(bay) \/ EjectCard(bay) \/ ClearDirty(bay)
  PROVE  Sio0Inv'
<1>1. PICK port \in Ports, slot \in 0..TapSlots : bay = <<port, slot>>
  BY DEF Bays
<1>2. CASE InsertCard(bay)
  <2> DEFINE img == [a \in 0..(NumSectors - 1) |-> Blank]
             card == NewCard(img)
  <2>1. card \in CardState /\ card.cmd = "none"
    <3>1. img \in Image
      BY DEF Image, Sector, Blank
    <3> QED BY <3>1, FreshCard DEF NewCard
  <2>2. PutCard(<<port, slot>>, card)
    BY <1>1, <1>2 DEF InsertCard
  <2> HIDE DEF card
  <2>3. Follows(card, sent)
    BY <2>1, NoCommand
  <2> QED BY <2>1, <2>2, <2>3, PuttingCards
<1>3. CASE EjectCard(bay)
  BY <1>1, <1>3, PuttingCards DEF EjectCard
<1>4. CASE ClearDirty(bay)
  <2> DEFINE c == CardIn(bay)
             card == [c EXCEPT !.dirty = FALSE]
  <2>1. PutCard(<<port, slot>>, card) /\ c # NoCard /\ slot = 0
    BY <1>1, <1>4 DEF ClearDirty
  <2>2. c \in CardState
    BY <1>1, <2>1, InBays DEF Sio0Inv, CardIn
  <2>3. /\ card \in CardState /\ card.cmd = c.cmd /\ card.addr = c.addr /\ card.buf = c.buf
        /\ card.sum = c.sum
    BY <2>2 DEF CardState
  <2>4. c = CardIn(<<port, slot>>)
    BY <1>1
  <2> HIDE DEF c, card
  <2>5. Follows(c, sent) => Follows(card, sent)
    BY <2>3 DEF Follows
  <2> QED BY <2>1, <2>3, <2>4, <2>5, PuttingCards
<1> QED BY <1>2, <1>3, <1>4

LEMMA Tapping ==
  ASSUME Sio0Inv, NEW port \in Ports, NEW enabled \in BOOLEAN, SetMultitap(port, enabled)
  PROVE  Sio0Inv'
<1> DEFINE t == IF enabled THEN NewTap ELSE NoTap
<1>1. taps' = [taps EXCEPT ![port] = t] /\ HostUnchanged /\ UNCHANGED <<pads, cards>>
  BY DEF SetMultitap
<1>2. t \in TapState \cup {NoTap}
  BY FreshTap
<1>3. \A s \in SubSlots : t = NoTap \/ t.cards[s] = NoCard
  BY DEF NewTap
<1> HIDE DEF t
<1>4. Registers' /\ Partner' /\ EveryAckRings' /\ ctrl' = ctrl /\ active' = active /\ sent' = sent
  BY <1>1, HostKeeps
<1>5. Plugged'
  BY <1>1, <1>2 DEF Sio0Inv, Plugged
<1>6. \A p \in Ports : \A s : TapCard(p, s)' = IF p = port THEN NoCard ELSE TapCard(p, s)
  BY <1>1, <1>3 DEF Sio0Inv, Plugged, TapCard
<1>7. PartnerCard' = PartnerCard \/ PartnerCard' = NoCard
  <2>1. ctrl.port \in Ports
    BY UsesOK DEF Sio0Inv
  <2>2. CASE active.dev = "tapCard"
    <3>1. PICK p \in Ports, s \in {active.sub} : p = ctrl.port /\ s = active.sub
      BY <2>1
    <3>2. PartnerCard = TapCard(p, s) /\ PartnerCard' = TapCard(p, s)'
      BY <1>4, <2>2, <3>1 DEF PartnerCard, TapCard
    <3> QED BY <1>6, <2>1, <3>2
  <2>3. CASE active.dev # "tapCard"
    BY <1>1, <1>4, <2>3 DEF PartnerCard
  <2> QED BY <2>2, <2>3
<1>8. RegistersFollow'
  <2>1. PartnerCard # NoCard => Follows(PartnerCard, sent)
    BY DEF Sio0Inv, RegistersFollow
  <2>2. PartnerCard' # NoCard => Follows(PartnerCard', sent)
    BY <1>7, <2>1
  <2> QED BY <1>4, <2>2 DEF RegistersFollow
<1> QED BY <1>4, <1>5, <1>8 DEF Sio0Inv

\* A card that has been saved and loaded remembers its contents, and no command.
LEMMA Thawing ==
  ASSUME NEW c \in CardState \cup {NoCard}
  PROVE  /\ ThawedCard(c) \in CardState \cup {NoCard}
         /\ ThawedCard(c) # NoCard <=> c # NoCard
         /\ c # NoCard => /\ ThawedCard(c).cmd = "none"
                          /\ ThawedCard(c).data = c.data /\ ThawedCard(c).dirty = c.dirty
<1>1. CASE c = NoCard
  BY <1>1 DEF ThawedCard
<1>2. CASE c # NoCard
  <2>1. c \in CardState /\ ThawedCard(c) = Thawed(c)
    BY <1>2 DEF ThawedCard
  <2> QED BY <1>2, <2>1, ThawedCardType, NotACard
<1> QED BY <1>1, <1>2

LEMMA SavedCards ==
  ASSUME Plugged, SaveAndLoad
  PROVE  /\ Plugged'
         /\ \A p \in Ports : cards'[p] = ThawedCard(cards[p])
         /\ \A p \in Ports : \A s : TapCard(p, s)' = ThawedCard(TapCard(p, s))
<1> DEFINE Loaded(t) == [t EXCEPT !.pads = [s \in SubSlots |-> ThawedPad(t.pads[s])],
                                  !.cards = [s \in SubSlots |-> ThawedCard(t.cards[s])]]
<1>1. /\ pads' = [p \in Ports |-> ThawedPad(pads[p])]
      /\ cards' = [p \in Ports |-> ThawedCard(cards[p])]
      /\ \A p \in Ports : taps'[p] = IF taps[p] = NoTap THEN NoTap ELSE Loaded(taps[p])
      /\ taps' = [p \in Ports |-> IF taps[p] = NoTap THEN NoTap ELSE Loaded(taps[p])]
  BY DEF SaveAndLoad
<1>2. ASSUME NEW t \in TapState
      PROVE  /\ Loaded(t) \in TapState
             /\ \A s \in SubSlots : Loaded(t).cards[s] = ThawedCard(t.cards[s])
  <2> DEFINE P == [s \in SubSlots |-> ThawedPad(t.pads[s])]
             C == [s \in SubSlots |-> ThawedCard(t.cards[s])]
             half == [t EXCEPT !.pads = P]
  <2>1. P \in [SubSlots -> PadState]
    BY ThawedPadType DEF TapState
  <2>2. C \in [SubSlots -> CardState \cup {NoCard}]
    <3>1. \A s \in SubSlots : t.cards[s] \in CardState \cup {NoCard}
      BY DEF TapState
    <3> QED BY <3>1, Thawing
  <2>3. \A s \in SubSlots : C[s] = ThawedCard(t.cards[s])
    OBVIOUS
  <2>4. Loaded(t) = [half EXCEPT !.cards = C]
    OBVIOUS
  <2> HIDE DEF P, C, Loaded
  <2>5. half \in TapState
    BY <2>1 DEF TapState
  <2> HIDE DEF half
  <2>6. [half EXCEPT !.cards = C] \in TapState /\ [half EXCEPT !.cards = C].cards = C
    BY <2>2, <2>5 DEF TapState
  <2> QED BY <2>3, <2>4, <2>6
<1> HIDE DEF Loaded
<1>3. taps' \in [Ports -> TapState \cup {NoTap}]
  BY <1>1, <1>2 DEF Plugged
<1>4. pads' \in [Ports -> PadState]
  BY <1>1, ThawedPadType DEF Plugged
<1>5. cards' \in [Ports -> CardState \cup {NoCard}]
  <2>1. \A p \in Ports : cards[p] \in CardState \cup {NoCard}
    BY DEF Plugged
  <2> QED BY <1>1, <2>1, Thawing
<1>6. ASSUME NEW p \in Ports, NEW s PROVE TapCard(p, s)' = ThawedCard(TapCard(p, s))
  <2>1. CASE taps[p] = NoTap
    BY <1>1, <2>1 DEF TapCard, ThawedCard
  <2>2. CASE taps[p] # NoTap
    <3>1. taps[p] \in TapState /\ taps'[p] = Loaded(taps[p])
      BY <1>1, <2>2 DEF Plugged
    <3>2. taps'[p] # NoTap
      BY <1>2, <3>1, NotATap
    <3> QED BY <1>2, <2>2, <3>1, <3>2 DEF TapCard, ThawedCard
  <2> QED BY <2>1, <2>2
<1> QED BY <1>1, <1>3, <1>4, <1>5, <1>6 DEF Plugged

LEMMA Saving == ASSUME Sio0Inv, SaveAndLoad PROVE Sio0Inv'
<1>1. /\ Plugged'
      /\ \A p \in Ports : cards'[p] = ThawedCard(cards[p])
      /\ \A p \in Ports : \A s : TapCard(p, s)' = ThawedCard(TapCard(p, s))
  BY SavedCards DEF Sio0Inv
<1>2. Registers' /\ Partner' /\ EveryAckRings' /\ ctrl' = ctrl /\ active' = active /\ sent' = sent
  BY HostKeeps DEF SaveAndLoad
<1>3. PartnerCard' = ThawedCard(PartnerCard)
  <2>1. ctrl.port \in Ports
    BY UsesOK DEF Sio0Inv
  <2>2. CASE active.dev = "tapCard"
    <3>1. PICK p \in Ports, s \in {active.sub} : p = ctrl.port /\ s = active.sub
      BY <2>1
    <3>2. PartnerCard = TapCard(p, s) /\ PartnerCard' = TapCard(p, s)'
      BY <1>2, <2>2, <3>1 DEF PartnerCard, TapCard
    <3> QED BY <1>1, <2>1, <3>2
  <2>3. CASE active.dev # "tapCard"
    BY <1>1, <1>2, <2>1, <2>3 DEF PartnerCard, ThawedCard
  <2> QED BY <2>2, <2>3
<1>4. PartnerCard \in CardState \cup {NoCard}
  BY UsesOK, InBays DEF Sio0Inv, PartnerCard
<1>5. RegistersFollow'
  <2>1. PartnerCard' # NoCard => PartnerCard'.cmd = "none"
    BY <1>3, <1>4, Thawing
  <2>2. PartnerCard' # NoCard => Follows(PartnerCard', sent')
    BY <2>1, NoCommand
  <2> QED BY <2>2 DEF RegistersFollow
<1> QED BY <1>1, <1>2, <1>5 DEF Sio0Inv

\* The port's invariant.
LEMMA Sio0Starts == ASSUME Init PROVE Sio0Inv
<1>1. <<>> \in Seq(Byte) /\ Len(<<>>) = 0
  OBVIOUS
<1>2. use \in Uses /\ UseOK(use)
  BY Sio0Assumption DEF Init
<1>3. Registers
  <2>1. -1 \in -1..AckDelay /\ 0 <= FifoCap /\ 0 \in Ports
    BY Sio0Assumption
  <2> QED BY <1>1, <2>1, ByteOrder DEF Init, Registers, CtrlZero
<1>4. Plugged
  <2>1. \A p \in Ports : NewPad(use.first[p], 0) \in PadState
    BY <1>2, ByteOrder, FreshPad DEF UseOK
  <2> QED BY <2>1 DEF Init, Plugged
<1>5. Partner /\ RegistersFollow /\ EveryAckRings
  BY <1>1 DEF Init, Partner, RegistersFollow, PartnerCard, EveryAckRings, Nobody, Devs, DataAreBits
<1> QED BY <1>3, <1>4, <1>5 DEF Sio0Inv

LEMMA Sio0Steps == ASSUME Sio0Inv, [Next]_vars PROVE Sio0Inv'
<1>1. /\ use.pads \subseteq Ports \X (-1..(TapSlots - 1)) /\ use.bays \subseteq Bays
      /\ use.taps \subseteq Ports
  BY UsesOK DEF Sio0Inv, UseOK, Bays
<1>2. CASE Shift
  BY <1>2, Shifts
<1>3. CASE ReadRx
  BY <1>3, Reading
<1>4. CASE \E c \in use.ctrl : WriteCtrl(c)
  BY <1>4, Controlling
<1>5. CASE AcknowledgeLine
  <2>1. /\ iStat' = FALSE /\ UNCHANGED <<ctrl, rx, statIrq, ackLevel, ackTimer, phase, active>>
        /\ UNCHANGED <<pads, cards, taps, sent, rung, use>>
    BY <1>5 DEF AcknowledgeLine, portVars, deviceVars, historyVars
  <2>2. Plugged' /\ Partner'
    BY <2>1 DEF Sio0Inv, Plugged, Partner
  <2>3. RegistersFollow' /\ EveryAckRings'
    BY <2>1 DEF Sio0Inv, RegistersFollow, PartnerCard, TapCard, EveryAckRings
  <2>4. Registers'
    <3>1. iStat' \in BOOLEAN
      BY <2>1
    <3> QED BY <2>1, <3>1 DEF Sio0Inv, Registers
  <2> QED BY <2>2, <2>3, <2>4 DEF Sio0Inv
<1>6. CASE Tick
  BY <1>6, Ticking
<1>7. CASE \E where \in use.pads :
             IF where[2] = -1 THEN PokePad(where[1]) ELSE PokeTapPad(where[1], where[2])
  <2>1. PICK where \in use.pads :
             IF where[2] = -1 THEN PokePad(where[1]) ELSE PokeTapPad(where[1], where[2])
    BY <1>7
  <2>2. where[1] \in Ports /\ where[2] \in -1..(TapSlots - 1)
    BY <1>1
  <2>3. where[2] # -1 => where[2] \in SubSlots
    BY <2>2, PadsAssumption DEF SubSlots
  <2> QED BY <2>1, <2>2, <2>3, PokingPads, PokingTapPads
<1>8. CASE \E bay \in use.bays : InsertCard(bay) \/ EjectCard(bay) \/ ClearDirty(bay)
  BY <1>1, <1>8, Swapping
<1>9. CASE \E port \in use.taps, enabled \in BOOLEAN : SetMultitap(port, enabled)
  BY <1>1, <1>9, Tapping
<1>10. CASE SaveAndLoad
  BY <1>10, Saving
<1>11. CASE UNCHANGED vars
  <2>1. /\ UNCHANGED <<iStat, ctrl, rx, statIrq, ackLevel, ackTimer, phase, active>>
        /\ UNCHANGED <<pads, cards, taps, sent, rung, use>>
    BY <1>11 DEF vars, portVars, deviceVars, historyVars
  <2>2. Registers' /\ Plugged' /\ Partner'
    BY <2>1 DEF Sio0Inv, Registers, Plugged, Partner
  <2>3. RegistersFollow' /\ EveryAckRings'
    BY <2>1 DEF Sio0Inv, RegistersFollow, PartnerCard, TapCard, EveryAckRings
  <2> QED BY <2>2, <2>3 DEF Sio0Inv
<1> QED BY <1>2, <1>3, <1>4, <1>5, <1>6, <1>7, <1>8, <1>9, <1>10, <1>11 DEF Next

\* Whatever guest and host do: the device under way is one that is or was
\* there, its message is one the guest may send, and the registers of a card
\* that has not given up are those its message asks for (Sio0, MemoryCard).
THEOREM Sio0Invariant == Spec => []Sio0Inv
<1> QED BY Sio0Starts, Sio0Steps, PTL DEF Spec

\* Every variable of the port holds what the code's types allow, and the
\* phase counts the bytes of the transfer (Sio0's fields).
THEOREM PortTypes == Spec => []TypeOK
<1>1. ASSUME Sio0Inv PROVE TypeOK
  <2>1. ctrl \in [txen: BOOLEAN, dtr: BOOLEAN, ien: BOOLEAN, port: 0..1]
    BY <1>1, Sio0Assumption DEF Sio0Inv, Registers
  <2>2. phase > 0 => active # Nobody
    BY <1>1 DEF Sio0Inv, Registers, Partner, Nobody
  <2>3. \A p \in Ports : pads[p] \in PadState
    BY <1>1 DEF Sio0Inv, Plugged
  <2>4. ASSUME NEW bay \in Bays PROVE CardIn(bay) = NoCard \/ CardIn(bay) \in CardState
    BY <1>1, InBays DEF Sio0Inv, Bays, CardIn
  <2> QED BY <1>1, <2>1, <2>2, <2>3, <2>4 DEF Sio0Inv, Registers, Partner, TypeOK
<1> QED BY <1>1, Sio0Invariant, PTL

\* A guest that waits for /ACK before its next byte never waits in vain
\* (tx_byte, write_ctrl, tick).
THEOREM AcksRing == Spec => []EveryAckRings
<1>1. Sio0Inv => EveryAckRings
  BY DEF Sio0Inv
<1> QED BY <1>1, Sio0Invariant, PTL

\* The port's clock is what the lazy scheduler asks for, for every delay
\* (Sio0::tick, cycles_to_next_event).
THEOREM PortKeepsContract == Spec => []AckTimerKeepsContract
<1>1. ASSUME Sio0Inv PROVE AckTimerKeepsContract
  <2>1. ackTimer \in -1..AckDelay /\ AckDelay \in Nat
    BY <1>1, Sio0Assumption DEF Sio0Inv, Registers
  <2>2. ASSUME NEW n \in 1..(AckDelay + 1)
        PROVE  /\ TimerAfter(TimerAfter(ackTimer, 1), n) = TimerAfter(ackTimer, n + 1)
               /\ Fires(ackTimer, n + 1) = (Fires(ackTimer, 1) \/ Fires(TimerAfter(ackTimer, 1), n))
               /\ Fires(ackTimer, n) = (ackTimer >= 0 /\ n >= CyclesToNextEvent)
               /\ ~ (Fires(ackTimer, n) /\ Fires(TimerAfter(ackTimer, n), 1))
    <3> DEFINE t == ackTimer
               u == TimerAfter(t, 1)
    <3>1. t \in Int /\ t >= -1 /\ n \in Nat /\ n >= 1
      BY <2>1
    <3>2. /\ u \in Int
          /\ u = IF t <= 1 THEN -1 ELSE t - 1
          /\ Fires(t, 1) <=> (t = 0 \/ t = 1)
      BY <3>1 DEF TimerAfter, Fires
    <3> HIDE DEF t, u
    <3>3. TimerAfter(t, n + 1) = TimerAfter(u, n)
      BY <3>1, <3>2 DEF TimerAfter
    <3>4. Fires(t, n + 1) <=> (Fires(t, 1) \/ Fires(u, n))
      BY <3>1, <3>2 DEF Fires
    <3>5. Fires(t, n) <=> (t >= 0 /\ n >= IF t > 1 THEN t ELSE 1)
      BY <3>1 DEF Fires
    <3>6. ~ (Fires(t, n) /\ Fires(TimerAfter(t, n), 1))
      BY <3>1 DEF Fires, TimerAfter
    <3>7. Fires(t, n + 1) \in BOOLEAN /\ Fires(t, n) \in BOOLEAN
      BY DEF Fires
    <3> QED BY <3>3, <3>4, <3>5, <3>6, <3>7 DEF t, u, CyclesToNextEvent
  <2> QED BY <2>2 DEF AckTimerKeepsContract
<1> QED BY <1>1, Sio0Invariant, PTL

(***************************************************************************)
(* Sessions: what CardSessions sees of the port.                           *)
(***************************************************************************)
Images  == [b \in Bays |-> IF CardIn(b) = NoCard THEN <<>> ELSE CardIn(b).data]
Unsaved == [b \in Bays |-> CardIn(b) # NoCard /\ CardIn(b).dirty]
Target  == IF SessionOpen THEN SessionBay ELSE NoBay
Message == IF SessionOpen THEN sent ELSE <<>>
LastReply == IF rx = <<>> THEN -1 ELSE Last(rx)

LEMMA SeenSame ==
  ASSUME Images' = Images, Unsaved' = Unsaved, Target' = Target, Message' = Message,
         LastReply' = LastReply
  PROVE  UNCHANGED Sessions!vars
BY DEF Sessions!vars, Images, Unsaved, Target, Message, LastReply

LEMMA SeenByte ==
  ASSUME NEW bay \in Bays, NEW tx \in TxBytes,
         Images[bay] # <<>>, Message = <<>> \/ bay = Target,
         LastReply' \in Byte, Sessions!Told(Images[bay], Append(Message, tx), LastReply'),
         Message' = IF Len(Append(Message, tx)) < Sessions!Length(Append(Message, tx))
                    THEN Append(Message, tx) ELSE <<>>,
         Target' = IF Len(Append(Message, tx)) < Sessions!Length(Append(Message, tx))
                   THEN bay ELSE NoBay,
         IF Sessions!Takes(Append(Message, tx))
         THEN /\ Images' = [Images EXCEPT ![bay][Sessions!AddressOf(Append(Message, tx))]
                                             = Sessions!DataOf(Append(Message, tx))]
              /\ Unsaved' = [Unsaved EXCEPT ![bay] = TRUE]
         ELSE Images' = Images /\ Unsaved' = Unsaved
  PROVE  Sessions!Next
<1>1. Sessions!ShiftToCard(bay, tx)
  BY DEF Sessions!ShiftToCard, Sessions!NoImage, Images, Unsaved, Target, Message, LastReply, Byte
<1> QED BY <1>1 DEF Sessions!Next

LEMMA SeenElsewhere ==
  ASSUME Message = <<>> \/ Images[Target] = <<>>, LastReply' \in Byte,
         Message' = <<>>, Target' = NoBay, Images' = Images, Unsaved' = Unsaved
  PROVE  Sessions!Next
<1>1. Sessions!ShiftElsewhere
  BY DEF Sessions!ShiftElsewhere, Sessions!NoImage, Images, Unsaved, Target, Message, LastReply, Byte
<1> QED BY <1>1 DEF Sessions!Next

LEMMA SeenAbandoned ==
  ASSUME Message' = <<>>, Target' = NoBay, LastReply' \in {LastReply, -1},
         Images' = Images, Unsaved' = Unsaved
  PROVE  Sessions!Next
<1>1. Sessions!Abandon
  BY DEF Sessions!Abandon, Images, Unsaved, Target, Message, LastReply
<1> QED BY <1>1 DEF Sessions!Next

LEMMA SeenSwapped ==
  ASSUME \A b \in Bays : Images'[b] # Images[b] \/ Unsaved'[b] # Unsaved[b] => ~Unsaved'[b],
         \/ Message' = Message /\ Target' = Target
         \/ /\ Target \in Bays /\ Message' = <<>> /\ Target' = NoBay
            /\ Images'[Target] # Images[Target] \/ Unsaved'[Target] # Unsaved[Target],
         LastReply' = LastReply
  PROVE  Sessions!Next
<1>1. Sessions!Swap
  BY DEF Sessions!Swap, Images, Unsaved, Target, Message, LastReply
<1> QED BY <1>1 DEF Sessions!Next

LEMMA SeenRead ==
  ASSUME LastReply' = -1, Message' = Message, Target' = Target, Images' = Images, Unsaved' = Unsaved
  PROVE  Sessions!Next
<1>1. Sessions!Read
  BY DEF Sessions!Read, Images, Unsaved, Target, Message, LastReply
<1> QED BY <1>1 DEF Sessions!Next

\* The bay of the transfer, if it is with a card.
BayKnown ==
  /\ active.dev \in {"card", "tapCard"} =>
       /\ SessionBay \in Bays /\ SessionBay # NoBay /\ CardIn(SessionBay) = PartnerCard
       /\ SessionBay = <<ctrl.port, IF active.dev = "card" THEN 0 ELSE active.sub + 1>>
       /\ SessionOpen <=> Len(sent) = 1 \/ (PartnerCard # NoCard /\ PartnerCard.cmd # "none")
  /\ active.dev \notin {"card", "tapCard"} =>
       SessionBay = NoBay /\ ~SessionOpen /\ Message = <<>> /\ Target = NoBay

LEMMA SessionBays == Registers /\ Partner => BayKnown
<1> SUFFICES ASSUME Registers, Partner PROVE BayKnown
  OBVIOUS
<1>1. ctrl.port \in Ports
  BY UsesOK
<1>2. CASE active.dev = "card"
  <2>1. SessionBay = <<ctrl.port, 0>>
    BY <1>2 DEF SessionBay
  <2>2. <<ctrl.port, 0>> \in Bays
    BY <1>1, PadsAssumption DEF Bays
  <2>3. SessionBay # NoBay /\ CardIn(SessionBay) = PartnerCard
    BY <1>2, <2>1, <2>2, Sio0Assumption DEF Bays, CardIn, PartnerCard
  <2> QED BY <1>2, <2>1, <2>2, <2>3 DEF SessionOpen, BayKnown
<1>3. CASE active.dev = "tapCard"
  <2>1. SessionBay = <<ctrl.port, active.sub + 1>> /\ active.sub \in SubSlots
    BY <1>3 DEF SessionBay, Partner
  <2>2. <<ctrl.port, active.sub + 1>> \in Bays /\ active.sub + 1 # 0 /\ (active.sub + 1) - 1 = active.sub
    BY <1>1, <2>1, PadsAssumption DEF Bays, SubSlots
  <2>3. SessionBay # NoBay /\ CardIn(SessionBay) = PartnerCard
    BY <1>3, <2>1, <2>2, Sio0Assumption DEF Bays, CardIn, PartnerCard
  <2> QED BY <1>3, <2>1, <2>2, <2>3 DEF SessionOpen, BayKnown
<1>4. CASE active.dev \notin {"card", "tapCard"}
  <2>1. SessionBay = NoBay
    BY <1>4 DEF SessionBay
  <2> QED BY <1>4, <2>1 DEF SessionOpen, Message, Target, BayKnown
<1> QED BY <1>2, <1>3, <1>4

LEMMA NextSessionBays == Registers' /\ Partner' => BayKnown'
BY SessionBays, PTL

LEMMA Replied ==
  ASSUME Registers, NEW resp \in Byte, rx' = Pushed(rx, resp)
  PROVE  LastReply' = resp
<1> DEFINE q == IF Len(rx) >= FifoCap THEN Tail(rx) ELSE rx
<1>1. q \in Seq(Byte)
  <2>1. rx \in Seq(Byte) /\ Len(rx) \in Nat /\ FifoCap \in Nat /\ FifoCap > 0
    BY LenProperties, Sio0Assumption DEF Registers
  <2>2. Len(rx) >= FifoCap => rx # <<>>
    BY <2>1
  <2> QED BY <2>1, <2>2, HeadTailProperties
<1>2. rx' = Append(q, resp)
  BY DEF Pushed
<1> HIDE DEF q
<1>3. Append(q, resp) # <<>> /\ Append(q, resp)[Len(Append(q, resp))] = resp
  <2>1. /\ Len(Append(q, resp)) = Len(q) + 1 /\ Append(q, resp)[Len(q) + 1] = resp /\ Len(q) \in Nat
    BY <1>1, AppendProperties, LenProperties
  <2> QED BY <2>1
<1> QED BY <1>2, <1>3 DEF LastReply, Last

LEMMA SameCards ==
  ASSUME \A b \in Bays : CardIn(b)' = CardIn(b)
  PROVE  Images' = Images /\ Unsaved' = Unsaved
BY DEF Images, Unsaved

LEMMA SameDevices ==
  ASSUME cards' = cards, taps' = taps
  PROVE  \A b \in Bays : CardIn(b)' = CardIn(b)
BY DEF CardIn, TapCard

LEMMA HasImage ==
  ASSUME NEW img \in Image
  PROVE  img # <<>>
<1>1. 0 \in DOMAIN img
  BY MemoryCardAssumption DEF Image
<1>2. 0 \notin DOMAIN <<>>
  OBVIOUS
<1> QED BY <1>1, <1>2

\* A byte to a card, in a bay of its own, is a byte of its message, or is
\* wasted on a card that has given up.
LEMMA CardByteSeen ==
  ASSUME Sio0Inv, Sio0Inv', NEW tx \in NextBytes, AddressedBy(tx).dev \in {"card", "tapCard"},
         NEW c \in CardState, c = Addressee(tx), NEW bay \in Bays, CardIn(bay) = c,
         bay = <<ctrl.port, IF AddressedBy(tx).dev = "card" THEN 0 ELSE AddressedBy(tx).sub + 1>>,
         Selected, AddressedBy(tx).dev = "tapCard" => AddressedBy(tx).sub \in SubSlots,
         Exchanged(tx, CardExchange(c, phase, tx).resp, CardExchange(c, phase, tx).ack),
         \A b \in Bays : CardIn(b)' = IF b = bay THEN CardExchange(c, phase, tx).card ELSE CardIn(b)
  PROVE  Sessions!Next
<1> DEFINE r == CardExchange(c, phase, tx)
           m == Append(sent, tx)
<1>1. /\ r.card \in CardState /\ r.resp \in Byte /\ r.ack \in BOOLEAN
      /\ r.ack => phase < 255 /\ Follows(r.card, Append(sent, tx))
  BY CardShifting
<1>2. /\ phase > 1 /\ c.cmd = "none" => r = Reply(c, OpenBus, FALSE)
      /\ ~(phase > 1 /\ c.cmd = "none") => AsToldTo(c, sent, tx, r)
  BY CardShifting
<1>20. /\ Exchanged(tx, r.resp, r.ack)
       /\ \A b \in Bays : CardIn(b)' = IF b = bay THEN r.card ELSE CardIn(b)
  OBVIOUS
<1> HIDE DEF r
<1>3. /\ tx \in Byte /\ tx \in TxBytes /\ phase \in Nat /\ sent \in Seq(Byte) /\ Len(sent) = phase
  BY NextByte, ByteOrder DEF Sio0Inv, Registers, Partner
<1>4. /\ ctrl' = ctrl
      /\ IF r.ack THEN active' = AddressedBy(tx) /\ sent' = m ELSE active' = Nobody /\ sent' = <<>>
  BY <1>1, <1>20, Exchanging
<1>5. phase > 0 => AddressedBy(tx) = active
  BY <1>3, Addressees DEF Sio0Inv
<1>6. /\ phase = 0 => Message = <<>> /\ sent = <<>> /\ ~SessionOpen
      /\ phase > 0 => /\ SessionBay = bay
                      /\ SessionOpen <=> phase = 1 \/ c.cmd # "none"
  <2>1. CASE phase = 0
    BY <1>3, <2>1, SessionBays, EmptySeq DEF Sio0Inv, Partner, BayKnown
  <2>2. CASE phase > 0
    <3>1. active.dev \in {"card", "tapCard"} /\ PartnerCard = c /\ c # NoCard
      BY <1>5, <2>2, NotACard DEF PartnerCard, Addressee
    <3> QED BY <1>3, <1>5, <2>2, <3>1, SessionBays DEF Sio0Inv, BayKnown
  <2> QED BY <1>3, <2>1, <2>2
<1>7. LastReply' = r.resp
  BY <1>1, <1>20, Replied DEF Sio0Inv, Exchanged
\* What is seen of the port afterwards.
<1>8. IF r.ack /\ (phase = 0 \/ r.card.cmd # "none") THEN Message' = m /\ Target' = bay
      ELSE Message' = <<>> /\ Target' = NoBay
  <2>1. CASE r.ack
    <3>1. active' = AddressedBy(tx) /\ sent' = m /\ Len(m) = phase + 1
      BY <1>3, <1>4, <2>1, Growing
    <3>2. /\ SessionBay' = bay /\ CardIn(SessionBay)' = PartnerCard'
          /\ SessionOpen' <=> Len(sent') = 1 \/ (PartnerCard' # NoCard /\ PartnerCard'.cmd # "none")
      BY <1>4, <3>1, NextSessionBays DEF Sio0Inv, BayKnown
    <3>3. PartnerCard' = r.card /\ r.card # NoCard
      <4>1. CardIn(SessionBay)' = CardIn(bay)'
        BY <3>2 DEF CardIn, TapCard
      <4> QED BY <1>1, <1>20, <3>2, <4>1, NotACard
    <3>4. SessionOpen' <=> phase = 0 \/ r.card.cmd # "none"
      BY <1>3, <3>1, <3>2, <3>3
    <3> QED BY <2>1, <3>1, <3>2, <3>4 DEF Message, Target
  <2>2. CASE ~r.ack
    <3>1. active'.dev = "none"
      BY <1>4, <2>2 DEF Nobody
    <3> QED BY <2>2, <3>1, NextSessionBays DEF Sio0Inv, BayKnown
  <2> QED BY <2>1, <2>2
<1>9. CASE phase > 1 /\ c.cmd = "none"
  <2>1. r.card = c /\ ~r.ack
    BY <1>2, <1>9 DEF Reply
  <2>2. \A b \in Bays : CardIn(b)' = CardIn(b)
    BY <1>20, <2>1
  <2>3. Images' = Images /\ Unsaved' = Unsaved
    BY <2>2, SameCards
  <2>4. Message = <<>>
    <3>1. phase > 0 /\ phase # 1
      BY <1>3, <1>9
    <3>2. ~SessionOpen
      BY <1>6, <1>9, <3>1
    <3> QED BY <3>2 DEF Message
  <2>5. Message' = <<>> /\ Target' = NoBay
    BY <1>8, <2>1
  <2> QED BY <1>1, <1>7, <2>3, <2>4, <2>5, SeenElsewhere
<1>10. CASE ~(phase > 1 /\ c.cmd = "none")
  <2>1. /\ r.ack <=> Len(m) < Sessions!Length(m)
        /\ r.ack => (Len(m) > 1 => r.card.cmd # "none")
        /\ Sessions!Told(c.data, m, r.resp)
        /\ IF Sessions!Takes(m)
           THEN /\ r.card.data = [c.data EXCEPT ![Sessions!AddressOf(m)] = Sessions!DataOf(m)]
                /\ r.card.dirty
           ELSE r.card.data = c.data /\ r.card.dirty = c.dirty
    BY <1>2, <1>10 DEF AsToldTo
  <2>2. Message = sent /\ (Message = <<>> \/ bay = Target)
    <3>1. CASE phase = 0
      BY <1>6, <3>1
    <3>2. CASE phase > 0
      <4>1. SessionOpen
        BY <1>3, <1>6, <1>10, <3>2
      <4> QED BY <1>6, <3>2, <4>1 DEF Message, Target
    <3> QED BY <1>3, <3>1, <3>2
  <2>3. r.ack => phase = 0 \/ r.card.cmd # "none"
    <3>1. Len(m) = phase + 1
      BY <1>3, Growing
    <3> QED BY <1>3, <2>1, <3>1
  <2>4. /\ Message' = IF Len(m) < Sessions!Length(m) THEN m ELSE <<>>
        /\ Target' = IF Len(m) < Sessions!Length(m) THEN bay ELSE NoBay
    BY <1>8, <2>1, <2>3
  <2>5. /\ Images[bay] = c.data /\ Images[bay] # <<>> /\ Unsaved[bay] = c.dirty
        /\ Images'[bay] = r.card.data /\ Unsaved'[bay] = r.card.dirty
        /\ \A b \in Bays : b # bay => Images'[b] = Images[b] /\ Unsaved'[b] = Unsaved[b]
    <3>1. c # NoCard /\ r.card # NoCard /\ c.data \in Image
      BY <1>1, NotACard, CardFields
    <3>2. c.dirty \in BOOLEAN /\ r.card.dirty \in BOOLEAN
      BY <1>1, CardFields
    <3> QED BY <1>20, <3>1, <3>2, HasImage DEF Images, Unsaved
  <2>6. /\ DOMAIN Images = Bays /\ DOMAIN Images' = Bays /\ DOMAIN Unsaved = Bays /\ DOMAIN Unsaved' = Bays
        /\ Images = [b \in Bays |-> Images[b]] /\ Images' = [b \in Bays |-> Images'[b]]
        /\ Unsaved = [b \in Bays |-> Unsaved[b]] /\ Unsaved' = [b \in Bays |-> Unsaved'[b]]
    BY DEF Images, Unsaved
  <2>7. IF Sessions!Takes(m)
        THEN /\ Images' = [Images EXCEPT ![bay][Sessions!AddressOf(m)] = Sessions!DataOf(m)]
             /\ Unsaved' = [Unsaved EXCEPT ![bay] = TRUE]
        ELSE Images' = Images /\ Unsaved' = Unsaved
    <3>1. CASE Sessions!Takes(m)
      <4>1. Unsaved'[bay] = TRUE
        <5>1. r.card.dirty \in BOOLEAN
          BY <1>1, CardFields
        <5> QED BY <2>1, <2>5, <3>1, <5>1
      <4>2. Unsaved' = [Unsaved EXCEPT ![bay] = TRUE]
        BY <2>5, <2>6, <4>1
      <4>3. Images' = [Images EXCEPT ![bay] = r.card.data]
        BY <2>5, <2>6
      <4>4. r.card.data = [Images[bay] EXCEPT ![Sessions!AddressOf(m)] = Sessions!DataOf(m)]
        BY <2>1, <2>5, <3>1
      <4>5. Images' = [Images EXCEPT ![bay][Sessions!AddressOf(m)] = Sessions!DataOf(m)]
        BY <4>3, <4>4
      <4> QED BY <3>1, <4>2, <4>5
    <3>2. CASE ~Sessions!Takes(m)
      <4>1. \A b \in Bays : Images'[b] = Images[b] /\ Unsaved'[b] = Unsaved[b]
        BY <2>1, <2>5, <3>2
      <4>2. Images' = Images /\ Unsaved' = Unsaved
        BY <2>6, <4>1
      <4> QED BY <3>2, <4>2
    <3> QED BY <3>1, <3>2
  <2>8. m = Append(Message, tx)
    BY <2>2
  <2> HIDE DEF m
  <2> QED BY <1>1, <1>3, <1>7, <2>1, <2>2, <2>4, <2>5, <2>7, <2>8, SeenByte
<1> QED BY <1>9, <1>10

\* A byte to something else finds no message, or one whose card is gone.
LEMMA OtherByteSeen ==
  ASSUME Sio0Inv, Sio0Inv', NEW tx \in NextBytes, NEW resp \in Byte, NEW ack \in BOOLEAN,
         Exchanged(tx, resp, ack), Message = <<>> \/ Images[Target] = <<>>,
         active'.dev \notin {"card", "tapCard"}, \A b \in Bays : CardIn(b)' = CardIn(b)
  PROVE  Sessions!Next
<1>1. LastReply' = resp
  BY Replied DEF Sio0Inv, Exchanged
<1>2. Message' = <<>> /\ Target' = NoBay
  BY NextSessionBays DEF Sio0Inv, BayKnown
<1> QED BY <1>1, <1>2, SameCards, SeenElsewhere

LEMMA NoCardNoMessage ==
  ASSUME Sio0Inv, NEW tx \in NextBytes, phase > 0 => active.dev \notin {"card", "tapCard"}
  PROVE  Message = <<>>
<1>1. phase \in Nat /\ (phase = 0 => active.dev = "none")
  BY ByteOrder DEF Sio0Inv, Registers, Partner
<1>2. active.dev \notin {"card", "tapCard"}
  BY <1>1
<1> QED BY <1>2, SessionBays DEF Sio0Inv, BayKnown

LEMMA PadSeen ==
  ASSUME Sio0Inv, Sio0Inv', NEW tx \in NextBytes, ShiftToPad(tx)
  PROVE  Sessions!Next
<1> DEFINE r == PadExchange(pads[ctrl.port], phase, tx)
<1>1. /\ tx \in Byte /\ phase \in Nat /\ ctrl.port \in Ports /\ pads[ctrl.port] \in PadState
  BY NextByte, UsesOK, ByteOrder DEF Sio0Inv, Registers, Plugged, Partner
<1>2. r.resp \in Byte /\ r.ack \in BOOLEAN /\ (r.ack => phase < 8)
  BY <1>1, PadExchanges
<1>3. /\ Selected /\ AddressedBy(tx).dev = "pad" /\ Exchanged(tx, r.resp, r.ack)
      /\ UNCHANGED <<cards, taps>>
  BY DEF ShiftToPad
<1> HIDE DEF r
<1>4. active' = AddressedBy(tx) \/ active' = Nobody
  BY <1>2, <1>3 DEF Exchanged
<1>5. phase > 0 => AddressedBy(tx) = active
  BY <1>1, Addressees DEF Sio0Inv
<1>6. Message = <<>>
  BY <1>3, <1>5, NoCardNoMessage
<1>7. active'.dev \notin {"card", "tapCard"}
  BY <1>3, <1>4 DEF Nobody
<1> QED BY <1>2, <1>3, <1>6, <1>7, SameDevices, OtherByteSeen

LEMMA TapPadSeen ==
  ASSUME Sio0Inv, Sio0Inv', NEW tx \in NextBytes, ShiftToTapPad(tx)
  PROVE  Sessions!Next
<1> DEFINE t == taps[ctrl.port]
           r == ExchangeTap(t, phase, tx)
<1>1. /\ tx \in Byte /\ phase \in Nat /\ ctrl.port \in Ports /\ t \in TapState
  BY NextByte, UsesOK, ByteOrder DEF Sio0Inv, Registers, Plugged, Partner, ShiftToTapPad
<1>2. /\ r.tap \in TapState /\ r.tap.cards = t.cards
      /\ r.resp \in Byte /\ r.ack \in BOOLEAN
  BY <1>1, TapExchanges
<1>3. /\ Selected /\ AddressedBy(tx).dev = "tapPad" /\ Exchanged(tx, r.resp, r.ack)
      /\ taps' = [taps EXCEPT ![ctrl.port] = r.tap] /\ UNCHANGED <<pads, cards>>
  BY DEF ShiftToTapPad
<1> HIDE DEF r
<1>4. active' = AddressedBy(tx) \/ active' = Nobody
  BY <1>2, <1>3 DEF Exchanged
<1>5. phase > 0 => AddressedBy(tx) = active
  BY <1>1, Addressees DEF Sio0Inv
<1>6. Message = <<>>
  BY <1>3, <1>5, NoCardNoMessage
<1>7. active'.dev \notin {"card", "tapCard"}
  BY <1>3, <1>4 DEF Nobody
<1>8. \A b \in Bays : CardIn(b)' = CardIn(b)
  <2>1. ASSUME NEW p \in Ports, NEW s PROVE TapCard(p, s)' = TapCard(p, s)
    <3>1. CASE p = ctrl.port
      <4>1. taps'[p] = r.tap /\ taps[p] = t /\ r.tap # NoTap /\ t # NoTap
        BY <1>1, <1>2, <1>3, <3>1, NotATap DEF Sio0Inv, Plugged
      <4> QED BY <1>2, <4>1 DEF TapCard
    <3>2. CASE p # ctrl.port
      BY <1>3, <3>2 DEF Sio0Inv, Plugged, TapCard
    <3> QED BY <3>1, <3>2
  <2>2. ASSUME NEW b \in Bays PROVE CardIn(b)' = CardIn(b)
    <3>1. PICK p \in Ports, s \in {b[2] - 1} : p = b[1] /\ s = b[2] - 1
      BY DEF Bays
    <3>2. /\ CardIn(b) = IF b[2] = 0 THEN cards[b[1]] ELSE TapCard(p, s)
          /\ CardIn(b)' = IF b[2] = 0 THEN cards'[b[1]] ELSE TapCard(p, s)'
      BY <3>1 DEF CardIn, TapCard
    <3> QED BY <1>3, <2>1, <3>2
  <2> QED BY <2>2
<1> QED BY <1>2, <1>3, <1>6, <1>7, <1>8, OtherByteSeen

LEMMA NobodySeen ==
  ASSUME Sio0Inv, Sio0Inv', NEW tx \in NextBytes, ShiftToNobody(tx)
  PROVE  Sessions!Next
<1>1. Exchanged(tx, OpenBus, FALSE) /\ UNCHANGED <<pads, cards, taps>>
  BY DEF ShiftToNobody, deviceVars
<1>2. active'.dev \notin {"card", "tapCard"}
  BY <1>1 DEF Exchanged, Nobody
<1>3. tx \in Byte /\ phase \in Nat
  BY NextByte, ByteOrder DEF Sio0Inv, Registers, Partner
<1>4. phase > 0 => AddressedBy(tx) = active
  BY <1>3, Addressees DEF Sio0Inv
<1>5. CASE phase > 0 => active.dev \notin {"card", "tapCard"}
  <2>1. Message = <<>>
    BY <1>5, NoCardNoMessage
  <2> QED BY <1>1, <1>2, <2>1, ByteOrder, SameDevices, OtherByteSeen
<1>6. CASE phase > 0 /\ active.dev \in {"card", "tapCard"}
  <2>1. PartnerCard = NoCard
    BY <1>4, <1>6 DEF ShiftToNobody, PartnerCard
  <2>2. SessionBay \in Bays /\ CardIn(SessionBay) = NoCard
    BY <1>6, <2>1, SessionBays DEF Sio0Inv, BayKnown
  <2>3. Images[SessionBay] = <<>>
    BY <2>2 DEF Images
  <2>4. Message = <<>> \/ Images[Target] = <<>>
    BY <2>3 DEF Message, Target
  <2> QED BY <1>1, <1>2, <2>4, ByteOrder, SameDevices, OtherByteSeen
<1> QED BY <1>5, <1>6

LEMMA OwnCardSeen ==
  ASSUME Sio0Inv, Sio0Inv', NEW tx \in NextBytes, ShiftToCard(tx)
  PROVE  Sessions!Next
<1> DEFINE c == cards[ctrl.port]
           r == CardExchange(c, phase, tx)
           bay == <<ctrl.port, 0>>
<1>1. ctrl.port \in Ports /\ c \in CardState /\ c = Addressee(tx)
  BY UsesOK, InBays DEF Sio0Inv, ShiftToCard, Addressee
<1>2. /\ Selected /\ AddressedBy(tx).dev = "card" /\ cards' = [cards EXCEPT ![ctrl.port] = r.card]
      /\ Exchanged(tx, r.resp, r.ack) /\ UNCHANGED <<pads, taps>>
  BY DEF ShiftToCard
<1>3. bay \in Bays /\ CardIn(bay) = c
  BY <1>1, PadsAssumption DEF Bays, CardIn
<1>4. ASSUME NEW b \in Bays PROVE CardIn(b)' = IF b = bay THEN r.card ELSE CardIn(b)
  <2> HIDE DEF r, c
  <2>1. PICK p \in Ports, s \in 0..TapSlots : b = <<p, s>>
    BY DEF Bays
  <2>2. CASE s = 0
    BY <1>1, <1>2, <2>1, <2>2 DEF CardIn, Sio0Inv, Plugged
  <2>3. CASE s # 0
    BY <1>2, <2>1, <2>3 DEF CardIn, TapCard
  <2> QED BY <2>2, <2>3
<1> HIDE DEF c, bay
<1> QED BY <1>1, <1>2, <1>3, <1>4, CardByteSeen DEF bay


LEMMA TapCardSeen ==
  ASSUME Sio0Inv, Sio0Inv', NEW tx \in NextBytes, ShiftToTapCard(tx)
  PROVE  Sessions!Next
<1> DEFINE sub == AddressedBy(tx).sub
           c == TapCard(ctrl.port, sub)
           r == CardExchange(c, phase, tx)
           bay == <<ctrl.port, sub + 1>>
<1>1. /\ ctrl.port \in Ports /\ c \in CardState /\ c = Addressee(tx) /\ sub \in SubSlots
      /\ taps[ctrl.port] \in TapState /\ c = taps[ctrl.port].cards[sub]
  BY UsesOK, InBays DEF Sio0Inv, ShiftToTapCard, Addressee
<1>2. /\ Selected /\ AddressedBy(tx).dev = "tapCard"
      /\ taps' = [taps EXCEPT ![ctrl.port].cards[sub] = r.card]
      /\ Exchanged(tx, r.resp, r.ack) /\ UNCHANGED <<pads, cards>>
  BY DEF ShiftToTapCard
<1>3. bay \in Bays /\ CardIn(bay) = c
  <2>1. sub \in Int /\ sub + 1 \in 0..TapSlots /\ sub + 1 # 0 /\ (sub + 1) - 1 = sub
    BY <1>1, PadsAssumption DEF SubSlots
  <2> HIDE DEF sub
  <2> QED BY <1>1, <2>1 DEF Bays, CardIn
<1>4. ASSUME NEW b \in Bays PROVE CardIn(b)' = IF b = bay THEN r.card ELSE CardIn(b)
  <2> DEFINE t == taps[ctrl.port]
             u == [t EXCEPT !.cards[sub] = r.card]
  <2>1. /\ taps' = [taps EXCEPT ![ctrl.port] = u]
        /\ \A s \in SubSlots : u.cards[s] = IF s = sub THEN r.card ELSE t.cards[s]
        /\ u # NoTap /\ t # NoTap
    <3>1. taps' = [taps EXCEPT ![ctrl.port] = u]
      BY <1>2
    <3>2. \A s \in SubSlots : u.cards[s] = IF s = sub THEN r.card ELSE t.cards[s]
      BY <1>1 DEF TapState
    <3>3. u # NoTap /\ t # NoTap
      BY <1>1, NotATap DEF TapState, NoTap
    <3> QED BY <3>1, <3>2, <3>3
  <2> HIDE DEF r, c, u, sub
  <2>2. PICK p \in Ports, s \in 0..TapSlots : b = <<p, s>>
    BY DEF Bays
  <2>3. CASE s = 0
    BY <1>1, <1>2, <2>2, <2>3, PadsAssumption DEF CardIn, Sio0Inv, Plugged, SubSlots
  <2>4. CASE s # 0
    <3>1. s - 1 \in SubSlots /\ (s - 1 = sub <=> s = sub + 1)
      BY <1>1, <2>4, PadsAssumption DEF SubSlots
    <3>2. CASE p = ctrl.port
      <4>1. taps'[p] = u /\ taps[p] = t
        BY <1>1, <2>1, <3>2 DEF Sio0Inv, Plugged
      <4>2. CardIn(b)' = u.cards[s - 1] /\ CardIn(b) = t.cards[s - 1]
        BY <2>1, <2>2, <2>4, <3>1, <4>1 DEF CardIn, TapCard
      <4> QED BY <2>1, <2>2, <3>1, <3>2, <4>2
    <3>3. CASE p # ctrl.port
      BY <2>1, <2>2, <2>4, <3>3 DEF CardIn, TapCard, Sio0Inv, Plugged
    <3> QED BY <3>2, <3>3
  <2> QED BY <2>3, <2>4
<1> HIDE DEF c, bay, sub
<1> QED BY <1>1, <1>2, <1>3, <1>4, CardByteSeen DEF bay, sub

LEMMA ShiftSeen == ASSUME Sio0Inv, Sio0Inv', Shift PROVE Sessions!Next
<1>1. PICK tx \in NextBytes :
        \/ ShiftToPad(tx) \/ ShiftToCard(tx) \/ ShiftToTapPad(tx)
        \/ ShiftToTapCard(tx) \/ ShiftToNobody(tx)
  BY DEF Shift
<1> QED BY <1>1, PadSeen, OwnCardSeen, TapPadSeen, TapCardSeen, NobodySeen

LEMMA SameSession ==
  ASSUME UNCHANGED <<ctrl, active, sent, cards, taps>>
  PROVE  UNCHANGED <<Images, Unsaved, Target, Message>>
<1>1. CardIn(SessionBay)' = CardIn(SessionBay) /\ SessionBay' = SessionBay
  BY DEF SessionBay, CardIn, TapCard
<1>2. SessionOpen' = SessionOpen
  BY <1>1 DEF SessionOpen
<1>3. Target' = Target /\ Message' = Message
  BY <1>1, <1>2 DEF Target, Message
<1> QED BY <1>3, SameDevices, SameCards

LEMMA StillSeen ==
  ASSUME UNCHANGED <<ctrl, active, sent, cards, taps, rx>>
  PROVE  UNCHANGED Sessions!vars
<1>1. LastReply' = LastReply
  BY DEF LastReply
<1> QED BY <1>1, SameSession, SeenSame

LEMMA ReadSeen ==
  ASSUME Sio0Inv, ReadRx
  PROVE  Sessions!Next \/ UNCHANGED Sessions!vars
<1>1. rx \in Seq(Byte) /\ Len(rx) \in Nat /\ rx # <<>> /\ rx' = Tail(rx)
  BY LenProperties DEF Sio0Inv, Registers, ReadRx
<1>2. UNCHANGED <<Images, Unsaved, Target, Message>>
  BY SameSession DEF ReadRx, deviceVars, historyVars
<1>3. CASE Tail(rx) = <<>>
  BY <1>1, <1>2, <1>3, SeenRead DEF LastReply
<1>4. CASE Tail(rx) # <<>>
  <2>1. /\ Tail(rx) \in Seq(Byte) /\ Len(Tail(rx)) = Len(rx) - 1
        /\ \A i \in 1..Len(Tail(rx)) : Tail(rx)[i] = rx[i + 1]
    BY <1>1, HeadTailProperties
  <2>2. Len(Tail(rx)) # 0
    BY <1>4, <2>1, EmptySeq
  <2>3. Tail(rx)[Len(Tail(rx))] = rx[Len(rx)]
    BY <1>1, <2>1, <2>2
  <2>4. LastReply' = LastReply
    BY <1>1, <1>4, <2>3 DEF LastReply, Last
  <2> QED BY <1>2, <2>4, SeenSame
<1> QED BY <1>3, <1>4

LEMMA ControlSeen ==
  ASSUME Sio0Inv, Sio0Inv', NEW c \in use.ctrl, WriteCtrl(c)
  PROVE  Sessions!Next \/ UNCHANGED Sessions!vars
<1>1. UNCHANGED <<cards, taps>> /\ (c.port = ctrl.port \/ phase = 0 \/ ~c.dtr)
  BY DEF WriteCtrl, deviceVars
<1>2. Images' = Images /\ Unsaved' = Unsaved
  BY <1>1, SameDevices, SameCards
<1>3. active'.dev = "none" => Message' = <<>> /\ Target' = NoBay
  BY NextSessionBays DEF Sio0Inv, BayKnown
<1>4. CASE c.reset
  <2>1. active' = Nobody /\ rx' = <<>>
    BY <1>4 DEF WriteCtrl, ResetPort
  <2>2. LastReply' = -1
    BY <2>1 DEF LastReply
  <2> QED BY <1>2, <1>3, <2>1, <2>2, SeenAbandoned DEF Nobody
<1>5. CASE ~c.reset /\ ctrl.dtr /\ ~c.dtr
  <2>1. active' = Nobody /\ rx' = rx
    BY <1>5 DEF WriteCtrl, Control
  <2>2. LastReply' = LastReply
    BY <2>1 DEF LastReply
  <2> QED BY <1>2, <1>3, <2>1, <2>2, SeenAbandoned DEF Nobody
<1>6. CASE ~c.reset /\ ~(ctrl.dtr /\ ~c.dtr)
  <2>1. active' = active /\ rx' = rx /\ sent' = sent /\ ctrl'.port = c.port
    BY <1>6 DEF WriteCtrl, Control
  <2>2. LastReply' = LastReply
    BY <2>1 DEF LastReply
  <2>3. CASE active.dev = "none"
    <3>1. Message = <<>> /\ Target = NoBay
      BY <2>3, SessionBays DEF Sio0Inv, BayKnown
    <3> QED BY <1>2, <1>3, <2>1, <2>2, <2>3, <3>1, SeenSame
  <2>4. CASE active.dev # "none"
    <3>1. ctrl'.port = ctrl.port
      <4>1. phase # 0 /\ (phase > 0 => ctrl.dtr)
        BY <2>4 DEF Sio0Inv, Partner
      <4>2. phase > 0
        BY <4>1, ByteOrder DEF Sio0Inv, Registers
      <4> QED BY <1>1, <1>6, <2>1, <4>1, <4>2
    <3>2. CardIn(SessionBay)' = CardIn(SessionBay) /\ SessionBay' = SessionBay
      BY <1>1, <2>1, <3>1 DEF SessionBay, CardIn, TapCard
    <3>3. SessionOpen' = SessionOpen
      BY <2>1, <3>2 DEF SessionOpen
    <3>4. Target' = Target /\ Message' = Message
      BY <2>1, <3>2, <3>3 DEF Target, Message
    <3> QED BY <1>2, <2>2, <3>4, SeenSame
  <2> QED BY <2>3, <2>4
<1> QED BY <1>4, <1>5, <1>6

\* Is what the host sees of a bay the same after a step.
Untouched(b) == Images'[b] = Images[b] /\ Unsaved'[b] = Unsaved[b]

\* A card that is in the middle of a command.
Live(b) == CardIn(b) # NoCard /\ CardIn(b).cmd # "none"

\* The host leaves every card it touches marked as saved, and a message to one
\* of them is either gone with the card or goes on.
LEMMA HostSeen ==
  ASSUME Sio0Inv, Sio0Inv', HostUnchanged,
         \A b \in Bays : Untouched(b) \/ ~Unsaved'[b],
         \A b \in Bays : Live(b)' => Live(b),
         \/ \A b \in Bays : Untouched(b)
         \/ \A b \in Bays : Untouched(b) /\ Live(b) => Live(b)'
  PROVE  Sessions!Next \/ UNCHANGED Sessions!vars
<1>1. UNCHANGED <<ctrl, rx, active, sent>>
  BY DEF HostUnchanged, portVars, historyVars
<1>2. LastReply' = LastReply /\ SessionBay' = SessionBay
  BY <1>1 DEF LastReply, SessionBay
<1>3. \A b \in Bays : Images'[b] # Images[b] \/ Unsaved'[b] # Unsaved[b] => ~Unsaved'[b]
  BY DEF Untouched
<1>4. CASE active.dev \notin {"card", "tapCard"}
  <2>1. Message' = Message /\ Target' = Target
    BY <1>1, <1>4, SessionBays, NextSessionBays DEF Sio0Inv, BayKnown
  <2> QED BY <1>2, <1>3, <2>1, SeenSwapped
<1>5. CASE active.dev \in {"card", "tapCard"}
  <2>1. /\ SessionBay \in Bays /\ CardIn(SessionBay) = PartnerCard
        /\ CardIn(SessionBay)' = PartnerCard'
        /\ SessionOpen <=> Len(sent) = 1 \/ (PartnerCard # NoCard /\ PartnerCard.cmd # "none")
        /\ SessionOpen' <=> Len(sent) = 1 \/ (PartnerCard' # NoCard /\ PartnerCard'.cmd # "none")
    BY <1>1, <1>5, SessionBays, NextSessionBays DEF Sio0Inv, BayKnown
  <2>4. PICK b \in Bays : b = SessionBay
    BY <2>1
  <2>5. CardIn(b) = PartnerCard /\ CardIn(b)' = PartnerCard'
    <3>1. CardIn(b)' = CardIn(SessionBay)'
      BY <1>2, <2>4 DEF CardIn, TapCard
    <3> QED BY <2>1, <2>4, <3>1
  <2>6. /\ SessionOpen <=> Len(sent) = 1 \/ Live(b)
        /\ SessionOpen' <=> Len(sent) = 1 \/ Live(b)'
    BY <2>1, <2>5 DEF Live
  <2>2. CASE SessionOpen' <=> SessionOpen
    <3>1. Message' = Message /\ Target' = Target
      BY <1>1, <1>2, <2>2 DEF Message, Target
    <3> QED BY <1>2, <1>3, <3>1, SeenSwapped
  <2>3. CASE SessionOpen /\ ~SessionOpen'
    <3>1. Message' = <<>> /\ Target' = NoBay /\ Target = SessionBay
      BY <2>3 DEF Message, Target
    <3>2. CASE \A x \in Bays : Untouched(x)
      <4>1. Images' = Images /\ Unsaved' = Unsaved
        BY <3>2 DEF Untouched, Images, Unsaved
      <4> QED BY <1>2, <3>1, <4>1, SeenAbandoned
    <3>3. CASE ~Untouched(SessionBay)
      <4>1. Images'[Target] # Images[Target] \/ Unsaved'[Target] # Unsaved[Target]
        BY <3>1, <3>3 DEF Untouched
      <4> QED BY <1>2, <1>3, <2>1, <3>1, <4>1, SeenSwapped
    <3>4. Live(b) /\ ~Live(b)'
      BY <2>3, <2>6
    <3> QED BY <2>4, <3>2, <3>3, <3>4
  <2>7. SessionOpen' => SessionOpen
    BY <2>6
  <2> QED BY <2>2, <2>3, <2>7 DEF SessionOpen
<1> QED BY <1>4, <1>5


\* A card put into a bay, taken out or flushed.
LEMMA PutSeen ==
  ASSUME Sio0Inv, Sio0Inv', NEW port \in Ports, NEW slot \in 0..TapSlots,
         NEW card \in CardState \cup {NoCard}, PutCard(<<port, slot>>, card),
         card # NoCard => ~card.dirty,
         card # NoCard /\ card.cmd # "none" => Live(<<port, slot>>)
  PROVE  Sessions!Next \/ UNCHANGED Sessions!vars
<1> DEFINE bay == <<port, slot>>
<1>1. /\ HostUnchanged
      /\ \A p \in Ports : cards'[p] = IF slot = 0 /\ p = port THEN card ELSE cards[p]
      /\ \A p \in Ports : \A s : TapCard(p, s)' =
           IF slot # 0 /\ p = port /\ s = slot - 1 THEN card ELSE TapCard(p, s)
  BY PutCards DEF Sio0Inv
<1>2. ASSUME NEW b \in Bays PROVE CardIn(b)' = IF b = bay THEN card ELSE CardIn(b)
  <2>1. PICK p \in Ports, s \in 0..TapSlots : b = <<p, s>>
    BY DEF Bays
  <2>2. PICK k : k = s - 1
    OBVIOUS
  <2>3. /\ CardIn(b) = IF s = 0 THEN cards[p] ELSE TapCard(p, k)
        /\ CardIn(b)' = IF s = 0 THEN cards'[p] ELSE TapCard(p, k)'
    BY <2>1, <2>2 DEF CardIn, TapCard
  <2>4. b = bay <=> p = port /\ s = slot
    BY <2>1
  <2>5. TapSlots \in Nat /\ (k = slot - 1 <=> s = slot)
    BY <2>2, PadsAssumption
  <2> HIDE DEF bay
  <2> QED BY <1>1, <2>3, <2>4, <2>5
<1> HIDE DEF bay
<1>3. \A b \in Bays : b # bay => Untouched(b) /\ (Live(b)' <=> Live(b))
  BY <1>2 DEF Untouched, Live, Images, Unsaved
<1>4. bay \in Bays => ~Unsaved'[bay] /\ (Live(bay)' => Live(bay))
  BY <1>2 DEF Unsaved, Live, bay
<1>5. (\A b \in Bays : Untouched(b)) \/ ~Untouched(bay)
  BY <1>3
<1> QED BY <1>1, <1>3, <1>4, <1>5, HostSeen

LEMMA SwapSeen ==
  ASSUME Sio0Inv, Sio0Inv', NEW bay \in Bays, InsertCard(bay) \/ EjectCard(bay) \/ ClearDirty(bay)
  PROVE  Sessions!Next \/ UNCHANGED Sessions!vars
<1>1. PICK port \in Ports, slot \in 0..TapSlots : bay = <<port, slot>>
  BY DEF Bays
<1>2. CASE InsertCard(bay)
  <2> DEFINE img == [a \in 0..(NumSectors - 1) |-> Blank]
             card == NewCard(img)
  <2>1. card \in CardState /\ card.cmd = "none" /\ ~card.dirty
    <3>1. img \in Image
      BY DEF Image, Sector, Blank
    <3> QED BY <3>1, FreshCard DEF NewCard
  <2>2. PutCard(<<port, slot>>, card)
    BY <1>1, <1>2 DEF InsertCard
  <2> HIDE DEF card
  <2> QED BY <2>1, <2>2, PutSeen
<1>3. CASE EjectCard(bay)
  BY <1>1, <1>3, PutSeen DEF EjectCard
<1>4. CASE ClearDirty(bay)
  <2> DEFINE c == CardIn(bay)
             card == [c EXCEPT !.dirty = FALSE]
  <2>1. PutCard(<<port, slot>>, card) /\ c # NoCard /\ slot = 0
    BY <1>1, <1>4 DEF ClearDirty
  <2>2. c \in CardState
    BY <1>1, <2>1, InBays DEF Sio0Inv, CardIn
  <2>3. card \in CardState /\ card.cmd = c.cmd /\ ~card.dirty
    BY <2>2 DEF CardState
  <2> HIDE DEF card
  <2>4. card.cmd # "none" => Live(<<port, slot>>)
    BY <1>1, <2>1, <2>3 DEF Live
  <2> QED BY <2>1, <2>3, <2>4, PutSeen
<1> QED BY <1>2, <1>3, <1>4

\* Attaching a multitap, or taking it away, takes the cards behind it away.
LEMMA TapSeen ==
  ASSUME Sio0Inv, Sio0Inv', NEW port \in Ports, NEW enabled \in BOOLEAN, SetMultitap(port, enabled)
  PROVE  Sessions!Next \/ UNCHANGED Sessions!vars
<1> DEFINE t == IF enabled THEN NewTap ELSE NoTap
<1>1. taps' = [taps EXCEPT ![port] = t] /\ HostUnchanged /\ UNCHANGED <<pads, cards>>
  BY DEF SetMultitap
<1>2. \A s \in SubSlots : t = NoTap \/ t.cards[s] = NoCard
  BY DEF NewTap
<1> HIDE DEF t
<1>3. \A p \in Ports : \A s : TapCard(p, s)' = IF p = port THEN NoCard ELSE TapCard(p, s)
  BY <1>1, <1>2 DEF Sio0Inv, Plugged, TapCard
<1>4. ASSUME NEW b \in Bays
      PROVE  CardIn(b)' = CardIn(b) \/ CardIn(b)' = NoCard
  <2>1. PICK p \in Ports, k \in {b[2] - 1} : p = b[1] /\ k = b[2] - 1
    BY DEF Bays
  <2>2. /\ CardIn(b) = IF b[2] = 0 THEN cards[b[1]] ELSE TapCard(p, k)
        /\ CardIn(b)' = IF b[2] = 0 THEN cards'[b[1]] ELSE TapCard(p, k)'
    BY <2>1 DEF CardIn, TapCard
  <2> QED BY <1>1, <1>3, <2>2
<1>5. ASSUME NEW b \in Bays
      PROVE  /\ Untouched(b) \/ ~Unsaved'[b]
             /\ Live(b)' => Live(b)
             /\ Untouched(b) /\ Live(b) => Live(b)'
  <2>1. CASE CardIn(b)' = CardIn(b)
    BY <2>1 DEF Untouched, Live, Images, Unsaved
  <2>2. CASE CardIn(b)' = NoCard /\ CardIn(b) # NoCard
    <3>1. CardIn(b) \in CardState
      BY <2>2, InBays DEF Sio0Inv, Bays, CardIn
    <3>2. CardIn(b).data # <<>>
      BY <3>1, CardFields, HasImage
    <3> QED BY <2>2, <3>2 DEF Untouched, Live, Images, Unsaved
  <2> QED BY <1>4, <2>1, <2>2
<1> QED BY <1>1, <1>5, HostSeen

\* A save state keeps contents and marks, and ends the commands under way.
LEMMA SaveSeen ==
  ASSUME Sio0Inv, Sio0Inv', SaveAndLoad
  PROVE  Sessions!Next \/ UNCHANGED Sessions!vars
<1>1. /\ \A p \in Ports : cards'[p] = ThawedCard(cards[p])
      /\ \A p \in Ports : \A s : TapCard(p, s)' = ThawedCard(TapCard(p, s))
      /\ HostUnchanged
  BY SavedCards DEF Sio0Inv, SaveAndLoad
<1>2. ASSUME NEW b \in Bays
      PROVE  CardIn(b)' = ThawedCard(CardIn(b)) /\ CardIn(b) \in CardState \cup {NoCard}
  <2>1. PICK p \in Ports, k \in {b[2] - 1} : p = b[1] /\ k = b[2] - 1
    BY DEF Bays
  <2>2. /\ CardIn(b) = IF b[2] = 0 THEN cards[p] ELSE TapCard(p, k)
        /\ CardIn(b)' = IF b[2] = 0 THEN cards'[p] ELSE TapCard(p, k)'
    BY <2>1 DEF CardIn, TapCard
  <2>3. CardIn(b) \in CardState \cup {NoCard}
    BY <2>2, InBays DEF Sio0Inv
  <2> QED BY <1>1, <2>2, <2>3
<1>3. ASSUME NEW b \in Bays
      PROVE  /\ Untouched(b) /\ ~Live(b)'
  <2>1. /\ CardIn(b)' # NoCard <=> CardIn(b) # NoCard
        /\ CardIn(b) # NoCard => /\ CardIn(b)'.cmd = "none"
                                 /\ CardIn(b)'.data = CardIn(b).data
                                 /\ CardIn(b)'.dirty = CardIn(b).dirty
    BY <1>2, Thawing
  <2> QED BY <2>1 DEF Untouched, Live, Images, Unsaved
<1> QED BY <1>1, <1>3, HostSeen


\* A pad the host pokes is no card.
LEMMA PokeSeen ==
  ASSUME Sio0Inv, NEW port \in Ports, NEW sub \in SubSlots, PokePad(port) \/ PokeTapPad(port, sub)
  PROVE  Sessions!Next \/ UNCHANGED Sessions!vars
<1>1. UNCHANGED <<ctrl, rx, active, sent, cards>>
  BY DEF PokePad, PokeTapPad, HostUnchanged, portVars, historyVars
<1>2. CASE PokePad(port)
  BY <1>1, <1>2, StillSeen DEF PokePad
<1>3. CASE PokeTapPad(port, sub)
  <2> DEFINE t == taps[port]
  <2>1. PICK q : taps' = [taps EXCEPT ![port].pads[sub] = q]
    BY <1>3 DEF PokeTapPad
  <2> DEFINE u == [t EXCEPT !.pads[sub] = q]
  <2>2. t \in TapState
    BY <1>3, InBays DEF Sio0Inv, PokeTapPad
  <2>3. u.cards = t.cards /\ u # NoTap /\ t # NoTap /\ taps' = [taps EXCEPT ![port] = u]
    BY <2>1, <2>2 DEF TapState, NoTap
  <2> HIDE DEF u
  <2>4. ASSUME NEW p \in Ports, NEW s PROVE TapCard(p, s)' = TapCard(p, s)
    BY <2>3 DEF Sio0Inv, Plugged, TapCard
  <2>5. ASSUME NEW b \in Bays PROVE CardIn(b)' = CardIn(b)
    <3>1. PICK p \in Ports, k \in {b[2] - 1} : p = b[1] /\ k = b[2] - 1
      BY DEF Bays
    <3>2. /\ CardIn(b) = IF b[2] = 0 THEN cards[b[1]] ELSE TapCard(p, k)
          /\ CardIn(b)' = IF b[2] = 0 THEN cards'[b[1]] ELSE TapCard(p, k)'
      BY <3>1 DEF CardIn, TapCard
    <3> QED BY <1>1, <2>4, <3>2
  <2>6. \A b \in Bays : Untouched(b) /\ (Live(b)' <=> Live(b))
    BY <2>5 DEF Untouched, Live, Images, Unsaved
  <2>7. HostUnchanged /\ Sio0Inv'
    BY <1>3, PokingTapPads DEF PokeTapPad
  <2> QED BY <2>6, <2>7, HostSeen
<1> QED BY <1>2, <1>3

\* Every step of the port is a step of the sessions, or none they can see.
LEMMA StepSeen ==
  ASSUME Sio0Inv, Sio0Inv', [Next]_vars
  PROVE  Sessions!Next \/ UNCHANGED Sessions!vars
<1>1. /\ use.pads \subseteq Ports \X (-1..(TapSlots - 1)) /\ use.bays \subseteq Bays
      /\ use.taps \subseteq Ports
  BY UsesOK DEF Sio0Inv, UseOK, Bays
<1>2. CASE Shift
  BY <1>2, ShiftSeen
<1>3. CASE ReadRx
  BY <1>3, ReadSeen
<1>4. CASE \E c \in use.ctrl : WriteCtrl(c)
  BY <1>4, ControlSeen
<1>5. CASE AcknowledgeLine \/ Tick \/ UNCHANGED vars
  <2>1. UNCHANGED <<ctrl, active, sent, cards, taps, rx>>
    BY <1>5 DEF AcknowledgeLine, Tick, vars, portVars, deviceVars, historyVars
  <2> QED BY <2>1, StillSeen
<1>6. CASE \E where \in use.pads :
             IF where[2] = -1 THEN PokePad(where[1]) ELSE PokeTapPad(where[1], where[2])
  <2>1. PICK where \in use.pads :
             IF where[2] = -1 THEN PokePad(where[1]) ELSE PokeTapPad(where[1], where[2])
    BY <1>6
  <2>2. where[1] \in Ports /\ where[2] \in -1..(TapSlots - 1)
    BY <1>1
  <2>3. 0 \in SubSlots /\ (where[2] # -1 => where[2] \in SubSlots)
    BY <2>2, PadsAssumption DEF SubSlots
  <2> QED BY <2>1, <2>2, <2>3, PokeSeen
<1>7. CASE \E bay \in use.bays : InsertCard(bay) \/ EjectCard(bay) \/ ClearDirty(bay)
  BY <1>1, <1>7, SwapSeen
<1>8. CASE \E port \in use.taps, enabled \in BOOLEAN : SetMultitap(port, enabled)
  BY <1>1, <1>8, TapSeen
<1>9. CASE SaveAndLoad
  BY <1>9, SaveSeen
<1> QED BY <1>2, <1>3, <1>4, <1>5, <1>6, <1>7, <1>8, <1>9 DEF Next

LEMMA StartSeen == ASSUME Init PROVE Sessions!Init
<1>1. \A b \in Bays : CardIn(b) = NoCard
  BY DEF Init, Bays, CardIn, TapCard
<1>2. /\ Images = [b \in Bays |-> <<>>] /\ Unsaved = [b \in Bays |-> FALSE]
  BY <1>1 DEF Images, Unsaved
<1>3. Target = NoBay /\ Message = <<>>
  <2>1. Registers /\ Partner /\ active.dev = "none"
    BY Sio0Starts DEF Sio0Inv, Init, Nobody
  <2> QED BY <2>1, SessionBays DEF BayKnown
<1>4. LastReply = -1
  BY DEF Init, LastReply
<1>5. /\ Images \in [Bays -> {<<>>}] /\ Unsaved = [b \in Bays |-> FALSE]
      /\ Target = NoBay /\ Message = <<>> /\ LastReply = -1
  BY <1>2, <1>3, <1>4
<1> QED BY <1>5 DEF Sessions!Init, Sessions!NoImage, Images, Unsaved, Target, Message, LastReply

\* For every guest and host, every number of sectors and every sector size:
\* byte by byte, across swaps, dropped Selects and save states, cards do what
\* CardSessions says of whole messages (MemoryCard::exchange, commit_write,
\* Sio0::tx_byte, write_ctrl).
THEOREM CardsKeepSessions == Spec => RefinesSessions
<1>1. Sio0Inv /\ Sio0Inv' /\ [Next]_vars => [Sessions!Next]_(Sessions!vars)
  BY StepSeen
<1>2. Init => Sessions!Init
  BY StartSeen
<1> QED BY <1>1, <1>2, Sio0Invariant, PTL DEF Spec, RefinesSessions, Sessions!Spec

=============================================================================
