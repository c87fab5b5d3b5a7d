-------------------------------- MODULE Pads --------------------------------
(***************************************************************************)
(* What can be plugged into a controller port (iostubs.rs): digital pads,  *)
(* analog pads with their configuration mode, flight sticks, nothing, and  *)
(* a multitap that passes a poll on to its first slot or answers with all  *)
(* its slots.  Like a card, a device sees one exchange per byte, indexed   *)
(* by the phase the port counts.  Both button bytes are one value here,    *)
(* and the four axes another.                                              *)
(***************************************************************************)
EXTENDS MemoryCard

CONSTANT TapSlots   \* sub-slots of a multitap

ASSUME PadsAssumption == TapSlots \in 1..4

Kinds == {"digital", "analog", "stick", "none"}

Byte == 0..255
Centre == \h80

PadState ==
  [kind: Kinds, buttons: Byte, axes: Byte,
   analog: BOOLEAN, locked: BOOLEAN, config: BOOLEAN,
   vib: [0..5 -> Byte], small: Byte, large: Byte, cmd: Byte, arg: Byte]

\* pad_device_for: a device fresh from its box, with the buttons that were held.
NewPad(kind, buttons) ==
  [kind |-> kind, buttons |-> IF kind = "none" THEN 0 ELSE buttons, axes |-> Centre,
   analog |-> FALSE, locked |-> FALSE, config |-> FALSE,
   vib |-> [i \in 0..5 |-> \hFF], small |-> 0, large |-> 0, cmd |-> 0, arg |-> 0]

ThawedPad(p) == [p EXCEPT !.cmd = 0, !.arg = 0]

\* set_buttons, set_sticks, press_analog_button and set_controller_type.
WithButtons(p, held) ==
  IF p.kind = "none" THEN NewPad("digital", held) ELSE [p EXCEPT !.buttons = held]

WithSticks(p, axes) ==
  [(IF p.kind \in {"analog", "stick"} THEN p ELSE NewPad("analog", p.buttons))
    EXCEPT !.axes = axes]

AnalogPressed(p) ==
  IF p.kind = "analog" /\ ~p.locked THEN [p EXCEPT !.analog = ~@] ELSE p

Replugged(p, kind) == NewPad(kind, p.buttons)

Tell(p, byte, ack) == [pad |-> p, resp |-> byte, ack |-> ack]

\* The wire is active low.
ButtonBytes(p) == <<255 - p.buttons, 255 - p.buttons>>
PollBytes(p)   == ButtonBytes(p) \o <<p.axes, p.axes, p.axes, p.axes>>

At(bytes, i, otherwise) == IF i + 1 \in DOMAIN bytes THEN bytes[i + 1] ELSE otherwise

IdLow(p) == IF p.config THEN \hF3 ELSE IF p.analog THEN \h73 ELSE \h41

DataLen(p) == IF p.cmd = \h42 /\ ~p.analog /\ ~p.config THEN 2 ELSE 6

\* The motor byte of a poll goes where the vibration map sends it.
Rumbled(p, i, tx) ==
  CASE ~p.analog /\ ~p.config -> p
    [] OTHER -> CASE i \in 0..5 /\ p.vib[i] = 0 -> [p EXCEPT !.small = tx]
                  [] i \in 0..5 /\ p.vib[i] = 1 -> [p EXCEPT !.large = tx]
                  [] OTHER -> p

\* AnalogPad::data_byte: the pad after data byte i, and what it answers.
\* Commands above 43h are honoured in configuration mode only.
Configured(p, i, tx) ==
  CASE p.cmd = \h42 -> Rumbled(p, i, tx)
    [] p.cmd = \h43 /\ i = 0 /\ tx \in {0, 1} -> [p EXCEPT !.config = (tx = 1)]
    [] p.cmd = \h44 /\ p.config /\ i = 0 /\ tx \in {0, 1} -> [p EXCEPT !.analog = (tx = 1)]
    [] p.cmd = \h44 /\ p.config /\ i = 1 /\ tx \in {2, 3} -> [p EXCEPT !.locked = (tx = 2)]
    [] p.cmd \in {\h46, \h4C} /\ p.config /\ i = 0 -> [p EXCEPT !.arg = tx]
    [] p.cmd = \h4D /\ p.config /\ i \in 0..5 -> [p EXCEPT !.vib[i] = tx]
    [] OTHER -> p

Answer(p, i, tx) ==
  LET arg == IF i = 0 THEN tx ELSE p.arg
      led == IF p.analog THEN 1 ELSE 0
  IN CASE p.cmd = \h42 -> At(PollBytes(p), i, \hFF)
       [] p.cmd = \h45 /\ p.config -> At(<<1, 2, led, 2, 1, 0>>, i, 0)
       [] p.cmd = \h46 /\ p.config ->
            At(IF arg = 0 THEN <<0, 0, 1, 2, 0, \h0A>> ELSE <<0, 0, 1, 1, 1, \h14>>, i, 0)
       [] p.cmd = \h47 /\ p.config -> At(<<0, 0, 2, 0, 1, 0>>, i, 0)
       [] p.cmd = \h4C /\ p.config ->
            At(<<0, 0, 0, IF arg = 0 THEN 4 ELSE 7, 0, 0>>, i, 0)
       [] p.cmd = \h4D /\ p.config -> IF i \in 0..5 THEN p.vib[i] ELSE \hFF
       [] OTHER -> 0

AnalogExchange(p, phase, tx) ==
  LET i == phase - 3
      done == i >= DataLen(p) - 1
      after == Configured(p, i, tx)
  IN CASE phase = 0 -> Tell([p EXCEPT !.cmd = 0, !.arg = 0], OpenBus, TRUE)
       [] phase = 1 -> Tell([p EXCEPT !.cmd = tx], IdLow(p), TRUE)
       [] phase = 2 -> Tell(p, \h5A, TRUE)
       [] OTHER -> Tell(IF done THEN ThawedPad(after) ELSE after, Answer(p, i, tx), ~done)

\* DigitalPad::exchange and FlightStick::exchange: a fixed list of replies.
FixedReplies(p) ==
  IF p.kind = "digital" THEN <<OpenBus, \h41, \h5A>> \o ButtonBytes(p)
  ELSE <<OpenBus, \h53, \h5A>> \o PollBytes(p)

PadExchange(p, phase, tx) ==
  CASE p.kind = "analog" -> AnalogExchange(p, phase, tx)
    [] p.kind = "none"   -> Tell(p, OpenBus, FALSE)
    [] OTHER -> Tell(p, At(FixedReplies(p), phase, OpenBus),
                     phase + 1 < Len(FixedReplies(p)))

----------------------------------------------------------------------------
(* The multitap. *)

SubSlots == 0..(TapSlots - 1)
NoCard == [data |-> {}]

NewTap ==
  [pads  |-> [s \in SubSlots |-> NewPad(IF s = 0 THEN "digital" ELSE "none", 0)],
   cards |-> [s \in SubSlots |-> NoCard],
   armed |-> FALSE, long |-> FALSE]

\* PadDevice::burst_bytes.
BurstBytes(p) ==
  LET unused == <<\hFF, \hFF, \hFF, \hFF>>
      short  == <<\h41, \h5A>> \o ButtonBytes(p) \o unused
  IN CASE p.kind = "none" -> unused \o unused
       [] p.kind = "stick" -> <<\h53, \h5A>> \o PollBytes(p)
       [] p.kind = "analog" /\ p.analog -> <<\h73, \h5A>> \o PollBytes(p)
       [] OTHER -> short

LastBurstPhase == 2 + 8 * TapSlots

ExchangeLong(tap, phase) ==
  LET i == phase - 3
  IN [tap |-> tap, ack |-> phase < LastBurstPhase,
      resp |-> CASE phase = 0 -> OpenBus
                 [] phase = 1 -> \h80
                 [] phase = 2 -> \h5A
                 [] phase \in 3..LastBurstPhase -> BurstBytes(tap.pads[i \div 8])[(i % 8) + 1]
                 [] OTHER -> OpenBus]

\* Multitap::exchange_pad: what the last poll asked for decides what this one
\* answers, and its own third byte what the next one will.
ExchangeTap(tap, phase, tx) ==
  LET begun == IF phase = 0 THEN [tap EXCEPT !.long = tap.armed, !.armed = FALSE] ELSE tap
      asked == IF phase = 2 /\ tx = 1 THEN [begun EXCEPT !.armed = TRUE] ELSE begun
      first == PadExchange(asked.pads[0], phase, tx)
  IN IF phase = 0 /\ tap.pads[0].kind = "none"
     THEN [tap |-> [tap EXCEPT !.long = FALSE, !.armed = FALSE], resp |-> OpenBus, ack |-> FALSE]
     ELSE IF begun.long THEN ExchangeLong(begun, phase)
     ELSE [tap |-> [asked EXCEPT !.pads[0] = first.pad], resp |-> first.resp, ack |-> first.ack]
=============================================================================
