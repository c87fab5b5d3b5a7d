-------------------------------- MODULE Sio0 --------------------------------
(***************************************************************************)
(* The serial port for pads and memory cards (iostubs.rs, Sio0): the guest *)
(* shifts bytes, one full-duplex exchange each, to whatever the first byte *)
(* after Select addressed; the port counts the phase and announces each    *)
(* acknowledged byte some cycles later.  The host swaps and pokes devices  *)
(* at any time and saves and loads the machine; what a save state skips    *)
(* is lost then.  JOY_MODE and JOY_BAUD are latches without effect and are *)
(* left out, as is a byte shifted with TXEN or Select off, which is        *)
(* dropped.                                                                *)
(***************************************************************************)
EXTENDS Pads

CONSTANTS
  Ports,          \* the controller ports, 0..1
  AckDelay,       \* ACK_DELAY_CYCLES
  FifoCap,        \* RX_FIFO_CAP
  Uses,           \* the ways guest and host use the port, see UseOK
  MaxCards,       \* bound: cards in use at a time
  NoBay

\* Data bytes are bits, see MemoryCard.
DataAreBits(m) ==
  Len(m) > 6 /\ m[1] \in \h81..\h84 /\ m[2] = \h57 =>
    \A i \in 7..(7 + SectorBytes) : i <= Len(m) => m[i] \in 0..1

\* Of one behaviour: port -> the byte sequences the guest sends there; what it
\* writes to JOY_CTRL; the kinds of pad plugged in first; <<port, sub-slot or
\* -1>> of the pads the host pokes; the kinds it plugs in and the button bytes it
\* reports; the bays whose cards it swaps; the ports it attaches multitaps to.
UseOK(u) ==
  /\ DOMAIN u.messages = Ports
  /\ \A p \in Ports : \A m \in u.messages[p] : m \in Seq(Byte) /\ DataAreBits(m)
  /\ u.ctrl \subseteq [txen: BOOLEAN, dtr: BOOLEAN, ien: BOOLEAN,
                       port: Ports, ack: BOOLEAN, reset: BOOLEAN]
  /\ u.first \in [Ports -> Kinds]
  /\ u.pads \subseteq Ports \X (-1..(TapSlots - 1))
  /\ u.kinds \subseteq Kinds /\ u.buttons \subseteq Byte
  /\ u.bays \subseteq Ports \X (0..TapSlots)
  /\ u.taps \subseteq Ports

ASSUME Sio0Assumption ==
  /\ Ports \in SUBSET (0..1) /\ 0 \in Ports
  /\ NoBay \notin Ports \X (0..TapSlots)
  /\ AckDelay \in Nat \ {0} /\ FifoCap \in Nat \ {0}
  /\ \A u \in Uses : UseOK(u)

VARIABLES
  ctrl,       \* JOY_CTRL
  rx,         \* the receive FIFO
  statIrq,    \* JOY_STAT bit 9
  ackLevel,   \* JOY_STAT bit 7
  ackTimer,   \* cycles to the pending /ACK, -1 for none
  phase,      \* position in the transfer, 0 before the address byte
  active,     \* the device the transfer is with
  pads,       \* port -> pad
  cards,      \* port -> card
  taps,       \* port -> multitap
  iStat,      \* the Sio bit of I_STAT
  sent,       \* history: the bytes of the transfer
  use,        \* how the port is used in this behaviour
  rung        \* history: has the last acknowledged byte been announced

portVars    == <<ctrl, rx, statIrq, ackLevel, ackTimer, phase, active>>
deviceVars  == <<pads, cards, taps>>
historyVars == <<sent, rung, use>>
vars == <<portVars, deviceVars, iStat, historyVars>>

NoTap    == [pads |-> {}]
Nobody   == [dev |-> "none", sub |-> 0]
CtrlZero == [txen |-> FALSE, dtr |-> FALSE, ien |-> FALSE, port |-> 0]

Init ==
  /\ use \in Uses
  /\ ctrl = CtrlZero /\ rx = <<>>
  /\ statIrq = FALSE /\ ackLevel = FALSE /\ ackTimer = -1
  /\ phase = 0 /\ active = Nobody
  /\ pads = [p \in Ports |-> NewPad(use.first[p], 0)]
  /\ cards = [p \in Ports |-> NoCard]
  /\ taps = [p \in Ports |-> NoTap]
  /\ iStat = FALSE
  /\ sent = <<>> /\ rung = FALSE

----------------------------------------------------------------------------
(* The guest. *)

\* What the guest's message may go on with, and 0 past the end of them all.
NextBytes ==
  LET going == {m \in use.messages[ctrl.port] : Len(m) > Len(sent)
                                            /\ SubSeq(m, 1, Len(sent)) = sent}
  IN IF going = {} THEN {0} ELSE {m[Len(sent) + 1] : m \in going}

\* The address byte selects the device; a multitap takes over its port.
AddressedBy(tx) ==
  LET tapped == taps[ctrl.port] # NoTap
  IN CASE phase > 0 -> active
       [] phase = 0 /\ tx = 1 -> [dev |-> IF tapped THEN "tapPad" ELSE "pad", sub |-> 0]
       [] phase = 0 /\ tx = \h81 /\ ~tapped -> [dev |-> "card", sub |-> 0]
       [] phase = 0 /\ tx \in \h81..\h84 /\ tapped -> [dev |-> "tapCard", sub |-> tx - \h81]
       [] OTHER -> Nobody

\* Mutant: the FIFO grows past its capacity.
Pushed_NoCap(fifo, byte) == Append(fifo, byte)

Pushed(fifo, byte) ==
  Append(IF Len(fifo) >= FifoCap THEN Tail(fifo) ELSE fifo, byte)

\* The tail of tx_byte: the reply is queued; an acknowledge is scheduled, or
\* the transfer is over.
Exchanged(tx, resp, ack) ==
  /\ rx' = Pushed(rx, resp)
  /\ ackLevel' = FALSE
  /\ ackTimer' = IF ack THEN AckDelay ELSE -1
  /\ phase' = IF ack THEN (phase + 1) % 256 ELSE 0
  /\ active' = IF ack THEN AddressedBy(tx) ELSE Nobody
  /\ sent' = IF ack THEN Append(sent, tx) ELSE <<>>
  /\ rung' = FALSE
  /\ UNCHANGED <<ctrl, statIrq, iStat, use>>

Selected == ctrl.txen /\ ctrl.dtr

ShiftToPad(tx) ==
  LET r == PadExchange(pads[ctrl.port], phase, tx)
  IN /\ Selected /\ AddressedBy(tx).dev = "pad"
     /\ pads' = [pads EXCEPT ![ctrl.port] = r.pad]
     /\ Exchanged(tx, r.resp, r.ack)
     /\ UNCHANGED <<cards, taps>>

ShiftToCard(tx) ==
  LET r == CardExchange(cards[ctrl.port], phase, tx)
  IN /\ Selected /\ AddressedBy(tx).dev = "card" /\ cards[ctrl.port] # NoCard
     /\ cards' = [cards EXCEPT ![ctrl.port] = r.card]
     /\ Exchanged(tx, r.resp, r.ack)
     /\ UNCHANGED <<pads, taps>>

ShiftToTapPad(tx) ==
  LET r == ExchangeTap(taps[ctrl.port], phase, tx)
  IN /\ Selected /\ AddressedBy(tx).dev = "tapPad" /\ taps[ctrl.port] # NoTap
     /\ taps' = [taps EXCEPT ![ctrl.port] = r.tap]
     /\ Exchanged(tx, r.resp, r.ack)
     /\ UNCHANGED <<pads, cards>>

\* The card in a sub-slot of the multitap on a port.
TapCard(port, sub) ==
  IF taps[port] = NoTap \/ sub \notin SubSlots THEN NoCard ELSE taps[port].cards[sub]

ShiftToTapCard(tx) ==
  LET sub == AddressedBy(tx).sub
      r == CardExchange(TapCard(ctrl.port, sub), phase, tx)
  IN /\ Selected /\ AddressedBy(tx).dev = "tapCard"
     /\ TapCard(ctrl.port, sub) # NoCard
     /\ taps' = [taps EXCEPT ![ctrl.port].cards[sub] = r.card]
     /\ Exchanged(tx, r.resp, r.ack)
     /\ UNCHANGED <<pads, cards>>

\* Nothing there, or not any more: open bus, and the transfer ends.
ShiftToNobody(tx) ==
  LET to == AddressedBy(tx)
  IN /\ Selected
     /\ \/ to.dev = "none"
        \/ to.dev = "card" /\ cards[ctrl.port] = NoCard
        \/ to.dev = "tapPad" /\ taps[ctrl.port] = NoTap
        \/ to.dev = "tapCard" /\ TapCard(ctrl.port, to.sub) = NoCard
     /\ Exchanged(tx, OpenBus, FALSE)
     /\ UNCHANGED deviceVars

\* Sio0::tx_byte.
Shift ==
  \E tx \in NextBytes :
    \/ ShiftToPad(tx) \/ ShiftToCard(tx) \/ ShiftToTapPad(tx)
    \/ ShiftToTapCard(tx) \/ ShiftToNobody(tx)

\* JOY_RX_DATA read.
ReadRx ==
  /\ rx # <<>>
  /\ rx' = Tail(rx)
  /\ UNCHANGED <<ctrl, statIrq, ackLevel, ackTimer, phase, active, deviceVars, iStat, historyVars>>

ResetPort ==
  /\ ctrl' = CtrlZero /\ rx' = <<>>
  /\ statIrq' = FALSE /\ ackLevel' = FALSE /\ ackTimer' = -1
  /\ phase' = 0 /\ active' = Nobody
  /\ sent' = <<>> /\ rung' = FALSE

\* Mutant: the acknowledge bit cancels the /ACK that is still to come.
Control_CancelsAck(c) ==
  LET abandoned == ctrl.dtr /\ ~c.dtr
  IN /\ ctrl' = [txen |-> c.txen, dtr |-> c.dtr, ien |-> c.ien, port |-> c.port]
     /\ statIrq' = (statIrq /\ ~c.ack)
     /\ ackLevel' = (ackLevel /\ ~c.ack)
     /\ ackTimer' = IF c.ack THEN -1 ELSE ackTimer
     /\ phase' = IF abandoned THEN 0 ELSE phase
     /\ active' = IF abandoned THEN Nobody ELSE active
     /\ sent' = IF abandoned THEN <<>> ELSE sent
     /\ rung' = (rung /\ ~abandoned)
     /\ UNCHANGED rx

\* The acknowledge bit, and the falling edge of Select, which abandons the
\* transfer and leaves its /ACK on the way.
Control(c) ==
  LET abandoned == ctrl.dtr /\ ~c.dtr
  IN /\ ctrl' = [txen |-> c.txen, dtr |-> c.dtr, ien |-> c.ien, port |-> c.port]
     /\ statIrq' = (statIrq /\ ~c.ack)
     /\ ackLevel' = (ackLevel /\ ~c.ack)
     /\ phase' = IF abandoned THEN 0 ELSE phase
     /\ active' = IF abandoned THEN Nobody ELSE active
     /\ sent' = IF abandoned THEN <<>> ELSE sent
     /\ rung' = (rung /\ ~abandoned)
     /\ UNCHANGED <<rx, ackTimer>>

\* Sio0::write_ctrl.  The guest changes ports between transfers only.
WriteCtrl(c) ==
  /\ c.port = ctrl.port \/ phase = 0 \/ ~c.dtr
  /\ IF c.reset THEN ResetPort ELSE Control(c)
  /\ UNCHANGED <<deviceVars, iStat, use>>

AcknowledgeLine ==
  /\ iStat' = FALSE
  /\ UNCHANGED <<portVars, deviceVars, historyVars>>

----------------------------------------------------------------------------
(* Time. *)

\* Mutant: the timer is not stopped in the cycle it runs out.
TimerAfter_StopsLate(timer, n) == IF timer < 0 \/ timer - n < 0 THEN -1 ELSE timer - n

TimerAfter(timer, n) == IF timer < 0 \/ timer - n <= 0 THEN -1 ELSE timer - n
Fires(timer, n)      == timer >= 0 /\ timer - n <= 0

\* Sio0::tick(1).
Tick ==
  /\ ackTimer' = TimerAfter(ackTimer, 1)
  /\ ackLevel' = (ackLevel \/ Fires(ackTimer, 1))
  /\ statIrq' = (statIrq \/ (Fires(ackTimer, 1) /\ ctrl.ien))
  /\ iStat' = (iStat \/ (Fires(ackTimer, 1) /\ ctrl.ien))
  /\ rung' = (rung \/ Fires(ackTimer, 1))
  /\ UNCHANGED <<ctrl, rx, phase, active, deviceVars, sent, use>>

CyclesToNextEvent == IF ackTimer > 1 THEN ackTimer ELSE 1

----------------------------------------------------------------------------
(* The host: commands of the frontend, applied between instructions. *)

HostUnchanged == UNCHANGED <<portVars, iStat, historyVars>>

Pokes(p) ==
  {WithButtons(p, b) : b \in use.buttons} \cup {WithSticks(p, Centre), AnalogPressed(p)}
  \cup {Replugged(p, k) : k \in use.kinds}

PokePad(port) ==
  /\ \E p \in Pokes(pads[port]) : pads' = [pads EXCEPT ![port] = p]
  /\ HostUnchanged /\ UNCHANGED <<cards, taps>>

PokeTapPad(port, sub) ==
  /\ taps[port] # NoTap
  /\ \E p \in Pokes(taps[port].pads[sub]) : taps' = [taps EXCEPT ![port].pads[sub] = p]
  /\ HostUnchanged /\ UNCHANGED <<pads, cards>>

\* Bays are <<port, 0>> for the port's own card, <<port, sub + 1>> behind a tap.
Bays == Ports \X (0..TapSlots)
CardIn(bay) == IF bay[2] = 0 THEN cards[bay[1]] ELSE TapCard(bay[1], bay[2] - 1)

PutCard(bay, card) ==
  /\ IF bay[2] = 0
     THEN cards' = [cards EXCEPT ![bay[1]] = card] /\ UNCHANGED taps
     ELSE /\ taps[bay[1]] # NoTap
          /\ taps' = [taps EXCEPT ![bay[1]].cards[bay[2] - 1] = card]
          /\ UNCHANGED cards
  /\ HostUnchanged /\ UNCHANGED pads

InsertCard(bay) ==
  /\ Cardinality({b \in Bays \ {bay} : CardIn(b) # NoCard}) < MaxCards
  /\ PutCard(bay, NewCard([a \in 0..(NumSectors - 1) |-> Blank]))
EjectCard(bay)  == PutCard(bay, NoCard)

\* There is no such command for the cards behind a multitap.
ClearDirty(bay) ==
  /\ bay[2] = 0 /\ CardIn(bay) # NoCard
  /\ PutCard(bay, [CardIn(bay) EXCEPT !.dirty = FALSE])

SetMultitap(port, enabled) ==
  /\ taps' = [taps EXCEPT ![port] = IF enabled THEN NewTap ELSE NoTap]
  /\ HostUnchanged /\ UNCHANGED <<pads, cards>>

\* The machine saved to a file and loaded again.
ThawedCard(c) == IF c = NoCard THEN c ELSE Thawed(c)
SaveAndLoad ==
  /\ pads' = [p \in Ports |-> ThawedPad(pads[p])]
  /\ cards' = [p \in Ports |-> ThawedCard(cards[p])]
  /\ taps' = [p \in Ports |->
               IF taps[p] = NoTap THEN NoTap
               ELSE [taps[p] EXCEPT !.pads = [s \in SubSlots |-> ThawedPad(@[s])],
                                    !.cards = [s \in SubSlots |-> ThawedCard(@[s])]]]
  /\ HostUnchanged

Next ==
  \/ Shift
  \/ ReadRx
  \/ \E c \in use.ctrl : WriteCtrl(c)
  \/ AcknowledgeLine
  \/ Tick
  \/ \E where \in use.pads :
       IF where[2] = -1 THEN PokePad(where[1]) ELSE PokeTapPad(where[1], where[2])
  \/ \E bay \in use.bays : InsertCard(bay)
  \/ \E bay \in use.bays : EjectCard(bay)
  \/ \E bay \in use.bays : ClearDirty(bay)
  \/ \E port \in use.taps, enabled \in BOOLEAN : SetMultitap(port, enabled)
  \/ SaveAndLoad

Spec == Init /\ [][Next]_vars

----------------------------------------------------------------------------
\* Types, and a transfer under way only while Select is held.
TypeOK ==
  /\ ctrl \in [txen: BOOLEAN, dtr: BOOLEAN, ien: BOOLEAN, port: 0..1]
  /\ rx \in Seq(Byte) /\ Len(rx) <= FifoCap
  /\ {statIrq, ackLevel, iStat, rung} \subseteq BOOLEAN
  /\ ackTimer \in -1..AckDelay
  /\ phase \in Byte /\ (phase > 0 => ctrl.dtr /\ active # Nobody)
  /\ \A p \in Ports : pads[p] \in PadState
  /\ \A bay \in Bays : CardIn(bay) = NoCard \/ CardIn(bay) \in CardState
  /\ Len(sent) = phase

\* A guest that waits for /ACK before its next byte never waits in vain: as
\* long as the device expects another byte, its acknowledge of the last one is
\* still to come or has come, whatever was acknowledged, deselected, swapped
\* or saved in between (tx_byte, write_ctrl, tick).
EveryAckRings == phase > 0 => ackTimer >= 0 \/ rung

\* What the lazy scheduler asks of the port (Devices): cycles in one
\* batch or one by one are the same, the estimate is exact, and an acknowledge
\* that has rung does not ring again.
AckTimerKeepsContract ==
  \A n \in 1..(AckDelay + 1) :
    /\ TimerAfter(TimerAfter(ackTimer, 1), n) = TimerAfter(ackTimer, n + 1)
    /\ Fires(ackTimer, n + 1) = (Fires(ackTimer, 1) \/ Fires(TimerAfter(ackTimer, 1), n))
    /\ Fires(ackTimer, n) = (ackTimer >= 0 /\ n >= CyclesToNextEvent)
    /\ ~ (Fires(ackTimer, n) /\ Fires(TimerAfter(ackTimer, n), 1))

\* The bay the transfer is with, and whether its card still knows the message.
SessionBay ==
  CASE active.dev = "card"    -> <<ctrl.port, 0>>
    [] active.dev = "tapCard" -> <<ctrl.port, active.sub + 1>>
    [] OTHER -> NoBay
SessionOpen ==
  /\ SessionBay # NoBay
  /\ \/ Len(sent) = 1
     \/ CardIn(SessionBay) # NoCard /\ CardIn(SessionBay).cmd # "none"

TxBytes == {0} \cup UNION {Range(m) : m \in UNION {u.messages[p] : u \in Uses, p \in Ports}}

Sessions == INSTANCE CardSessions WITH
  images  <- [b \in Bays |-> IF CardIn(b) = NoCard THEN <<>> ELSE CardIn(b).data],
  unsaved <- [b \in Bays |-> CardIn(b) # NoCard /\ CardIn(b).dirty],
  target  <- IF SessionOpen THEN SessionBay ELSE NoBay,
  sent    <- IF SessionOpen THEN sent ELSE <<>>,
  reply   <- IF rx = <<>> THEN -1 ELSE Last(rx)

\* Byte by byte, with registers that outlive a transfer, a swapped card, a
\* dropped Select and a save state, a card does what whole messages ask for:
\* what a read returns, which sector a write changes, to what, and when, and
\* that the change is marked for the host to save (MemoryCard::exchange,
\* commit_write, Sio0::tx_byte).
RefinesSessions == Sessions!Spec

\* A poll that a pad acknowledges tells which buttons are held, also when the
\* machine is saved and loaded during it.
PollTellsButtons ==
  [][sent' # sent /\ active.dev = "pad" /\ phase \in {3, 4} /\ sent[2] = \h42
       /\ ctrl'.dtr
       => Last(rx') = 255 - pads[ctrl.port].buttons]_vars
=============================================================================
