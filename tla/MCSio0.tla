------------------------------- MODULE MCSio0 -------------------------------
(***************************************************************************)
(* Sio0 for TLC: what the guest says, port by port, in four uses of the    *)
(* port (a card, a multitap with cards, pads, pads in a multitap), and     *)
(* what is plugged and pressed meanwhile.  Sectors of one byte.            *)
(***************************************************************************)
EXTENDS Sio0

CONSTANT none

Zeros(n) == [i \in 1..n |-> 0]

\* Messages to a card: two sectors of one byte, so addresses 0 and 1 are good.
Writes(at) ==
  {<<at, \h57, 0, 0>> \o mld \o <<c, 0, 0, 0>> :
     mld \in {<<0, 0, 0>>, <<0, 0, 1>>, <<0, 1, 1>>, <<1, 0, 1>>}, c \in {0, 1}}
ReadsOf(at) == {<<at, \h52, 0, 0, 0, l>> \o Zeros(7) : l \in {0, 1}}
Others(at)  == {<<at, \h53>> \o Zeros(8), <<at, \h44>>}

\* Polls, plain and asking for the multitap's burst, and configuration.
Poll   == <<1, \h42>> \o Zeros(7)
Burst  == <<1, \h42, 1>> \o Zeros(16)
Config == <<1, \h43, 0, 1>> \o Zeros(5)
Mode   == <<1, \h44, 0, 1, 2>> \o Zeros(4)

Ctl(dtr, port, ack, reset) ==
  [txen |-> dtr, dtr |-> dtr, ien |-> dtr, port |-> port, ack |-> ack, reset |-> reset]
Select(p)   == Ctl(TRUE, p, FALSE, FALSE)
AckSelect   == Ctl(TRUE, 0, TRUE, FALSE)
Deselect    == Ctl(FALSE, 0, FALSE, FALSE)
Reset       == Ctl(FALSE, 0, FALSE, TRUE)

MCPorts == {0, 1}
BothDigital == [p \in MCPorts |-> "digital"]
Say(on0, on1) == [p \in MCPorts |-> IF p = 0 THEN on0 ELSE on1]

\* A card in port 0, read and written, while port 1 is asked for one as well.
CardUse ==
  [messages |-> Say(Writes(\h81) \cup ReadsOf(\h81) \cup Others(\h81), {<<\h81, \h52>>}),
   ctrl |-> {Select(0), Select(1), AckSelect, Deselect, Reset},
   first |-> BothDigital, pads |-> {}, kinds |-> {}, buttons |-> {},
   bays |-> {<<0, 0>>}, taps |-> {}]

\* A multitap that comes and goes on port 0, a card in it, and one beside it.
TapUse ==
  [messages |-> Say({<<\h82, \h57, 0, 0, 0, 1, 1, 0, 0, 0, 0>>,
                     <<\h81, \h52, 0, 0, 0, 1>> \o Zeros(7)}, {}),
   ctrl |-> {Select(0), Deselect},
   first |-> BothDigital, pads |-> {}, kinds |-> {}, buttons |-> {},
   bays |-> {<<0, 0>>, <<0, 2>>}, taps |-> {0}]

\* Pads of every kind on port 0, and in a multitap there.
PadUse ==
  [messages |-> Say({Poll, Burst, Config, Mode}, {}),
   ctrl |-> {Select(0), Deselect},
   first |-> BothDigital, pads |-> {<<0, -1>>}, kinds |-> {"none", "analog", "stick"},
   buttons |-> {0, 255}, bays |-> {}, taps |-> {}]
TapPadUse ==
  [messages |-> Say({Poll, Burst}, {}),
   ctrl |-> {Select(0), Deselect},
   first |-> BothDigital, pads |-> {<<0, 0>>, <<0, 1>>}, kinds |-> {"none", "analog"},
   buttons |-> {0}, bays |-> {}, taps |-> {0}]

MCUses == {CardUse, TapUse, PadUse, TapPadUse}

\* For the poll that a save state interrupts: one analog pad, nothing else.
PollUses ==
  {[messages |-> Say({Poll}, {}), ctrl |-> {Select(0), Deselect},
    first |-> [p \in MCPorts |-> "analog"], pads |-> {}, kinds |-> {}, buttons |-> {},
    bays |-> {}, taps |-> {}]}
=============================================================================
