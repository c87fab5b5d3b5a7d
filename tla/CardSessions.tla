---------------------------- MODULE CardSessions ----------------------------
(***************************************************************************)
(* What a guest may rely on when it talks to memory cards: a card answers  *)
(* messages.  The effect of a message and the replies that carry data are  *)
(* functions of the whole message and of the image, with no registers in   *)
(* between; a write happens once, at its last byte, or not at all.  An     *)
(* abandoned message leaves no trace.                                      *)
(***************************************************************************)
EXTENDS Integers, Sequences, SequencesExt

CONSTANTS
  Bays,         \* where a card can be
  NumSectors,
  SectorBytes,
  NoBay,
  TxBytes       \* what guests send

VARIABLES
  images,    \* bay -> the contents of the card in it, or NoImage
  unsaved,   \* bay -> has it changed since the host last flushed it
  target,    \* the bay of the message under way
  sent,      \* its bytes so far, <<>> between messages
  reply      \* the last byte shifted back, -1 once the guest has read it

vars == <<images, unsaved, target, sent, reply>>

NoImage == <<>>

Init ==
  /\ images \in [Bays -> {NoImage}]
  /\ unsaved = [b \in Bays |-> FALSE]
  /\ target = NoBay /\ sent = <<>>
  /\ reply = -1

AddressOf(msg) == msg[5] * 256 + msg[6]
DataOf(msg)    == [i \in 1..SectorBytes |-> msg[6 + i]]
SumOf(msg)     == msg[7 + SectorBytes]
Parity(msg)    == Cardinality({i \in 5..(6 + SectorBytes) : msg[i] % 2 = 1}) % 2

SectorAt(img, addr) ==
  IF addr < NumSectors THEN img[addr] ELSE [i \in 1..SectorBytes |-> 0]

Reads(msg)  == Len(msg) > 1 /\ msg[2] = \h52
Writes(msg) == Len(msg) > 1 /\ msg[2] = \h57
Asks(msg)   == Len(msg) > 1 /\ msg[2] = \h53

Length(msg) ==
  CASE Reads(msg)  -> 12 + SectorBytes
    [] Writes(msg) -> 10 + SectorBytes
    [] Asks(msg)   -> 10
    [] OTHER       -> 2

\* A whole message that writes: address in range, checksum right.
Takes(msg) ==
  /\ Writes(msg) /\ Len(msg) = Length(msg)
  /\ AddressOf(msg) < NumSectors
  /\ SumOf(msg) = Parity(msg)

\* What the reply to the last byte of the message has to be, where it matters.
Told(img, msg, byte) ==
  /\ Reads(msg) /\ Len(msg) \in 11..(10 + SectorBytes) =>
       byte = SectorAt(img, AddressOf(msg))[Len(msg) - 10]
  /\ Reads(msg) /\ Len(msg) = Length(msg) =>
       (byte = \h47 <=> AddressOf(msg) < NumSectors)
  /\ Writes(msg) /\ Len(msg) = Length(msg) => (byte = \h47 <=> Takes(msg))

----------------------------------------------------------------------------
\* A byte to a card, which goes on with the message or starts one.
ShiftToCard(bay, tx) ==
  LET msg == Append(sent, tx)
      open == Len(msg) < Length(msg)
  IN /\ images[bay] # NoImage
     /\ sent = <<>> \/ bay = target
     /\ reply' \in 0..255 /\ Told(images[bay], msg, reply')
     /\ sent' = IF open THEN msg ELSE <<>>
     /\ target' = IF open THEN bay ELSE NoBay
     /\ IF Takes(msg)
        THEN /\ images' = [images EXCEPT ![bay][AddressOf(msg)] = DataOf(msg)]
             /\ unsaved' = [unsaved EXCEPT ![bay] = TRUE]
        ELSE UNCHANGED <<images, unsaved>>

\* A byte to anything else: a pad, an empty bay, a device that gave up.
ShiftElsewhere ==
  /\ sent = <<>> \/ images[target] = NoImage
  /\ reply' \in 0..255
  /\ sent' = <<>> /\ target' = NoBay
  /\ UNCHANGED <<images, unsaved>>

\* Select dropped, port reset, or the card's registers lost to a save state.
Abandon ==
  /\ sent' = <<>> /\ target' = NoBay
  /\ reply' \in {reply, -1}
  /\ UNCHANGED <<images, unsaved>>

\* The host changes cards or notes that they are saved.  A message to one of them is cut short, unless no
\* more than its address byte was sent.
Swap ==
  LET swapped == {b \in Bays : images'[b] # images[b] \/ unsaved'[b] # unsaved[b]}
  IN /\ \A b \in swapped : ~unsaved'[b]
     /\ \/ UNCHANGED <<sent, target>>
        \/ target \in swapped /\ sent' = <<>> /\ target' = NoBay
     /\ UNCHANGED reply

Read ==
  /\ reply' = -1
  /\ UNCHANGED <<images, unsaved, target, sent>>

Next ==
  \/ \E bay \in Bays, tx \in TxBytes : ShiftToCard(bay, tx)
  \/ ShiftElsewhere
  \/ Abandon
  \/ Swap
  \/ Read

Spec == Init /\ [][Next]_vars
=============================================================================
