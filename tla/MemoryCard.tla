----------------------------- MODULE MemoryCard -----------------------------
(***************************************************************************)
(* A memory card as the SIO0 port drives it (iostubs.rs, MemoryCard): one  *)
(* exchange per byte, indexed by the phase the port counts, with the       *)
(* command, the address and the sector being received in scratch registers *)
(* that live from one exchange to the next.  The bytes of the protocol are *)
(* their own values; data bytes are bits, so that xor is addition mod 2.   *)
(***************************************************************************)
EXTENDS Integers, Sequences, SequencesExt

CONSTANTS
  NumSectors,   \* MEMCARD_SECTOR_COUNT
  SectorBytes   \* MEMCARD_SECTOR_SIZE

\* A sector's number fits into the two address bytes, and a whole message into the
\* port's phase, which is one byte.  The code's sizes are 1024 and 128.
ASSUME MemoryCardAssumption ==
  /\ NumSectors \in 1..65536
  /\ SectorBytes \in 1..128

OpenBus == \hFF
Good    == \h47
BadSum  == \h4E

Sector == [1..SectorBytes -> 0..1]
Blank  == [i \in 1..SectorBytes |-> 0]
Image  == [0..(NumSectors - 1) -> Sector]

Address == {n \in Nat : n < 65536}

CardState ==
  [data: Image, fresh: BOOLEAN, dirty: BOOLEAN,
   cmd: {"none", "read", "write", "id"}, addr: Address, buf: Sector, sum: 0..1]

\* MemoryCard::from_data.
NewCard(img) ==
  [data |-> img, fresh |-> TRUE, dirty |-> FALSE,
   cmd |-> "none", addr |-> 0, buf |-> Blank, sum |-> 0]

\* Mutant: the command survives the save state, its address and data do not.
Thawed_KeepsCommand(c) == [c EXCEPT !.addr = 0, !.buf = Blank, !.sum = 0]

\* What serde leaves of a card: the skipped fields come back as defaults.
Thawed(c) == [c EXCEPT !.cmd = "none", !.addr = 0, !.buf = Blank, !.sum = 0]

CommandOf ==
  [tx \in {\h52, \h57, \h53} |->
    CASE tx = \h52 -> "read" [] tx = \h57 -> "write" [] tx = \h53 -> "id"]

High(addr) == addr \div 256
Low(addr)  == addr % 256
InRange(addr) == addr < NumSectors

Contents(img, addr) == IF InRange(addr) THEN img[addr] ELSE Blank

Ones(sector) == Cardinality({i \in DOMAIN sector : sector[i] = 1})

Checksum(addr, sector) == (High(addr) + Low(addr) + Ones(sector)) % 2

Reply(c, byte, ack) == [card |-> c, resp |-> byte, ack |-> ack]

\* The reply at a phase past the command byte, from the list of all of them:
\* the last one does not acknowledge, nor does anything beyond it.
Listed(c, replies, phase) ==
  LET i == phase - 1
  IN IF i \in DOMAIN replies THEN Reply(c, replies[i], i < Len(replies))
     ELSE Reply(c, OpenBus, FALSE)

\* The two address bytes, which both transfers take at phases 4 and 5.
Addressed(c, phase, tx) ==
  CASE phase = 4 -> [c EXCEPT !.addr = tx * 256]
    [] phase = 5 -> [c EXCEPT !.addr = @ + tx]
    [] OTHER     -> c

ExchangeRead(c, phase, tx) ==
  LET sector  == Contents(c.data, c.addr)
      replies == <<\h5A, \h5D, 0, 0, \h5C, \h5D, High(c.addr), Low(c.addr)>>
                 \o sector \o <<Checksum(c.addr, sector),
                                IF InRange(c.addr) THEN Good ELSE OpenBus>>
  IN Listed(Addressed(c, phase, tx), replies, phase)

Verdict(c) ==
  IF ~InRange(c.addr) THEN OpenBus
  ELSE IF Checksum(c.addr, c.buf) # c.sum THEN BadSum
  ELSE Good

CommitWrite(c) ==
  IF Verdict(c) = Good
  THEN [c EXCEPT !.data[c.addr] = c.buf, !.dirty = TRUE, !.fresh = FALSE]
  ELSE c

\* Phases of a write: 6.. the data, then the checksum, two acks, the verdict.
DataPhases  == 6..(5 + SectorBytes)
SumPhase    == 6 + SectorBytes
CommitPhase == 9 + SectorBytes

ExchangeWrite(c, phase, tx) ==
  LET replies == <<\h5A, \h5D, 0, 0>> \o [i \in 1..(SectorBytes + 1) |-> 0]
                 \o <<\h5C, \h5D, Verdict(c)>>
      taken   == CASE phase \in DataPhases -> [c EXCEPT !.buf[phase - 5] = tx]
                   [] phase = SumPhase     -> [c EXCEPT !.sum = tx]
                   [] phase = CommitPhase  -> CommitWrite(c)
                   [] OTHER                -> Addressed(c, phase, tx)
  IN Listed(taken, replies, phase)

ExchangeGetId(c, phase) ==
  Listed(c, <<\h5A, \h5D, \h5C, \h5D, 4, 0, 0, \h80>>, phase)

\* MemoryCard::exchange.
CardExchange(c, phase, tx) ==
  CASE phase = 0 ->
         Reply([c EXCEPT !.cmd = "none", !.addr = 0, !.sum = 0], OpenBus, TRUE)
    [] phase = 1 /\ tx \in DOMAIN CommandOf ->
         Reply([c EXCEPT !.cmd = CommandOf[tx]], IF c.fresh THEN 8 ELSE 0, TRUE)
    [] phase = 1 /\ tx \notin DOMAIN CommandOf -> Reply(c, OpenBus, FALSE)
    [] phase > 1 /\ c.cmd = "read"  -> ExchangeRead(c, phase, tx)
    [] phase > 1 /\ c.cmd = "write" -> ExchangeWrite(c, phase, tx)
    [] phase > 1 /\ c.cmd = "id"    -> ExchangeGetId(c, phase)
    [] phase > 1 /\ c.cmd = "none"  -> Reply(c, OpenBus, FALSE)
=============================================================================
