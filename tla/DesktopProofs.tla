--------------------------- MODULE DesktopProofs ---------------------------
(***************************************************************************)
(* What the desktop frontend keeps of the memory card, and what it knows   *)
(* of the machine, for every set of images, sessions, slots and earlier    *)
(* states.                                                                 *)
(***************************************************************************)
EXTENDS Desktop, TLAPS

USE DEF Running

\* A frame keeps the machine's type, and a card it changes is dirty.
LEMMA FrameDirties ==
  ASSUME NEW c \in Machines, NEW d \in Frames(c)
  PROVE  d \in Machines /\ ((d.card = c.card /\ d.dirty = c.dirty) \/ d.dirty)
<1>1. CASE d = c
  BY <1>1
<1>2. ASSUME NEW i \in Images, d = [c EXCEPT !.card = i, !.dirty = TRUE]
      PROVE  d \in Machines /\ d.dirty
  BY <1>2 DEF Machines, Cards
<1> QED BY <1>1, <1>2 DEF Frames

\* A command for player 1's pad leaves the card and its flag alone.
LEMMA SendLeavesTheCard ==
  ASSUME NEW c \in Machines, NEW pad \in Pads
  PROVE  /\ Send(c, pad) \in Machines
         /\ Send(c, pad).card = c.card /\ Send(c, pad).dirty = c.dirty
<1>1. CASE Player1 = "tap"
  BY <1>1 DEF Send, Machines
<1>2. CASE Player1 = "port"
  BY <1>2 DEF Send, Machines
<1> QED BY <1>1, <1>2 DEF Player1

\* The pad player 1 drives has a pad's type, if it is there.
LEMMA Player1HasAPad ==
  ASSUME NEW c \in Machines
  PROVE  c.pads[Player1] \in Pads \cup {Absent}
  BY DEF Player1, Machines

LEMMA SendButtonsLeavesTheCard ==
  ASSUME NEW c \in Machines, NEW b \in SUBSET Buttons
  PROVE  /\ SendButtons(c, b) \in Machines
         /\ SendButtons(c, b).card = c.card /\ SendButtons(c, b).dirty = c.dirty
<1>1. CASE c.pads[Player1] = Absent
  BY <1>1 DEF SendButtons, Send
<1>2. CASE c.pads[Player1] # Absent
  <2>1. [c.pads[Player1] EXCEPT !.buttons = b] \in Pads
    BY <1>2, Player1HasAPad DEF Pads
  <2> QED BY <2>1, SendLeavesTheCard DEF SendButtons
<1> QED BY <1>1, <1>2

LEMMA MakeAnalogLeavesTheCard ==
  ASSUME NEW c \in Machines
  PROVE  /\ MakeAnalog(c) \in Machines
         /\ MakeAnalog(c).card = c.card /\ MakeAnalog(c).dirty = c.dirty
<1>1. CASE c.pads[Player1] = Absent
  BY <1>1 DEF MakeAnalog, Send
<1>2. CASE c.pads[Player1] # Absent
  <2>1. [c.pads[Player1] EXCEPT !.kind = "analog"] \in Pads
    BY <1>2, Player1HasAPad DEF Pads
  <2> QED BY <2>1, SendLeavesTheCard DEF MakeAnalog
<1> QED BY <1>1, <1>2

-----------------------------------------------------------------------------
IInv == TypeOK /\ UnsavedIsDirty

LEMMA InitIInv == Init => IInv
  BY DesktopAssumption DEF Init, IInv, TypeOK, UnsavedIsDirty, Cards

\* A launched machine is clean and its card is the file's.
LEMMA LaunchKeepsIInv ==
  ASSUME IInv, NEW s \in Sessions, Launch(s)
  PROVE  IInv'
<1> DEFINE kind == IF s.gamepad THEN "analog" ELSE "digital"
           pads == [port |-> Pad(IF s.multitap THEN "digital" ELSE kind, {}),
                    tap  |-> IF s.multitap THEN Pad(kind, {}) ELSE Absent]
<1>0. app' \in Apps
  <2>1. (CHOOSE n \in Slots : \A m \in Slots : n <= m) \in Slots
    BY DesktopAssumption
  <2> QED BY <2>1, DesktopAssumption DEF Launch, Apps
<1>1. pads \in [port : Pads, tap : Pads \cup {Absent}]
  BY DEF Pads, Pad
<1>2. CardFrom(file) \in Cards
  BY DEF IInv, TypeOK, CardFrom, Cards
<1>3. core' = [paused |-> FALSE, game |-> s.game, dirty |-> FALSE,
               card |-> IF s.memcard THEN CardFrom(file) ELSE Absent, pads |-> pads]
  BY DEF Launch, FreshCore
<1>4. s.game \in Games
  BY DesktopAssumption
<1> HIDE DEF pads
<1>5. core' \in Machines
  BY <1>1, <1>2, <1>3, <1>4 DEF Machines
<1>6. core'.card # Absent => core'.card = CardFrom(file)
  BY <1>3
<1> QED BY <1>0, <1>5, <1>6 DEF IInv, TypeOK, UnsavedIsDirty, Launch, CardFrom

\* A flush that succeeds leaves the file equal to the card, and one that fails
\* leaves the flag up.
LEMMA FlushKeepsIInv ==
  ASSUME IInv, Running, UNCHANGED <<app, slots>>,
         NEW c \in Machines, FlushMemcard(c),
         (c.card = core.card /\ c.dirty = core.dirty) \/ c.dirty
  PROVE  IInv'
<1>1. CASE NeedsFlush(c)
  <2>1. c.card \in Cards
    BY <1>1 DEF NeedsFlush, Machines
  <2>2. core' \in Machines /\ core'.card = c.card
    BY <1>1 DEF FlushMemcard, Machines
  <2>3. file' \in Cards \cup {Absent}
    BY <1>1, <2>1 DEF FlushMemcard, Written, IInv, TypeOK, Cards
  <2>4. CASE disk = "works"
    <3>1. file' = c.card
      BY <1>1, <2>4 DEF FlushMemcard, Written
    <3>2. core'.card = CardFrom(file')
      BY <2>1, <2>2, <3>1, DesktopAssumption DEF CardFrom
    <3> QED BY <2>2, <2>3, <3>2 DEF IInv, TypeOK, UnsavedIsDirty, CardFrom
  <2>5. CASE disk # "works"
    <3>1. core'.dirty
      BY <1>1, <2>5 DEF FlushMemcard, NeedsFlush
    <3> QED BY <2>2, <2>3, <3>1 DEF IInv, TypeOK, UnsavedIsDirty
  <2> QED BY <2>4, <2>5
<1>2. CASE ~NeedsFlush(c)
  BY <1>2 DEF FlushMemcard, IInv, TypeOK, UnsavedIsDirty, CardFrom
<1> QED BY <1>1, <1>2

\* Steps that only rearrange the rest of the machine.
LEMMA SameCardKeepsIInv ==
  ASSUME IInv, Running, core' \in Machines, core'.card = core.card,
         core'.dirty = core.dirty, app' \in Apps, app'.memcard = app.memcard,
         "card" \in loads => "card" \in loads', UNCHANGED <<file, slots>>
  PROVE  IInv'
  BY DEF IInv, TypeOK, UnsavedIsDirty, CardFrom

LEMMA PadInputKeepsIInv ==
  ASSUME IInv, PadInput
  PROVE  IInv'
<1>1. ASSUME NEW b \in SUBSET Buttons, KeyButtons(b) PROVE IInv'
  <2>1. Running /\ core \in Machines
    BY <1>1 DEF KeyButtons, IInv, TypeOK
  <2>2. core' = SendButtons(core, b)
    BY <1>1 DEF KeyButtons
  <2>3. core' \in Machines /\ core'.card = core.card /\ core'.dirty = core.dirty
    BY <2>1, <2>2, SendButtonsLeavesTheCard
  <2>4. app' \in Apps /\ app'.memcard = app.memcard
    BY <1>1 DEF KeyButtons, IInv, TypeOK, Apps
  <2> QED BY <1>1, <2>1, <2>3, <2>4, SameCardKeepsIInv DEF KeyButtons
<1>2. ASSUME NEW b \in SUBSET Buttons, NEW connected \in BOOLEAN, NEW pressed \in BOOLEAN,
             NEW moved \in BOOLEAN, GamepadEvents(connected, pressed, b, moved)
      PROVE  IInv'
  <2> DEFINE attached == IF connected /\ ~app.analog THEN MakeAnalog(core) ELSE core
             held     == IF pressed THEN SendButtons(attached, b) ELSE attached
             done     == IF moved THEN MakeAnalog(held) ELSE held
  <2>1. Running /\ core \in Machines
    BY <1>2 DEF GamepadEvents, IInv, TypeOK
  <2>2. attached \in Machines /\ attached.card = core.card /\ attached.dirty = core.dirty
    BY <2>1, MakeAnalogLeavesTheCard
  <2> HIDE DEF attached
  <2>3. held \in Machines /\ held.card = core.card /\ held.dirty = core.dirty
    BY <2>2, SendButtonsLeavesTheCard
  <2> HIDE DEF held
  <2>4. done \in Machines /\ done.card = core.card /\ done.dirty = core.dirty
    BY <2>3, MakeAnalogLeavesTheCard
  <2>5. core' = done
    BY <1>2 DEF GamepadEvents, held, attached
  <2> HIDE DEF done
  <2>6. "card" \in loads => "card" \in loads'
    BY <1>2 DEF GamepadEvents
  <2>7. UNCHANGED <<file, slots>>
    BY <1>2 DEF GamepadEvents
  <2>8. app' \in Apps /\ app'.memcard = app.memcard
    BY <1>2 DEF GamepadEvents, IInv, TypeOK, Apps
  <2> QED BY <2>1, <2>4, <2>5, <2>6, <2>7, <2>8, SameCardKeepsIInv
<1> QED BY <1>1, <1>2 DEF PadInput

LEMMA NextKeepsIInv == IInv /\ [Next]_vars => IInv'
<1> SUFFICES ASSUME IInv, [Next]_vars PROVE IInv'
  OBVIOUS
<1>1. CASE \E s \in Sessions : Launch(s)
  BY <1>1, LaunchKeepsIInv
<1>2. CASE Redraw
  <2>1. PICK c \in IF core.paused THEN {core} ELSE Frames(core) : FlushMemcard(c)
    BY <1>2 DEF Redraw
  <2>2. core \in Machines
    BY <1>2 DEF Redraw, IInv, TypeOK
  <2>3. c \in Machines /\ ((c.card = core.card /\ c.dirty = core.dirty) \/ c.dirty)
    BY <2>1, <2>2, FrameDirties
  <2> QED BY <1>2, <2>1, <2>3, FlushKeepsIInv DEF Redraw
<1>3. CASE PauseKey
  <2>1. core' \in Machines /\ core'.card = core.card /\ core'.dirty = core.dirty
    BY <1>3 DEF PauseKey, IInv, TypeOK, Machines, Apps
  <2>2. app' \in Apps /\ app'.memcard = app.memcard
    BY <1>3 DEF PauseKey, IInv, TypeOK, Apps
  <2> QED BY <1>3, <2>1, <2>2, SameCardKeepsIInv DEF PauseKey
<1>4. CASE FrameStepKey
  <2>1. core \in Machines /\ core' \in Frames(core)
    BY <1>4 DEF FrameStepKey, IInv, TypeOK
  <2>2. core' \in Machines /\ ((core'.card = core.card /\ core'.dirty = core.dirty) \/ core'.dirty)
    BY <2>1, FrameDirties
  <2> QED BY <1>4, <2>2 DEF FrameStepKey, IInv, TypeOK, UnsavedIsDirty, CardFrom
<1>5. CASE \E n \in Slots : SelectSlot(n)
  <2>1. app' \in Apps /\ app'.memcard = app.memcard
    BY <1>5 DEF SelectSlot, IInv, TypeOK, Apps
  <2> QED BY <1>5, <2>1 DEF SelectSlot, IInv, TypeOK, UnsavedIsDirty, CardFrom
<1>6. CASE SaveState
  <2>1. Snapshot(core) \in Snapshots
    BY <1>6 DEF SaveState, IInv, TypeOK, Snapshot, Snapshots, Machines
  <2>2. slots' \in [Slots -> Snapshots \cup {Absent, Torn}]
    BY <1>6, <2>1 DEF SaveState, Written, IInv, TypeOK, Apps
  <2> QED BY <1>6, <2>2 DEF SaveState, IInv, TypeOK, UnsavedIsDirty, CardFrom
<1>7. CASE LoadState
  <2>1. slots[app.slot] \in Snapshots
    BY <1>7 DEF LoadState, Readable, IInv, TypeOK, Apps
  <2>2. core' \in Machines
    BY <1>7, <2>1 DEF LoadState, Snapshots
  <2>3. "card" \in loads'
    BY <1>7 DEF LoadState
  <2> QED BY <1>7, <2>2, <2>3 DEF LoadState, IInv, TypeOK, UnsavedIsDirty
<1>8. CASE PadInput
  BY <1>8, PadInputKeepsIInv
<1>9. CASE Exit
  <2>1. core \in Machines
    BY <1>9 DEF Exit, IInv, TypeOK
  <2>2. file' \in Cards \cup {Absent}
    BY <1>9, <2>1 DEF Exit, NeedsFlush, Written, IInv, TypeOK, Machines, Cards
  <2> QED BY <1>9, <2>2 DEF Exit, IInv, TypeOK, UnsavedIsDirty
<1>10. CASE Kill
  <2>1. slots' \in [Slots -> Snapshots \cup {Absent, Torn}]
    BY <1>10 DEF Kill, IInv, TypeOK
  <2>2. file' \in Cards \cup {Absent}
    BY <1>10 DEF Kill, IInv, TypeOK, Cards
  <2> QED BY <1>10, <2>1, <2>2 DEF Kill, IInv, TypeOK, UnsavedIsDirty
<1>11. CASE DiskChanges
  BY <1>11 DEF DiskChanges, IInv, TypeOK, UnsavedIsDirty, CardFrom
<1>12. CASE UNCHANGED vars
  BY <1>12 DEF vars, IInv, TypeOK, UnsavedIsDirty, CardFrom
<1> QED
  BY <1>1, <1>2, <1>3, <1>4, <1>5, <1>6, <1>7, <1>8, <1>9, <1>10, <1>11, <1>12 DEF Next

\* The frontend never holds a clean card that differs from its file, whatever
\* fails, is killed or is relaunched, unless a load brought that card.
THEOREM UnsavedCardIsDirty == Spec => []UnsavedIsDirty
<1>1. IInv => UnsavedIsDirty
  BY DEF IInv
<1> QED BY InitIInv, NextKeepsIInv, <1>1, PTL DEF Spec

-----------------------------------------------------------------------------
(***************************************************************************)
(* What the frontend believes of the machine.                              *)
(***************************************************************************)
\* A state that names its game was taken of a machine that held it, so that
\* a load which passes the check brings the game the frontend knows.
SlotsNameTheirGame ==
  \A n \in Slots :
    Readable(slots[n]) /\ slots[n].version # "" => slots[n].core.game = slots[n].game

TapAsLaunched == core.pads.tap # Absent <=> app.multitap

KInv == TypeOK /\ SlotsNameTheirGame /\ FrontendKnowsTheMachine

LEMMA InitKInv == Init => KInv
<1> SUFFICES ASSUME Init PROVE KInv
  OBVIOUS
<1>1. TypeOK
  BY InitIInv DEF IInv
<1>2. SlotsNameTheirGame
  BY DesktopAssumption DEF Init, SlotsNameTheirGame, Readable
<1> QED BY <1>1, <1>2 DEF Init, KInv, FrontendKnowsTheMachine

\* A launched machine is as the frontend made it.
LEMMA LaunchKeepsKInv ==
  ASSUME KInv, TypeOK', NEW s \in Sessions, Launch(s)
  PROVE  KInv'
<1> DEFINE kind == IF s.gamepad THEN "analog" ELSE "digital"
<1>1. /\ core'.paused = FALSE /\ core'.game = s.game
      /\ core'.pads.port = Pad(IF s.multitap THEN "digital" ELSE kind, {})
      /\ core'.pads.tap = IF s.multitap THEN Pad(kind, {}) ELSE Absent
  BY DEF Launch, FreshCore
<1>2. app'.paused = FALSE /\ app'.game = s.game /\ app'.multitap = s.multitap
      /\ app'.analog = s.gamepad /\ app'.buttons = {}
  BY DEF Launch
<1>3. Pad(kind, {}) # Absent /\ s.multitap \in BOOLEAN /\ s.gamepad \in BOOLEAN
  <2>1. Pad(kind, {}) \in Pads
    BY DEF Pad, Pads
  <2> QED BY <2>1, DesktopAssumption
<1>4. (core'.pads.tap # Absent <=> app'.multitap)
      /\ Polled(core') = Pad(kind, {})
  <2>1. CASE s.multitap
    BY <1>1, <1>2, <1>3, <2>1 DEF Polled
  <2>2. CASE ~s.multitap
    BY <1>1, <1>2, <1>3, <2>2 DEF Polled
  <2> QED BY <2>1, <2>2
<1>5. Pad(kind, {}).buttons = {} /\ (s.gamepad => Pad(kind, {}).kind = "analog")
  BY DEF Pad
<1> HIDE DEF kind
<1>6. FrontendKnowsTheMachine'
  BY <1>1, <1>2, <1>4, <1>5 DEF FrontendKnowsTheMachine, Polled
<1> QED BY <1>6 DEF Launch, KInv, SlotsNameTheirGame

\* A frame, a flush and whatever else leaves pause flag, game and pads alone.
LEMMA SameBeliefsKeepKInv ==
  ASSUME KInv, TypeOK', Running, UNCHANGED slots,
         core'.paused = core.paused, core'.game = core.game, core'.pads = core.pads,
         app'.paused = app.paused, app'.game = app.game, app'.multitap = app.multitap,
         app'.analog = app.analog, app'.buttons = app.buttons,
         loads \ {"card"} \subseteq loads'
  PROVE  KInv'
<1>1. \A what \in {"pause", "pads", "buttons", "game"} : what \notin loads' => what \notin loads
  OBVIOUS
<1>2. Polled(core') = Polled(core)
  BY DEF Polled
<1>3. FrontendKnowsTheMachine'
  BY <1>1, <1>2 DEF KInv, FrontendKnowsTheMachine, Polled
<1> QED BY <1>3 DEF KInv, SlotsNameTheirGame

LEMMA FrameKeepsBeliefs ==
  ASSUME NEW c \in Machines, NEW d \in Frames(c)
  PROVE  d.paused = c.paused /\ d.game = c.game /\ d.pads = c.pads
<1>1. ASSUME NEW i \in Images, d = [c EXCEPT !.card = i, !.dirty = TRUE]
      PROVE  d.paused = c.paused /\ d.game = c.game /\ d.pads = c.pads
  BY <1>1 DEF Machines
<1> QED BY <1>1 DEF Frames

\* The pad the guest polls is the one the frontend drives as long as the
\* multitap is as it was launched; a command reaches it, and no other command
\* makes a pad come or go.
LEMMA SendReaches ==
  ASSUME NEW c \in Machines, NEW pad \in Pads
  PROVE  /\ Send(c, pad).paused = c.paused /\ Send(c, pad).game = c.game
         /\ Send(c, pad).pads.tap # Absent <=> c.pads.tap # Absent
         /\ (c.pads.tap # Absent <=> app.multitap) =>
              Polled(c) = c.pads[Player1] /\ Polled(Send(c, pad)) = pad
<1>1. pad # Absent
  BY DesktopAssumption
<1>2. c.pads.port # Absent
  BY DesktopAssumption DEF Machines
<1>3. CASE app.multitap
  BY <1>1, <1>3 DEF Send, Player1, Machines, Polled
<1>4. CASE ~app.multitap
  BY <1>1, <1>2, <1>4 DEF Send, Player1, Machines, Polled
<1> QED BY <1>3, <1>4

LEMMA ButtonsReach ==
  ASSUME NEW c \in Machines, NEW b \in SUBSET Buttons
  PROVE  LET d == SendButtons(c, b) IN
         /\ d.paused = c.paused /\ d.game = c.game
         /\ d.pads.tap # Absent <=> c.pads.tap # Absent
         /\ (c.pads.tap # Absent <=> app.multitap) =>
              Polled(d).kind = Polled(c).kind /\ Polled(d).buttons = b
<1> DEFINE pad == [c.pads[Player1] EXCEPT !.buttons = b]
<1>1. CASE c.pads[Player1] = Absent
  <2>1. SendButtons(c, b) = c
    BY <1>1 DEF SendButtons, Send
  <2>2. ~ (c.pads.tap # Absent <=> app.multitap)
    BY <1>1, DesktopAssumption DEF Player1, Machines
  <2> QED BY <2>1, <2>2
<1>2. CASE c.pads[Player1] # Absent
  <2>1. c.pads[Player1] \in Pads
    BY <1>2, Player1HasAPad
  <2>2. pad \in Pads /\ pad.kind = c.pads[Player1].kind /\ pad.buttons = b
    BY <2>1 DEF Pads
  <2> HIDE DEF pad
  <2>3. SendButtons(c, b) = Send(c, pad)
    BY DEF SendButtons, pad
  <2> QED BY <2>2, <2>3, SendReaches
<1> QED BY <1>1, <1>2

LEMMA AnalogReaches ==
  ASSUME NEW c \in Machines
  PROVE  LET d == MakeAnalog(c) IN
         /\ d.paused = c.paused /\ d.game = c.game
         /\ d.pads.tap # Absent <=> c.pads.tap # Absent
         /\ (c.pads.tap # Absent <=> app.multitap) =>
              Polled(d).kind = "analog" /\ Polled(d).buttons = Polled(c).buttons
<1> DEFINE pad == [c.pads[Player1] EXCEPT !.kind = "analog"]
<1>1. CASE c.pads[Player1] = Absent
  <2>1. MakeAnalog(c) = c
    BY <1>1 DEF MakeAnalog, Send
  <2>2. ~ (c.pads.tap # Absent <=> app.multitap)
    BY <1>1, DesktopAssumption DEF Player1, Machines
  <2> QED BY <2>1, <2>2
<1>2. CASE c.pads[Player1] # Absent
  <2>1. c.pads[Player1] \in Pads
    BY <1>2, Player1HasAPad
  <2>2. pad \in Pads /\ pad.kind = "analog" /\ pad.buttons = c.pads[Player1].buttons
    BY <2>1 DEF Pads
  <2> HIDE DEF pad
  <2>3. MakeAnalog(c) = Send(c, pad)
    BY DEF MakeAnalog, pad
  <2> QED BY <2>2, <2>3, SendReaches
<1> QED BY <1>1, <1>2

\* Player 1's input: the buttons are the pad's again once they are sent, and
\* a pad made analog stays so.
LEMMA PadInputKeepsKInv ==
  ASSUME KInv, TypeOK', PadInput
  PROVE  KInv'
<1>0. Running /\ core \in Machines /\ UNCHANGED slots
  BY DEF PadInput, KeyButtons, GamepadEvents, KInv, TypeOK
<1>1. ASSUME NEW b \in SUBSET Buttons, KeyButtons(b) PROVE KInv'
  <2>1. core' = SendButtons(core, b) /\ loads' = loads \ {"buttons"}
    BY <1>1 DEF KeyButtons
  <2>2. app'.buttons = b /\ app'.paused = app.paused /\ app'.game = app.game
        /\ app'.multitap = app.multitap /\ app'.analog = app.analog
    BY <1>1, <1>0 DEF KeyButtons, KInv, TypeOK, Apps
  <2>3. /\ core'.paused = core.paused /\ core'.game = core.game
        /\ core'.pads.tap # Absent <=> core.pads.tap # Absent
        /\ (core.pads.tap # Absent <=> app.multitap) =>
             Polled(core').kind = Polled(core).kind /\ Polled(core').buttons = b
    BY <1>0, <2>1, ButtonsReach
  <2>4. FrontendKnowsTheMachine'
    BY <2>1, <2>2, <2>3, <1>0 DEF KInv, FrontendKnowsTheMachine, Polled
  <2> QED BY <1>0, <2>4 DEF KInv, SlotsNameTheirGame
<1>2. ASSUME NEW b \in SUBSET Buttons, NEW connected \in BOOLEAN, NEW pressed \in BOOLEAN,
             NEW moved \in BOOLEAN, GamepadEvents(connected, pressed, b, moved)
      PROVE  KInv'
  <2> DEFINE attached == IF connected /\ ~app.analog THEN MakeAnalog(core) ELSE core
             held     == IF pressed THEN SendButtons(attached, b) ELSE attached
             done     == IF moved THEN MakeAnalog(held) ELSE held
             Known(c) == c.pads.tap # Absent <=> app.multitap
  <2>1. /\ attached \in Machines
        /\ attached.paused = core.paused /\ attached.game = core.game
        /\ Known(attached) <=> Known(core)
        /\ Known(core) =>
             /\ Polled(attached).buttons = Polled(core).buttons
             /\ Polled(attached).kind = IF connected /\ ~app.analog THEN "analog"
                                                                  ELSE Polled(core).kind
    <3>1. CASE connected /\ ~app.analog
      BY <1>0, <3>1, MakeAnalogLeavesTheCard, AnalogReaches
    <3>2. CASE ~ (connected /\ ~app.analog)
      BY <1>0, <3>2
    <3> QED BY <3>1, <3>2
  <2> HIDE DEF attached
  <2>2. /\ held \in Machines
        /\ held.paused = core.paused /\ held.game = core.game
        /\ Known(held) <=> Known(core)
        /\ Known(core) =>
             /\ Polled(held).buttons = IF pressed THEN b ELSE Polled(core).buttons
             /\ Polled(held).kind = Polled(attached).kind
    <3>1. CASE pressed
      BY <2>1, <3>1, SendButtonsLeavesTheCard, ButtonsReach
    <3>2. CASE ~pressed
      BY <2>1, <3>2
    <3> QED BY <3>1, <3>2
  <2> HIDE DEF held
  <2>3. /\ done.paused = core.paused /\ done.game = core.game
        /\ Known(done) <=> Known(core)
        /\ Known(core) =>
             /\ Polled(done).buttons = IF pressed THEN b ELSE Polled(core).buttons
             /\ Polled(done).kind \in {"analog", Polled(attached).kind}
    <3>1. CASE moved
      BY <2>2, <3>1, AnalogReaches
    <3>2. CASE ~moved
      BY <2>2, <3>2
    <3> QED BY <3>1, <3>2
  <2>4. core' = done
    BY <1>2 DEF GamepadEvents, held, attached
  <2> HIDE DEF done
  <2>5. app'.buttons = (IF pressed THEN b ELSE app.buttons) /\ app'.paused = app.paused
        /\ app'.game = app.game /\ app'.multitap = app.multitap
        /\ app'.analog = (app.analog \/ connected)
    BY <1>2, <1>0 DEF GamepadEvents, KInv, TypeOK, Apps
  <2>6. loads' = IF pressed THEN loads \ {"buttons"} ELSE loads
    BY <1>2 DEF GamepadEvents
  <2>7. app.analog \in BOOLEAN
    BY <1>0 DEF KInv, TypeOK, Apps
  <2>8. "pads" \notin loads => Known(core) /\ (app.analog => Polled(core).kind = "analog")
    BY <1>0 DEF KInv, FrontendKnowsTheMachine
  <2>9. "buttons" \notin loads /\ Known(core) => Polled(core).buttons = app.buttons
    BY <1>0 DEF KInv, FrontendKnowsTheMachine
  <2>10. "pads" \notin loads' =>
           Known(done) /\ (app'.analog => Polled(done).kind = "analog")
    BY <2>1, <2>3, <2>5, <2>6, <2>7, <2>8
  <2>11. "buttons" \notin loads' /\ Known(done) => Polled(done).buttons = app'.buttons
    BY <2>3, <2>5, <2>6, <2>9
  <2>12. ("pause" \notin loads' => app'.paused = done.paused)
         /\ ("game" \notin loads' => done.game = app'.game)
    BY <2>3, <2>5, <2>6, <1>0 DEF KInv, FrontendKnowsTheMachine
  <2>13. FrontendKnowsTheMachine'
    BY <2>4, <2>5, <2>10, <2>11, <2>12 DEF FrontendKnowsTheMachine, Polled
  <2> QED BY <1>0, <2>13 DEF KInv, SlotsNameTheirGame
<1> QED BY <1>1, <1>2 DEF PadInput

\* What passes the check and is not of old has the running machine's game.
LEMMA CheckedHasOurGame ==
  ASSUME NEW s \in Snapshots, LoadStateChecked(s) # "GameMismatch"
  PROVE  /\ LoadStateChecked(s) = "LoadedLegacy" <=> s.version = ""
         /\ s.version # "" => s.game = core.game
<1>1. s.version \in {"", "old", "current"}
  BY DEF Snapshots
<1>2. CASE s.version = ""
  BY <1>2 DEF LoadStateChecked
<1>3. CASE s.version # "" /\ s.game # core.game
  BY <1>3 DEF LoadStateChecked
<1>4. CASE s.version = "old" /\ s.game = core.game
  BY <1>4 DEF LoadStateChecked
<1>5. CASE s.version = "current" /\ s.game = core.game
  BY <1>5 DEF LoadStateChecked
<1> QED BY <1>1, <1>2, <1>3, <1>4, <1>5

\* A load brings another machine, but not another game unnoticed.
LEMMA LoadKeepsKInv ==
  ASSUME KInv, TypeOK', LoadState
  PROVE  KInv'
<1> DEFINE s == slots[app.slot]
<1>1. s \in Snapshots /\ app.slot \in Slots
  BY DEF LoadState, Readable, KInv, TypeOK, Apps
<1>2. core' = s.core /\ UNCHANGED <<app, slots>>
      /\ {"pause", "pads", "buttons"} \subseteq loads' /\ loads \subseteq loads'
  BY DEF LoadState
<1>3. "game" \notin loads' => s.version # ""
  BY <1>1, CheckedHasOurGame DEF LoadState
<1>4. s.version # "" => s.core.game = core.game
  BY <1>1, CheckedHasOurGame DEF LoadState, KInv, SlotsNameTheirGame
<1>5. FrontendKnowsTheMachine'
  BY <1>2, <1>3, <1>4 DEF KInv, FrontendKnowsTheMachine, LoadState
<1> QED BY <1>2, <1>5 DEF KInv, SlotsNameTheirGame

LEMMA NextKeepsKInv == IInv /\ KInv /\ [Next]_vars => KInv'
<1> SUFFICES ASSUME IInv, KInv, [Next]_vars PROVE KInv'
  OBVIOUS
<1>0. TypeOK'
  BY NextKeepsIInv DEF IInv
<1>1. CASE \E s \in Sessions : Launch(s)
  BY <1>0, <1>1, LaunchKeepsKInv
<1>2. CASE Redraw
  <2>1. PICK c \in IF core.paused THEN {core} ELSE Frames(core) : FlushMemcard(c)
    BY <1>2 DEF Redraw
  <2>2. core \in Machines
    BY <1>2 DEF Redraw, KInv, TypeOK
  <2>3. c \in Machines /\ c.paused = core.paused /\ c.game = core.game /\ c.pads = core.pads
    BY <2>1, <2>2, FrameDirties, FrameKeepsBeliefs
  <2>4. core'.paused = c.paused /\ core'.game = c.game /\ core'.pads = c.pads
    BY <2>1, <2>3 DEF FlushMemcard, Machines
  <2>5. loads \ {"card"} \subseteq loads'
    BY <2>1 DEF FlushMemcard
  <2> QED BY <1>0, <1>2, <2>3, <2>4, <2>5, SameBeliefsKeepKInv DEF Redraw
<1>3. CASE PauseKey
  <2>1. core' = [core EXCEPT !.paused = app'.paused] /\ core \in Machines
    BY <1>3 DEF PauseKey, KInv, TypeOK
  <2>2. core'.paused = app'.paused /\ core'.game = core.game /\ core'.pads = core.pads
    BY <2>1 DEF Machines
  <2>3. app'.game = app.game /\ app'.multitap = app.multitap
        /\ app'.analog = app.analog /\ app'.buttons = app.buttons
    BY <1>3 DEF PauseKey, KInv, TypeOK, Apps
  <2>4. FrontendKnowsTheMachine'
    BY <1>3, <2>2, <2>3 DEF PauseKey, KInv, FrontendKnowsTheMachine, Polled
  <2> QED BY <1>0, <1>3, <2>4 DEF PauseKey, KInv, SlotsNameTheirGame
<1>4. CASE FrameStepKey
  <2>1. core \in Machines /\ core' \in Frames(core)
    BY <1>4 DEF FrameStepKey, KInv, TypeOK
  <2>2. core'.paused = core.paused /\ core'.game = core.game /\ core'.pads = core.pads
    BY <2>1, FrameKeepsBeliefs
  <2> QED BY <1>0, <1>4, <2>2, SameBeliefsKeepKInv DEF FrameStepKey
<1>5. CASE \E n \in Slots : SelectSlot(n)
  <2>1. app'.paused = app.paused /\ app'.game = app.game /\ app'.multitap = app.multitap
        /\ app'.analog = app.analog /\ app'.buttons = app.buttons
    BY <1>5 DEF SelectSlot, KInv, TypeOK, Apps
  <2> QED BY <1>0, <1>5, <2>1, SameBeliefsKeepKInv DEF SelectSlot
<1>6. CASE SaveState
  <2>1. PICK t \in Written(slots[app.slot], Snapshot(core)) :
          slots' = [slots EXCEPT ![app.slot] = t]
    BY <1>6 DEF SaveState
  <2>2. t \in {slots[app.slot], Torn, Snapshot(core)}
    BY <2>1 DEF Written
  <2>3. app.slot \in Slots
    BY <1>6 DEF SaveState, KInv, TypeOK, Apps
  <2>4. SlotsNameTheirGame'
    <3>1. Snapshot(core).core.game = Snapshot(core).game
      BY DEF Snapshot
    <3>2. \A n \in Slots : slots'[n] = IF n = app.slot THEN t ELSE slots[n]
      BY <2>1, <2>3 DEF KInv, TypeOK
    <3>3. \A n \in Slots : Readable(slots'[n]) => slots'[n] \in {slots[n], Snapshot(core)}
      BY <2>2, <3>2 DEF Readable
    <3> QED BY <3>1, <3>3 DEF KInv, SlotsNameTheirGame
  <2> QED BY <1>0, <1>6, <2>4 DEF SaveState, KInv, FrontendKnowsTheMachine, Polled
<1>7. CASE LoadState
  BY <1>0, <1>7, LoadKeepsKInv
<1>8. CASE PadInput
  BY <1>0, <1>8, PadInputKeepsKInv
<1>9. CASE Exit
  BY <1>0, <1>9 DEF Exit, KInv, SlotsNameTheirGame, FrontendKnowsTheMachine
<1>10. CASE Kill
  <2>1. \A n \in Slots : Readable(slots'[n]) => slots'[n] = slots[n]
    BY <1>10 DEF Kill, Readable, KInv, TypeOK
  <2>2. SlotsNameTheirGame'
    BY <2>1 DEF KInv, SlotsNameTheirGame
  <2> QED BY <1>0, <1>10, <2>2 DEF Kill, KInv, FrontendKnowsTheMachine
<1>11. CASE DiskChanges
  BY <1>0, <1>11 DEF DiskChanges, KInv, SlotsNameTheirGame, FrontendKnowsTheMachine, Polled
<1>12. CASE UNCHANGED vars
  BY <1>0, <1>12 DEF vars, KInv, SlotsNameTheirGame, FrontendKnowsTheMachine, Polled
<1> QED
  BY <1>1, <1>2, <1>3, <1>4, <1>5, <1>6, <1>7, <1>8, <1>9, <1>10, <1>11, <1>12 DEF Next

\* Pause flag, multitap, pads, buttons and game: what the frontend mirrors of
\* the machine is true until a load replaces the machine, and true again once
\* renewed, whatever is paused, pressed, attached, saved or killed in between.
THEOREM FrontendKnows == Spec => []FrontendKnowsTheMachine
<1>1. KInv => FrontendKnowsTheMachine
  BY DEF KInv
<1>2. Spec => []IInv
  BY InitIInv, NextKeepsIInv, PTL DEF Spec
<1> QED BY InitKInv, NextKeepsKInv, <1>1, <1>2, PTL DEF Spec
=============================================================================
