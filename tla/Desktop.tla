------------------------------ MODULE Desktop -------------------------------
(***************************************************************************)
(* The desktop frontend: what it keeps beside the machine it drives, and   *)
(* what it leaves on the disk.                                             *)
(*                                                                         *)
(* It mirrors part of the machine (pause, multitap, player 1's buttons),   *)
(* flushes the memory card after every frame and on exit, and saves and    *)
(* loads whole machines in numbered slots.  A loaded machine brings its    *)
(* own pause flag, pads, card and BIOS; a write can fail or be cut short   *)
(* by a kill; files outlive the process, which may be launched again       *)
(* with other options.  Of the machine only that part is modelled here,    *)
(* and of a frame only that the guest may write the card.                  *)
(***************************************************************************)
EXTENDS Integers

CONSTANTS Images,      \* contents a guest may give its card
          Blank,       \* the all-zero card of a first launch
          Torn,        \* what a write that was cut short leaves behind
          Absent,      \* no such file, no such card, no such pad
          Off,         \* the process is not running
          Games,       \* identities of a BIOS and disc (their hashes)
          Buttons,
          Slots,
          Sessions,    \* ways to launch: [game, multitap, memcard, gamepad]
          Earlier      \* what the slots may hold from earlier builds

Cards    == Images \cup {Blank, Torn}
Pads     == [kind : {"digital", "analog"}, buttons : SUBSET Buttons]
Machines == [paused : BOOLEAN, game : Games, card : Cards \cup {Absent}, dirty : BOOLEAN,
             pads : [port : Pads, tap : Pads \cup {Absent}]]
Apps     == [game : Games, memcard : BOOLEAN, multitap : BOOLEAN, analog : BOOLEAN,
             buttons : SUBSET Buttons, paused : BOOLEAN, slot : Slots]
Snapshots == [core : Machines, version : {"", "old", "current"}, game : Games]

ASSUME DesktopAssumption ==
  /\ Absent \notin Cards \cup Pads
  /\ \E n \in Slots : \A m \in Slots : n <= m
  /\ Sessions \subseteq [game : Games, multitap : BOOLEAN, memcard : BOOLEAN,
                         gamepad : BOOLEAN]
  /\ Earlier \subseteq Snapshots \cup {Absent, Torn}
  /\ \A s \in Earlier \cap Snapshots : s.version # "" => s.core.game = s.game

VARIABLES app,     \* the mirrors and settings of struct App, or Off
          core,    \* the machine: pause flag, pads, card, dirty flag, game; or Off
          file,    \* the memory-card file
          slots,   \* the save-state files
          disk,    \* whether writes succeed just now
          loads    \* what a load has overwritten and nothing has renewed since

vars == <<app, core, file, slots, disk, loads>>
Running == app # Off

-----------------------------------------------------------------------------
(* Launching: `cmd_run`. *)

Pad(kind, buttons) == [kind |-> kind, buttons |-> buttons]

\* A file of another size is padded or cut; a missing one is a blank card.
CardFrom(f) == IF f = Absent THEN Blank ELSE f

FreshCore(s) ==
  LET kind == IF s.gamepad THEN "analog" ELSE "digital"
  IN [paused |-> FALSE, game |-> s.game, dirty |-> FALSE,
      card |-> IF s.memcard THEN CardFrom(file) ELSE Absent,
      pads |-> [port |-> Pad(IF s.multitap THEN "digital" ELSE kind, {}),
                tap  |-> IF s.multitap THEN Pad(kind, {}) ELSE Absent]]

Launch(s) ==
  /\ ~Running
  /\ app' = [game |-> s.game, memcard |-> s.memcard, multitap |-> s.multitap,
             analog |-> s.gamepad, buttons |-> {}, paused |-> FALSE,
             slot |-> CHOOSE n \in Slots : \A m \in Slots : n <= m]
  /\ core' = FreshCore(s)
  /\ loads' = {}
  /\ UNCHANGED <<file, slots, disk>>

-----------------------------------------------------------------------------
(* A frame, and the flush after it. *)

\* Outcomes of `advance_frame`: the guest leaves the card or writes it.
Frames(c) ==
  {c} \cup IF c.card = Absent THEN {}
           ELSE {[c EXCEPT !.card = i, !.dirty = TRUE] : i \in Images}

\* fs::write truncates first: a failing write leaves the old file or a torn one.
Written(old, new) == IF disk = "works" THEN {new} ELSE {old, Torn}

NeedsFlush(c) == app.memcard /\ c.card # Absent /\ c.dirty

\* Mutant: the flag is cleared before the outcome of the write is known.
FlushMemcard_ClearsFirst(c) ==
  IF NeedsFlush(c)
  THEN /\ file' \in Written(file, c.card)
       /\ core' = [c EXCEPT !.dirty = FALSE]
       /\ loads' = loads \ {"card"}
  ELSE core' = c /\ UNCHANGED <<file, loads>>

FlushMemcard(c) ==
  IF NeedsFlush(c)
  THEN /\ file' \in Written(file, c.card)
       /\ core' = IF disk = "works" THEN [c EXCEPT !.dirty = FALSE] ELSE c
       /\ loads' = IF disk = "works" THEN loads \ {"card"} ELSE loads
  ELSE core' = c /\ UNCHANGED <<file, loads>>

\* Mutant: a paused session redraws without flushing.
Redraw_PausedIsIdle ==
  /\ Running /\ ~core.paused
  /\ \E c \in Frames(core) : FlushMemcard(c)
  /\ UNCHANGED <<app, slots, disk>>

\* StepFrame does nothing while the machine is paused; the flush runs regardless.
Redraw ==
  /\ Running
  /\ \E c \in IF core.paused THEN {core} ELSE Frames(core) : FlushMemcard(c)
  /\ UNCHANGED <<app, slots, disk>>

-----------------------------------------------------------------------------
(* Hotkeys. *)

PauseKey ==
  /\ Running
  /\ app' = [app EXCEPT !.paused = ~@]
  /\ core' = [core EXCEPT !.paused = app'.paused]
  /\ loads' = loads \ {"pause"}
  /\ UNCHANGED <<file, slots, disk>>

\* Gated by the frontend's own flag; nothing is flushed before the next redraw.
FrameStepKey ==
  /\ Running /\ app.paused
  /\ core' \in Frames(core)
  /\ UNCHANGED <<app, file, slots, disk, loads>>

SelectSlot(n) ==
  /\ Running
  /\ app' = [app EXCEPT !.slot = n]
  /\ UNCHANGED <<core, file, slots, disk, loads>>

\* A snapshot names the version that took it and the game its machine held.
Snapshot(c) == [core |-> c, version |-> "current", game |-> c.game]

SaveState ==
  /\ Running
  /\ \E s \in Written(slots[app.slot], Snapshot(core)) :
       slots' = [slots EXCEPT ![app.slot] = s]
  /\ UNCHANGED <<app, core, file, disk, loads>>

\* Mutant: a state of another version is loaded before its game is looked at.
LoadStateChecked_VersionFirst(s) ==
  CASE s.version = ""                               -> "LoadedLegacy"
    [] s.version = "old"                            -> "VersionMismatch"
    [] s.version = "current" /\ s.game # core.game -> "GameMismatch"
    [] s.version = "current" /\ s.game = core.game -> "Loaded"

LoadStateChecked(s) ==
  CASE s.version = ""                               -> "LoadedLegacy"
    [] s.version # "" /\ s.game # core.game        -> "GameMismatch"
    [] s.version = "old" /\ s.game = core.game     -> "VersionMismatch"
    [] s.version = "current" /\ s.game = core.game -> "Loaded"

\* read_slot: a slot that is missing or torn gives no snapshot.
Readable(s) == s \notin {Absent, Torn}

\* A missing or invalid file and a mismatched game leave the machine alone; a
\* mismatched version is loaded all the same.
LoadState ==
  LET s == slots[app.slot]
  IN /\ Running /\ Readable(s)
     /\ LoadStateChecked(s) # "GameMismatch"
     /\ core' = s.core
     /\ loads' = loads \cup {"card", "pause", "pads", "buttons"}
                   \cup IF LoadStateChecked(s) = "LoadedLegacy" THEN {"game"} ELSE {}
     /\ UNCHANGED <<app, file, slots, disk>>

-----------------------------------------------------------------------------
(* Player 1: the pad of port 0, or sub-slot A of its multitap. *)

Player1 == IF app.multitap THEN "tap" ELSE "port"

\* A command for a tap that is not there is dropped.
Send(c, pad) == IF c.pads[Player1] = Absent THEN c ELSE [c EXCEPT !.pads[Player1] = pad]

SendButtons(c, b) == Send(c, [c.pads[Player1] EXCEPT !.buttons = b])

\* Attaching an analog pad and moving a stick both make the pad analog and keep
\* the buttons held.
MakeAnalog(c) == Send(c, [c.pads[Player1] EXCEPT !.kind = "analog"])

KeyButtons(b) ==
  /\ Running
  /\ app' = [app EXCEPT !.buttons = b]
  /\ core' = SendButtons(core, b)
  /\ loads' = loads \ {"buttons"}
  /\ UNCHANGED <<file, slots, disk>>

\* One pass of `about_to_wait` over the queued gamepad events: whatever their
\* order, first the attachment, then the buttons, then the sticks.
GamepadEvents(connected, pressed, b, moved) ==
  LET attached == IF connected /\ ~app.analog THEN MakeAnalog(core) ELSE core
      held     == IF pressed THEN SendButtons(attached, b) ELSE attached
  IN /\ Running
     /\ app' = [app EXCEPT !.analog = @ \/ connected,
                           !.buttons = IF pressed THEN b ELSE @]
     /\ core' = IF moved THEN MakeAnalog(held) ELSE held
     /\ loads' = IF pressed THEN loads \ {"buttons"} ELSE loads
     /\ UNCHANGED <<file, slots, disk>>

-----------------------------------------------------------------------------
(* Leaving, being killed, and the disk. *)

\* Escape or the window's close button: `on_exit` flushes one last time.
Exit ==
  /\ Running
  /\ IF NeedsFlush(core) THEN file' \in Written(file, core.card) ELSE UNCHANGED file
  /\ app' = Off /\ core' = Off /\ loads' = {}
  /\ UNCHANGED <<slots, disk>>

\* The process dies, possibly inside a write of the card or of a slot.
Kill ==
  /\ Running
  /\ \/ UNCHANGED <<file, slots>>
     \/ NeedsFlush(core) /\ file' = Torn /\ UNCHANGED slots
     \/ slots' = [slots EXCEPT ![app.slot] = Torn] /\ UNCHANGED file
  /\ app' = Off /\ core' = Off /\ loads' = {}
  /\ UNCHANGED disk

DiskChanges ==
  /\ disk' = IF disk = "works" THEN "full" ELSE "works"
  /\ UNCHANGED <<app, core, file, slots, loads>>

-----------------------------------------------------------------------------
Init ==
  /\ app = Off /\ core = Off /\ loads = {}
  /\ file \in {Absent, Torn} \cup Images
  /\ slots \in [Slots -> Earlier]
  /\ disk = "works"

PadInput ==
  \/ \E b \in SUBSET Buttons : KeyButtons(b)
  \/ \E b \in SUBSET Buttons, connected, pressed, moved \in BOOLEAN :
       GamepadEvents(connected, pressed, b, moved)

Next ==
  \/ \E s \in Sessions : Launch(s)
  \/ Redraw \/ PauseKey \/ FrameStepKey
  \/ \E n \in Slots : SelectSlot(n)
  \/ SaveState \/ LoadState
  \/ PadInput
  \/ Exit \/ Kill \/ DiskChanges

Spec == Init /\ [][Next]_vars

\* `about_to_wait` requests a redraw every time round the event loop.
FairSpec == Spec /\ WF_vars(Redraw)

-----------------------------------------------------------------------------
\* The frontend, the machine, the card's file and the slots have their types.
TypeOK ==
  /\ Running => app \in Apps /\ core \in Machines
  /\ file \in Cards \cup {Absent}
  /\ slots \in [Slots -> Snapshots \cup {Absent, Torn}]

\* The memory card's dirty flag is the only thing that makes the frontend write
\* the file, so it must never be down while the file is behind.  The one way
\* there is a loaded state, whose card comes with the flag it was saved with.
UnsavedIsDirty ==
  Running /\ app.memcard /\ core.card # Absent =>
    core.dirty \/ core.card = CardFrom(file) \/ "card" \in loads

\* What player 1 holds is on the pad the guest polls.
Polled(c) == c.pads[IF c.pads.tap # Absent THEN "tap" ELSE "port"]

\* What the frontend believes of the machine (its pause flag, its multitap and
\* player 1's pad, its game) holds until a load replaces the machine: the pause
\* flag again from the next pause key, the buttons from the next input that
\* reaches the pad the guest polls, and the game always, a state without
\* identity aside, whatever version it was saved by.
FrontendKnowsTheMachine ==
  Running =>
    /\ "pause" \notin loads => app.paused = core.paused
    /\ "pads" \notin loads =>
         /\ core.pads.tap # Absent <=> app.multitap
         /\ app.analog => Polled(core).kind = "analog"
    /\ "buttons" \notin loads /\ (core.pads.tap # Absent <=> app.multitap) =>
         Polled(core).buttons = app.buttons
    /\ "game" \notin loads => core.game = app.game

\* What a guest saves reaches the file, paused or not, once writes succeed, if
\* the process lives and the card is neither rewritten nor replaced first (by one
\* that a loaded state calls clean).
SavesReachTheFile ==
  <>[](disk = "works") =>
    \A i \in Images :
      (Running /\ NeedsFlush(core) /\ core.card = i)
        ~> (\/ file = i \/ ~Running \/ core.card # i
            \/ ~core.dirty /\ "card" \in loads)
=============================================================================
