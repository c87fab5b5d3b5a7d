----------------------------- MODULE MCDesktop ------------------------------
(***************************************************************************)
(* Desktop for TLC: two games, two images, one button, one slot, which may *)
(* hold a state of an earlier build or one without identity.               *)
(***************************************************************************)
EXTENDS Desktop

Session(game, tap, card, gamepad) ==
  [game |-> game, multitap |-> tap, memcard |-> card, gamepad |-> gamepad]
MCSessions == {Session("ours", FALSE, TRUE, TRUE), Session("ours", TRUE, TRUE, FALSE),
               Session("other", FALSE, FALSE, FALSE)}

OldCore == [paused |-> FALSE, game |-> "other", dirty |-> FALSE, card |-> "new",
            pads |-> [port |-> Pad("digital", {}), tap |-> Absent]]
MCEarlier == {Absent} \cup {[core |-> OldCore, version |-> v, game |-> "other"] : v \in {"old", ""}}
=============================================================================
