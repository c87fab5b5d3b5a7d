------------------------------ MODULE MCCdrom ------------------------------
(***************************************************************************)
(* Cdrom for TLC: a disc of three sectors, the second of XA audio, the     *)
(* third a track of its own; responses after two cycles, sectors every     *)
(* three, at double speed every two.                                       *)
(***************************************************************************)
EXTENDS Cdrom

MCXa     == {1}
MCTracks == <<0, 2>>
AllBits  == {{}, {1, 2, 4}}
AllOn    == {{1, 2, 4}}

Plain(names) == [name : names]
Setloc(ls)   == [name : {"setloc"}, lba : ls]
Play(ts)     == [name : {"play"}, track : ts]
Setmode(ms)  == [name : {"setmode"}, mode : ms]

\* Reads, playback with its reports, and what ends them or waits behind them.
PlayModes == {[double |-> d, autopause |-> ~ d, report |-> ~ d] : d \in BOOLEAN}
AllCommands ==
  Plain({"read", "pause", "init", "seek"}) \cup Setloc({2}) \cup Play({0, 2})
    \cup Setmode(PlayModes)

\* A read that is paused or not, and every shape of answer.
FewCommands == Plain({"query", "read", "pause", "getID", "unknown"})
=============================================================================
