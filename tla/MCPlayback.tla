----------------------------- MODULE MCPlayback -----------------------------
(***************************************************************************)
(* Playback for TLC.  A disc of three sectors in two tracks, the last of   *)
(* XA audio on channel 1; two frames to a sector of CD-DA and three to one *)
(* of XA, two cycles to a sample.  Sample RAM of three blocks, one voice.  *)
(***************************************************************************)
EXTENDS Playback, TLC

MCXa       == {2}
MCTracks   == <<0, 1>>
MCChannels == [s \in {2} |-> 1]

Double == [double |-> TRUE, autopause |-> TRUE, report |-> FALSE]
Route(filter, muted) == [cdda |-> TRUE, filter |-> filter, channel |-> 2, muted |-> muted]
CdSetup(seek, mode, r) ==
  [use |-> "cd", seek |-> seek, mode |-> mode, route |-> r, spu |-> NewSpu]
CdSetups ==
  {CdSetup(0, Mode0, Route(FALSE, FALSE)), CdSetup(2, Double, Route(TRUE, TRUE)),
   CdSetup(2, [Double EXCEPT !.autopause = FALSE], Route(FALSE, FALSE))}

\* Envelopes as fast as they go, and slow, exponential ones; a sample that loops
\* and one that ends.
Fast == [NewEnvelope EXCEPT !.sLevel = 15, !.rExp = TRUE]
Slow == [NewEnvelope EXCEPT !.aExp = TRUE, !.aStep = 3, !.dShift = 1, !.sDec = TRUE,
                            !.sExp = TRUE, !.rShift = 2]
Looped == 0 :> {"start"} @@ 2 :> {} @@ 4 :> {"end", "repeat"}
Ended  == 0 :> {} @@ 2 :> {"end"} @@ 4 :> {}
SpuSetup(u, env, blocks, pitch) ==
  [use |-> u, seek |-> 0, mode |-> Mode0, route |-> Route(FALSE, FALSE),
   spu |-> [NewSpu EXCEPT !.envelope = [v \in Voices |-> env],
                          !.pitch = [v \in Voices |-> pitch], !.irqOn = TRUE, !.irqAddr = 3,
                          !.ram = [h \in DOMAIN @ |->
                             IF h % (2 * Halves) = 0 THEN blocks[h \div Halves] ELSE {}]]]
MCSetups ==
  CdSetups \cup {SpuSetup("voices", Fast, Looped, 20),
                SpuSetup("voices", Fast, Ended, 6), SpuSetup("voices", Slow, Looped, 6)}
           \cup {SpuSetup("transfer", Fast, Looped, 6)}

\* What starts and ends playback of either kind, and what makes it be heard.
MCCommands ==
  [name : {"read", "pause", "init", "mute", "demute"}]
    \cup [name : {"play"}, track : {0, 1}] \cup [name : {"setfilter"}, channel : {1}]
    \cup {[name |-> "setmode", cdda |-> TRUE, filter |-> TRUE, mode |-> Double]}

MCWrites ==
  LET voices == [reg : {"keyOn", "keyOff", "endx"}, mask : {Voices}]
                  \cup [reg : {"level"}, v : Voices, level : {MaxLevel}]
                  \cup [reg : {"envelope"}, v : Voices, env : {Fast}]
                  \cup [reg : {"repeat"}, v : Voices, unit : {2}]
      fifo   == [reg : {"fifo"}, half : {{}, {"end"}}]
      irq    == [reg : {"control"}, on : BOOLEAN]
      move   == [reg : {"transfer"}, unit : {2, 5}] \cup [reg : {"irqAddr"}, unit : {0}]
                  \cup [reg : {"start"}, v : Voices, unit : {2}]
                  \cup [reg : {"pitch"}, v : Voices, pitch : {20}]
  IN [u \in Uses |-> CASE u = "cd"       -> {}
                     [] u = "voices"   -> voices \cup fifo \cup irq
                     [] u = "transfer" -> fifo \cup irq \cup move]
MCWords == {<<{"start"}, {}>>, <<{"end"}, {}>>}
=============================================================================
