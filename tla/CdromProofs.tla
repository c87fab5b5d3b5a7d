---------------------------- MODULE CdromProofs ----------------------------
(***************************************************************************)
(* The CD-ROM controller for every delay, sector period, disc and set of   *)
(* commands: its queue keeps answers and reports apart, its estimate is    *)
(* conservative, and its buffer holds the sector last announced.  The sound*)
(* path for every set of voices, queue and clock: samples stay whole, and  *)
(* the batches of the lazy scheduler are the cycles they stand for, and    *)
(* CD-DA plays without a gap.                                              *)
(***************************************************************************)
EXTENDS Cdrom, Playback, WellFoundedInduction, SequenceTheorems, TLAPS

(***************************************************************************)
(* The queue.                                                              *)
(***************************************************************************)
\* q is p with r at its end.
Extends(p, q, r) ==
  /\ Len(p) \in Nat /\ DOMAIN p = 1..Len(p) /\ DOMAIN q = 1..(Len(p) + 1)
  /\ \A i \in DOMAIN p : q[i] = p[i]
  /\ q[Len(p) + 1] = r

LEMMA AppendExtends ==
  ASSUME NEW S, NEW p \in Seq(S), NEW r \in S
  PROVE  Append(p, r) \in Seq(S) /\ Extends(p, Append(p, r), r)
  BY DEF Extends

\* q is p without its first element.
Drops(p, q) ==
  /\ Len(p) \in Nat \ {0} /\ DOMAIN p = 1..Len(p) /\ DOMAIN q = 1..(Len(p) - 1)
  /\ \A i \in DOMAIN q : q[i] = p[i + 1]

LEMMA TailDrops ==
  ASSUME NEW S, NEW p \in Seq(S), p # <<>>
  PROVE  /\ Tail(p) \in Seq(S) /\ Drops(p, Tail(p))
         /\ Head(p) = p[1] /\ Head(p) \in S /\ 1 \in DOMAIN p
  BY DEF Drops

LEMMA QueueDomain ==
  ASSUME NEW S, NEW p \in Seq(S)
  PROVE  /\ Len(p) \in Nat /\ DOMAIN p = 1..Len(p) /\ \A i \in DOMAIN p : p[i] \in S
         /\ p = <<>> <=> DOMAIN p = {}
         /\ p = <<>> <=> Len(p) = 0
  OBVIOUS

(***************************************************************************)
(* The disc.                                                               *)
(***************************************************************************)
\* A nonempty set of track numbers has a last one.
LEMMA LastTrack ==
  ASSUME NEW T \in SUBSET Tracks, T # {}
  PROVE  \E t \in T : \A u \in T : u <= t
<1> DEFINE L == Len(TrackStarts)
           D == {d \in Nat : \E t \in T : d = L - t}
<1>1. L \in Nat /\ \A t \in T : t \in Int /\ 1 <= t /\ t <= L
  BY DriveAssumption DEF Tracks
<1> HIDE DEF L
<1>2. D \in SUBSET Nat /\ D # {}
  <2>1. PICK t \in T : TRUE
    OBVIOUS
  <2>2. L - t \in D
    BY <1>1, <2>1
  <2> QED BY <2>2
<1>3. PICK d \in D : \A e \in D : ~ (<<e, d>> \in OpToRel(<, Nat))
  BY <1>2, WFMin, NatLessThanWellFounded
<1>4. \A e \in D : ~ (e < d)
  BY <1>2, <1>3 DEF OpToRel
<1>5. PICK t \in T : d = L - t
  BY <1>3
<1>6. ASSUME NEW u \in T PROVE u <= t
  <2>1. L - u \in D /\ u \in Int /\ t \in Int
    BY <1>1
  <2>2. ~ (L - u < L - t)
    BY <1>4, <1>5, <2>1
  <2> QED BY <1>1, <2>1, <2>2
<1> QED BY <1>6

LEMMA TrackAtType ==
  ASSUME NEW cd, NEW l
  PROVE  TrackAt(cd, l) \in Tracks
<1> DEFINE started == {t \in Tracks : TrackStarts[t] <= l}
<1>1. 1 \in Tracks
  BY DriveAssumption DEF Tracks
<1>2. CASE started # {}
  <2>1. \E t \in started : \A u \in started : u <= t
    BY <1>2, LastTrack
  <2>2. (CHOOSE t \in started : \A u \in started : u <= t) \in Tracks
    BY <2>1
  <2> QED BY <1>1, <2>2 DEF TrackAt
<1> QED BY <1>1, <1>2 DEF TrackAt

LEMMA AddressTypes ==
  /\ LeadOut \in Lba /\ 0 \in Lba /\ Blank \in SectorId /\ Lba \in SUBSET SectorId
  /\ ~ (Blank \in Lba)
  /\ \A t \in Tracks : TrackStarts[t] \in Lba
  BY DriveAssumption DEF Lba, Blank, SectorId, Tracks

LEMMA PeriodType ==
  ASSUME NEW cd
  PROVE  SectorPeriod(cd) \in Nat \ {0} /\ SinglePeriod \in Nat \ {0}
  BY DriveAssumption DEF SectorPeriod

LEMMA NextLbaType ==
  ASSUME NEW cd, cd.lba \in Lba
  PROVE  NextLba(cd) \in Lba
  BY DriveAssumption DEF NextLba, Lba

(***************************************************************************)
(* What one cycle of the sector cadence may change, field by field.        *)
(***************************************************************************)
\* A sector's interrupt, announced by the run that is going on.
IsSectorOf(n, cd, r) ==
  r \in Resp(n) /\ IsReport(r) /\ r.of = cd.run /\ ~ r.halts

\* What it leaves alone.
SpinFrame(cd, e) ==
  /\ e.ie = cd.ie /\ e.flag = cd.flag /\ e.busy = cd.busy /\ e.mode = cd.mode
  /\ e.reading = cd.reading /\ (e.playing => cd.playing) /\ e.disc = cd.disc
  /\ e.count = cd.count /\ e.run = cd.run /\ e.halted = cd.halted

\* What it may tell the guest.
SpinReport(n, cd, e) ==
  \/ e.pending = cd.pending /\ e.sectorBuffer = cd.sectorBuffer
  \/ /\ cd.reading \/ cd.playing
     /\ \E r \in Resp(n) :
          /\ IsSectorOf(n, cd, r)
          /\ e.pending = Append(cd.pending, r)
          /\ e.sectorBuffer = IF r.sector = Blank THEN cd.sectorBuffer ELSE r.sector

\* Between two sectors the timer runs down and nothing else happens.
SpinWait(cd, e) ==
  ~ SectorDue(cd) =>
    /\ e.pending = cd.pending /\ e.playing = cd.playing
    /\ e.readTimer = IF cd.reading \/ cd.playing THEN cd.readTimer - 1 ELSE cd.readTimer

SpinStep(n, cd, e) ==
  /\ e \in DriveState(n)
  /\ SpinFrame(cd, e) /\ SpinReport(n, cd, e) /\ SpinWait(cd, e)
  /\ e.reading \/ e.playing => e.readTimer > 0
  /\ ~ cd.reading /\ ~ cd.playing => e = cd

\* The fields a sector may change, given at once.
SpinTo(cd, b, l, p, t, q) ==
  [cd EXCEPT !.sectorBuffer = b, !.lba = l, !.playing = p, !.readTimer = t, !.pending = q]

\* A response pushed on top of the others.
SpinAndPush(cd, b, l, p, t, kind, sector) ==
  [PushResp([cd EXCEPT !.sectorBuffer = b, !.lba = l, !.playing = p], 0, kind, sector)
     EXCEPT !.readTimer = t]

LEMMA SpinUpdate ==
  ASSUME NEW n \in Nat, NEW cd \in DriveState(n), NEW b \in SectorId, NEW l \in Lba,
         NEW p \in BOOLEAN, p => cd.playing, NEW t \in Nat, NEW q \in Seq(Resp(n)), NEW e,
         e = SpinTo(cd, b, l, p, t, q)
  PROVE  /\ e \in DriveState(n) /\ SpinFrame(cd, e)
         /\ e.sectorBuffer = b /\ e.playing = p /\ e.readTimer = t /\ e.pending = q
<1>1. e \in DriveState(n)
  BY DEF DriveState, SpinTo
<1>2. /\ e.ie = cd.ie /\ e.flag = cd.flag /\ e.busy = cd.busy /\ e.mode = cd.mode
      /\ e.reading = cd.reading /\ e.disc = cd.disc
      /\ e.count = cd.count /\ e.run = cd.run /\ e.halted = cd.halted
      /\ e.sectorBuffer = b /\ e.playing = p /\ e.readTimer = t /\ e.pending = q
  BY DEF DriveState, SpinTo
<1>3. SpinFrame(cd, e)
  BY <1>2, Zenon DEF SpinFrame
<1> QED BY <1>1, <1>2, <1>3

LEMMA PushRespFields ==
  ASSUME NEW n \in Nat, NEW cd \in DriveState(n), NEW kind \in {1, 4}, NEW sector \in SectorId,
         NEW b \in SectorId, NEW l \in Lba, NEW p \in BOOLEAN, NEW t \in Nat
  PROVE  \E r \in Resp(n) :
           /\ IsSectorOf(n, cd, r) /\ r.sector = sector
           /\ SpinAndPush(cd, b, l, p, t, kind, sector)
                = SpinTo(cd, b, l, p, t, Append(cd.pending, r))
<1> DEFINE r == [delay |-> 0, kind |-> kind, of |-> cd.run, sector |-> sector, halts |-> FALSE]
           c == [cd EXCEPT !.sectorBuffer = b, !.lba = l, !.playing = p]
<1>1. r \in Resp(n) /\ r.sector = sector
  BY DEF Resp, DriveState
<1>2. IsSectorOf(n, cd, r)
  BY <1>1 DEF IsSectorOf, IsReport
<1>3. c.run = cd.run /\ c.pending = cd.pending
  BY DEF DriveState
<1>4. PushResp(c, 0, kind, sector) = [c EXCEPT !.pending = Append(cd.pending, r)]
  BY <1>3 DEF PushResp
<1>5. SpinAndPush(cd, b, l, p, t, kind, sector)
        = SpinTo(cd, b, l, p, t, Append(cd.pending, r))
  <2> HIDE DEF r
  <2> DEFINE q == Append(cd.pending, r)
  <2>1. [[c EXCEPT !.pending = q] EXCEPT !.readTimer = t] = SpinTo(cd, b, l, p, t, q)
    <3> HIDE DEF q
    <3> QED BY DEF DriveState, SpinTo
  <2> QED BY <1>4, <2>1 DEF SpinAndPush
<1> QED BY <1>1, <1>2, <1>5

\* A due sector that says nothing.
LEMMA SilentSector ==
  ASSUME NEW n \in Nat, NEW cd \in DriveState(n), NEW l \in Lba, NEW p \in BOOLEAN,
         NEW t \in Nat \ {0}, cd.reading \/ cd.playing, SectorDue(cd), p => cd.playing,
         NEW e, e = SpinTo(cd, cd.sectorBuffer, l, p, t, cd.pending)
  PROVE  SpinStep(n, cd, e)
<1> DEFINE b == cd.sectorBuffer
           q == cd.pending
<1>1. b \in SectorId /\ q \in Seq(Resp(n)) /\ t \in Nat /\ t > 0
  BY DEF DriveState
<1>2. e = SpinTo(cd, b, l, p, t, q)
  OBVIOUS
<1>3. /\ e \in DriveState(n) /\ SpinFrame(cd, e)
      /\ e.sectorBuffer = b /\ e.playing = p /\ e.readTimer = t /\ e.pending = q
  <2> HIDE DEF b, q
  <2> QED BY <1>1, <1>2, SpinUpdate
<1>4. SpinReport(n, cd, e)
  BY <1>3 DEF SpinReport
<1>5. SpinWait(cd, e)
  BY DEF SpinWait
<1> QED BY <1>1, <1>3, <1>4, <1>5 DEF SpinStep

\* A due sector that announces itself.
LEMMA AnnouncedSector ==
  ASSUME NEW n \in Nat, NEW cd \in DriveState(n), NEW l \in Lba, NEW p \in BOOLEAN,
         NEW t \in Nat \ {0}, cd.reading \/ cd.playing, SectorDue(cd), p => cd.playing,
         NEW kind \in {1, 4}, NEW sector \in SectorId, NEW b \in SectorId,
         b = IF sector = Blank THEN cd.sectorBuffer ELSE sector,
         NEW e, e = SpinAndPush(cd, b, l, p, t, kind, sector)
  PROVE  SpinStep(n, cd, e)
<1>1. PICK r \in Resp(n) :
        /\ IsSectorOf(n, cd, r) /\ r.sector = sector
        /\ e = SpinTo(cd, b, l, p, t, Append(cd.pending, r))
  BY PushRespFields
<1> DEFINE q == Append(cd.pending, r)
<1>2. q \in Seq(Resp(n))
  BY AppendExtends DEF DriveState
<1>3. e = SpinTo(cd, b, l, p, t, q)
  BY <1>1
<1>4. /\ e \in DriveState(n) /\ SpinFrame(cd, e)
      /\ e.sectorBuffer = b /\ e.playing = p /\ e.readTimer = t /\ e.pending = q
  <2> HIDE DEF q
  <2> QED BY <1>2, <1>3, SpinUpdate
<1>5. SpinReport(n, cd, e)
  <2>1. e.sectorBuffer = IF r.sector = Blank THEN cd.sectorBuffer ELSE r.sector
    BY <1>1, <1>4
  <2>2. e.pending = Append(cd.pending, r)
    BY <1>4
  <2> QED BY <1>1, <2>1, <2>2, Zenon DEF SpinReport
<1>6. SpinWait(cd, e)
  BY DEF SpinWait
<1>7. t > 0
  OBVIOUS
<1> QED BY <1>4, <1>5, <1>6, <1>7 DEF SpinStep

LEMMA SpunIsSpinStep ==
  ASSUME NEW n \in Nat, NEW cd \in DriveState(n),
         cd.reading \/ cd.playing => cd.readTimer > 0
  PROVE  SpinStep(n, cd, Spun(cd))
<1> DEFINE e == Spun(cd)
<1>1. /\ cd.lba \in Lba /\ cd.readTimer \in Nat /\ cd.reading \in BOOLEAN
      /\ cd.playing \in BOOLEAN /\ cd.sectorBuffer \in SectorId
      /\ NextLba(cd) \in Lba /\ SectorPeriod(cd) \in Nat \ {0} /\ SinglePeriod \in Nat \ {0}
  BY NextLbaType, PeriodType DEF DriveState
<1>2. CASE ~ cd.reading /\ ~ cd.playing
  <2>1. e = cd
    BY <1>2 DEF Spun
  <2> QED BY <1>2, <2>1 DEF SpinStep, SpinFrame, SpinReport, SpinWait
<1>3. CASE (cd.reading \/ cd.playing) /\ ~ SectorDue(cd)
  <2> DEFINE t == cd.readTimer - 1
  <2>1. e = [cd EXCEPT !.readTimer = t]
    BY <1>3 DEF Spun
  <2>2. t \in Nat /\ t > 0
    BY <1>1, <1>3 DEF SectorDue
  <2> HIDE DEF e
  <2>3. e \in DriveState(n) /\ e.readTimer = t
    BY <2>1, <2>2 DEF DriveState
  <2>4. /\ e.ie = cd.ie /\ e.flag = cd.flag /\ e.busy = cd.busy /\ e.mode = cd.mode
        /\ e.reading = cd.reading /\ e.playing = cd.playing /\ e.disc = cd.disc
        /\ e.count = cd.count /\ e.run = cd.run /\ e.halted = cd.halted
        /\ e.pending = cd.pending /\ e.sectorBuffer = cd.sectorBuffer
    BY <2>1 DEF DriveState
  <2> HIDE DEF t
  <2>5. SpinStep(n, cd, e)
    BY <1>3, <2>2, <2>3, <2>4 DEF SpinStep, SpinFrame, SpinReport, SpinWait, t
  <2> QED BY <2>5 DEF e
<1>4. CASE cd.reading /\ SectorDue(cd)
  <2> DEFINE l == NextLba(cd)
             t == SectorPeriod(cd)
             p == cd.playing
             here == IF cd.disc THEN cd.lba ELSE LeadOut
  <2>1. e = [ProcessReadSector(cd) EXCEPT !.readTimer = t]
    BY <1>4 DEF Spun
  <2>2. here \in SectorId /\ here # Blank
    BY <1>1, AddressTypes
  <2>3. CASE cd.disc /\ cd.lba \in XaSectors
    <3>1. ProcessReadSector(cd) = [cd EXCEPT !.lba = l]
      BY <2>3 DEF ProcessReadSector
    <3> HIDE DEF l, t
    <3>2. e = SpinTo(cd, cd.sectorBuffer, l, p, t, cd.pending)
      BY <2>1, <3>1 DEF DriveState, SpinTo
    <3> QED BY <1>1, <1>4, <3>2, SilentSector DEF l, t
  <2>4. CASE ~ (cd.disc /\ cd.lba \in XaSectors)
    <3> DEFINE c == [cd EXCEPT !.sectorBuffer = here, !.lba = l, !.playing = p]
    <3>1. c = [cd EXCEPT !.sectorBuffer = here, !.lba = l]
      <4> HIDE DEF l, here
      <4> QED BY DEF DriveState
    <3>2. ProcessReadSector(cd) = PushResp(c, 0, 1, here)
      BY <2>4, <3>1 DEF ProcessReadSector
    <3>3. e = SpinAndPush(cd, here, l, p, t, 1, here)
      BY <2>1, <3>2 DEF SpinAndPush
    <3> HIDE DEF e, l, t, here
    <3>4. l \in Lba /\ t \in Nat \ {0}
      BY <1>1 DEF l, t
    <3>5. SpinStep(n, cd, e)
      BY <1>1, <1>4, <2>2, <3>3, <3>4, AnnouncedSector
    <3> QED BY <3>5 DEF e
  <2> QED BY <2>3, <2>4
<1>5. CASE ~ cd.reading /\ cd.playing /\ SectorDue(cd)
  <2> DEFINE ends == PlaybackEnds(cd)
             p == ~ ends
             l == IF ends THEN cd.lba ELSE NextLba(cd)
             kind == IF ends THEN 4 ELSE 1
             b == cd.sectorBuffer
             c == [cd EXCEPT !.sectorBuffer = b, !.lba = l, !.playing = p]
             wanted == IF ends THEN cd.mode.autopause ELSE cd.mode.report
  <2>1. e = [ProcessCddaSector(cd) EXCEPT !.readTimer = SinglePeriod]
    BY <1>5 DEF Spun
  <2>2. p \in BOOLEAN /\ (p => cd.playing) /\ l \in Lba /\ kind \in {1, 4}
    BY <1>1, <1>5
  <2>3. ProcessCddaSector(cd) = ReportIf(c, wanted, kind)
    <3>1. CASE ends
      <4>1. c = [cd EXCEPT !.playing = FALSE]
        BY <3>1 DEF DriveState
      <4> QED BY <3>1, <4>1 DEF ProcessCddaSector
    <3>2. CASE ~ ends
      <4>1. c = [cd EXCEPT !.lba = NextLba(cd)]
        BY <1>5, <3>2 DEF DriveState
      <4> QED BY <3>2, <4>1 DEF ProcessCddaSector
    <3> QED BY <3>1, <3>2
  <2> HIDE DEF e, l, p, kind, wanted
  <2>4. CASE wanted /\ c.pending = <<>>
    <3>1. e = SpinAndPush(cd, b, l, p, SinglePeriod, kind, Blank)
      BY <2>1, <2>3, <2>4 DEF ReportIf, SpinAndPush
    <3>2. b = IF Blank = Blank THEN cd.sectorBuffer ELSE Blank
      OBVIOUS
    <3>3. Blank \in SectorId /\ b \in SectorId
      BY <1>1, AddressTypes
    <3> HIDE DEF b
    <3>4. SpinStep(n, cd, e)
      BY <1>1, <1>5, <2>2, <3>1, <3>2, <3>3, AnnouncedSector
    <3> QED BY <3>4 DEF e
  <2>5. CASE ~ (wanted /\ c.pending = <<>>)
    <3>1. e = [c EXCEPT !.readTimer = SinglePeriod]
      BY <2>1, <2>3, <2>5 DEF ReportIf
    <3>2. e = SpinTo(cd, cd.sectorBuffer, l, p, SinglePeriod, cd.pending)
      BY <3>1 DEF DriveState, SpinTo
    <3>3. SpinStep(n, cd, e)
      BY <1>1, <1>5, <2>2, <3>2, SilentSector
    <3> QED BY <3>3 DEF e
  <2> QED BY <2>4, <2>5
<1> QED BY <1>2, <1>3, <1>4, <1>5

(***************************************************************************)
(* The countdown of the first response.                                    *)
(***************************************************************************)
\* Same responses in the same places, the first one cycle nearer.
SameQueue(p, q) ==
  /\ Len(p) \in Nat /\ Len(q) = Len(p) /\ DOMAIN p = 1..Len(p) /\ DOMAIN q = 1..Len(p)
  /\ \A i \in DOMAIN p :
       /\ q[i].kind = p[i].kind /\ q[i].of = p[i].of
       /\ q[i].sector = p[i].sector /\ q[i].halts = p[i].halts
       /\ q[i].delay = IF i = 1 /\ p[1].delay > 0 THEN p[1].delay - 1 ELSE p[i].delay

\* All but the queue.
QueueFrame(cd, e) ==
  /\ e.ie = cd.ie /\ e.flag = cd.flag /\ e.busy = cd.busy /\ e.mode = cd.mode
  /\ e.reading = cd.reading /\ e.playing = cd.playing /\ e.readTimer = cd.readTimer
  /\ e.lba = cd.lba /\ e.disc = cd.disc /\ e.sectorBuffer = cd.sectorBuffer
  /\ e.count = cd.count /\ e.run = cd.run /\ e.halted = cd.halted

CountStep(n, cd, e) ==
  e \in DriveState(n) /\ QueueFrame(cd, e) /\ SameQueue(cd.pending, e.pending)

LEMMA CountedDownFields ==
  ASSUME NEW n \in Nat, NEW cd \in DriveState(n)
  PROVE  CountStep(n, cd, CountedDown(cd))
<1> DEFINE e == CountedDown(cd)
           p == cd.pending
<1>1. p \in Seq(Resp(n))
  BY DEF DriveState
<1>2. /\ Len(p) \in Nat /\ DOMAIN p = 1..Len(p) /\ \A i \in DOMAIN p : p[i] \in Resp(n)
      /\ p = <<>> <=> Len(p) = 0
  BY <1>1, QueueDomain
<1>3. CASE p # <<>> /\ Head(p).delay > 0
  <2> DEFINE h == p[1]
             g == [h EXCEPT !.delay = h.delay - 1]
             q == [p EXCEPT ![1] = g]
  <2>1. h \in Resp(n) /\ Head(p) = h /\ 1 \in DOMAIN p
    BY <1>2, <1>3
  <2>2. h.delay \in Nat /\ h.delay > 0
    BY <1>3, <2>1 DEF Resp
  <2>3. /\ g \in Resp(n) /\ g.delay = h.delay - 1 /\ g.kind = h.kind /\ g.of = h.of
        /\ g.sector = h.sector /\ g.halts = h.halts
    BY <2>1, <2>2 DEF Resp
  <2>4. e = [cd EXCEPT !.pending = q]
    BY <1>3 DEF CountedDown
  <2> HIDE DEF g, h
  <2>5. q \in Seq(Resp(n)) /\ DOMAIN q = DOMAIN p /\ Len(q) = Len(p)
    BY <1>1, <1>2, <2>1, <2>3
  <2>6. \A i \in DOMAIN p : q[i] = IF i = 1 THEN g ELSE p[i]
    BY <1>1, <1>2, <2>1
  <2> HIDE DEF q, e
  <2>7. e \in DriveState(n) /\ e.pending = q
    BY <2>4, <2>5 DEF DriveState
  <2>8. QueueFrame(cd, e)
    BY <2>4 DEF QueueFrame, DriveState
  <2>9. SameQueue(p, q)
    BY <1>2, <2>2, <2>3, <2>5, <2>6 DEF SameQueue, h
  <2> QED BY <2>7, <2>8, <2>9 DEF CountStep, e
<1>4. CASE ~ (p # <<>> /\ Head(p).delay > 0)
  <2>1. e = cd
    BY <1>4 DEF CountedDown
  <2>2. p = <<>> \/ ~ (p[1].delay > 0)
    BY <1>2, <1>4
  <2>3. SameQueue(p, p)
    BY <1>2, <2>2 DEF SameQueue
  <2>4. QueueFrame(cd, cd)
    BY DEF QueueFrame
  <2> QED BY <2>1, <2>3, <2>4 DEF CountStep
<1> QED BY <1>3, <1>4

(***************************************************************************)
(* The latch.                                                              *)
(***************************************************************************)
LatchStep(n, cd, e) ==
  /\ e \in DriveState(n)
  /\ Drops(cd.pending, e.pending) /\ e.flag = cd.pending[1] /\ ~ e.busy
  /\ e.halted = IF cd.pending[1].halts THEN cd.pending[1].of ELSE cd.halted
  /\ e.ie = cd.ie /\ e.mode = cd.mode
  /\ e.reading = cd.reading /\ e.playing = cd.playing /\ e.readTimer = cd.readTimer
  /\ e.lba = cd.lba /\ e.disc = cd.disc /\ e.sectorBuffer = cd.sectorBuffer
  /\ e.count = cd.count /\ e.run = cd.run

LEMMA LatchFields ==
  ASSUME NEW n \in Nat, NEW cd \in DriveState(n), cd.pending # <<>>
  PROVE  LatchStep(n, cd, LatchResponse(cd))
<1> DEFINE e == LatchResponse(cd)
           p == cd.pending
           q == Tail(p)
           h == p[1]
           k == IF h.halts THEN h.of ELSE cd.halted
<1>1. p \in Seq(Resp(n)) /\ cd.halted \in 0..n
  BY DEF DriveState
<1>2. q \in Seq(Resp(n)) /\ Drops(p, q) /\ Head(p) = h /\ h \in Resp(n)
  BY <1>1, TailDrops
<1>3. k \in 0..n
  BY <1>1, <1>2 DEF Resp
<1>4. e = [cd EXCEPT !.flag = h, !.pending = q, !.busy = FALSE, !.halted = k]
  BY <1>2 DEF LatchResponse
<1> HIDE DEF q, h, k, e
<1>5. e \in DriveState(n)
  BY <1>2, <1>3, <1>4 DEF DriveState
<1>6. /\ e.flag = h /\ e.pending = q /\ e.busy = FALSE /\ e.halted = k
      /\ e.ie = cd.ie /\ e.mode = cd.mode
      /\ e.reading = cd.reading /\ e.playing = cd.playing /\ e.readTimer = cd.readTimer
      /\ e.lba = cd.lba /\ e.disc = cd.disc /\ e.sectorBuffer = cd.sectorBuffer
      /\ e.count = cd.count /\ e.run = cd.run
  BY <1>4 DEF DriveState
<1> QED BY <1>2, <1>5, <1>6 DEF LatchStep, h, k, e

(***************************************************************************)
(* A command.                                                              *)
(***************************************************************************)
\* One use of the sector timer at a time, and the timer not yet run out.
Cadence(cd) ==
  /\ ~ (cd.reading /\ cd.playing)
  /\ cd.reading \/ cd.playing => cd.readTimer > 0

\* What a command does besides answering.
EffectStep(n, cd, cmd, e) ==
  /\ e \in DriveState(n) /\ Cadence(e)
  /\ e.ie = cd.ie /\ e.flag = cd.flag /\ e.pending = cd.pending /\ e.disc = cd.disc
  /\ e.sectorBuffer = cd.sectorBuffer /\ e.count = cd.count /\ e.halted = cd.halted
  /\ e.run \in {cd.run, cd.count + 1}
  /\ e.reading \/ e.playing =>
       \/ e.run = cd.count + 1
       \/ /\ e.run = cd.run /\ (cd.reading \/ cd.playing)
          /\ cmd.name \notin HaltingCommands

\* The arguments of a command are what the drive makes of the parameter bytes.
WellArgued(cmd) ==
  /\ cmd.name = "setloc" => cmd.lba \in Lba
  /\ cmd.name = "setmode" => cmd.mode \in Modes

LEMMA CommandArguments ==
  /\ \A cmd \in Command : WellArgued(cmd)
  /\ \A cmd \in SoundCommand : WellArgued(cmd)
<1>1. \A cmd \in Command : WellArgued(cmd)
  BY DEF Command, WellArgued
<1>2. \A cmd \in SoundCommand : WellArgued(cmd)
  BY <1>1 DEF SoundCommand, WellArgued
<1> QED BY <1>1, <1>2

LEMMA TrackStartType ==
  ASSUME NEW cd, NEW track
  PROVE  TrackStartLba(cd, track) \in Lba
  BY AddressTypes DEF TrackStartLba

\* The fields a command sets, given at once.
Commanded(cd, m, rd, pl, t, s, l, k, r) ==
  [cd EXCEPT !.mode = m, !.reading = rd, !.playing = pl, !.readTimer = t,
             !.seekTarget = s, !.lba = l, !.playTrack = k, !.run = r]

LEMMA CommandedFields ==
  ASSUME NEW n \in Nat, NEW cd \in DriveState(n), NEW m \in Modes, NEW rd \in BOOLEAN,
         NEW pl \in BOOLEAN, NEW t \in Nat, NEW s \in Lba, NEW l \in Lba, NEW k \in Tracks,
         NEW r \in 0..n, NEW e, e = Commanded(cd, m, rd, pl, t, s, l, k, r)
  PROVE  /\ e \in DriveState(n)
         /\ e.reading = rd /\ e.playing = pl /\ e.readTimer = t /\ e.run = r
         /\ e.ie = cd.ie /\ e.flag = cd.flag /\ e.pending = cd.pending /\ e.disc = cd.disc
         /\ e.sectorBuffer = cd.sectorBuffer /\ e.count = cd.count /\ e.halted = cd.halted
  BY DEF DriveState, Commanded

LEMMA Mode0Type == Mode0 \in Modes
  BY DEF Mode0, Modes

\* A command that leaves the run going, or ends it.
LEMMA KeepsTheRun ==
  ASSUME NEW n \in Nat, NEW cd \in DriveState(n), NEW cmd, Cadence(cd),
         NEW m \in Modes, NEW rd \in BOOLEAN, NEW pl \in BOOLEAN, NEW s \in Lba, NEW l \in Lba,
         NEW e, e = Commanded(cd, m, rd, pl, cd.readTimer, s, l, cd.playTrack, cd.run),
         \/ rd = cd.reading /\ pl = cd.playing /\ cmd.name \notin HaltingCommands
         \/ ~ rd /\ ~ pl
  PROVE  EffectStep(n, cd, cmd, e)
<1>1. cd.readTimer \in Nat /\ cd.playTrack \in Tracks /\ cd.run \in 0..n
  BY DEF DriveState
<1>2. /\ e \in DriveState(n)
      /\ e.reading = rd /\ e.playing = pl /\ e.readTimer = cd.readTimer /\ e.run = cd.run
      /\ e.ie = cd.ie /\ e.flag = cd.flag /\ e.pending = cd.pending /\ e.disc = cd.disc
      /\ e.sectorBuffer = cd.sectorBuffer /\ e.count = cd.count /\ e.halted = cd.halted
  BY <1>1, CommandedFields
<1>3. Cadence(e)
  BY <1>2 DEF Cadence
<1>4. e.reading \/ e.playing => /\ e.run = cd.run /\ (cd.reading \/ cd.playing)
                                /\ cmd.name \notin HaltingCommands
  BY <1>2
<1> QED BY <1>2, <1>3, <1>4, Zenon DEF EffectStep

\* A command that starts one.
LEMMA StartsARun ==
  ASSUME NEW n \in Nat, NEW cd \in DriveState(n), NEW cmd, cd.count < n,
         NEW rd \in BOOLEAN, NEW pl \in BOOLEAN, ~ (rd /\ pl), NEW l \in Lba, NEW t \in Nat \ {0},
         NEW k \in Tracks, NEW c, c = cd.count + 1,
         NEW e, e = Commanded(cd, cd.mode, rd, pl, t, cd.seekTarget, l, k, c)
  PROVE  EffectStep(n, cd, cmd, e)
<1>1. cd.mode \in Modes /\ cd.seekTarget \in Lba /\ c \in 0..n /\ t \in Nat
  BY DEF DriveState
<1>2. /\ e \in DriveState(n)
      /\ e.reading = rd /\ e.playing = pl /\ e.readTimer = t /\ e.run = c
      /\ e.ie = cd.ie /\ e.flag = cd.flag /\ e.pending = cd.pending /\ e.disc = cd.disc
      /\ e.sectorBuffer = cd.sectorBuffer /\ e.count = cd.count /\ e.halted = cd.halted
  BY <1>1, CommandedFields, SMTT(60)
<1>3. Cadence(e)
  BY <1>2 DEF Cadence
<1> QED BY <1>2, <1>3, Zenon DEF EffectStep

LEMMA EffectFields ==
  ASSUME NEW n \in Nat, NEW cd \in DriveState(n), NEW cmd, WellArgued(cmd), cd.count < n,
         Cadence(cd)
  PROVE  EffectStep(n, cd, cmd, Effect(cd, cmd, cd.count + 1))
<1> SUFFICES ASSUME NEW c, c = cd.count + 1, NEW e, e = Effect(cd, cmd, c)
             PROVE  EffectStep(n, cd, cmd, e)
  OBVIOUS
<1>1. /\ cd.mode \in Modes /\ cd.reading \in BOOLEAN /\ cd.playing \in BOOLEAN
      /\ cd.readTimer \in Nat /\ cd.seekTarget \in Lba /\ cd.lba \in Lba
      /\ cd.playTrack \in Tracks /\ cd.run \in 0..n
  BY DEF DriveState
<1>5. CASE cmd.name = "setloc"
  <2>1. cmd.lba \in Lba /\ cmd.name \notin HaltingCommands
    BY <1>5 DEF HaltingCommands, WellArgued
  <2>2. e = Commanded(cd, cd.mode, cd.reading, cd.playing, cd.readTimer, cmd.lba, cd.lba,
                      cd.playTrack, cd.run)
    BY <1>5 DEF Effect, Commanded, DriveState
  <2> QED BY <1>1, <2>1, <2>2, KeepsTheRun
<1>6. CASE cmd.name = "setmode"
  <2>1. cmd.mode \in Modes /\ cmd.name \notin HaltingCommands
    BY <1>6 DEF HaltingCommands, WellArgued
  <2>2. e = Commanded(cd, cmd.mode, cd.reading, cd.playing, cd.readTimer, cd.seekTarget,
                      cd.lba, cd.playTrack, cd.run)
    BY <1>6 DEF Effect, Commanded, DriveState
  <2> QED BY <1>1, <2>1, <2>2, KeepsTheRun
<1>7. CASE cmd.name = "play"
  <2> DEFINE l == IF cmd.track = 0 THEN cd.seekTarget ELSE TrackStartLba(cd, cmd.track)
             k == TrackAt(cd, l)
  <2>1. l \in Lba /\ k \in Tracks /\ SinglePeriod \in Nat \ {0}
    BY <1>1, TrackStartType, TrackAtType, PeriodType
  <2>2. e = PlayFrom(cd, l, c)
    BY <1>7 DEF Effect
  <2> HIDE DEF l
  <2>3. e = Commanded(cd, cd.mode, FALSE, TRUE, SinglePeriod, cd.seekTarget, l, k, c)
    <3> HIDE DEF k
    <3>1. PlayFrom(cd, l, c) = [cd EXCEPT !.reading = FALSE, !.playing = TRUE, !.lba = l,
                                 !.playTrack = k, !.readTimer = SinglePeriod, !.run = c]
      BY DEF PlayFrom, k
    <3>2. Commanded(cd, cd.mode, FALSE, TRUE, SinglePeriod, cd.seekTarget, l, k, c)
            = [cd EXCEPT !.reading = FALSE, !.playing = TRUE, !.lba = l,
                         !.playTrack = k, !.readTimer = SinglePeriod, !.run = c]
      BY DEF Commanded, DriveState
    <3> QED BY <2>2, <3>1, <3>2, Zenon
  <2> QED BY <1>1, <2>1, <2>3, StartsARun
<1>8. CASE cmd.name = "read"
  <2> DEFINE t == SectorPeriod(cd)
  <2>1. t \in Nat \ {0}
    BY PeriodType
  <2>2. e = ReadFrom(cd, cd.seekTarget, c)
    BY <1>8 DEF Effect
  <2>3. e = Commanded(cd, cd.mode, TRUE, FALSE, t, cd.seekTarget, cd.seekTarget,
                      cd.playTrack, c)
    <3> HIDE DEF t
    <3>1. ReadFrom(cd, cd.seekTarget, c)
            = [cd EXCEPT !.reading = TRUE, !.playing = FALSE, !.lba = cd.seekTarget,
                         !.readTimer = t, !.run = c]
      BY DEF ReadFrom, t
    <3>2. Commanded(cd, cd.mode, TRUE, FALSE, t, cd.seekTarget, cd.seekTarget, cd.playTrack, c)
            = [cd EXCEPT !.reading = TRUE, !.playing = FALSE, !.lba = cd.seekTarget,
                         !.readTimer = t, !.run = c]
      BY DEF Commanded, DriveState
    <3> QED BY <2>2, <3>1, <3>2, Zenon
  <2> QED BY <1>1, <2>1, <2>3, StartsARun
<1>9. CASE cmd.name = "pause"
  <2>1. e = Commanded(cd, cd.mode, FALSE, FALSE, cd.readTimer, cd.seekTarget, cd.lba,
                      cd.playTrack, cd.run)
    BY <1>9 DEF Effect, Halt, Commanded, DriveState
  <2> QED BY <1>1, <2>1, KeepsTheRun
<1>10. CASE cmd.name = "init"
  <2>1. e = Commanded(cd, Mode0, FALSE, FALSE, cd.readTimer, cd.seekTarget, cd.lba,
                      cd.playTrack, cd.run)
    BY <1>10, Mode0Type DEF Effect, Halt, Commanded, DriveState
  <2> QED BY <1>1, <2>1, Mode0Type, KeepsTheRun
<1>11. CASE cmd.name = "seek"
  <2>1. cmd.name \notin HaltingCommands
    BY <1>11 DEF HaltingCommands
  <2>2. e = Commanded(cd, cd.mode, cd.reading, cd.playing, cd.readTimer, cd.seekTarget,
                      cd.seekTarget, cd.playTrack, cd.run)
    BY <1>11 DEF Effect, Commanded, DriveState
  <2> QED BY <1>1, <2>1, <2>2, KeepsTheRun
<1>12. CASE cmd.name \notin {"setloc", "setmode", "play", "read", "pause", "init", "seek"}
  <2>1. cmd.name \notin HaltingCommands
    BY <1>12 DEF HaltingCommands
  <2>2. e = cd
    BY <1>12 DEF Effect
  <2>3. cd = Commanded(cd, cd.mode, cd.reading, cd.playing, cd.readTimer, cd.seekTarget,
                       cd.lba, cd.playTrack, cd.run)
    BY DEF Commanded, DriveState
  <2> QED BY <1>1, <2>1, <2>2, <2>3, KeepsTheRun
<1> QED BY <1>5, <1>6, <1>7, <1>8, <1>9, <1>10, <1>11, <1>12

\* q is p with r behind it.
Joins(p, q, r) ==
  /\ Len(p) \in Nat /\ DOMAIN p = 1..Len(p)
  /\ Len(r) \in Nat /\ DOMAIN r = 1..Len(r) /\ DOMAIN q = 1..(Len(p) + Len(r))
  /\ \A i \in DOMAIN p : q[i] = p[i]
  /\ \A i \in DOMAIN q \ DOMAIN p : i - Len(p) \in DOMAIN r /\ q[i] = r[i - Len(p)]
  /\ \A i \in DOMAIN r : Len(p) + i \in DOMAIN q /\ q[Len(p) + i] = r[i]

LEMMA ConcatJoins ==
  ASSUME NEW S, NEW p \in Seq(S), NEW r \in Seq(S)
  PROVE  p \o r \in Seq(S) /\ Joins(p, p \o r, r)
  BY DEF Joins

\* The answers of command k.
AreAnswers(n, r, k, halts) ==
  /\ r \in Seq(Resp(n)) /\ 1 \in DOMAIN r
  /\ \A i \in DOMAIN r :
       /\ IsAnswer(r[i]) /\ r[i].of = k /\ r[i].sector = Blank /\ r[i].halts = halts
       /\ r[i].kind = 2 => i # 1 /\ r[i].delay = SecondDelay

LEMMA QueuedFields ==
  ASSUME NEW n \in Nat, NEW cd, NEW cmd, NEW k \in 0..n
  PROVE  AreAnswers(n, Queued(cd, cmd, k), k, cmd.name \in HaltingCommands)
<1> DEFINE A == Answers(cd, cmd)
           h == cmd.name \in HaltingCommands
           r == Queued(cd, cmd, k)
<1>1. A \in {<<5>>, <<3, 5>>, <<3, 2>>, <<3>>}
  BY DEF Answers
<1>2. /\ \E m \in {1, 2} : DOMAIN A = 1..m
      /\ \A i \in DOMAIN A : A[i] \in {2, 3, 5} /\ (A[i] = 2 => i # 1)
  <2>1. \A a : DOMAIN <<a>> = 1..1 /\ <<a>>[1] = a
    OBVIOUS
  <2>2. \A a, b : DOMAIN <<a, b>> = 1..2 /\ <<a, b>>[1] = a /\ <<a, b>>[2] = b
    OBVIOUS
  <2>3. (\E a \in {3, 5} : A = <<a>>) \/ (\E a \in {2, 5} : A = <<3, a>>)
    BY <1>1
  <2> HIDE DEF A
  <2>4. CASE \E a \in {3, 5} : A = <<a>>
    <3>1. PICK a \in {3, 5} : A = <<a>>
      BY <2>4
    <3>2. DOMAIN A = 1..1 /\ A[1] = a
      BY <2>1, <3>1, Zenon
    <3> QED BY <3>2
  <2>5. CASE \E a \in {2, 5} : A = <<3, a>>
    <3>1. PICK a \in {2, 5} : A = <<3, a>>
      BY <2>5
    <3>2. DOMAIN A = 1..2 /\ A[1] = 3 /\ A[2] = a
      BY <2>2, <3>1, Zenon
    <3> QED BY <3>2
  <2> QED BY <2>3, <2>4, <2>5
<1> HIDE DEF A
<1>3. h \in BOOLEAN /\ Blank \in SectorId
  BY AddressTypes
<1> HIDE DEF h
<1>4. r = [i \in DOMAIN A |->
             [delay |-> IF i = 1 THEN FirstDelay ELSE SecondDelay,
              kind |-> A[i], of |-> k, sector |-> Blank, halts |-> h]]
  BY DEF Queued, A, h
<1>5. ASSUME NEW i \in DOMAIN A
      PROVE  /\ r[i] \in Resp(n) /\ IsAnswer(r[i]) /\ r[i].of = k /\ r[i].sector = Blank
             /\ r[i].halts = h /\ (r[i].kind = 2 => i # 1 /\ r[i].delay = SecondDelay)
  <2>1. /\ FirstDelay \in Nat /\ SecondDelay \in Nat
        /\ A[i] \in {2, 3, 5} /\ (A[i] = 2 => i # 1)
    BY <1>2, DriveAssumption
  <2>2. r[i] = [delay |-> IF i = 1 THEN FirstDelay ELSE SecondDelay,
                kind |-> A[i], of |-> k, sector |-> Blank, halts |-> h]
    BY <1>4
  <2> QED BY <1>3, <2>1, <2>2 DEF Resp, IsAnswer
<1>6. DOMAIN r = DOMAIN A
  BY <1>4
<1> HIDE DEF r
<1>7. r \in Seq(Resp(n))
  <2>1. \E m \in Nat : DOMAIN r = 1..m
    BY <1>2, <1>6
  <2>2. r \in [DOMAIN r -> Resp(n)]
    <3>1. r = [i \in DOMAIN r |-> r[i]]
      BY <1>4, <1>6
    <3> QED BY <1>5, <1>6, <3>1
  <2> QED BY <2>1, <2>2
<1> QED BY <1>2, <1>5, <1>6, <1>7 DEF AreAnswers, r, h

\* All of a command.
CommandStep(n, cd, cmd, e) ==
  /\ e \in DriveState(n) /\ Cadence(e)
  /\ e.ie = cd.ie /\ e.flag = cd.flag /\ e.disc = cd.disc
  /\ e.sectorBuffer = cd.sectorBuffer /\ e.halted = cd.halted
  /\ e.count = cd.count + 1
  /\ e.run \in {cd.run, cd.count + 1}
  /\ e.reading \/ e.playing =>
       \/ e.run = cd.count + 1
       \/ /\ e.run = cd.run /\ (cd.reading \/ cd.playing)
          /\ cmd.name \notin HaltingCommands
  /\ \E r \in Seq(Resp(n)) :
       /\ AreAnswers(n, r, cd.count + 1, cmd.name \in HaltingCommands)
       /\ e.pending = cd.pending \o r

LEMMA RunCommandFields ==
  ASSUME NEW n \in Nat, NEW cd \in DriveState(n), NEW cmd, WellArgued(cmd), cd.count < n,
         Cadence(cd)
  PROVE  CommandStep(n, cd, cmd, RunCommand(cd, cmd))
<1> DEFINE k == cd.count + 1
           f == Effect(cd, cmd, k)
           r == Queued(cd, cmd, k)
           q == cd.pending \o r
           e == RunCommand(cd, cmd)
<1>1. EffectStep(n, cd, cmd, f)
  BY EffectFields
<1>2. f \in DriveState(n) /\ f.count = cd.count /\ k \in 0..n /\ cd.pending \in Seq(Resp(n))
  BY <1>1 DEF EffectStep, DriveState
<1>3. AreAnswers(n, r, k, cmd.name \in HaltingCommands)
  BY <1>2, QueuedFields
<1>4. r \in Seq(Resp(n)) /\ q \in Seq(Resp(n))
  BY <1>2, <1>3, ConcatJoins DEF AreAnswers
<1>5. e = [f EXCEPT !.busy = TRUE, !.count = k, !.pending = q]
  BY <1>2 DEF RunCommand
<1>6. \E x \in Seq(Resp(n)) :
        /\ AreAnswers(n, x, k, cmd.name \in HaltingCommands)
        /\ q = cd.pending \o x
  BY <1>3, <1>4
<1> HIDE DEF e, f, q, r
<1>7. e \in DriveState(n)
  BY <1>2, <1>4, <1>5 DEF DriveState
<1>8. /\ e.ie = f.ie /\ e.flag = f.flag /\ e.disc = f.disc /\ e.reading = f.reading
      /\ e.playing = f.playing /\ e.readTimer = f.readTimer
      /\ e.sectorBuffer = f.sectorBuffer /\ e.halted = f.halted /\ e.run = f.run
      /\ e.count = k /\ e.pending = q
  BY <1>2, <1>4, <1>5 DEF DriveState
<1>9. Cadence(e)
  BY <1>1, <1>8, Zenon DEF EffectStep, Cadence
<1>10. CommandStep(n, cd, cmd, e)
  BY <1>1, <1>6, <1>7, <1>8, <1>9, Zenon DEF EffectStep, CommandStep
<1> QED BY <1>10 DEF e

(***************************************************************************)
(* The inductive invariant of the controller.                              *)
(***************************************************************************)
\* Commands and runs are numbered in the order in which they are queued: what
\* a halting command leaves behind it in the queue belongs to a later run.
RunsInOrder(cd) ==
  /\ cd.run <= cd.count /\ cd.halted <= cd.count
  /\ \A i \in DOMAIN cd.pending : cd.pending[i].of <= cd.count
  /\ cd.reading \/ cd.playing =>
       /\ cd.halted <= cd.run
       /\ \A i \in DOMAIN cd.pending : cd.pending[i].halts => cd.pending[i].of <= cd.run
  /\ \A i, j \in DOMAIN cd.pending :
       i < j /\ cd.pending[i].halts /\ IsReport(cd.pending[j])
         => cd.pending[i].of <= cd.pending[j].of
  /\ \A i \in DOMAIN cd.pending : IsReport(cd.pending[i]) => ~ cd.pending[i].halts

\* ReportsBelongToTheirRun, of a drive.
ReportsInRun(cd) ==
  \A i \in DOMAIN cd.pending :
    IsReport(cd.pending[i]) =>
      /\ cd.pending[i].of >= cd.halted
      /\ \A j \in DOMAIN cd.pending :
           j > i /\ IsAnswer(cd.pending[j]) => cd.pending[j].of # cd.pending[i].of

\* BusyOwesAnAnswer, of a drive.
AnswerOwed(cd) ==
  cd.busy => \E i \in DOMAIN cd.pending :
               IsAnswer(cd.pending[i]) /\ cd.pending[i].of = cd.count

\* The buffer holds the sector announced last, queued or latched.
NewestIsBuffered(cd) ==
  /\ \A i \in DOMAIN cd.pending :
       /\ cd.pending[i].sector # Blank
       /\ \A j \in DOMAIN cd.pending : j > i => cd.pending[j].sector = Blank
       => cd.sectorBuffer = cd.pending[i].sector
  /\ /\ cd.flag.sector # Blank
     /\ \A i \in DOMAIN cd.pending : cd.pending[i].sector = Blank
     => cd.sectorBuffer = cd.flag.sector

\* A second response keeps all of its delay until it is the first in the queue.
SecondsWait(cd, since) ==
  \A i \in DOMAIN cd.pending :
    cd.pending[i].kind = 2 =>
      IF i = 1 THEN cd.pending[1].delay + since >= SecondDelay
               ELSE cd.pending[i].delay = SecondDelay

LEMMA QueueTypes ==
  ASSUME NEW n \in Nat, NEW cd \in DriveState(n)
  PROVE  /\ cd.pending \in Seq(Resp(n)) /\ Len(cd.pending) \in Nat
         /\ DOMAIN cd.pending = 1..Len(cd.pending)
         /\ cd.count \in Nat /\ cd.run \in Nat /\ cd.halted \in Nat
         /\ \A i \in DOMAIN cd.pending : cd.pending[i].of \in Nat /\ cd.pending[i].delay \in Nat
<1>1. cd.pending \in Seq(Resp(n)) /\ cd.count \in Nat /\ cd.run \in Nat /\ cd.halted \in Nat
  BY DEF DriveState
<1>2. /\ Len(cd.pending) \in Nat /\ DOMAIN cd.pending = 1..Len(cd.pending)
      /\ \A i \in DOMAIN cd.pending : cd.pending[i] \in Resp(n)
  BY <1>1, QueueDomain
<1>3. \A r \in Resp(n) : r.of \in Nat /\ r.delay \in Nat
  BY DEF Resp
<1> QED BY <1>1, <1>2, <1>3

LEMMA SpinKeepsRuns ==
  ASSUME NEW n \in Nat, NEW cd \in DriveState(n), NEW e, SpinStep(n, cd, e),
         RunsInOrder(cd), ReportsInRun(cd)
  PROVE  RunsInOrder(e) /\ ReportsInRun(e)
<1> DEFINE p == cd.pending
           q == e.pending
<1>1. /\ e.count = cd.count /\ e.run = cd.run /\ e.halted = cd.halted
      /\ e.reading \/ e.playing => cd.reading \/ cd.playing
  BY DEF SpinStep, SpinFrame
<1>2. /\ Len(p) \in Nat /\ DOMAIN p = 1..Len(p)
      /\ cd.count \in Nat /\ cd.run \in Nat /\ cd.halted \in Nat
      /\ \A i \in DOMAIN p : p[i].of \in Nat
  BY QueueTypes
<1>3. CASE q = p
  BY <1>1, <1>3 DEF RunsInOrder, ReportsInRun
<1>4. ASSUME cd.reading \/ cd.playing, NEW r \in Resp(n), IsSectorOf(n, cd, r),
             q = Append(p, r)
      PROVE  RunsInOrder(e) /\ ReportsInRun(e)
  <2>1. Extends(p, q, r) /\ p \in Seq(Resp(n))
    BY <1>4, QueueTypes, AppendExtends
  <2>2. /\ DOMAIN q = 1..(Len(p) + 1) /\ \A i \in DOMAIN p : q[i] = p[i]
        /\ q[Len(p) + 1] = r
    BY <2>1 DEF Extends
  <2>3. r.of = cd.run /\ ~ r.halts /\ IsReport(r) /\ ~ IsAnswer(r)
    BY <1>4 DEF IsSectorOf, IsReport, IsAnswer
  <2> HIDE DEF p, q
  <2>4. cd.halted <= cd.run /\ \A i \in DOMAIN p : p[i].halts => p[i].of <= cd.run
    BY <1>4 DEF RunsInOrder, p
  <2>5. \A i \in DOMAIN q : i \in DOMAIN p \/ i = Len(p) + 1
    BY <1>2, <2>2
  <2>6. \A i \in DOMAIN q : q[i].of \in Nat /\ q[i].of <= cd.count
    BY <1>2, <2>2, <2>3, <2>5 DEF RunsInOrder, p
  <2>7. \A i \in DOMAIN q : q[i].halts => i \in DOMAIN p /\ q[i].of <= cd.run
    BY <2>2, <2>3, <2>4, <2>5
  <2>8. ASSUME NEW i \in DOMAIN q, NEW j \in DOMAIN q, i < j, q[i].halts, IsReport(q[j])
        PROVE  q[i].of <= q[j].of
    <3>1. CASE j \in DOMAIN p
      BY <1>2, <2>2, <2>7, <2>8, <3>1 DEF RunsInOrder, p
    <3>2. CASE j = Len(p) + 1
      BY <2>2, <2>3, <2>7, <2>8, <3>2
    <3> QED BY <2>5, <3>1, <3>2
  <2>9. \A i \in DOMAIN q : IsReport(q[i]) => ~ q[i].halts
    BY <2>2, <2>3, <2>5 DEF RunsInOrder, p
  <2>10. ASSUME NEW i \in DOMAIN q, IsReport(q[i])
         PROVE  /\ q[i].of >= cd.halted
                /\ \A j \in DOMAIN q : j > i /\ IsAnswer(q[j]) => q[j].of # q[i].of
    <3>1. CASE i \in DOMAIN p
      <4>1. q[i].of >= cd.halted
        BY <2>2, <2>10, <3>1 DEF ReportsInRun, p
      <4>2. ASSUME NEW j \in DOMAIN q, j > i, IsAnswer(q[j]) PROVE q[j].of # q[i].of
        <5>1. j \in DOMAIN p
          BY <2>2, <2>3, <2>5, <4>2
        <5> QED BY <2>2, <2>10, <3>1, <4>2, <5>1 DEF ReportsInRun, p
      <4> QED BY <4>1, <4>2
    <3>2. CASE i = Len(p) + 1
      BY <1>2, <2>2, <2>3, <2>4, <3>2
    <3> QED BY <2>5, <3>1, <3>2
  <2>11. RunsInOrder(e)
    BY <1>1, <2>6, <2>7, <2>8, <2>9, <2>4 DEF RunsInOrder, q
  <2>12. ReportsInRun(e)
    BY <1>1, <2>10 DEF ReportsInRun, q
  <2> QED BY <2>11, <2>12
<1> QED BY <1>3, <1>4 DEF SpinStep, SpinReport

LEMMA CountKeepsRuns ==
  ASSUME NEW n \in Nat, NEW cd \in DriveState(n), NEW e, CountStep(n, cd, e),
         RunsInOrder(cd), ReportsInRun(cd)
  PROVE  RunsInOrder(e) /\ ReportsInRun(e)
<1> DEFINE p == cd.pending
           q == e.pending
<1>1. /\ e.count = cd.count /\ e.run = cd.run /\ e.halted = cd.halted
      /\ e.reading = cd.reading /\ e.playing = cd.playing
  BY DEF CountStep, QueueFrame
<1>2. /\ DOMAIN q = DOMAIN p
      /\ \A i \in DOMAIN p : q[i].kind = p[i].kind /\ q[i].of = p[i].of /\ q[i].halts = p[i].halts
  BY DEF CountStep, SameQueue
<1>3. \A i \in DOMAIN p : (IsReport(q[i]) <=> IsReport(p[i])) /\ (IsAnswer(q[i]) <=> IsAnswer(p[i]))
  BY <1>2 DEF IsReport, IsAnswer
<1> HIDE DEF p, q
<1>4. RunsInOrder(e)
  BY <1>1, <1>2, <1>3, Zenon DEF RunsInOrder, p, q
<1>5. ReportsInRun(e)
  <2>1. ASSUME NEW i \in DOMAIN q, IsReport(q[i])
        PROVE  /\ q[i].of >= e.halted
               /\ \A j \in DOMAIN q : j > i /\ IsAnswer(q[j]) => q[j].of # q[i].of
    <3>1. IsReport(p[i]) /\ i \in DOMAIN p
      BY <1>2, <1>3, <2>1
    <3>2. p[i].of >= cd.halted
      BY <3>1 DEF ReportsInRun, p
    <3>3. ASSUME NEW j \in DOMAIN q, j > i, IsAnswer(q[j]) PROVE q[j].of # q[i].of
      <4>1. j \in DOMAIN p /\ IsAnswer(p[j])
        BY <1>2, <1>3, <3>3
      <4> QED BY <1>2, <3>1, <3>3, <4>1 DEF ReportsInRun, p
    <3> QED BY <1>1, <1>2, <3>1, <3>2, <3>3
  <2> QED BY <2>1 DEF ReportsInRun, q
<1> QED BY <1>4, <1>5

LEMMA LatchKeepsRuns ==
  ASSUME NEW n \in Nat, NEW cd \in DriveState(n), NEW e, LatchStep(n, cd, e),
         RunsInOrder(cd), ReportsInRun(cd)
  PROVE  RunsInOrder(e) /\ ReportsInRun(e)
<1> DEFINE p == cd.pending
           q == e.pending
<1>1. /\ e.count = cd.count /\ e.run = cd.run
      /\ e.reading = cd.reading /\ e.playing = cd.playing
      /\ e.halted = IF p[1].halts THEN p[1].of ELSE cd.halted
  BY DEF LatchStep
<1>2. /\ Len(p) \in Nat \ {0} /\ DOMAIN p = 1..Len(p) /\ DOMAIN q = 1..(Len(p) - 1)
      /\ \A i \in DOMAIN q : q[i] = p[i + 1]
  BY DEF LatchStep, Drops
<1>3. \A i \in DOMAIN q : i + 1 \in DOMAIN p /\ i \in Int
  BY <1>2
<1>4. 1 \in DOMAIN p /\ \A i \in DOMAIN p : p[i].of \in Nat
  BY <1>2, QueueTypes
<1> HIDE DEF p, q
<1>5. RunsInOrder(e)
  <2>1. e.run <= e.count /\ e.halted <= e.count
    BY <1>1, <1>4 DEF RunsInOrder, p
  <2>2. \A i \in DOMAIN q : q[i].of <= e.count /\ (IsReport(q[i]) => ~ q[i].halts)
    BY <1>1, <1>2, <1>3 DEF RunsInOrder, p
  <2>3. e.reading \/ e.playing =>
          e.halted <= e.run /\ \A i \in DOMAIN q : q[i].halts => q[i].of <= e.run
    BY <1>1, <1>2, <1>3, <1>4 DEF RunsInOrder, p
  <2>4. ASSUME NEW i \in DOMAIN q, NEW j \in DOMAIN q, i < j, q[i].halts, IsReport(q[j])
        PROVE  q[i].of <= q[j].of
    <3>1. i + 1 < j + 1 /\ p[i + 1].halts /\ IsReport(p[j + 1])
      BY <1>2, <1>3, <2>4
    <3>2. p[i + 1].of <= p[j + 1].of
      BY <1>3, <3>1 DEF RunsInOrder, p
    <3> QED BY <1>2, <3>2
  <2> QED BY <2>1, <2>2, <2>3, <2>4 DEF RunsInOrder, q
<1>6. ReportsInRun(e)
  <2>1. ASSUME NEW i \in DOMAIN q, IsReport(q[i])
        PROVE  /\ q[i].of >= e.halted
               /\ \A j \in DOMAIN q : j > i /\ IsAnswer(q[j]) => q[j].of # q[i].of
    <3>1. IsReport(p[i + 1]) /\ q[i] = p[i + 1] /\ i + 1 \in DOMAIN p /\ 1 < i + 1
      BY <1>2, <1>3, <2>1
    <3>2. p[i + 1].of >= cd.halted
      BY <3>1 DEF ReportsInRun, p
    <3>3. p[1].halts => p[1].of <= p[i + 1].of
      BY <1>4, <3>1 DEF RunsInOrder, p
    <3>4. q[i].of >= e.halted
      BY <1>1, <1>4, <3>1, <3>2, <3>3
    <3>5. ASSUME NEW j \in DOMAIN q, j > i, IsAnswer(q[j]) PROVE q[j].of # q[i].of
      <4>1. j + 1 \in DOMAIN p /\ j + 1 > i + 1 /\ q[j] = p[j + 1]
        BY <1>2, <1>3, <3>5
      <4> QED BY <3>1, <3>5, <4>1 DEF ReportsInRun, p
    <3> QED BY <3>4, <3>5
  <2> QED BY <2>1 DEF ReportsInRun, q
<1> QED BY <1>5, <1>6

LEMMA CommandKeepsRuns ==
  ASSUME NEW n \in Nat, NEW cd \in DriveState(n), NEW cmd, NEW e, CommandStep(n, cd, cmd, e),
         RunsInOrder(cd), ReportsInRun(cd)
  PROVE  RunsInOrder(e) /\ ReportsInRun(e)
<1> DEFINE p == cd.pending
           q == e.pending
           k == cd.count + 1
<1>1. /\ e.count = k /\ e.halted = cd.halted /\ e.run \in {cd.run, k}
      /\ e.reading \/ e.playing =>
           \/ e.run = k
           \/ e.run = cd.run /\ (cd.reading \/ cd.playing) /\ cmd.name \notin HaltingCommands
  BY DEF CommandStep
<1>2. PICK r \in Seq(Resp(n)) :
        AreAnswers(n, r, k, cmd.name \in HaltingCommands) /\ q = p \o r
  BY DEF CommandStep
<1>3. Joins(p, q, r)
  BY <1>2, QueueTypes, ConcatJoins
<1>4. /\ Len(p) \in Nat /\ DOMAIN p = 1..Len(p)
      /\ cd.count \in Nat /\ cd.run \in Nat /\ cd.halted \in Nat
      /\ \A i \in DOMAIN p : p[i].of \in Nat
  BY QueueTypes
<1>5. /\ DOMAIN q = 1..(Len(p) + Len(r)) /\ Len(r) \in Nat
      /\ \A i \in DOMAIN p : q[i] = p[i]
      /\ \A i \in DOMAIN q \ DOMAIN p : i - Len(p) \in DOMAIN r /\ q[i] = r[i - Len(p)]
  BY <1>3 DEF Joins
<1>6. \A i \in DOMAIN r : /\ IsAnswer(r[i]) /\ ~ IsReport(r[i]) /\ r[i].of = k
                          /\ (r[i].halts <=> cmd.name \in HaltingCommands)
  <2>1. \A i \in DOMAIN r : /\ IsAnswer(r[i]) /\ r[i].of = k
                            /\ r[i].halts = (cmd.name \in HaltingCommands)
    BY <1>2 DEF AreAnswers
  <2>2. \A i \in DOMAIN r : ~ IsReport(r[i])
    BY <2>1 DEF IsAnswer, IsReport
  <2> QED BY <2>1, <2>2, Zenon
<1> HIDE DEF p, q
<1>7. \A i \in DOMAIN q :
        \/ i \in DOMAIN p /\ q[i] = p[i] /\ q[i].of <= cd.count /\ q[i].of \in Nat
        \/ /\ i \notin DOMAIN p /\ IsAnswer(q[i]) /\ ~ IsReport(q[i]) /\ q[i].of = k
           /\ (q[i].halts <=> cmd.name \in HaltingCommands)
  BY <1>4, <1>5, <1>6 DEF RunsInOrder, p
<1>8. \A i \in DOMAIN q : \A j \in DOMAIN p : i < j => i \in DOMAIN p
  BY <1>4, <1>5
<1> HIDE DEF k
<1>9. k = cd.count + 1 /\ k \in Nat
  BY <1>4 DEF k
<1>10. RunsInOrder(e)
  <2>1. e.run <= e.count /\ e.halted <= e.count
    BY <1>1, <1>4, <1>9 DEF RunsInOrder
  <2>2. \A i \in DOMAIN q : q[i].of <= e.count
    BY <1>1, <1>4, <1>7, <1>9
  <2>3. ASSUME e.reading \/ e.playing
        PROVE  e.halted <= e.run /\ \A i \in DOMAIN q : q[i].halts => q[i].of <= e.run
    <3>1. CASE e.run = k
      BY <1>1, <2>1, <2>2, <3>1
    <3>2. CASE e.run = cd.run /\ (cd.reading \/ cd.playing) /\ cmd.name \notin HaltingCommands
      <4>1. cd.halted <= cd.run /\ \A i \in DOMAIN p : p[i].halts => p[i].of <= cd.run
        BY <3>2 DEF RunsInOrder, p
      <4> QED BY <1>1, <1>7, <3>2, <4>1
    <3> QED BY <1>1, <2>3, <3>1, <3>2
  <2>4. ASSUME NEW i \in DOMAIN q, NEW j \in DOMAIN q, i < j, q[i].halts, IsReport(q[j])
        PROVE  q[i].of <= q[j].of
    <3>1. j \in DOMAIN p /\ q[j] = p[j]
      BY <1>7, <2>4
    <3>2. i \in DOMAIN p /\ q[i] = p[i]
      BY <1>5, <1>8, <2>4, <3>1
    <3> QED BY <2>4, <3>1, <3>2 DEF RunsInOrder, p
  <2>5. \A i \in DOMAIN q : IsReport(q[i]) => ~ q[i].halts
    BY <1>7 DEF RunsInOrder, p
  <2> QED BY <2>1, <2>2, <2>3, <2>4, <2>5 DEF RunsInOrder, q
<1>11. ReportsInRun(e)
  <2>1. ASSUME NEW i \in DOMAIN q, IsReport(q[i])
        PROVE  /\ q[i].of >= e.halted
               /\ \A j \in DOMAIN q : j > i /\ IsAnswer(q[j]) => q[j].of # q[i].of
    <3>1. i \in DOMAIN p /\ q[i] = p[i] /\ q[i].of <= cd.count /\ q[i].of \in Nat
      BY <1>7, <2>1
    <3>2. q[i].of >= e.halted
      BY <1>1, <2>1, <3>1 DEF ReportsInRun, p
    <3>3. ASSUME NEW j \in DOMAIN q, j > i, IsAnswer(q[j]) PROVE q[j].of # q[i].of
      <4>1. CASE j \in DOMAIN p /\ q[j] = p[j]
        BY <2>1, <3>1, <3>3, <4>1 DEF ReportsInRun, p
      <4>2. CASE q[j].of = k
        BY <1>4, <1>9, <3>1, <4>2
      <4> QED BY <1>7, <4>1, <4>2
    <3> QED BY <3>2, <3>3
  <2> QED BY <2>1 DEF ReportsInRun, q
<1> QED BY <1>10, <1>11

(***************************************************************************)
(* The answer owed and the buffered sector.                                *)
(***************************************************************************)
LEMMA SpinKeepsQueue ==
  ASSUME NEW n \in Nat, NEW cd \in DriveState(n), NEW e, SpinStep(n, cd, e),
         AnswerOwed(cd), NewestIsBuffered(cd)
  PROVE  AnswerOwed(e) /\ NewestIsBuffered(e)
<1> DEFINE p == cd.pending
           q == e.pending
<1>1. e.count = cd.count /\ e.busy = cd.busy /\ e.flag = cd.flag
  BY DEF SpinStep, SpinFrame
<1>2. CASE q = p /\ e.sectorBuffer = cd.sectorBuffer
  BY <1>1, <1>2 DEF AnswerOwed, NewestIsBuffered
<1>3. ASSUME NEW r \in Resp(n), IsSectorOf(n, cd, r), q = Append(p, r),
             e.sectorBuffer = IF r.sector = Blank THEN cd.sectorBuffer ELSE r.sector
      PROVE  AnswerOwed(e) /\ NewestIsBuffered(e)
  <2>1. Extends(p, q, r)
    BY <1>3, QueueTypes, AppendExtends
  <2>2. /\ Len(p) \in Nat /\ DOMAIN p = 1..Len(p) /\ DOMAIN q = 1..(Len(p) + 1)
        /\ \A i \in DOMAIN p : i \in DOMAIN q /\ q[i] = p[i]
        /\ q[Len(p) + 1] = r /\ Len(p) + 1 \in DOMAIN q
        /\ \A i \in DOMAIN q : i = Len(p) + 1 \/ (i \in DOMAIN p /\ Len(p) + 1 > i)
    BY <2>1 DEF Extends
  <2> HIDE DEF p, q
  <2>3. AnswerOwed(e)
    BY <1>1, <2>2 DEF AnswerOwed, p, q
  <2>4. ASSUME NEW i \in DOMAIN q, q[i].sector # Blank,
               \A j \in DOMAIN q : j > i => q[j].sector = Blank
        PROVE  e.sectorBuffer = q[i].sector
    <3>1. CASE i = Len(p) + 1
      BY <1>3, <2>2, <2>4, <3>1
    <3>2. CASE i \in DOMAIN p /\ Len(p) + 1 > i
      <4>1. r.sector = Blank
        BY <2>2, <2>4, <3>2
      <4>2. p[i].sector # Blank /\ \A j \in DOMAIN p : j > i => p[j].sector = Blank
        BY <2>2, <2>4, <3>2
      <4>3. cd.sectorBuffer = p[i].sector
        BY <3>2, <4>2 DEF NewestIsBuffered, p
      <4> QED BY <1>3, <2>2, <3>2, <4>1, <4>3
    <3> QED BY <2>2, <3>1, <3>2
  <2>5. ASSUME e.flag.sector # Blank, \A i \in DOMAIN q : q[i].sector = Blank
        PROVE  e.sectorBuffer = e.flag.sector
    <3>1. r.sector = Blank /\ \A i \in DOMAIN p : p[i].sector = Blank
      BY <2>2, <2>5
    <3> QED BY <1>1, <1>3, <2>5, <3>1 DEF NewestIsBuffered, p
  <2> QED BY <2>3, <2>4, <2>5 DEF NewestIsBuffered, q
<1> QED BY <1>2, <1>3 DEF SpinStep, SpinReport

LEMMA CountKeepsQueue ==
  ASSUME NEW n \in Nat, NEW cd \in DriveState(n), NEW e, CountStep(n, cd, e),
         AnswerOwed(cd), NewestIsBuffered(cd)
  PROVE  AnswerOwed(e) /\ NewestIsBuffered(e)
<1> DEFINE p == cd.pending
           q == e.pending
<1>1. /\ e.count = cd.count /\ e.busy = cd.busy /\ e.flag = cd.flag
      /\ e.sectorBuffer = cd.sectorBuffer
  BY DEF CountStep, QueueFrame
<1>2. /\ DOMAIN q = DOMAIN p
      /\ \A i \in DOMAIN p : q[i].kind = p[i].kind /\ q[i].of = p[i].of /\ q[i].sector = p[i].sector
  BY DEF CountStep, SameQueue
<1>3. \A i \in DOMAIN p : IsAnswer(q[i]) <=> IsAnswer(p[i])
  BY <1>2 DEF IsAnswer
<1> HIDE DEF p, q
<1>4. AnswerOwed(e)
  BY <1>1, <1>2, <1>3 DEF AnswerOwed, p, q
<1>5. NewestIsBuffered(e)
  BY <1>1, <1>2 DEF NewestIsBuffered, p, q
<1> QED BY <1>4, <1>5

LEMMA LatchKeepsQueue ==
  ASSUME NEW n \in Nat, NEW cd \in DriveState(n), NEW e, LatchStep(n, cd, e),
         NewestIsBuffered(cd)
  PROVE  AnswerOwed(e) /\ NewestIsBuffered(e)
<1> DEFINE p == cd.pending
           q == e.pending
<1>1. ~ e.busy /\ e.sectorBuffer = cd.sectorBuffer /\ e.flag = p[1]
  BY DEF LatchStep
<1>2. /\ Len(p) \in Nat \ {0} /\ DOMAIN p = 1..Len(p) /\ DOMAIN q = 1..(Len(p) - 1)
      /\ \A i \in DOMAIN q : q[i] = p[i + 1]
  BY DEF LatchStep, Drops
<1>3. /\ \A i \in DOMAIN q : i + 1 \in DOMAIN p /\ i \in Int
      /\ \A i \in DOMAIN p : i # 1 => i - 1 \in DOMAIN q /\ p[i] = q[i - 1]
      /\ \A i \in DOMAIN p : i \in Int /\ i >= 1
  BY <1>2
<1> HIDE DEF p, q
<1>4. AnswerOwed(e)
  BY <1>1 DEF AnswerOwed
<1>5. ASSUME NEW i \in DOMAIN q, q[i].sector # Blank,
             \A j \in DOMAIN q : j > i => q[j].sector = Blank
      PROVE  e.sectorBuffer = q[i].sector
  <2>1. i + 1 \in DOMAIN p /\ p[i + 1] = q[i]
    BY <1>2, <1>3
  <2>2. ASSUME NEW j \in DOMAIN p, j > i + 1 PROVE p[j].sector = Blank
    <3>1. j - 1 \in DOMAIN q /\ p[j] = q[j - 1] /\ j - 1 > i
      BY <1>2, <1>3, <2>2
    <3> QED BY <1>5, <3>1
  <2> QED BY <1>1, <1>5, <2>1, <2>2 DEF NewestIsBuffered, p
<1>6. ASSUME e.flag.sector # Blank, \A i \in DOMAIN q : q[i].sector = Blank
      PROVE  e.sectorBuffer = e.flag.sector
  <2>1. 1 \in DOMAIN p
    BY <1>2
  <2>2. ASSUME NEW j \in DOMAIN p, j > 1 PROVE p[j].sector = Blank
    BY <1>3, <1>6, <2>2
  <2> QED BY <1>1, <1>6, <2>1, <2>2 DEF NewestIsBuffered, p
<1> QED BY <1>4, <1>5, <1>6 DEF NewestIsBuffered, q

LEMMA CommandKeepsQueue ==
  ASSUME NEW n \in Nat, NEW cd \in DriveState(n), NEW cmd, NEW e, CommandStep(n, cd, cmd, e),
         NewestIsBuffered(cd)
  PROVE  AnswerOwed(e) /\ NewestIsBuffered(e)
<1> DEFINE p == cd.pending
           q == e.pending
           k == cd.count + 1
<1>1. e.count = k /\ e.flag = cd.flag /\ e.sectorBuffer = cd.sectorBuffer
  BY DEF CommandStep
<1>2. PICK r \in Seq(Resp(n)) :
        AreAnswers(n, r, k, cmd.name \in HaltingCommands) /\ q = p \o r
  BY DEF CommandStep
<1>3. Joins(p, q, r)
  BY <1>2, QueueTypes, ConcatJoins
<1>4. 1 \in DOMAIN r /\ \A i \in DOMAIN r : IsAnswer(r[i]) /\ r[i].of = k /\ r[i].sector = Blank
  BY <1>2 DEF AreAnswers
<1> HIDE DEF p, q, k
<1>5. /\ Len(p) + 1 \in DOMAIN q /\ q[Len(p) + 1] = r[1]
      /\ \A i \in DOMAIN p : q[i] = p[i] /\ i \in DOMAIN q
      /\ \A i \in DOMAIN q \ DOMAIN p : q[i].sector = Blank
  BY <1>3, <1>4 DEF Joins
<1>6. AnswerOwed(e)
  <2>1. IsAnswer(q[Len(p) + 1]) /\ q[Len(p) + 1].of = e.count
    BY <1>1, <1>4, <1>5
  <2> QED BY <1>5, <2>1 DEF AnswerOwed, q
<1>7. NewestIsBuffered(e)
  <2>1. ASSUME NEW i \in DOMAIN q, q[i].sector # Blank,
               \A j \in DOMAIN q : j > i => q[j].sector = Blank
        PROVE  e.sectorBuffer = q[i].sector
    <3>1. i \in DOMAIN p /\ q[i] = p[i]
      BY <1>5, <2>1
    <3>2. \A j \in DOMAIN p : j > i => p[j].sector = Blank
      BY <1>5, <2>1
    <3> QED BY <1>1, <2>1, <3>1, <3>2 DEF NewestIsBuffered, p
  <2>2. ASSUME e.flag.sector # Blank, \A i \in DOMAIN q : q[i].sector = Blank
        PROVE  e.sectorBuffer = e.flag.sector
    <3>1. \A i \in DOMAIN p : p[i].sector = Blank
      BY <1>5, <2>2
    <3> QED BY <1>1, <2>2, <3>1 DEF NewestIsBuffered, p
  <2> QED BY <2>1, <2>2 DEF NewestIsBuffered, q
<1> QED BY <1>6, <1>7

(***************************************************************************)
(* Second responses.                                                       *)
(***************************************************************************)
LEMMA SpinKeepsSeconds ==
  ASSUME NEW n \in Nat, NEW cd \in DriveState(n), NEW e, SpinStep(n, cd, e), NEW since,
         SecondsWait(cd, since)
  PROVE  SecondsWait(e, since)
<1> DEFINE p == cd.pending
           q == e.pending
<1>1. CASE q = p
  BY <1>1 DEF SecondsWait
<1>2. ASSUME NEW r \in Resp(n), IsSectorOf(n, cd, r), q = Append(p, r)
      PROVE  SecondsWait(e, since)
  <2>1. Extends(p, q, r) /\ r.kind # 2
    BY <1>2, QueueTypes, AppendExtends DEF IsSectorOf, IsReport
  <2>2. \A i \in DOMAIN q : q[i].kind = 2 => i \in DOMAIN p /\ q[i] = p[i]
    BY <2>1 DEF Extends
  <2>3. 1 \in DOMAIN p => q[1] = p[1]
    BY <2>1 DEF Extends
  <2> HIDE DEF p, q
  <2> QED BY <2>2, <2>3 DEF SecondsWait, p, q
<1> QED BY <1>1, <1>2 DEF SpinStep, SpinReport

LEMMA CommandKeepsSeconds ==
  ASSUME NEW n \in Nat, NEW cd \in DriveState(n), NEW cmd, NEW e, CommandStep(n, cd, cmd, e),
         NEW since, SecondsWait(cd, since)
  PROVE  SecondsWait(e, since)
<1> DEFINE p == cd.pending
           q == e.pending
<1>1. PICK r \in Seq(Resp(n)) :
        AreAnswers(n, r, cd.count + 1, cmd.name \in HaltingCommands) /\ q = p \o r
  BY DEF CommandStep
<1>2. Joins(p, q, r)
  BY <1>1, QueueTypes, ConcatJoins
<1>3. \A i \in DOMAIN r : r[i].kind = 2 => i # 1 /\ r[i].delay = SecondDelay
  BY <1>1 DEF AreAnswers
<1>4. \A i \in DOMAIN q \ DOMAIN p : q[i].kind = 2 => i # 1 /\ q[i].delay = SecondDelay
  BY <1>2, <1>3 DEF Joins
<1>5. \A i \in DOMAIN p : q[i] = p[i] /\ i \in DOMAIN q
  BY <1>2 DEF Joins
<1> HIDE DEF p, q
<1> QED BY <1>4, <1>5 DEF SecondsWait, p, q

\* A cycle without a latch: what the first response loses, the time since the
\* last latch gains.
LEMMA CountKeepsSeconds ==
  ASSUME NEW n \in Nat, NEW cd \in DriveState(n), NEW e, CountStep(n, cd, e),
         NEW since \in Nat, SecondsWait(cd, since), NEW later \in Nat,
         later = since + 1 \/ (later = since /\ since >= SecondDelay)
  PROVE  SecondsWait(e, later)
<1> DEFINE p == cd.pending
           q == e.pending
<1>1. /\ DOMAIN q = DOMAIN p
      /\ \A i \in DOMAIN p :
           /\ q[i].kind = p[i].kind /\ (i # 1 => q[i].delay = p[i].delay)
           /\ i = 1 => q[1].delay = IF p[1].delay > 0 THEN p[1].delay - 1 ELSE p[1].delay
  BY DEF CountStep, SameQueue
<1>2. \A i \in DOMAIN p : p[i].delay \in Nat
  BY QueueTypes
<1>3. SecondDelay \in Nat
  BY DriveAssumption
<1> HIDE DEF p, q
<1>4. ASSUME NEW i \in DOMAIN q, q[i].kind = 2
      PROVE  IF i = 1 THEN q[1].delay + later >= SecondDelay ELSE q[i].delay = SecondDelay
  <2>1. IF i = 1 THEN p[1].delay + since >= SecondDelay ELSE p[i].delay = SecondDelay
    BY <1>1, <1>4 DEF SecondsWait, p
  <2> QED BY <1>1, <1>2, <1>3, <2>1
<1> QED BY <1>4 DEF SecondsWait, q

\* After a latch the clock starts again.
LEMMA LatchKeepsSeconds ==
  ASSUME NEW n \in Nat, NEW cd \in DriveState(n), NEW e, LatchStep(n, cd, e),
         NEW since, SecondsWait(cd, since)
  PROVE  SecondsWait(e, 0)
<1> DEFINE p == cd.pending
           q == e.pending
<1>1. \A i \in DOMAIN q : i \in Int /\ i + 1 \in DOMAIN p /\ i + 1 # 1 /\ q[i] = p[i + 1]
  BY DEF LatchStep, Drops
<1>2. SecondDelay \in Nat
  BY DriveAssumption
<1> HIDE DEF p, q
<1>3. ASSUME NEW i \in DOMAIN q, q[i].kind = 2 PROVE q[i].delay = SecondDelay
  BY <1>1, <1>3 DEF SecondsWait, p
<1> QED BY <1>2, <1>3 DEF SecondsWait, q

(***************************************************************************)
(* A whole cycle.                                                          *)
(***************************************************************************)
LEMMA TickFields ==
  ASSUME NEW n \in Nat, NEW cd \in DriveState(n), Cadence(cd)
  PROVE  LET s == Spun(cd)
             c == CountedDown(Spun(cd))
         IN /\ SpinStep(n, cd, s) /\ CountStep(n, s, c)
            /\ Latches(cd) => /\ c.pending # <<>> /\ c.pending[1].delay = 0
                              /\ LatchStep(n, c, TickOne(cd))
            /\ ~ Latches(cd) => TickOne(cd) = c
<1> DEFINE s == Spun(cd)
           c == CountedDown(s)
<1>1. SpinStep(n, cd, s)
  BY SpunIsSpinStep DEF Cadence
<1>2. s \in DriveState(n)
  BY <1>1 DEF SpinStep
<1> HIDE DEF s
<1>3. CountStep(n, s, c)
  BY <1>2, CountedDownFields
<1>4. c \in DriveState(n)
  BY <1>3 DEF CountStep
<1> HIDE DEF c
<1>5. ASSUME Latches(cd)
      PROVE  c.pending # <<>> /\ c.pending[1].delay = 0 /\ LatchStep(n, c, TickOne(cd))
  <2>1. c.pending # <<>> /\ Head(c.pending).delay = 0
    BY <1>5 DEF Latches, Ready, s, c
  <2>2. Head(c.pending) = c.pending[1]
    BY <1>4, <2>1, QueueTypes, TailDrops
  <2>3. TickOne(cd) = LatchResponse(c)
    BY <1>5 DEF TickOne, s, c
  <2> QED BY <1>4, <2>1, <2>2, <2>3, LatchFields
<1>6. ~ Latches(cd) => TickOne(cd) = c
  BY DEF TickOne, s, c
<1> QED BY <1>1, <1>3, <1>5, <1>6 DEF s, c

LEMMA IdleStill ==
  ASSUME NEW cd, Idle(cd)
  PROVE  TickOne(cd) = cd /\ ~ Latches(cd)
<1>1. Spun(cd) = cd
  BY DEF Idle, Spun
<1>2. CountedDown(cd) = cd
  BY DEF Idle, CountedDown
<1>3. ~ Latches(cd)
  BY <1>1, <1>2 DEF Idle, Latches, Ready
<1> QED BY <1>1, <1>2, <1>3 DEF TickOne

\* The drive's share of the invariant.
DriveInv(n, cd) ==
  /\ cd \in DriveState(n) /\ Cadence(cd)
  /\ RunsInOrder(cd) /\ ReportsInRun(cd) /\ AnswerOwed(cd) /\ NewestIsBuffered(cd)

LEMMA TickKeepsDrive ==
  ASSUME NEW n \in Nat, NEW cd, DriveInv(n, cd)
  PROVE  DriveInv(n, TickOne(cd))
<1> DEFINE s == Spun(cd)
           c == CountedDown(s)
           e == TickOne(cd)
<1>1. /\ cd \in DriveState(n) /\ Cadence(cd) /\ RunsInOrder(cd) /\ ReportsInRun(cd)
      /\ AnswerOwed(cd) /\ NewestIsBuffered(cd)
  BY DEF DriveInv
<1>2. /\ SpinStep(n, cd, s) /\ CountStep(n, s, c)
      /\ Latches(cd) => LatchStep(n, c, e)
      /\ ~ Latches(cd) => e = c
  BY <1>1, TickFields
<1> HIDE DEF s, c, e
<1>3. s \in DriveState(n) /\ c \in DriveState(n)
  BY <1>2 DEF SpinStep, CountStep
<1>4. Cadence(s)
  BY <1>1, <1>2 DEF SpinStep, SpinFrame, Cadence
<1>5. RunsInOrder(s) /\ ReportsInRun(s) /\ AnswerOwed(s) /\ NewestIsBuffered(s)
  BY <1>1, <1>2, SpinKeepsRuns, SpinKeepsQueue
<1>6. Cadence(c)
  BY <1>2, <1>4 DEF CountStep, QueueFrame, Cadence
<1>7. RunsInOrder(c) /\ ReportsInRun(c) /\ AnswerOwed(c) /\ NewestIsBuffered(c)
  BY <1>2, <1>3, <1>5, CountKeepsRuns, CountKeepsQueue
<1>8. CASE Latches(cd)
  <2>1. LatchStep(n, c, e)
    BY <1>2, <1>8
  <2>2. e \in DriveState(n) /\ Cadence(e)
    BY <1>6, <2>1 DEF LatchStep, Cadence
  <2>3. RunsInOrder(e) /\ ReportsInRun(e) /\ AnswerOwed(e) /\ NewestIsBuffered(e)
    BY <1>3, <1>7, <2>1, LatchKeepsRuns, LatchKeepsQueue
  <2> QED BY <2>2, <2>3 DEF DriveInv, e
<1>9. CASE ~ Latches(cd)
  BY <1>2, <1>3, <1>6, <1>7, <1>9 DEF DriveInv, e
<1> QED BY <1>8, <1>9

LEMMA CommandKeepsDrive ==
  ASSUME NEW n \in Nat, NEW cd, DriveInv(n, cd), NEW cmd, WellArgued(cmd), cd.count < n
  PROVE  DriveInv(n, RunCommand(cd, cmd))
<1> DEFINE e == RunCommand(cd, cmd)
<1>1. /\ cd \in DriveState(n) /\ Cadence(cd) /\ RunsInOrder(cd) /\ ReportsInRun(cd)
      /\ NewestIsBuffered(cd)
  BY DEF DriveInv
<1>2. CommandStep(n, cd, cmd, e)
  BY <1>1, RunCommandFields
<1> HIDE DEF e
<1>3. e \in DriveState(n) /\ Cadence(e)
  BY <1>2 DEF CommandStep
<1>4. RunsInOrder(e) /\ ReportsInRun(e) /\ AnswerOwed(e) /\ NewestIsBuffered(e)
  BY <1>1, <1>2, CommandKeepsRuns, CommandKeepsQueue
<1> QED BY <1>3, <1>4 DEF DriveInv, e

\* A register access that leaves the queue, the run and the buffer alone.
LEMMA RegisterKeepsDrive ==
  ASSUME NEW n \in Nat, NEW cd, DriveInv(n, cd), NEW e \in DriveState(n),
         e.pending = cd.pending, e.sectorBuffer = cd.sectorBuffer, e.busy = cd.busy,
         e.count = cd.count, e.run = cd.run, e.halted = cd.halted, e.readTimer = cd.readTimer,
         e.flag = cd.flag \/ e.flag = NoResp,
         e.reading => cd.reading, e.playing => cd.playing
  PROVE  DriveInv(n, e)
<1>1. /\ Cadence(cd) /\ RunsInOrder(cd) /\ ReportsInRun(cd)
      /\ AnswerOwed(cd) /\ NewestIsBuffered(cd)
  BY DEF DriveInv
<1>2. Cadence(e)
  BY <1>1 DEF Cadence
<1>3. RunsInOrder(e)
  BY <1>1, Zenon DEF RunsInOrder
<1>4. ReportsInRun(e) /\ AnswerOwed(e)
  <2>1. ReportsInRun(e)
    BY <1>1 DEF ReportsInRun
  <2>2. AnswerOwed(e)
    BY <1>1 DEF AnswerOwed
  <2> QED BY <2>1, <2>2
<1>5. NoResp.sector = Blank
  BY DEF NoResp
<1>6. NewestIsBuffered(e)
  BY <1>1, <1>5 DEF NewestIsBuffered
<1> QED BY <1>2, <1>3, <1>4, <1>6 DEF DriveInv

(***************************************************************************)
(* The estimate.                                                           *)
(***************************************************************************)
\* No response and no sector comes before the promise has run out.
PromiseKept(cd, left) ==
  IF left = NoEvent THEN Idle(cd)
  ELSE /\ cd.reading => left <= cd.readTimer
       /\ cd.playing => left = 1
       /\ cd.pending # <<>> => left = 1 \/ left <= cd.pending[1].delay

Promises == (Nat \ {0}) \cup {NoEvent}

LEMMA FreshPromise ==
  ASSUME NEW n \in Nat, NEW cd \in DriveState(n), Cadence(cd)
  PROVE  /\ CyclesToNextEvent(cd) \in Promises
         /\ PromiseKept(cd, CyclesToNextEvent(cd))
<1> DEFINE d == Head(cd.pending).delay
           t == cd.readTimer
           waits == (IF cd.reading THEN {t} ELSE {})
                      \cup (IF cd.pending # <<>> THEN {d} ELSE {})
           first == CHOOSE w \in waits : \A x \in waits : w <= x
           left == CyclesToNextEvent(cd)
<1>1. cd.pending # <<>> => d \in Nat /\ d = cd.pending[1].delay
  <2>1. ASSUME cd.pending # <<>>
        PROVE  Head(cd.pending) = cd.pending[1] /\ 1 \in DOMAIN cd.pending
    BY <2>1, QueueTypes, TailDrops
  <2> QED BY <2>1, QueueTypes
<1>2. t \in Nat /\ (cd.reading \/ cd.playing => t > 0) /\ cd.reading \in BOOLEAN
  BY DEF DriveState, Cadence
<1>3. CASE Idle(cd)
  <2>1. left = NoEvent
    BY <1>3 DEF CyclesToNextEvent
  <2> QED BY <1>3, <2>1 DEF Promises, PromiseKept
<1>4. CASE ~ Idle(cd) /\ CdAudioActive(cd)
  <2>1. left = 1
    BY <1>4 DEF CyclesToNextEvent
  <2> QED BY <1>2, <2>1 DEF Promises, PromiseKept, NoEvent
<1>5. CASE ~ Idle(cd) /\ ~ CdAudioActive(cd)
  <2>1. left = IF first > 1 THEN first ELSE 1
    BY <1>5 DEF CyclesToNextEvent
  <2>2. ~ cd.playing /\ (cd.reading \/ cd.pending # <<>>)
    BY <1>5 DEF CdAudioActive, Idle
  <2>3. /\ \A w \in waits : w \in Nat
        /\ cd.reading => t \in waits
        /\ cd.pending # <<>> => d \in waits
        /\ waits # {}
    BY <1>1, <1>2, <2>2
  <2>4. \E w \in waits : \A x \in waits : w <= x
    <3> HIDE DEF d, t
    <3>1. CASE cd.reading /\ cd.pending # <<>>
      <4>1. waits = {t, d} /\ t \in Nat /\ d \in Nat
        BY <2>3, <3>1
      <4> QED BY <4>1
    <3>2. CASE ~ (cd.reading /\ cd.pending # <<>>)
      <4>1. \E w \in waits : waits = {w} /\ w \in Nat
        BY <2>2, <2>3, <3>2
      <4> QED BY <4>1
    <3> QED BY <3>1, <3>2
  <2> HIDE DEF waits
  <2>5. first \in waits /\ \A x \in waits : first <= x
    BY <2>4
  <2> HIDE DEF first, left, d, t
  <2>6. first \in Nat /\ (cd.reading => first <= t) /\ (cd.pending # <<>> => first <= d)
    BY <2>3, <2>5
  <2>7. left \in Nat \ {0} /\ left # NoEvent
    BY <2>1, <2>6 DEF NoEvent
  <2>8. cd.reading => left <= t
    BY <1>2, <2>1, <2>6 DEF t
  <2>9. cd.pending # <<>> => left = 1 \/ left <= d
    BY <2>1, <2>6
  <2> QED BY <1>1, <2>2, <2>7, <2>8, <2>9 DEF Promises, PromiseKept, left, t
<1> QED BY <1>3, <1>4, <1>5

\* A promise of more than one cycle: the cycle latches nothing.
LEMMA LongPromise ==
  ASSUME NEW n \in Nat, NEW cd \in DriveState(n), Cadence(cd), NEW left \in Nat, left > 1,
         PromiseKept(cd, left)
  PROVE  ~ Latches(cd) /\ PromiseKept(TickOne(cd), left - 1)
<1> DEFINE s == Spun(cd)
           c == CountedDown(s)
           e == TickOne(cd)
<1>1. /\ SpinStep(n, cd, s) /\ CountStep(n, s, c)
      /\ Latches(cd) => c.pending # <<>> /\ c.pending[1].delay = 0
      /\ ~ Latches(cd) => e = c
  BY TickFields
<1> HIDE DEF s, c, e
<1>2. /\ cd.reading => left <= cd.readTimer
      /\ ~ cd.playing
      /\ cd.pending # <<>> => left <= cd.pending[1].delay
      /\ cd.readTimer \in Nat
  BY DEF PromiseKept, NoEvent, DriveState
<1>3. /\ s.pending = cd.pending /\ ~ s.playing /\ s.reading = cd.reading
      /\ cd.reading => s.readTimer = cd.readTimer - 1
  <2>1. CASE cd.reading
    <3>1. ~ SectorDue(cd)
      BY <1>2, <2>1 DEF SectorDue
    <3> QED BY <1>1, <1>2, <2>1, <3>1 DEF SpinStep, SpinWait, SpinFrame
  <2>2. CASE ~ cd.reading
    BY <1>1, <1>2, <2>2 DEF SpinStep
  <2> QED BY <2>1, <2>2
<1>4. /\ ~ c.playing /\ c.reading = cd.reading /\ (cd.reading => c.readTimer = cd.readTimer - 1)
      /\ SameQueue(cd.pending, c.pending) /\ c \in DriveState(n)
  BY <1>1, <1>3 DEF CountStep, QueueFrame
<1>5. c.pending # <<>> => /\ c.pending[1].delay = cd.pending[1].delay - 1
                          /\ left <= cd.pending[1].delay /\ cd.pending[1].delay \in Nat
  <2>1. ASSUME c.pending # <<>>
        PROVE  1 \in DOMAIN cd.pending /\ cd.pending # <<>>
    <3>1. Len(c.pending) # 0 /\ Len(c.pending) \in Nat
      BY <1>4, <2>1, QueueTypes, QueueDomain
    <3>2. Len(cd.pending) \in Nat \ {0} /\ DOMAIN cd.pending = 1..Len(cd.pending)
      BY <1>4, <3>1 DEF SameQueue
    <3> QED BY <3>2, QueueTypes, QueueDomain
  <2>2. \A i \in DOMAIN cd.pending : cd.pending[i].delay \in Nat
    BY QueueTypes
  <2>3. \A i \in DOMAIN cd.pending :
          i = 1 => c.pending[1].delay = IF cd.pending[1].delay > 0
                                        THEN cd.pending[1].delay - 1 ELSE cd.pending[1].delay
    BY <1>4 DEF SameQueue
  <2> QED BY <1>2, <2>1, <2>2, <2>3
<1>6. ~ Latches(cd)
  BY <1>1, <1>5
<1>7. /\ c.reading => left - 1 <= c.readTimer
      /\ c.pending # <<>> => left - 1 <= c.pending[1].delay
  BY <1>2, <1>4, <1>5
<1>8. left - 1 # NoEvent
  BY DEF NoEvent
<1>9. PromiseKept(c, left - 1)
  BY <1>4, <1>7, <1>8 DEF PromiseKept
<1> QED BY <1>1, <1>6, <1>9 DEF e

(***************************************************************************)
(* The invariant of the specification.                                     *)
(***************************************************************************)
CdromInv ==
  /\ DriveInv(MaxCommands, drive)
  /\ SecondsWait(drive, sinceLatch) /\ sinceLatch \in 0..SecondDelay
  /\ PromiseKept(drive, promise) /\ promise \in Promises
  /\ iStat \in BOOLEAN

LEMMA NewDriveType == NewDrive \in DriveState(MaxCommands)
<1>1. NoResp \in Resp(MaxCommands)
  BY DriveAssumption, AddressTypes DEF NoResp, Resp
<1>2. Mode0 \in Modes /\ 1 \in Tracks /\ <<>> \in Seq(Resp(MaxCommands))
  BY Mode0Type, DriveAssumption DEF Tracks
<1> QED
  BY <1>1, <1>2, DriveAssumption, AddressTypes DEF NewDrive, DriveState

LEMMA CdromInit == Init => CdromInv
<1> SUFFICES ASSUME Init PROVE CdromInv
  OBVIOUS
<1>1. drive = NewDrive /\ iStat = FALSE /\ promise = NoEvent /\ sinceLatch = SecondDelay
  BY DEF Init
<1>2. /\ drive.pending = <<>> /\ ~ drive.reading /\ ~ drive.playing /\ ~ drive.busy
      /\ drive.flag.sector = Blank /\ drive.run = 0 /\ drive.count = 0 /\ drive.halted = 0
  BY <1>1 DEF NewDrive, NoResp
<1>3. drive \in DriveState(MaxCommands)
  BY <1>1, NewDriveType
<1>4. DOMAIN drive.pending = {}
  BY <1>2
<1>5. DriveInv(MaxCommands, drive)
  <2>1. Cadence(drive) /\ AnswerOwed(drive) /\ ReportsInRun(drive)
    BY <1>2, <1>4 DEF Cadence, AnswerOwed, ReportsInRun
  <2>2. RunsInOrder(drive) /\ NewestIsBuffered(drive)
    BY <1>2, <1>4 DEF RunsInOrder, NewestIsBuffered
  <2> QED BY <1>3, <2>1, <2>2 DEF DriveInv
<1>6. SecondsWait(drive, sinceLatch) /\ sinceLatch \in 0..SecondDelay
  BY <1>1, <1>4, DriveAssumption DEF SecondsWait
<1>7. PromiseKept(drive, promise) /\ promise \in Promises
  BY <1>1, <1>2 DEF PromiseKept, Idle, Promises
<1> QED BY <1>1, <1>5, <1>6, <1>7 DEF CdromInv

LEMMA TickInv == CdromInv /\ Tick => CdromInv'
<1> SUFFICES ASSUME CdromInv, Tick PROVE CdromInv'
  OBVIOUS
<1> DEFINE s == Spun(drive)
           c == CountedDown(s)
           e == TickOne(drive)
<1>1. /\ DriveInv(MaxCommands, drive) /\ drive \in DriveState(MaxCommands) /\ Cadence(drive)
      /\ SecondsWait(drive, sinceLatch) /\ sinceLatch \in 0..SecondDelay
      /\ PromiseKept(drive, promise) /\ promise \in Promises /\ iStat \in BOOLEAN
      /\ MaxCommands \in Nat /\ SecondDelay \in Nat
  BY CdromAssumption, DriveAssumption DEF CdromInv, DriveInv
<1>2. /\ drive' = e /\ promise' = KeptPromise
      /\ sinceLatch' = IF Latches(drive) THEN 0
                       ELSE IF sinceLatch < SecondDelay THEN sinceLatch + 1 ELSE sinceLatch
  BY DEF Tick
<1>3. DriveInv(MaxCommands, e)
  BY <1>1, TickKeepsDrive
<1>4. SecondsWait(e, sinceLatch') /\ sinceLatch' \in 0..SecondDelay
  <2> DEFINE later == IF sinceLatch < SecondDelay THEN sinceLatch + 1 ELSE sinceLatch
  <2>1. /\ SpinStep(MaxCommands, drive, s) /\ CountStep(MaxCommands, s, c)
        /\ Latches(drive) => LatchStep(MaxCommands, c, e)
        /\ ~ Latches(drive) => e = c
    BY <1>1, TickFields
  <2> HIDE DEF s, c, e
  <2>2. s \in DriveState(MaxCommands) /\ c \in DriveState(MaxCommands)
    BY <2>1 DEF SpinStep, CountStep
  <2>3. SecondsWait(s, sinceLatch)
    BY <1>1, <2>1, SpinKeepsSeconds
  <2>4. /\ sinceLatch \in Nat /\ later \in 0..SecondDelay /\ later \in Nat
        /\ later = sinceLatch + 1 \/ (later = sinceLatch /\ sinceLatch >= SecondDelay)
    BY <1>1
  <2> HIDE DEF later
  <2>5. SecondsWait(c, later)
    BY <1>1, <2>1, <2>2, <2>3, <2>4, CountKeepsSeconds
  <2>6. CASE Latches(drive)
    <3>1. SecondsWait(e, 0)
      BY <1>1, <2>1, <2>2, <2>5, <2>6, LatchKeepsSeconds
    <3> QED BY <1>1, <1>2, <2>6, <3>1
  <2>7. CASE ~ Latches(drive)
    BY <1>2, <2>1, <2>4, <2>5, <2>7 DEF later
  <2> QED BY <2>6, <2>7
<1>5. PromiseKept(e, promise') /\ promise' \in Promises
  <2>1. e \in DriveState(MaxCommands) /\ Cadence(e)
    BY <1>3 DEF DriveInv
  <2>2. CASE promise = NoEvent
    <3>1. Idle(drive) /\ promise' = NoEvent
      BY <1>1, <1>2, <2>2 DEF PromiseKept, KeptPromise
    <3>2. e = drive
      BY <3>1, IdleStill
    <3> QED BY <3>1, <3>2 DEF PromiseKept, Promises
  <2>3. CASE promise # NoEvent /\ promise > 1
    <3>1. promise \in Nat /\ promise' = promise - 1
      BY <1>1, <1>2, <2>3 DEF KeptPromise, Promises
    <3>2. PromiseKept(e, promise - 1)
      BY <1>1, <2>3, <3>1, LongPromise
    <3> QED BY <2>3, <3>1, <3>2 DEF Promises
  <2>4. CASE promise # NoEvent /\ ~ promise > 1
    <3>1. promise' = CyclesToNextEvent(e)
      BY <1>2, <2>4 DEF KeptPromise
    <3> QED BY <1>1, <2>1, <3>1, FreshPromise
  <2> QED BY <2>2, <2>3, <2>4
<1>6. iStat' \in BOOLEAN
  BY DEF Tick
<1> QED BY <1>2, <1>3, <1>4, <1>5, <1>6 DEF CdromInv

\* An access: the scheduler estimates anew.
LEMMA AccessInv ==
  ASSUME CdromInv, NEW cd, Access(cd), DriveInv(MaxCommands, cd), SecondsWait(cd, sinceLatch)
  PROVE  CdromInv'
<1>1. drive' = cd /\ promise' = CyclesToNextEvent(cd) /\ iStat' = iStat /\ sinceLatch' = sinceLatch
  BY DEF Access
<1>2. cd \in DriveState(MaxCommands) /\ Cadence(cd) /\ MaxCommands \in Nat
  BY DriveAssumption DEF DriveInv
<1>3. PromiseKept(cd, CyclesToNextEvent(cd)) /\ CyclesToNextEvent(cd) \in Promises
  BY <1>2, FreshPromise
<1> QED BY <1>1, <1>3 DEF CdromInv

\* The disc changes hands behind the scheduler's back.
LEMMA SwapInv ==
  ASSUME CdromInv, NEW cd \in DriveState(MaxCommands), drive' = cd,
         UNCHANGED <<iStat, promise, sinceLatch>>,
         cd.pending = drive.pending, cd.sectorBuffer = drive.sectorBuffer,
         cd.busy = drive.busy, cd.count = drive.count, cd.run = drive.run,
         cd.halted = drive.halted, cd.readTimer = drive.readTimer, cd.flag = drive.flag,
         cd.reading => drive.reading, cd.playing => drive.playing
  PROVE  CdromInv'
<1>1. DriveInv(MaxCommands, cd)
  BY DriveAssumption, RegisterKeepsDrive DEF CdromInv
<1>2. SecondsWait(cd, sinceLatch)
  BY DEF CdromInv, SecondsWait
<1>3. PromiseKept(cd, promise)
  BY DEF CdromInv, PromiseKept, Idle
<1> QED BY <1>1, <1>2, <1>3 DEF CdromInv

LEMMA CdromNext == CdromInv /\ [Next]_vars => CdromInv'
<1> SUFFICES ASSUME CdromInv, [Next]_vars PROVE CdromInv'
  OBVIOUS
<1>1. /\ DriveInv(MaxCommands, drive) /\ drive \in DriveState(MaxCommands)
      /\ SecondsWait(drive, sinceLatch) /\ MaxCommands \in Nat
  BY DriveAssumption DEF CdromInv, DriveInv
<1>2. ASSUME NEW cmd \in Commands, IssueCommand(cmd) PROVE CdromInv'
  <2> DEFINE cd == RunCommand(drive, cmd)
  <2>1. WellArgued(cmd) /\ drive.count < MaxCommands /\ Access(cd) /\ Cadence(drive)
    BY <1>1, <1>2, CdromAssumption, CommandArguments DEF IssueCommand, DriveInv
  <2>2. DriveInv(MaxCommands, cd)
    BY <1>1, <2>1, CommandKeepsDrive
  <2>3. CommandStep(MaxCommands, drive, cmd, cd)
    BY <1>1, <2>1, RunCommandFields
  <2> HIDE DEF cd
  <2>4. SecondsWait(cd, sinceLatch)
    BY <1>1, <2>3, CommandKeepsSeconds
  <2> QED BY <2>1, <2>2, <2>4, AccessInv
<1>3. ASSUME Acknowledge PROVE CdromInv'
  <2> DEFINE cd == [drive EXCEPT !.flag = NoResp]
  <2>1. NoResp \in Resp(MaxCommands)
    BY <1>1, AddressTypes DEF NoResp, Resp
  <2>2. /\ cd \in DriveState(MaxCommands)
        /\ cd.pending = drive.pending /\ cd.sectorBuffer = drive.sectorBuffer
        /\ cd.busy = drive.busy /\ cd.count = drive.count /\ cd.run = drive.run
        /\ cd.halted = drive.halted /\ cd.readTimer = drive.readTimer /\ cd.flag = NoResp
        /\ cd.reading = drive.reading /\ cd.playing = drive.playing
    BY <1>1, <2>1 DEF DriveState
  <2>3. Access(cd)
    BY <1>3 DEF Acknowledge
  <2> HIDE DEF cd
  <2>4. DriveInv(MaxCommands, cd)
    BY <1>1, <2>2, RegisterKeepsDrive
  <2>5. SecondsWait(cd, sinceLatch)
    BY <1>1, <2>2 DEF SecondsWait
  <2> QED BY <2>3, <2>4, <2>5, AccessInv
<1>4. ASSUME NEW bits \in EnableWrites, WriteEnable(bits) PROVE CdromInv'
  <2> DEFINE cd == [drive EXCEPT !.ie = bits]
  <2>1. bits \in SUBSET {1, 2, 4}
    BY CdromAssumption
  <2>2. /\ cd \in DriveState(MaxCommands)
        /\ cd.pending = drive.pending /\ cd.sectorBuffer = drive.sectorBuffer
        /\ cd.busy = drive.busy /\ cd.count = drive.count /\ cd.run = drive.run
        /\ cd.halted = drive.halted /\ cd.readTimer = drive.readTimer /\ cd.flag = drive.flag
        /\ cd.reading = drive.reading /\ cd.playing = drive.playing
    BY <1>1, <2>1 DEF DriveState
  <2>3. Access(cd)
    BY <1>4 DEF WriteEnable
  <2> HIDE DEF cd
  <2>4. DriveInv(MaxCommands, cd)
    BY <1>1, <2>2, RegisterKeepsDrive
  <2>5. SecondsWait(cd, sinceLatch)
    BY <1>1, <2>2 DEF SecondsWait
  <2> QED BY <2>3, <2>4, <2>5, AccessInv
<1>5. ASSUME AcknowledgeLine PROVE CdromInv'
  BY <1>5 DEF AcknowledgeLine, CdromInv
<1>6. ASSUME InsertDisc PROVE CdromInv'
  <2> DEFINE cd == [drive EXCEPT !.disc = TRUE]
  <2>1. /\ cd \in DriveState(MaxCommands)
        /\ cd.pending = drive.pending /\ cd.sectorBuffer = drive.sectorBuffer
        /\ cd.busy = drive.busy /\ cd.count = drive.count /\ cd.run = drive.run
        /\ cd.halted = drive.halted /\ cd.readTimer = drive.readTimer /\ cd.flag = drive.flag
        /\ cd.reading = drive.reading /\ cd.playing = drive.playing
    BY <1>1 DEF DriveState
  <2>2. drive' = cd /\ UNCHANGED <<iStat, promise, sinceLatch>>
    BY <1>6 DEF InsertDisc
  <2> HIDE DEF cd
  <2> QED BY <2>1, <2>2, SwapInv
<1>7. ASSUME Eject PROVE CdromInv'
  <2> DEFINE cd == [drive EXCEPT !.reading = FALSE, !.playing = FALSE, !.disc = FALSE]
  <2>1. /\ cd \in DriveState(MaxCommands)
        /\ cd.pending = drive.pending /\ cd.sectorBuffer = drive.sectorBuffer
        /\ cd.busy = drive.busy /\ cd.count = drive.count /\ cd.run = drive.run
        /\ cd.halted = drive.halted /\ cd.readTimer = drive.readTimer /\ cd.flag = drive.flag
        /\ ~ cd.reading /\ ~ cd.playing
    BY <1>1 DEF DriveState
  <2>2. drive' = cd /\ UNCHANGED <<iStat, promise, sinceLatch>>
    BY <1>7 DEF Eject, Halt
  <2> HIDE DEF cd
  <2> QED BY <2>1, <2>2, SwapInv
<1>8. CASE UNCHANGED vars
  BY <1>8 DEF vars, CdromInv
<1> QED
  BY <1>2, <1>3, <1>4, <1>5, <1>6, <1>7, <1>8, TickInv DEF Next

\* The controller, its queue, its buffer and the promise standing for it.
THEOREM CdromInvariant == Spec => []CdromInv
  BY CdromInit, CdromNext, PTL DEF Spec

(***************************************************************************)
(* What follows.                                                           *)
(***************************************************************************)
\* Types; a read and a playback never both hold the sector timer, of which
\* tick_one would serve the read alone.
THEOREM CdromTypes == Spec => []TypeOK
<1>1. CdromInv => TypeOK
  BY DEF CdromInv, DriveInv, Cadence, Promises, TypeOK
<1> QED
  BY <1>1, CdromInvariant, PTL

\* No report outlives the run it belongs to.
THEOREM ReportsKeepToTheirRun == Spec => []ReportsBelongToTheirRun
<1>1. CdromInv => ReportsBelongToTheirRun
  BY DEF CdromInv, DriveInv, ReportsInRun, ReportsBelongToTheirRun
<1> QED
  BY <1>1, CdromInvariant, PTL

\* BUSYSTS is never left standing without an answer on its way.
THEOREM BusyIsOwed == Spec => []BusyOwesAnAnswer
<1>1. CdromInv => BusyOwesAnAnswer
  BY DEF CdromInv, DriveInv, AnswerOwed, BusyOwesAnAnswer
<1> QED
  BY <1>1, CdromInvariant, PTL

\* The fast path of tick skips nothing.
THEOREM FastPathIsExact == Spec => []IdleIsStill
<1>1. IdleIsStill
  BY IdleStill DEF IdleIsStill
<1> QED
  BY <1>1, PTL

\* cycles_to_next_event is conservative, also across a swap of the disc, of
\* which the scheduler learns nothing.
THEOREM EstimateIsConservative == Spec => []NoEarlyInterrupt
<1>1. CdromInv => NoEarlyInterrupt
  <2> SUFFICES ASSUME CdromInv, TickRaises(drive) PROVE promise = 1
    BY DEF NoEarlyInterrupt
  <2>1. Latches(drive)
    BY DEF TickRaises
  <2>2. /\ drive \in DriveState(MaxCommands) /\ Cadence(drive) /\ MaxCommands \in Nat
        /\ PromiseKept(drive, promise) /\ promise \in Promises
    BY CdromAssumption, DriveAssumption DEF CdromInv, DriveInv
  <2>3. promise # NoEvent
    BY <2>1, <2>2, IdleStill DEF PromiseKept
  <2>4. promise \in Nat \ {0}
    BY <2>2, <2>3 DEF Promises
  <2>5. ~ promise > 1
    BY <2>1, <2>2, <2>4, LongPromise
  <2> QED BY <2>4, <2>5
<1> QED
  BY <1>1, CdromInvariant, PTL

\* The latched INT1, when it is the newest, is about the buffered sector.
THEOREM BufferIsAnnounced == Spec => []BufferHoldsTheAnnounced
<1>1. CdromInv => BufferHoldsTheAnnounced
  BY DEF CdromInv, DriveInv, NewestIsBuffered, BufferHoldsTheAnnounced
<1> QED
  BY <1>1, CdromInvariant, PTL

\* The delay of a second response counts from the latch of the first.
THEOREM SecondResponsesWait == Spec => SecondAfterDelay
<1>1. CdromInv /\ [Next]_vars
        => [Tick /\ Latches(drive) /\ drive'.flag.kind = 2 => sinceLatch + 1 >= SecondDelay]_vars
  <2> SUFFICES ASSUME CdromInv, Tick, Latches(drive), drive'.flag.kind = 2
               PROVE  sinceLatch + 1 >= SecondDelay
    OBVIOUS
  <2> DEFINE s == Spun(drive)
             c == CountedDown(s)
             e == TickOne(drive)
  <2>1. /\ drive \in DriveState(MaxCommands) /\ Cadence(drive) /\ MaxCommands \in Nat
        /\ SecondsWait(drive, sinceLatch) /\ sinceLatch \in Nat /\ SecondDelay \in Nat
    BY CdromAssumption, DriveAssumption DEF CdromInv, DriveInv
  <2>2. /\ SpinStep(MaxCommands, drive, s) /\ CountStep(MaxCommands, s, c)
        /\ c.pending[1].delay = 0 /\ LatchStep(MaxCommands, c, e) /\ drive' = e
    BY <2>1, TickFields DEF Tick
  <2> HIDE DEF s, c, e
  <2>3. s \in DriveState(MaxCommands) /\ SecondsWait(s, sinceLatch)
    BY <2>1, <2>2, SpinKeepsSeconds DEF SpinStep
  <2>4. SecondsWait(c, sinceLatch + 1)
    BY <2>1, <2>2, <2>3, CountKeepsSeconds
  <2>5. 1 \in DOMAIN c.pending /\ c.pending[1].kind = 2
    BY <2>2 DEF LatchStep, Drops
  <2>6. c.pending[1].delay + (sinceLatch + 1) >= SecondDelay
    BY <2>4, <2>5 DEF SecondsWait
  <2> QED BY <2>1, <2>2, <2>6
<1> QED
  BY <1>1, CdromInvariant, PTL DEF Spec, SecondAfterDelay

(* The sound path.  Iteration is reasoned about with functions on a set:   *)
(* the provers cannot instantiate an induction principle that takes a      *)
(* predicate, but they can take the least element of a set.                *)
(***************************************************************************)
LEMMA LeastNatural ==
  ASSUME NEW T \in SUBSET Nat, T # {}
  PROVE  \E m \in T : \A n \in T : m <= n
<1>1. PICK m \in T : \A n \in T : ~ (<<n, m>> \in OpToRel(<, Nat))
  BY WFMin, NatLessThanWellFounded
<1>2. \A n \in T : ~ (n < m)
  BY <1>1 DEF OpToRel
<1> QED BY <1>2

\* A set of naturals with 0 and, with each number, the next one.
LEMMA Induction ==
  ASSUME NEW T \in SUBSET Nat, 0 \in T, \A n \in T : n + 1 \in T
  PROVE  T = Nat
<1> SUFFICES ASSUME Nat \ T # {} PROVE FALSE
  OBVIOUS
<1>1. PICK m \in Nat \ T : \A n \in Nat \ T : m <= n
  BY LeastNatural
<1>2. m # 0 /\ m - 1 \in Nat /\ m - 1 < m
  BY <1>1
<1>3. m - 1 \in T
  BY <1>1, <1>2
<1> QED BY <1>1, <1>2, <1>3

\* A chain of k applications of F from a.
Chain(F, a, k, h) ==
  /\ DOMAIN h = 0..k
  /\ h = [i \in 0..k |-> IF i = 0 THEN a ELSE F[h[i - 1]]]

LEMMA ChainExists ==
  ASSUME NEW S, NEW F \in [S -> S], NEW a \in S
  PROVE  \A k \in Nat : \E h \in [0..k -> S] : Chain(F, a, k, h)
<1> DEFINE T == {k \in Nat : \E h \in [0..k -> S] : Chain(F, a, k, h)}
<1>1. 0 \in T
  <2> DEFINE g == [i \in 0..0 |-> a]
  <2>1. g \in [0..0 -> S] /\ Chain(F, a, 0, g)
    BY DEF Chain
  <2> QED BY <2>1
<1>2. ASSUME NEW k \in T PROVE k + 1 \in T
  <2>1. PICK h \in [0..k -> S] : Chain(F, a, k, h)
    BY <1>2
  <2> DEFINE g == [i \in 0..(k + 1) |-> IF i <= k THEN h[i] ELSE F[h[k]]]
  <2>2. g \in [0..(k + 1) -> S]
    OBVIOUS
  <2>3. \A i \in 0..(k + 1) : g[i] = IF i = 0 THEN a ELSE F[g[i - 1]]
    BY <2>1 DEF Chain
  <2>4. g = [i \in 0..(k + 1) |-> IF i = 0 THEN a ELSE F[g[i - 1]]]
    BY <2>3
  <2>5. Chain(F, a, k + 1, g)
    BY <2>2, <2>4 DEF Chain
  <2> HIDE DEF g
  <2>6. \E e \in [0..(k + 1) -> S] : Chain(F, a, k + 1, e)
    BY <2>2, <2>5, Zenon
  <2>7. k + 1 \in Nat
    OBVIOUS
  <2> QED BY <2>6, <2>7, Zenon
<1> HIDE DEF T
<1>3. T = Nat
  <2>1. T \in SUBSET Nat
    BY DEF T
  <2> QED BY <1>1, <1>2, <2>1, Induction
<1> QED BY <1>3 DEF T

\* Two chains from the same start agree as far as both go.
LEMMA ChainsAgree ==
  ASSUME NEW F, NEW a, NEW k \in Nat, NEW l \in Nat, k <= l, NEW g, NEW h,
         Chain(F, a, k, g), Chain(F, a, l, h)
  PROVE  g[k] = h[k]
<1> DEFINE T == {i \in Nat : i <= k => g[i] = h[i]}
<1>1. 0 \in T
  BY DEF Chain
<1>2. ASSUME NEW i \in T PROVE i + 1 \in T
  <2>1. CASE i + 1 <= k
    <3>1. g[i] = h[i] /\ i \in 0..k /\ i + 1 \in 0..k /\ i + 1 \in 0..l /\ i + 1 # 0
      BY <2>1
    <3>2. g[i + 1] = F[g[(i + 1) - 1]] /\ h[i + 1] = F[h[(i + 1) - 1]]
      BY <3>1 DEF Chain
    <3> QED BY <3>1, <3>2
  <2>2. CASE ~ (i + 1 <= k)
    BY <2>2
  <2> QED BY <2>1, <2>2
<1> HIDE DEF T
<1>3. T = Nat
  <2>1. T \in SUBSET Nat
    BY DEF T
  <2> QED BY <1>1, <1>2, <2>1, Induction
<1> QED BY <1>3 DEF T

\* The end of a chain of k applications.
Iterated(F, a, k) == (CHOOSE h : Chain(F, a, k, h))[k]

LEMMA ChainEnds ==
  ASSUME NEW F, NEW a, NEW k \in Nat, NEW h, Chain(F, a, k, h)
  PROVE  Iterated(F, a, k) = h[k]
<1>1. Chain(F, a, k, CHOOSE e : Chain(F, a, k, e))
  OBVIOUS
<1>2. (CHOOSE e : Chain(F, a, k, e))[k] = h[k]
  BY <1>1, ChainsAgree
<1> QED BY <1>2 DEF Iterated

LEMMA Iteration ==
  ASSUME NEW S, NEW F \in [S -> S], NEW a \in S, NEW k \in Nat
  PROVE  /\ Iterated(F, a, k) \in S
         /\ Iterated(F, a, 0) = a
         /\ Iterated(F, a, k + 1) = F[Iterated(F, a, k)]
<1>1. PICK h \in [0..k -> S] : Chain(F, a, k, h)
  BY ChainExists
<1>2. PICK g \in [0..(k + 1) -> S] : Chain(F, a, k + 1, g)
  <2>1. k + 1 \in Nat
    OBVIOUS
  <2> QED BY <2>1, ChainExists, Zenon
<1>3. PICK z \in [0..0 -> S] : Chain(F, a, 0, z)
  BY ChainExists
<1>4. \A m \in Nat : \A f : Chain(F, a, m, f) => Iterated(F, a, m) = f[m]
  BY ChainEnds
<1>5. Iterated(F, a, k) = h[k] /\ h[k] \in S
  BY <1>1, <1>4
<1>6. Iterated(F, a, 0) = a
  <2>1. z[0] = a
    BY <1>3 DEF Chain
  <2> QED BY <1>3, <1>4, <2>1
<1>7. Iterated(F, a, k + 1) = g[k + 1] /\ g[k + 1] = F[g[k]]
  <2>1. k + 1 \in Nat /\ k + 1 \in 0..(k + 1) /\ k + 1 # 0 /\ (k + 1) - 1 = k
    OBVIOUS
  <2> QED BY <1>2, <1>4, <2>1 DEF Chain
<1>8. g[k] = h[k]
  BY <1>1, <1>2, ChainsAgree
<1> QED BY <1>5, <1>6, <1>7, <1>8

\* What one more cycle does to the quotient and the remainder.
LEMMA DivisionOfSuccessor ==
  ASSUME NEW d \in Nat \ {0}, NEW n \in Nat
  PROVE  /\ n \div d \in Nat /\ n % d \in 0..(d - 1)
         /\ (n % d) + 1 < d => (n + 1) \div d = n \div d /\ (n + 1) % d = (n % d) + 1
         /\ (n % d) + 1 = d => (n + 1) \div d = n \div d + 1 /\ (n + 1) % d = 0
<1>1. n \div d \in Nat /\ n % d \in 0..(d - 1)
  OBVIOUS
<1>2. \A m \in Nat : m % d = m - d * (m \div d)
  OBVIOUS
<1>3. (n % d) + 1 < d => (n + 1) \div d = n \div d
  OBVIOUS
<1>4. (n % d) + 1 = d => (n + 1) \div d = n \div d + 1
  OBVIOUS
<1>5. n % d = n - d * (n \div d) /\ (n + 1) % d = (n + 1) - d * ((n + 1) \div d)
  <2>1. n \in Nat /\ n + 1 \in Nat
    OBVIOUS
  <2> QED BY <1>2, <2>1, Zenon
<1>6. \A q \in Nat : d * (q + 1) = d * q + d /\ d * q \in Nat
  OBVIOUS
<1>7. (n % d) + 1 < d => (n + 1) % d = (n % d) + 1
  BY <1>1, <1>3, <1>5, <1>6
<1>8. (n % d) + 1 = d => (n + 1) % d = 0
  BY <1>1, <1>4, <1>5, <1>6
<1> QED BY <1>1, <1>3, <1>4, <1>7, <1>8

LEMMA DivisionOfSmall ==
  ASSUME NEW d \in Nat \ {0}, NEW r \in 0..(d - 1)
  PROVE  r \div d = 0 /\ r % d = r
  OBVIOUS

(***************************************************************************)
(* Voices.                                                                 *)
(***************************************************************************)
LEMMA UnitTypes ==
  /\ 0 \in Unit
  /\ \A u \in Unit : (u + 2) % Units \in Unit /\ u * Halves \in 0..(Units * Halves - 1)
<1>1. Units \in Nat /\ Units > 1 /\ Halves \in Nat /\ Halves > 0
  BY VoiceAssumption
<1>2. ASSUME NEW u \in Unit
      PROVE  (u + 2) % Units \in Unit /\ u * Halves \in 0..(Units * Halves - 1)
  <2>1. u \in Nat /\ u <= Units - 1
    BY <1>1, <1>2 DEF Unit
  <2>2. (u + 2) % Units \in 0..(Units - 1)
    BY <1>1, <2>1
  <2> DEFINE d == Units - u
  <2>3. d \in Nat /\ d > 0 /\ Units = u + d
    BY <1>1, <2>1
  <2> HIDE DEF d
  <2>4. (u + d) * Halves = u * Halves + d * Halves
    BY <1>1, <2>1, <2>3
  <2>5. d * Halves > 0 /\ d * Halves \in Nat /\ u * Halves \in Nat
    BY <1>1, <2>1, <2>3
  <2>6. Units * Halves = u * Halves + d * Halves
    BY <2>3, <2>4
  <2> QED BY <2>2, <2>5, <2>6 DEF Unit
<1> QED BY <1>1, <1>2 DEF Unit

\* A voice that sounds.
OnVoice == {v \in VoiceState : v.on /\ v.phase # "off"}

LEMMA DecodeBlockType ==
  ASSUME NEW v \in VoiceState, NEW ram
  PROVE  LET d == DecodeBlock(v, ram)
         IN /\ d \in VoiceState /\ d.on = v.on /\ d.pos = v.pos /\ d.counter = v.counter
            /\ v.phase # "off" => d.phase # "off"
<1> DEFINE loop == IF "start" \in Header(ram, v.cur) THEN v.cur ELSE v.repeat
           w    == [v EXCEPT !.block = v.cur, !.repeat = loop]
<1>1. v.cur \in Unit /\ v.repeat \in Unit /\ loop \in Unit /\ (v.cur + 2) % Units \in Unit
  BY UnitTypes DEF VoiceState
<1> HIDE DEF loop
<1>2. w \in VoiceState /\ w.on = v.on /\ w.pos = v.pos /\ w.counter = v.counter /\ w.phase = v.phase
  BY <1>1 DEF VoiceState
<1> HIDE DEF w
<1>3. 0 \in 0..MaxLevel /\ "release" \in Phases
  BY DEF MaxLevel, Phases
<1>4. CASE "end" \notin Header(ram, v.cur)
  <2>1. DecodeBlock(v, ram) = [w EXCEPT !.cur = (v.cur + 2) % Units]
    BY <1>4 DEF DecodeBlock, w, loop
  <2> QED BY <1>1, <1>2, <2>1 DEF VoiceState
<1>5. CASE "end" \in Header(ram, v.cur) /\ "repeat" \in Header(ram, v.cur)
  <2>1. DecodeBlock(v, ram) = [w EXCEPT !.ended = TRUE, !.cur = loop]
    BY <1>5 DEF DecodeBlock, w, loop
  <2> QED BY <1>1, <1>2, <2>1 DEF VoiceState
<1>6. CASE "end" \in Header(ram, v.cur) /\ "repeat" \notin Header(ram, v.cur)
  <2>1. DecodeBlock(v, ram) = [w EXCEPT !.ended = TRUE, !.cur = loop, !.phase = "release",
                                        !.level = 0]
    BY <1>6 DEF DecodeBlock, w, loop
  <2> QED BY <1>1, <1>2, <1>3, <2>1 DEF VoiceState
<1> QED BY <1>4, <1>5, <1>6

LEMMA NextSampleType ==
  ASSUME NEW v \in VoiceState, NEW ram
  PROVE  LET d == NextSample(v, ram)
         IN /\ d \in VoiceState /\ d.on = v.on
            /\ v.phase # "off" => d.phase # "off"
<1> DEFINE d == IF Exhausted(v) THEN [DecodeBlock(v, ram) EXCEPT !.pos = 0] ELSE v
<1>1. BlockSamples \in Nat /\ BlockSamples >= 4
  BY VoiceAssumption
<1>2. /\ d \in VoiceState /\ d.on = v.on /\ d.pos < BlockSamples
      /\ v.phase # "off" => d.phase # "off"
  <2>1. CASE Exhausted(v)
    <3> DEFINE b == DecodeBlock(v, ram)
    <3>1. b \in VoiceState /\ b.on = v.on /\ (v.phase # "off" => b.phase # "off")
      BY DecodeBlockType
    <3>2. d = [b EXCEPT !.pos = 0]
      BY <2>1
    <3> HIDE DEF b, d
    <3> QED BY <1>1, <3>1, <3>2 DEF VoiceState
  <2>2. CASE ~Exhausted(v)
    BY <1>1, <2>2 DEF Exhausted, VoiceState
  <2> QED BY <2>1, <2>2
<1>3. NextSample(v, ram) = [d EXCEPT !.pos = d.pos + 1, !.s0 = d.s1, !.s1 = <<d.block, d.pos + 1>>]
  BY DEF NextSample
<1> HIDE DEF d
<1>4. d.pos + 1 \in 0..BlockSamples /\ <<d.block, d.pos + 1>> \in Unit \X (0..BlockSamples)
  BY <1>1, <1>2 DEF VoiceState
<1> QED BY <1>1, <1>2, <1>3, <1>4 DEF VoiceState

\* A run that takes G's steps as long as it is in S is an iteration of G.
LEMMA RunIterates ==
  ASSUME NEW S, NEW G \in [S -> S], NEW a \in S, NEW n \in Nat, NEW g, g[0] = a,
         \A i \in 1..n : g[i - 1] \in S => g[i] = G[g[i - 1]]
  PROVE  g[n] = Iterated(G, a, n) /\ g[n] \in S
<1> DEFINE T == {i \in Nat : i <= n => g[i] = Iterated(G, a, i)}
<1>1. \A i \in Nat : /\ Iterated(G, a, i) \in S
                     /\ Iterated(G, a, 0) = a
                     /\ Iterated(G, a, i + 1) = G[Iterated(G, a, i)]
  BY Iteration
<1>2. 0 \in T
  BY <1>1
<1>3. ASSUME NEW i \in T PROVE i + 1 \in T
  <2>1. CASE i + 1 <= n
    <3>1. i \in Nat /\ i + 1 \in 1..n /\ (i + 1) - 1 = i /\ g[i] = Iterated(G, a, i)
      BY <1>3, <2>1
    <3> QED BY <1>1, <3>1
  <2>2. CASE ~(i + 1 <= n)
    BY <2>2
  <2> QED BY <2>1, <2>2
<1>4. T = Nat
  <2> HIDE DEF T
  <2>1. T \in SUBSET Nat
    BY DEF T
  <2> QED BY <1>2, <1>3, <2>1, Induction
<1> QED BY <1>1, <1>4

\* A run of n steps of G within S.
IsRun(S, G, a, n, h) ==
  /\ h \in [0..n -> S] /\ h[0] = a
  /\ \A i \in 1..n : h[i - 1] \in S /\ h[i] = G[h[i - 1]]

LEMMA RunExists ==
  ASSUME NEW S, NEW G \in [S -> S], NEW a \in S, NEW n \in Nat
  PROVE  \E h : IsRun(S, G, a, n, h)
<1>1. PICK h \in [0..n -> S] : Chain(G, a, n, h)
  BY ChainExists
<1>2. ASSUME NEW i \in 1..n PROVE i \in 0..n /\ i # 0 /\ i - 1 \in 0..n
  OBVIOUS
<1>3. 0 \in 0..n
  OBVIOUS
<1> QED BY <1>1, <1>2, <1>3 DEF Chain, IsRun

\* A loop is an iteration of what its body is on a set it does not leave.
LEMMA WalkedType ==
  ASSUME NEW x, NEW ram, NEW pitch, Due(x, pitch) \in Nat,
         [x EXCEPT !.counter = (@ + Step(pitch)) % PitchOne] \in OnVoice
  PROVE  Walked(x, ram, pitch) \in OnVoice
<1> DEFINE v == [x EXCEPT !.counter = (x.counter + Step(pitch)) % PitchOne]
           n == Due(x, pitch)
           Runs(f) == f = [i \in 0..n |-> IF i = 0 THEN v ELSE NextSample(f[i - 1], ram)]
           g == CHOOSE f : Runs(f)
           G == [w \in OnVoice |-> NextSample(w, ram)]
<1>1. G \in [OnVoice -> OnVoice] /\ \A w \in OnVoice : G[w] = NextSample(w, ram)
  BY NextSampleType DEF OnVoice
<1> HIDE DEF G
<1>2. PICK h : IsRun(OnVoice, G, v, n, h)
  BY <1>1, RunExists
<1>3. Runs(h)
  <2>1. ASSUME NEW i \in 0..n PROVE i = 0 \/ i \in 1..n
    OBVIOUS
  <2>2. \A i \in 0..n : h[i] = IF i = 0 THEN v ELSE NextSample(h[i - 1], ram)
    BY <1>1, <1>2, <2>1 DEF IsRun
  <2> QED BY <1>2, <2>2 DEF IsRun
<1>4. Runs(g)
  BY <1>3
<1>5. Walked(x, ram, pitch) = g[n]
  BY DEF Walked, Repeat
<1> HIDE DEF g
<1>6. g[0] = v /\ \A i \in 1..n : g[i] = NextSample(g[i - 1], ram)
  BY <1>4
<1>7. g[n] \in OnVoice
  <2>1. \A i \in 1..n : g[i - 1] \in OnVoice => g[i] = G[g[i - 1]]
    BY <1>1, <1>6
  <2> QED BY <1>1, <1>6, <2>1, RunIterates
<1> QED BY <1>5, <1>7

LEMMA MaxLevelType == MaxLevel \in Nat
  BY DEF MaxLevel

LEMMA KeyOnType ==
  ASSUME NEW v \in VoiceState, NEW ram, NEW start \in Unit
  PROVE  KeyOn(v, ram, start) \in OnVoice
<1> DEFINE w == [v EXCEPT !.on = TRUE, !.phase = "attack", !.level = 0, !.wait = 1,
                         !.cur = start, !.repeat = start, !.counter = 0,
                         !.pos = BlockSamples, !.ended = FALSE]
<1>1. /\ 0 \in 0..(PitchOne - 1) /\ BlockSamples \in 0..BlockSamples /\ 0 \in 0..MaxLevel
      /\ "attack" \in Phases
  BY VoiceAssumption, MaxLevelType DEF Phases
<1>2. w \in VoiceState /\ w.on /\ w.phase # "off"
  BY <1>1 DEF VoiceState
<1>3. KeyOn(v, ram, start) = NextSample(NextSample(w, ram), ram)
  BY DEF KeyOn
<1> HIDE DEF w
<1> QED BY <1>2, <1>3, NextSampleType DEF OnVoice

LEMMA KeyOffType ==
  ASSUME NEW v \in VoiceState, Sounding(v)
  PROVE  KeyOff(v) \in VoiceState /\ Sounding(KeyOff(v))
BY DEF KeyOff, VoiceState, Sounding, Phases

LEMMA PowersOfTwo == \A k \in 0..20 : 2 ^ k \in Nat \ {0}
<1>1. 2 ^ 0 \in Nat \ {0} /\ 2 ^ 1 \in Nat \ {0} /\ 2 ^ 2 \in Nat \ {0} /\ 2 ^ 3 \in Nat \ {0}
  OBVIOUS
<1>2. 2 ^ 4 \in Nat \ {0} /\ 2 ^ 5 \in Nat \ {0} /\ 2 ^ 6 \in Nat \ {0} /\ 2 ^ 7 \in Nat \ {0}
  OBVIOUS
<1>3. 2 ^ 8 \in Nat \ {0} /\ 2 ^ 9 \in Nat \ {0} /\ 2 ^ 10 \in Nat \ {0} /\ 2 ^ 11 \in Nat \ {0}
  OBVIOUS
<1>4. 2 ^ 12 \in Nat \ {0} /\ 2 ^ 13 \in Nat \ {0} /\ 2 ^ 14 \in Nat \ {0} /\ 2 ^ 15 \in Nat \ {0}
  OBVIOUS
<1>5. /\ 2 ^ 16 \in Nat \ {0} /\ 2 ^ 17 \in Nat \ {0} /\ 2 ^ 18 \in Nat \ {0}
      /\ 2 ^ 19 \in Nat \ {0} /\ 2 ^ 20 \in Nat \ {0}
  OBVIOUS
<1>6. 0..20 = {0, 1, 2, 3, 4, 5, 6, 7, 8, 9, 10, 11, 12, 13, 14, 15, 16, 17, 18, 19, 20}
  OBVIOUS
<1> QED BY <1>1, <1>2, <1>3, <1>4, <1>5, <1>6, Zenon

LEMMA EnvelopeStepType ==
  ASSUME NEW v \in OnVoice, NEW e \in Envelopes
  PROVE  EnvelopeStep(v, e) \in VoiceState /\ Sounding(EnvelopeStep(v, e))
<1> DEFINE r   == Rate(e, v.phase)
           lev == Clamp(v.level + Delta(r, v.level))
           t   == UpdateWait(r, v.level)
           m   == [v EXCEPT !.level = lev, !.wait = t]
<1>1. v \in VoiceState /\ v.on /\ v.phase \in Phases \ {"off"} /\ v.level \in 0..MaxLevel
  BY DEF OnVoice, VoiceState
<1>2. r.step \in Int /\ r.shift \in 0..31
  BY <1>1 DEF Rate, Envelopes, Phases
<1> HIDE DEF r
<1>3. lev \in 0..MaxLevel
  <2>1. LinearDelta(r) \in Int
    <3>1. (IF r.shift < 11 THEN 11 - r.shift ELSE 0) \in 0..20
      BY <1>2
    <3> QED BY <1>2, <3>1, PowersOfTwo DEF LinearDelta
  <2>2. \A x \in Int : Clamp(x) \in 0..MaxLevel
    BY MaxLevelType DEF Clamp
  <2>3. v.level \in Int
    BY <1>1, MaxLevelType
  <2>4. Delta(r, v.level) \in Int
    BY <2>1, <2>3 DEF Delta
  <2> QED BY <2>2, <2>3, <2>4
<1>4. t \in Nat
  <2> DEFINE p == 2 ^ (IF r.shift > 11 THEN r.shift - 11 ELSE 0)
             k == IF r.exp /\ ~r.dec /\ v.level > 24576 THEN 4 ELSE 1
  <2>1. (IF r.shift > 11 THEN r.shift - 11 ELSE 0) \in 0..20
    BY <1>2
  <2>2. p \in Nat
    BY <2>1, PowersOfTwo
  <2>3. k = 1 \/ k = 4
    OBVIOUS
  <2>4. t = p * k
    BY DEF UpdateWait, t
  <2> HIDE DEF p, k, t
  <2>5. p * 1 \in Nat /\ p * 4 \in Nat
    BY <2>2
  <2> QED BY <2>3, <2>4, <2>5
<1> HIDE DEF lev, t
<1>5. m \in VoiceState /\ m.on /\ m.phase = v.phase /\ v.phase # "off"
  BY <1>1, <1>3, <1>4 DEF VoiceState
<1>6. /\ {"decay", "sustain", "off"} \subseteq Phases
      /\ \/ EnvelopeStep(v, e) = [m EXCEPT !.phase = "decay", !.wait = 1]
         \/ EnvelopeStep(v, e) = [m EXCEPT !.phase = "sustain", !.wait = 1]
         \/ EnvelopeStep(v, e) = [m EXCEPT !.phase = "off", !.on = FALSE]
         \/ EnvelopeStep(v, e) = m
  <2>1. {"decay", "sustain", "off"} \subseteq Phases
    BY DEF Phases
  <2>2. EnvelopeStep(v, e) =
          CASE v.phase = "attack" /\ lev = MaxLevel -> [m EXCEPT !.phase = "decay", !.wait = 1]
            [] v.phase = "decay" /\ lev <= SustainLevel(e) ->
                 [m EXCEPT !.phase = "sustain", !.wait = 1]
            [] v.phase = "release" /\ lev = 0 -> [m EXCEPT !.phase = "off", !.on = FALSE]
            [] OTHER -> m
    BY DEF EnvelopeStep, m, lev, t, r
  <2> HIDE DEF m
  <2> QED BY <2>1, <2>2
<1> HIDE DEF m
<1>7. ASSUME NEW x, x = [m EXCEPT !.phase = "decay", !.wait = 1]
      PROVE  x \in VoiceState /\ Sounding(x)
  <2>1. x \in VoiceState /\ x.on = m.on /\ x.phase = "decay"
    BY <1>5, <1>6, <1>7 DEF VoiceState
  <2> QED BY <1>5, <2>1 DEF Sounding
<1>8. ASSUME NEW x, x = [m EXCEPT !.phase = "sustain", !.wait = 1]
      PROVE  x \in VoiceState /\ Sounding(x)
  <2>1. x \in VoiceState /\ x.on = m.on /\ x.phase = "sustain"
    BY <1>5, <1>6, <1>8 DEF VoiceState
  <2> QED BY <1>5, <2>1 DEF Sounding
<1>9. \A x : x = [m EXCEPT !.phase = "off", !.on = FALSE] => x \in VoiceState /\ Sounding(x)
  BY <1>5, <1>6 DEF VoiceState, Sounding
<1>10. m \in VoiceState /\ Sounding(m)
  BY <1>5 DEF Sounding
<1> QED BY <1>6, <1>7, <1>8, <1>9, <1>10

LEMMA TickAdsrType ==
  ASSUME NEW v \in OnVoice, NEW e \in Envelopes
  PROVE  TickAdsr(v, e) \in VoiceState /\ Sounding(TickAdsr(v, e))
<1>1. v \in VoiceState /\ v.on /\ v.phase # "off" /\ v.wait \in Nat
  BY DEF OnVoice, VoiceState
<1>2. CASE v.wait > 1
  BY <1>1, <1>2 DEF TickAdsr, VoiceState, Sounding
<1>3. CASE ~(v.wait > 1)
  BY <1>1, <1>3, EnvelopeStepType DEF TickAdsr
<1> QED BY <1>2, <1>3

LEMMA AdvanceVoiceType ==
  ASSUME NEW v \in VoiceState, Sounding(v), NEW ram, NEW pitch \in Nat, NEW e \in Envelopes
  PROVE  /\ AdvanceVoice(v, ram, pitch, e) \in VoiceState
         /\ Sounding(AdvanceVoice(v, ram, pitch, e))
<1>1. CASE ~v.on
  BY <1>1 DEF AdvanceVoice
<1>2. CASE v.on
  <2> DEFINE c == (v.counter + Step(pitch)) % PitchOne
             n == Due(v, pitch)
             w == [v EXCEPT !.counter = c]
  <2>1. PitchOne \in Nat \ {0} /\ v.counter \in Nat /\ Step(pitch) \in Nat
    BY VoiceAssumption DEF VoiceState, Step
  <2>2. c \in 0..(PitchOne - 1) /\ n \in Nat
    BY <2>1 DEF Due
  <2> HIDE DEF c
  <2>3. w \in OnVoice
    BY <1>2, <2>2 DEF OnVoice, VoiceState, Sounding
  <2> HIDE DEF w, n
  <2>5. Walked(v, ram, pitch) \in OnVoice
    BY <2>2, <2>3, WalkedType DEF w, c, n
  <2> QED BY <1>2, <2>5, TickAdsrType DEF AdvanceVoice
<1> QED BY <1>1, <1>2

(***************************************************************************)
(* Remainders and the stream of samples: what waits for the frontend.      *)
(***************************************************************************)
\* A number and its remainder are apart by a multiple of the divisor.
LEMMA RemainderUnique ==
  ASSUME NEW c \in Nat \ {0}, NEW q \in Int, NEW r \in 0..(c - 1), NEW x \in Int, x = c * q + r
  PROVE  x % c = r
  OBVIOUS

LEMMA RemainderOf ==
  ASSUME NEW c \in Nat \ {0}, NEW x \in Nat
  PROVE  x \div c \in Int /\ x % c \in 0..(c - 1) /\ x = c * (x \div c) + (x % c)
<1>1. x \div c \in Int /\ x % c \in 0..(c - 1)
  OBVIOUS
<1>2. x % c = x - c * (x \div c)
  OBVIOUS
<1>3. c * (x \div c) \in Int
  BY <1>1
<1> QED BY <1>1, <1>2, <1>3

LEMMA RemainderOfSum ==
  ASSUME NEW c \in Nat \ {0}, NEW a \in Nat, NEW b \in Nat
  PROVE  a % c \in 0..(c - 1) /\ ((a % c) + b) % c = (a + b) % c
<1> DEFINE q == a \div c
           r == a % c
           u == (r + b) \div c
           v == (r + b) % c
<1>1. q \in Int /\ r \in 0..(c - 1) /\ a = c * q + r
  BY RemainderOf
<1>2. r + b \in Nat
  BY <1>1
<1>9. \A x \in Nat : x \div c \in Int /\ x % c \in 0..(c - 1) /\ x = c * (x \div c) + (x % c)
  BY RemainderOf
<1> HIDE DEF q, r
<1>3. u \in Int /\ v \in 0..(c - 1) /\ r + b = c * u + v
  BY <1>2, <1>9
<1> HIDE DEF u, v
<1>4. a + b = c * (q + u) + v
  <2>1. c * (q + u) = c * q + c * u
    BY <1>1, <1>3
  <2>2. c * q \in Int /\ c * u \in Int
    BY <1>1, <1>3
  <2> QED BY <1>1, <1>3, <2>1, <2>2
<1>5. (a + b) % c = v
  <2>1. q + u \in Int /\ a + b \in Int
    BY <1>1, <1>3
  <2> DEFINE p == q + u
             x == a + b
  <2>2. p \in Int /\ x \in Int /\ x = c * p + v
    BY <1>4, <2>1
  <2> HIDE DEF p, x
  <2>3. x % c = v
    BY <1>3, <2>2, RemainderUnique
  <2> QED BY <2>3 DEF x
<1> QED BY <1>1, <1>5 DEF r, v

Entry == (0..(Count - 1)) \X Sides

\* A number as the counters of samples hold it.
Wrapped(x) == x % Count

LEMMA CountType == Count \in Nat \ {0} /\ MaxQueued \in Nat /\ CdQueueMax \in Nat
  BY SpuAssumption

LEMMA WrappedType ==
  /\ \A x \in Nat : Wrapped(x) \in 0..(Count - 1)
  /\ \A x, y \in Nat : Wrapped(Wrapped(x) + y) = Wrapped(x + y)
BY CountType, RemainderOfSum DEF Wrapped

\* p holds the q samples that come after the first h, and after d dropped ones,
\* of a samples in all.
IsStream(p, h, d, a, q) ==
  /\ q \in Nat /\ Len(p) = 2 * q
  /\ Wrapped(h + d + q) = a
  /\ \A k \in 1..q : /\ p[2 * k - 1] = <<Wrapped(h + d + (k - 1)), "left">>
                     /\ p[2 * k]     = <<Wrapped(h + d + (k - 1)), "right">>

\* StreamIsWhole, of a sound processor and a number of samples heard.
Whole(s, h) == \E q \in Nat : IsStream(s.samples, h, s.dropped, s.produced, q)

\* A sample put behind p, and the oldest one given up when `over' is 1.
Pushed(p, a, over) ==
  LET full == p \o <<<<a, "left">>, <<a, "right">>>>
  IN SubSeq(full, 2 * over + 1, Len(full))

\* r is the q samples of p without the first `over' of them, and sample a.
PushedOnto(p, a, q, over, r) ==
  /\ q + 1 - over \in Nat /\ r \in Seq(Entry) /\ Len(r) = 2 * (q + 1 - over)
  /\ \A i \in 1..(2 * (q + 1 - over)) :
       /\ 2 * over + i <= 2 * q => r[i] = p[2 * over + i]
       /\ 2 * over + i = 2 * q + 1 => r[i] = <<a, "left">>
       /\ 2 * over + i = 2 * q + 2 => r[i] = <<a, "right">>

LEMMA PushedEntries ==
  ASSUME NEW p \in Seq(Entry), NEW a \in 0..(Count - 1), NEW q \in Nat, Len(p) = 2 * q,
         NEW over \in Nat, over = 0 \/ over = 1
  PROVE  PushedOnto(p, a, q, over, Pushed(p, a, over))
<1> DEFINE two  == <<<<a, "left">>, <<a, "right">>>>
           full == p \o two
           r    == Pushed(p, a, over)
           n    == q + 1 - over
           m    == 2 * over + 1
           l    == 2 * q + 2
<1>1. /\ two \in Seq(Entry) /\ Len(two) = 2 /\ two[1] = <<a, "left">> /\ two[2] = <<a, "right">>
  BY DEF Entry, Sides
<1>2. r = SubSeq(full, m, Len(full))
  BY DEF Pushed
<1>3. m \in Int /\ l \in Int /\ (m <= l \/ 2 * n = 0) /\ l - m + 1 = 2 * n /\ n \in Nat /\ m >= 1
  <2>1. CASE over = 0
    BY <2>1
  <2>2. CASE over = 1
    BY <2>2
  <2> QED BY <2>1, <2>2
<1> HIDE DEF two, r
<1>4. full \in Seq(Entry) /\ Joins(p, full, two)
  BY <1>1, ConcatJoins
<1> HIDE DEF full
<1>5. /\ Len(full) = l /\ DOMAIN full = 1..l
      /\ \A i \in 1..(2 * q) : full[i] = p[i]
  BY <1>1, <1>4, QueueDomain DEF Joins
<1>6. full[2 * q + 1] = two[1] /\ full[2 * q + 2] = two[2]
  <2>1. 1 \in DOMAIN two /\ 2 \in DOMAIN two
    BY <1>1, <1>4 DEF Joins
  <2> QED BY <1>4, <2>1 DEF Joins
<1> HIDE DEF m, l, n
<1>7. \A i \in m..l : full[i] \in Entry
  BY <1>3, <1>4, <1>5, QueueDomain
<1>8. /\ r \in Seq(Entry) /\ Len(r) = 2 * n
      /\ \A i \in 1..(2 * n) : r[i] = full[m + i - 1]
  <2>1. r = SubSeq(full, m, l)
    BY <1>2, <1>5
  <2>2. /\ r \in Seq(Entry) /\ Len(r) = IF m <= l THEN l - m + 1 ELSE 0
        /\ \A i \in 1..(l - m + 1) : r[i] = full[m + i - 1]
    BY <1>3, <1>7, <2>1, SubSeqProperties
  <2> QED BY <1>3, <2>2
<1>9. \A i \in 1..(2 * n) : m + i - 1 = 2 * over + i
  BY DEF m
<1>10. ASSUME NEW i \in 1..(2 * n)
       PROVE  /\ 2 * over + i <= 2 * q => r[i] = p[2 * over + i]
              /\ 2 * over + i = 2 * q + 1 => r[i] = <<a, "left">>
              /\ 2 * over + i = 2 * q + 2 => r[i] = <<a, "right">>
  <2>1. r[i] = full[2 * over + i]
    BY <1>8, <1>9
  <2>2. 2 * over + i <= 2 * q => 2 * over + i \in 1..(2 * q)
    BY <1>3
  <2> QED BY <1>1, <1>5, <1>6, <2>1, <2>2
<1>11. n = q + 1 - over
  BY DEF n
<1> QED BY <1>3, <1>8, <1>10, <1>11 DEF PushedOnto, r

LEMMA PushKeepsStream ==
  ASSUME NEW p, NEW h \in Nat, NEW d \in Nat, NEW a, NEW q \in Nat, IsStream(p, h, d, a, q),
         NEW over \in Nat, over = 0 \/ over = 1, NEW r, PushedOnto(p, a, q, over, r)
  PROVE  IsStream(r, h, Wrapped(d + over), Wrapped(a + 1), q + 1 - over)
<1> DEFINE n == q + 1 - over
<1>0. /\ n \in Nat /\ Len(r) = 2 * n
      /\ \A i \in 1..(2 * n) :
           /\ 2 * over + i <= 2 * q => r[i] = p[2 * over + i]
           /\ 2 * over + i = 2 * q + 1 => r[i] = <<a, "left">>
           /\ 2 * over + i = 2 * q + 2 => r[i] = <<a, "right">>
  BY DEF PushedOnto
<1>00. n = q + 1 - over
  OBVIOUS
<1> HIDE DEF n
<1> DEFINE z == Wrapped(d + over)
<1>1. /\ Wrapped(h + d + q) = a
      /\ \A k \in 1..q : /\ p[2 * k - 1] = <<Wrapped(h + d + (k - 1)), "left">>
                         /\ p[2 * k]     = <<Wrapped(h + d + (k - 1)), "right">>
  BY DEF IsStream
<1>2. z \in Nat /\ \A b \in Nat : Wrapped(h + z + b) = Wrapped(h + d + over + b)
  <2>1. d + over \in Nat
    OBVIOUS
  <2>2. z \in Nat
    <3>1. z \in 0..(Count - 1)
      BY <2>1, WrappedType
    <3> QED BY <3>1, CountType
  <2>3. ASSUME NEW b \in Nat PROVE Wrapped(h + z + b) = Wrapped(h + d + over + b)
    <3>1. Wrapped(z + (h + b)) = Wrapped((d + over) + (h + b))
      <4>1. h + b \in Nat
        OBVIOUS
      <4> QED BY <2>1, <4>1, WrappedType
    <3> HIDE DEF z
    <3>2. z + (h + b) = h + z + b /\ (d + over) + (h + b) = h + d + over + b
      BY <2>2
    <3> QED BY <3>1, <3>2
  <2> QED BY <2>2, <2>3
<1> HIDE DEF z
<1>3. Wrapped(h + z + n) = Wrapped(a + 1)
  <2>1. Wrapped(h + z + n) = Wrapped(h + d + over + n)
    BY <1>0, <1>2
  <2>2. h + d + over + n = (h + d + q) + 1
    BY <1>00
  <2>3. h + d + q \in Nat
    OBVIOUS
  <2>4. Wrapped(Wrapped(h + d + q) + 1) = Wrapped((h + d + q) + 1)
    BY <2>3, WrappedType
  <2> QED BY <1>1, <2>1, <2>2, <2>4
<1>4. ASSUME NEW k \in 1..n
      PROVE  /\ r[2 * k - 1] = <<Wrapped(h + z + (k - 1)), "left">>
             /\ r[2 * k]     = <<Wrapped(h + z + (k - 1)), "right">>
  <2> DEFINE j == k + over
  <2>1. /\ j \in 1..(q + 1) /\ 2 * k - 1 \in 1..(2 * n) /\ 2 * k \in 1..(2 * n)
        /\ 2 * over + (2 * k - 1) = 2 * j - 1 /\ 2 * over + 2 * k = 2 * j
    <3>1. k \in Nat /\ k >= 1 /\ k <= n
      BY <1>0
    <3>2. CASE over = 0
      BY <1>0, <1>00, <3>1, <3>2
    <3>3. CASE over = 1
      BY <1>0, <1>00, <3>1, <3>3
    <3> QED BY <3>2, <3>3
  <2>2. Wrapped(h + z + (k - 1)) = Wrapped(h + d + (j - 1))
    <3>1. k - 1 \in Nat /\ h + d + over + (k - 1) = h + d + (j - 1)
      BY <1>0
    <3> QED BY <1>2, <3>1
  <2> HIDE DEF j
  <2>3. CASE j <= q
    <3>1. j \in 1..q /\ 2 * j - 1 <= 2 * q /\ 2 * j <= 2 * q
      BY <2>1, <2>3
    <3>2. r[2 * k - 1] = p[2 * j - 1] /\ r[2 * k] = p[2 * j]
      BY <1>0, <2>1, <3>1
    <3> QED BY <1>1, <2>2, <3>1, <3>2
  <2>4. CASE j = q + 1
    <3>1. 2 * j - 1 = 2 * q + 1 /\ 2 * j = 2 * q + 2 /\ j - 1 = q
      BY <2>4
    <3>2. r[2 * k - 1] = <<a, "left">> /\ r[2 * k] = <<a, "right">>
      BY <1>0, <2>1, <3>1
    <3> QED BY <1>1, <2>2, <3>1, <3>2
  <2> QED BY <2>1, <2>3, <2>4
<1> QED BY <1>0, <1>3, <1>4 DEF IsStream, z, n

(***************************************************************************)
(* One sample.                                                             *)
(***************************************************************************)
\* The voices a sample later.
Advanced(s) ==
  [v \in Voices |-> AdvanceVoice(s.voices[v], s.ram, s.pitch[v], s.envelope[v])]

\* A block decoded for the sample covers the interrupt address.
Rings(s) ==
  /\ s.irqOn
  /\ \E block \in {s.voices[v].cur : v \in {u \in Voices : Decodes(s.voices[u], s.pitch[u])}} :
       s.irqAddr \in {block, block + 1}

\* The samples a full queue gives up.
Overflow(s) == IF Len(s.samples) + 2 > MaxQueued THEN 1 ELSE 0

RestOfQueue(s) == IF s.cdQueue = <<>> THEN <<>> ELSE Tail(s.cdQueue)

\* A sound processor with the fields a sample changes given at once.
Sampling(s, voices, flag, raise, frame, queue, samples, produced, dropped) ==
  [s EXCEPT !.voices = voices, !.irqFlag = flag, !.raise = raise, !.cdSample = frame,
            !.cdQueue = queue, !.samples = samples, !.produced = produced, !.dropped = dropped]

Generated(s) ==
  Sampling(s, Advanced(s), s.irqFlag \/ Rings(s), s.raise \/ Rings(s), NextFrame(s),
           RestOfQueue(s), Pushed(s.samples, s.produced, Overflow(s)),
           Wrapped(s.produced + 1), Wrapped(s.dropped + Overflow(s)))

LEMMA SpuFields ==
  ASSUME NEW s \in SpuState(Frames)
  PROVE  /\ s.ram \in SampleRam /\ s.voices \in [Voices -> VoiceState]
         /\ s.start \in [Voices -> Unit] /\ s.pitch \in [Voices -> Nat]
         /\ s.envelope \in [Voices -> Envelopes]
         /\ s.irqOn \in BOOLEAN /\ s.irqAddr \in Unit /\ s.irqFlag \in BOOLEAN
         /\ s.raise \in BOOLEAN /\ s.transfer \in 0..(Units * Halves - 1)
         /\ s.timer \in 0..(CyclesPerSample - 1) /\ s.cdSample \in Frames \cup {Silence}
         /\ s.cdQueue \in Seq(Frames) /\ s.samples \in Seq(Entry)
         /\ s.produced \in 0..(Count - 1) /\ s.dropped \in 0..(Count - 1)
BY DEF SpuState, Entry

LEMMA VoicesAdvancedIs ==
  ASSUME NEW s \in SpuState(Frames)
  PROVE  VoicesAdvanced(s) = [s EXCEPT !.voices = Advanced(s), !.irqFlag = s.irqFlag \/ Rings(s),
                                       !.raise = s.raise \/ Rings(s)]
<1> DEFINE m == [s EXCEPT !.voices = Advanced(s)]
           blocks == {s.voices[v].cur : v \in {u \in Voices : Decodes(s.voices[u], s.pitch[u])}}
           match == \E block \in blocks : s.irqAddr \in {block, block + 1}
<1>1. m.irqOn = s.irqOn /\ m.irqAddr = s.irqAddr
  BY DEF SpuState
<1>2. VoicesAdvanced(s) = NoteIrq(m, match)
  BY <1>1 DEF VoicesAdvanced, NoteDecodeIrq, Advanced
<1>3. Rings(s) <=> s.irqOn /\ match
  BY DEF Rings
<1> HIDE DEF match
<1>4. s.irqFlag \in BOOLEAN /\ s.raise \in BOOLEAN /\ Rings(s) \in BOOLEAN
  BY SpuFields DEF Rings
<1>5. CASE Rings(s)
  <2>1. VoicesAdvanced(s) = [m EXCEPT !.irqFlag = TRUE, !.raise = TRUE]
    BY <1>1, <1>2, <1>3, <1>5 DEF NoteIrq
  <2>2. (s.irqFlag \/ Rings(s)) = TRUE /\ (s.raise \/ Rings(s)) = TRUE
    BY <1>4, <1>5
  <2> QED BY <2>1, <2>2 DEF SpuState
<1>6. CASE ~Rings(s)
  <2>1. VoicesAdvanced(s) = m
    BY <1>1, <1>2, <1>3, <1>6 DEF NoteIrq
  <2>2. (s.irqFlag \/ Rings(s)) = s.irqFlag /\ (s.raise \/ Rings(s)) = s.raise
    BY <1>4, <1>6
  <2> QED BY <2>1, <2>2 DEF SpuState
<1> QED BY <1>4, <1>5, <1>6

LEMMA JoinedLength ==
  ASSUME NEW p \in Seq(Entry), NEW a \in 0..(Count - 1)
  PROVE  Len(p \o <<<<a, "left">>, <<a, "right">>>>) = Len(p) + 2
<1> DEFINE two == <<<<a, "left">>, <<a, "right">>>>
<1>1. two \in Seq(Entry) /\ Len(two) = 2
  BY DEF Entry, Sides
<1> HIDE DEF two
<1>2. Len(p \o two) = Len(p) + Len(two)
  BY <1>1, ConcatProperties
<1> QED BY <1>1, <1>2 DEF two

LEMMA GenerateSampleIs ==
  ASSUME NEW s \in SpuState(Frames)
  PROVE  GenerateSample(s) = Generated(s)
<1> DEFINE a == Advanced(s)
           f == s.irqFlag \/ Rings(s)
           r == s.raise \/ Rings(s)
           x == NextFrame(s)
           q == RestOfQueue(s)
           m == [s EXCEPT !.voices = a, !.irqFlag = f, !.raise = r]
           n == [m EXCEPT !.cdSample = x, !.cdQueue = q]
<1>1. VoicesAdvanced(s) = m
  BY VoicesAdvancedIs
<1> HIDE DEF a, f, r, x, q
<1>2. m.cdQueue = s.cdQueue
  BY DEF SpuState
<1>3. GenerateSample(s) = PushSample(n)
  BY <1>1, <1>2 DEF GenerateSample, RestOfQueue, q, x
<1>4. n.samples = s.samples /\ n.produced = s.produced /\ n.dropped = s.dropped
  BY DEF SpuState
<1>5. n = [s EXCEPT !.voices = a, !.irqFlag = f, !.raise = r, !.cdSample = x, !.cdQueue = q]
  BY DEF SpuState
<1> DEFINE over == Overflow(s)
           full == s.samples \o <<<<s.produced, "left">>, <<s.produced, "right">>>>
<1>6. Len(full) = Len(s.samples) + 2
  <2>1. s.samples \in Seq(Entry) /\ s.produced \in 0..(Count - 1)
    BY SpuFields
  <2> QED BY <2>1, JoinedLength
<1>7. PushSample(n) = [n EXCEPT !.samples = SubSeq(full, 2 * over + 1, Len(full)),
                               !.produced = (s.produced + 1) % Count,
                               !.dropped = (s.dropped + over) % Count]
  BY <1>4, <1>6 DEF PushSample, Overflow
<1> DEFINE w == SubSeq(full, 2 * over + 1, Len(full))
           y == (s.produced + 1) % Count
           z == (s.dropped + over) % Count
<1>8. /\ w = Pushed(s.samples, s.produced, Overflow(s)) /\ y = Wrapped(s.produced + 1)
      /\ z = Wrapped(s.dropped + Overflow(s))
  BY DEF Pushed, Wrapped
<1> HIDE DEF w, y, z, n
<1>9. PushSample(n) = [n EXCEPT !.samples = w, !.produced = y, !.dropped = z]
  BY <1>7 DEF w, y, z
<1>10. [n EXCEPT !.samples = w, !.produced = y, !.dropped = z]
         = Sampling(s, a, f, r, x, q, w, y, z)
  BY <1>5 DEF SpuState, Sampling
<1> QED BY <1>3, <1>8, <1>9, <1>10 DEF Generated, a, f, r, x, q

\* A sound processor whose samples the frontend has taken h of.
SoundSpu(h) ==
  {s \in SpuState(Frames) :
     /\ \A v \in Voices : Sounding(s.voices[v])
     /\ Len(s.samples) <= MaxQueued /\ Len(s.cdQueue) <= CdQueueMax
     /\ Whole(s, h)}

LEMMA AdvancedType ==
  ASSUME NEW s \in SpuState(Frames), \A v \in Voices : Sounding(s.voices[v])
  PROVE  /\ Advanced(s) \in [Voices -> VoiceState]
         /\ \A v \in Voices : Sounding(Advanced(s)[v])
<1>1. ASSUME NEW v \in Voices
      PROVE  LET w == AdvanceVoice(s.voices[v], s.ram, s.pitch[v], s.envelope[v])
             IN w \in VoiceState /\ Sounding(w)
  <2>1. s.voices[v] \in VoiceState /\ s.pitch[v] \in Nat /\ s.envelope[v] \in Envelopes
    BY SpuFields
  <2> QED BY <2>1, AdvanceVoiceType
<1> QED BY <1>1 DEF Advanced

LEMMA QueueRest ==
  ASSUME NEW s \in SpuState(Frames)
  PROVE  /\ RestOfQueue(s) \in Seq(Frames) /\ Len(RestOfQueue(s)) <= Len(s.cdQueue)
         /\ NextFrame(s) \in Frames \cup {Silence}
<1>1. s.cdQueue \in Seq(Frames)
  BY SpuFields
<1> QED BY <1>1 DEF RestOfQueue, NextFrame

\* What one more sample does to the stream.
LEMMA SamplePushed ==
  ASSUME NEW h \in Nat, NEW s \in SpuState(Frames), Whole(s, h), Len(s.samples) <= MaxQueued
  PROVE  LET p == Pushed(s.samples, s.produced, Overflow(s))
             y == Wrapped(s.produced + 1)
             z == Wrapped(s.dropped + Overflow(s))
         IN /\ p \in Seq(Entry) /\ Len(p) <= MaxQueued
            /\ y \in 0..(Count - 1) /\ z \in 0..(Count - 1)
            /\ \E q \in Nat : IsStream(p, h, z, y, q)
<1> DEFINE over == Overflow(s)
           p == Pushed(s.samples, s.produced, over)
           y == Wrapped(s.produced + 1)
           z == Wrapped(s.dropped + over)
<1>1. /\ s.samples \in Seq(Entry) /\ s.produced \in 0..(Count - 1) /\ s.dropped \in 0..(Count - 1)
      /\ MaxQueued \in Nat /\ Count \in Nat \ {0}
  BY SpuFields, CountType
<1>2. PICK q \in Nat : IsStream(s.samples, h, s.dropped, s.produced, q)
  BY DEF Whole
<1>3. /\ over \in Nat /\ (over = 0 \/ over = 1)
      /\ over = 0 => Len(s.samples) + 2 <= MaxQueued
  BY <1>1 DEF Overflow
<1> HIDE DEF over
<1>4. Len(s.samples) = 2 * q
  BY <1>2 DEF IsStream
<1>5. PushedOnto(s.samples, s.produced, q, over, p)
  BY <1>1, <1>3, <1>4, PushedEntries
<1>6. y \in 0..(Count - 1) /\ z \in 0..(Count - 1)
  <2>1. s.produced + 1 \in Nat /\ s.dropped + over \in Nat
    BY <1>1, <1>3
  <2> QED BY <2>1, WrappedType
<1> HIDE DEF p
<1>7. p \in Seq(Entry) /\ Len(p) <= MaxQueued /\ q + 1 - over \in Nat
  <2>1. p \in Seq(Entry) /\ Len(p) = 2 * (q + 1 - over) /\ q + 1 - over \in Nat
    BY <1>5 DEF PushedOnto
  <2>2. CASE over = 0
    BY <1>1, <1>3, <1>4, <2>1, <2>2
  <2>3. CASE over = 1
    BY <1>1, <1>3, <1>4, <2>1, <2>3
  <2> QED BY <1>3, <2>1, <2>2, <2>3
<1>8. IsStream(p, h, z, y, q + 1 - over)
  <2>1. s.dropped \in Nat /\ s.produced \in Nat
    BY <1>1
  <2> QED BY <1>2, <1>3, <1>5, <2>1, PushKeepsStream
<1> QED BY <1>6, <1>7, <1>8 DEF p, over

LEMMA RingsType ==
  ASSUME NEW s \in SpuState(Frames)
  PROVE  /\ Rings(s) \in BOOLEAN /\ s.raise \in BOOLEAN /\ s.irqFlag \in BOOLEAN
         /\ (s.raise \/ Rings(s)) \in BOOLEAN /\ (s.irqFlag \/ Rings(s)) \in BOOLEAN
<1>1. s.irqOn \in BOOLEAN /\ s.raise \in BOOLEAN /\ s.irqFlag \in BOOLEAN
  BY SpuFields
<1> QED BY <1>1 DEF Rings

LEMMA SampleKeeps ==
  ASSUME NEW h \in Nat, NEW s \in SoundSpu(h)
  PROVE  LET e == GenerateSample(s)
         IN /\ e \in SoundSpu(h) /\ e.timer = s.timer /\ e.cdQueue = RestOfQueue(s)
            /\ e.raise = (s.raise \/ Rings(s))
<1> DEFINE a == Advanced(s)
           f == s.irqFlag \/ Rings(s)
           r == s.raise \/ Rings(s)
           x == NextFrame(s)
           q == RestOfQueue(s)
           p == Pushed(s.samples, s.produced, Overflow(s))
           y == Wrapped(s.produced + 1)
           z == Wrapped(s.dropped + Overflow(s))
           e == GenerateSample(s)
<1>1. /\ s \in SpuState(Frames) /\ \A v \in Voices : Sounding(s.voices[v])
      /\ Len(s.samples) <= MaxQueued /\ Len(s.cdQueue) <= CdQueueMax /\ Whole(s, h)
  BY DEF SoundSpu
<1>2. e = Sampling(s, a, f, r, x, q, p, y, z)
  BY <1>1, GenerateSampleIs DEF Generated
<1>3. a \in [Voices -> VoiceState] /\ \A v \in Voices : Sounding(a[v])
  BY <1>1, AdvancedType
<1>4. f \in BOOLEAN /\ r \in BOOLEAN
  BY <1>1, RingsType
<1>5. x \in Frames \cup {Silence} /\ q \in Seq(Frames) /\ Len(q) <= Len(s.cdQueue)
  BY <1>1, QueueRest
<1>6. /\ p \in Seq(Entry) /\ Len(p) <= MaxQueued /\ y \in 0..(Count - 1) /\ z \in 0..(Count - 1)
      /\ \E k \in Nat : IsStream(p, h, z, y, k)
  BY <1>1, SamplePushed
<1> HIDE DEF a, f, r, x, q, p, y, z, e
<1>7. /\ e \in SpuState(Frames)
      /\ e.voices = a /\ e.raise = r /\ e.cdQueue = q /\ e.samples = p /\ e.produced = y
      /\ e.dropped = z /\ e.timer = s.timer
  BY <1>1, <1>2, <1>3, <1>4, <1>5, <1>6 DEF Sampling, SpuState, Entry
<1>8. Len(q) <= CdQueueMax
  <2>1. Len(q) \in Nat /\ Len(s.cdQueue) \in Nat /\ CdQueueMax \in Nat
    BY <1>1, <1>5, SpuFields, CountType
  <2> QED BY <1>1, <1>5, <2>1
<1>9. Whole(e, h)
  BY <1>6, <1>7 DEF Whole
<1>10. e \in SoundSpu(h)
  BY <1>3, <1>6, <1>7, <1>8, <1>9 DEF SoundSpu
<1> QED BY <1>7, <1>10 DEF e, q, r

(***************************************************************************)
(* The sample clock.  A sample does not look at the clock or at the        *)
(* interrupt owed, so samples can be counted from a clock at zero.         *)
(***************************************************************************)
Clocked(s, t, b) == [s EXCEPT !.timer = t, !.raise = b]

LEMMA ClockedType ==
  ASSUME NEW h, NEW s \in SoundSpu(h), NEW t \in 0..(CyclesPerSample - 1), NEW b \in BOOLEAN
  PROVE  /\ Clocked(s, t, b) \in SoundSpu(h)
         /\ Clocked(s, t, b).timer = t /\ Clocked(s, t, b).raise = b
         /\ Clocked(s, t, b).cdQueue = s.cdQueue
<1> DEFINE e == Clocked(s, t, b)
<1>1. /\ s \in SpuState(Frames) /\ \A v \in Voices : Sounding(s.voices[v])
      /\ Len(s.samples) <= MaxQueued /\ Len(s.cdQueue) <= CdQueueMax /\ Whole(s, h)
  BY DEF SoundSpu
<1>2. /\ e \in SpuState(Frames) /\ e.timer = t /\ e.raise = b /\ e.cdQueue = s.cdQueue
      /\ e.voices = s.voices /\ e.samples = s.samples /\ e.produced = s.produced
      /\ e.dropped = s.dropped
  BY <1>1 DEF Clocked, SpuState
<1> HIDE DEF e
<1>3. Whole(e, h)
  BY <1>1, <1>2 DEF Whole
<1> QED BY <1>1, <1>2, <1>3 DEF SoundSpu, e

LEMMA ClockedAgain ==
  ASSUME NEW h, NEW s \in SoundSpu(h), NEW t, NEW b, NEW u, NEW c
  PROVE  /\ Clocked(Clocked(s, t, b), u, c) = Clocked(s, u, c)
         /\ s = Clocked(s, s.timer, s.raise)
BY DEF Clocked, SoundSpu, SpuState

LEMMA SampleCommutes ==
  ASSUME NEW h, NEW s \in SoundSpu(h), NEW t \in 0..(CyclesPerSample - 1), NEW b \in BOOLEAN
  PROVE  GenerateSample(Clocked(s, t, b)) = Clocked(GenerateSample(s), t, b \/ Rings(s))
<1> DEFINE e == Clocked(s, t, b)
           a == Advanced(s)
           f == s.irqFlag \/ Rings(s)
           r == s.raise \/ Rings(s)
           c == b \/ Rings(s)
           x == NextFrame(s)
           q == RestOfQueue(s)
           p == Pushed(s.samples, s.produced, Overflow(s))
           y == Wrapped(s.produced + 1)
           z == Wrapped(s.dropped + Overflow(s))
<1>1. s \in SpuState(Frames) /\ e \in SpuState(Frames)
  BY ClockedType DEF SoundSpu
<1>2. /\ e.ram = s.ram /\ e.voices = s.voices /\ e.pitch = s.pitch /\ e.envelope = s.envelope
      /\ e.irqOn = s.irqOn /\ e.irqAddr = s.irqAddr /\ e.irqFlag = s.irqFlag
      /\ e.cdQueue = s.cdQueue /\ e.samples = s.samples /\ e.produced = s.produced
      /\ e.dropped = s.dropped /\ e.raise = b
  BY <1>1 DEF Clocked, SpuState
<1>3. e = [s EXCEPT !.timer = t, !.raise = b]
  BY DEF Clocked
<1> HIDE DEF e
<1>4. Advanced(e) = a /\ (Rings(e) <=> Rings(s)) /\ Rings(e) \in BOOLEAN /\ Rings(s) \in BOOLEAN
  <2>1. Advanced(e) = a
    BY <1>2 DEF Advanced
  <2>2. Rings(e) <=> Rings(s)
    BY <1>2 DEF Rings
  <2> QED BY <1>1, <2>1, <2>2, RingsType
<1>5. NextFrame(e) = x /\ RestOfQueue(e) = q /\ Overflow(e) = Overflow(s)
  BY <1>2 DEF NextFrame, RestOfQueue, Overflow
<1>6. (e.irqFlag \/ Rings(e)) = f /\ (e.raise \/ Rings(e)) = c
  BY <1>2, <1>4
<1>7. GenerateSample(e) = Sampling(e, a, f, c, x, q, p, y, z)
  BY <1>1, <1>2, <1>4, <1>5, <1>6, GenerateSampleIs DEF Generated
<1>8. GenerateSample(s) = Sampling(s, a, f, r, x, q, p, y, z)
  BY <1>1, GenerateSampleIs DEF Generated
<1> HIDE DEF a, f, r, c, x, q, p, y, z
<1>9. Sampling(e, a, f, c, x, q, p, y, z) = Clocked(Sampling(s, a, f, r, x, q, p, y, z), t, c)
  BY <1>1, <1>3 DEF Sampling, Clocked, SpuState
<1> QED BY <1>7, <1>8, <1>9 DEF e, c

\* A sample as a function on sound processors.
SampleOf(h) == [s \in SoundSpu(h) |-> GenerateSample(s)]

\* k samples from a clock at zero and no interrupt owed.
After(h, s, k) == Iterated(SampleOf(h), Clocked(s, 0, FALSE), k)

LEMMA ClockType == CyclesPerSample \in Nat \ {0} /\ 0 \in 0..(CyclesPerSample - 1)
  BY SpuAssumption

LEMMA AfterSteps ==
  ASSUME NEW h \in Nat, NEW s \in SoundSpu(h), NEW k \in Nat
  PROVE  /\ After(h, s, k) \in SoundSpu(h) /\ After(h, s, 0) = Clocked(s, 0, FALSE)
         /\ After(h, s, k + 1) = GenerateSample(After(h, s, k))
         /\ After(h, s, k).raise \in BOOLEAN
<1> DEFINE G == SampleOf(h)
           a == Clocked(s, 0, FALSE)
<1>1. G \in [SoundSpu(h) -> SoundSpu(h)] /\ \A e \in SoundSpu(h) : G[e] = GenerateSample(e)
  BY SampleKeeps DEF SampleOf
<1>2. a \in SoundSpu(h)
  BY ClockType, ClockedType
<1> HIDE DEF G, a
<1>3. /\ Iterated(G, a, k) \in SoundSpu(h) /\ Iterated(G, a, 0) = a
      /\ Iterated(G, a, k + 1) = G[Iterated(G, a, k)]
  BY <1>1, <1>2, Iteration
<1>4. \A e \in SoundSpu(h) : e.raise \in BOOLEAN
  BY SpuFields DEF SoundSpu
<1> QED BY <1>1, <1>3, <1>4 DEF After, G, a

\* Samples from any clock are those from a clock at zero.
LEMMA SamplesCommute ==
  ASSUME NEW h \in Nat, NEW s \in SoundSpu(h), NEW t \in 0..(CyclesPerSample - 1),
         NEW b \in BOOLEAN
  PROVE  \A k \in Nat :
           Iterated(SampleOf(h), Clocked(s, t, b), k)
             = Clocked(After(h, s, k), t, b \/ After(h, s, k).raise)
<1> DEFINE G == SampleOf(h)
           a == Clocked(s, t, b)
           M(k) == After(h, s, k)
           T == {k \in Nat : Iterated(G, a, k) = Clocked(M(k), t, b \/ M(k).raise)}
<1>1. G \in [SoundSpu(h) -> SoundSpu(h)] /\ \A e \in SoundSpu(h) : G[e] = GenerateSample(e)
  BY SampleKeeps DEF SampleOf
<1>2. a \in SoundSpu(h)
  BY ClockedType
<1>3. \A k \in Nat : /\ M(k) \in SoundSpu(h) /\ M(k).raise \in BOOLEAN
                     /\ M(k + 1) = GenerateSample(M(k))
  BY AfterSteps
<1>4. M(0) = Clocked(s, 0, FALSE)
  BY AfterSteps
<1> HIDE DEF G, M
<1>5. 0 \in T
  <2>1. Iterated(G, a, 0) = a
    BY <1>1, <1>2, Iteration
  <2> DEFINE m == M(0)
             z == Clocked(s, 0, FALSE)
  <2>2. z.raise = FALSE
    BY DEF Clocked, SoundSpu, SpuState
  <2>3. Clocked(z, t, b) = a
    BY DEF Clocked, SoundSpu, SpuState
  <2> HIDE DEF z
  <2>4. m = z
    BY <1>4 DEF z
  <2> HIDE DEF a, m
  <2>5. (b \/ m.raise) = b
    BY <2>2, <2>4
  <2>6. Clocked(m, t, b \/ m.raise) = a
    BY <2>3, <2>4, <2>5
  <2> QED BY <2>1, <2>6 DEF m
<1>6. ASSUME NEW k \in T PROVE k + 1 \in T
  <2> DEFINE m == M(k)
             c == b \/ m.raise
  <2>1. k \in Nat /\ m \in SoundSpu(h) /\ m.raise \in BOOLEAN /\ c \in BOOLEAN
    BY <1>3
  <2>2. Iterated(G, a, k) = Clocked(m, t, c)
    BY <1>6
  <2>3. Iterated(G, a, k + 1) = G[Iterated(G, a, k)]
    BY <1>1, <1>2, <2>1, Iteration
  <2>4. M(k + 1) = GenerateSample(m)
    BY <1>3, <2>1
  <2>5. Rings(m) \in BOOLEAN
    BY <2>1, RingsType DEF SoundSpu
  <2>6. M(k + 1).raise = (m.raise \/ Rings(m))
    BY <2>1, <2>4, SampleKeeps
  <2> HIDE DEF m, c
  <2>7. Clocked(m, t, c) \in SoundSpu(h)
    BY <2>1, ClockedType
  <2>8. Iterated(G, a, k + 1) = Clocked(M(k + 1), t, c \/ Rings(m))
    BY <1>1, <2>1, <2>2, <2>3, <2>4, <2>7, SampleCommutes
  <2>9. (c \/ Rings(m)) = (b \/ M(k + 1).raise)
    BY <2>1, <2>5, <2>6 DEF c
  <2> QED BY <2>1, <2>8, <2>9
<1> HIDE DEF T
<1>7. T = Nat
  <2>1. T \in SUBSET Nat
    BY DEF T
  <2> QED BY <1>5, <1>6, <2>1, Induction
<1> QED BY <1>7 DEF T, G, M

\* Where the clock stands n cycles on, and the samples made meanwhile.
ClockAt(s, n)    == (s.timer + n) % CyclesPerSample
SamplesDue(s, n) == (s.timer + n) \div CyclesPerSample

LEMMA ClockNumbers ==
  ASSUME NEW h, NEW s \in SoundSpu(h), NEW n \in Nat
  PROVE  /\ ClockAt(s, n) \in 0..(CyclesPerSample - 1) /\ SamplesDue(s, n) \in Nat
         /\ ClockAt(s, n) + 1 < CyclesPerSample =>
              SamplesDue(s, n + 1) = SamplesDue(s, n) /\ ClockAt(s, n + 1) = ClockAt(s, n) + 1
         /\ ~(ClockAt(s, n) + 1 < CyclesPerSample) =>
              SamplesDue(s, n + 1) = SamplesDue(s, n) + 1 /\ ClockAt(s, n + 1) = 0
<1>1. s.timer \in 0..(CyclesPerSample - 1) /\ CyclesPerSample \in Nat \ {0}
  BY ClockType, SpuFields DEF SoundSpu
<1> DEFINE x == s.timer + n
<1>2. x \in Nat /\ s.timer + (n + 1) = x + 1
  BY <1>1
<1> HIDE DEF x
<1>3. /\ x \div CyclesPerSample \in Nat /\ x % CyclesPerSample \in 0..(CyclesPerSample - 1)
      /\ (x % CyclesPerSample) + 1 < CyclesPerSample =>
           /\ (x + 1) \div CyclesPerSample = x \div CyclesPerSample
           /\ (x + 1) % CyclesPerSample = (x % CyclesPerSample) + 1
      /\ (x % CyclesPerSample) + 1 = CyclesPerSample =>
           /\ (x + 1) \div CyclesPerSample = x \div CyclesPerSample + 1
           /\ (x + 1) % CyclesPerSample = 0
  BY <1>1, <1>2, DivisionOfSuccessor
<1>4. /\ ClockAt(s, n) = x % CyclesPerSample /\ SamplesDue(s, n) = x \div CyclesPerSample
      /\ ClockAt(s, n + 1) = (x + 1) % CyclesPerSample
      /\ SamplesDue(s, n + 1) = (x + 1) \div CyclesPerSample
  BY <1>2 DEF ClockAt, SamplesDue, x
<1>5. ClockAt(s, n) \in 0..(CyclesPerSample - 1)
  BY <1>3, <1>4
<1>6. ~(ClockAt(s, n) + 1 < CyclesPerSample) => ClockAt(s, n) + 1 = CyclesPerSample
  BY <1>1, <1>5
<1> QED BY <1>3, <1>4, <1>5, <1>6

LEMMA SampledIs ==
  ASSUME NEW h \in Nat, NEW s \in SoundSpu(h), NEW n \in Nat
  PROVE  Sampled(s, n) = Clocked(After(h, s, SamplesDue(s, n)), ClockAt(s, n),
                                 s.raise \/ After(h, s, SamplesDue(s, n)).raise)
<1> DEFINE t == ClockAt(s, n)
           k == SamplesDue(s, n)
           v == Clocked(s, t, s.raise)
           Runs(f) == f = [i \in 0..k |-> IF i = 0 THEN v ELSE GenerateSample(f[i - 1])]
           g == CHOOSE f : Runs(f)
           S == SoundSpu(h)
           G == SampleOf(h)
<1>1. G \in [S -> S] /\ \A e \in S : G[e] = GenerateSample(e)
  BY SampleKeeps DEF SampleOf
<1>2. t \in 0..(CyclesPerSample - 1) /\ k \in Nat /\ s.raise \in BOOLEAN
  BY ClockNumbers, SpuFields DEF SoundSpu
<1>3. v = [s EXCEPT !.timer = (s.timer + n) % CyclesPerSample]
  BY DEF Clocked, ClockAt, SoundSpu, SpuState
<1>4. v \in S
  BY <1>2, ClockedType
<1> HIDE DEF G, S, t
<1>5. PICK f : IsRun(S, G, v, k, f)
  BY <1>1, <1>2, <1>4, RunExists
<1>6. Runs(f)
  <2>1. ASSUME NEW i \in 0..k PROVE i = 0 \/ i \in 1..k
    BY <1>2
  <2>2. \A i \in 0..k : f[i] = IF i = 0 THEN v ELSE GenerateSample(f[i - 1])
    BY <1>1, <1>5, <2>1 DEF IsRun
  <2> QED BY <1>5, <2>2 DEF IsRun
<1>7. Runs(g)
  BY <1>6
<1>8. Sampled(s, n) = g[k]
  BY <1>3 DEF Sampled, Repeat, SamplesDue
<1> HIDE DEF g, k
<1>9. g[0] = v /\ \A i \in 1..k : g[i] = GenerateSample(g[i - 1])
  BY <1>2, <1>7
<1>10. g[k] = Iterated(G, v, k)
  <2>1. \A i \in 1..k : g[i - 1] \in S => g[i] = G[g[i - 1]]
    BY <1>1, <1>9
  <2> HIDE DEF v
  <2> QED BY <1>1, <1>2, <1>4, <1>9, <2>1, RunIterates
<1>11. Iterated(G, v, k) = Clocked(After(h, s, k), t, s.raise \/ After(h, s, k).raise)
  BY <1>2, SamplesCommute DEF G
<1> QED BY <1>8, <1>10, <1>11 DEF t, k

LEMMA SpuTickIs ==
  ASSUME NEW h \in Nat, NEW s \in SoundSpu(h), NEW n \in Nat
  PROVE  /\ SpuTick(s, n) = Clocked(After(h, s, SamplesDue(s, n)), ClockAt(s, n), FALSE)
         /\ SpuRaises(s, n) = (s.raise \/ After(h, s, SamplesDue(s, n)).raise)
         /\ SpuTick(s, n) \in SoundSpu(h) /\ SpuRaises(s, n) \in BOOLEAN
         /\ SpuTick(s, n).timer = ClockAt(s, n) /\ SpuTick(s, n).raise = FALSE
<1> DEFINE t == ClockAt(s, n)
           m == After(h, s, SamplesDue(s, n))
           r == s.raise \/ m.raise
<1>1. t \in 0..(CyclesPerSample - 1) /\ m \in SoundSpu(h) /\ m.raise \in BOOLEAN
  BY ClockNumbers, AfterSteps
<1>2. s.raise \in BOOLEAN /\ r \in BOOLEAN
  BY <1>1, SpuFields DEF SoundSpu
<1>3. Sampled(s, n) = Clocked(m, t, r)
  BY SampledIs
<1> HIDE DEF t, m, r
<1>4. Clocked(m, t, r) \in SoundSpu(h) /\ Clocked(m, t, r).raise = r
  BY <1>1, <1>2, ClockedType
<1>5. SpuTick(s, n) = Clocked(m, t, FALSE)
  <2>1. SpuTick(s, n) = [Clocked(m, t, r) EXCEPT !.raise = FALSE]
    BY <1>3 DEF SpuTick
  <2> QED BY <1>1, <2>1 DEF Clocked, SoundSpu, SpuState
<1>6. SpuRaises(s, n) = r
  BY <1>3, <1>4 DEF SpuRaises
<1>7. FALSE \in BOOLEAN
  OBVIOUS
<1>8. Clocked(m, t, FALSE) \in SoundSpu(h) /\ Clocked(m, t, FALSE).timer = t
  BY <1>1, <1>7, ClockedType
<1>9. Clocked(m, t, FALSE).raise = FALSE
  BY <1>1 DEF Clocked, SoundSpu, SpuState
<1> QED BY <1>2, <1>5, <1>6, <1>8, <1>9 DEF t, m, r

LEMMA ClockSuccessor ==
  ASSUME NEW c \in Nat \ {0}, NEW t \in 0..(c - 1)
  PROVE  /\ t + 1 < c => (t + 1) \div c = 0 /\ (t + 1) % c = t + 1
         /\ ~(t + 1 < c) => (t + 1) \div c = 1 /\ (t + 1) % c = 0
<1>1. CASE t + 1 < c
  <2>1. t + 1 \in 0..(c - 1)
    BY <1>1
  <2> QED BY <1>1, <2>1, DivisionOfSmall
<1>2. CASE ~(t + 1 < c)
  <2>1. t + 1 = c
    BY <1>2
  <2>2. c \div c = 1 /\ c % c = 0
    OBVIOUS
  <2> QED BY <1>2, <2>1, <2>2
<1> QED BY <1>1, <1>2

\* n cycles and one more are n + 1 cycles, and ring when either does.
LEMMA SpuTicksCompose ==
  ASSUME NEW h \in Nat, NEW s \in SoundSpu(h), NEW n \in Nat
  PROVE  /\ SpuTick(SpuTick(s, n), 1) = SpuTick(s, n + 1)
         /\ SpuRaises(s, n + 1) <=> SpuRaises(s, n) \/ SpuRaises(SpuTick(s, n), 1)
<1> DEFINE t == ClockAt(s, n)
           k == SamplesDue(s, n)
           m == After(h, s, k)
           e == SpuTick(s, n)
           z == Clocked(m, 0, FALSE)
<1>1. /\ e = Clocked(m, t, FALSE) /\ (SpuRaises(s, n) <=> s.raise \/ m.raise)
      /\ e \in SoundSpu(h) /\ e.timer = t /\ e.raise = FALSE
  BY SpuTickIs
<1>2. /\ t \in 0..(CyclesPerSample - 1) /\ k \in Nat /\ CyclesPerSample \in Nat \ {0}
      /\ t + 1 < CyclesPerSample => SamplesDue(s, n + 1) = k /\ ClockAt(s, n + 1) = t + 1
      /\ ~(t + 1 < CyclesPerSample) => SamplesDue(s, n + 1) = k + 1 /\ ClockAt(s, n + 1) = 0
  BY ClockNumbers, ClockType
<1>3. /\ m \in SoundSpu(h) /\ m.raise \in BOOLEAN /\ After(h, s, k + 1) = GenerateSample(m)
      /\ s.raise \in BOOLEAN
  BY <1>2, AfterSteps, SpuFields DEF SoundSpu
<1> HIDE DEF e
<1>4. /\ t + 1 < CyclesPerSample => SamplesDue(e, 1) = 0 /\ ClockAt(e, 1) = t + 1
      /\ ~(t + 1 < CyclesPerSample) => SamplesDue(e, 1) = 1 /\ ClockAt(e, 1) = 0
  <2> HIDE DEF t
  <2>3. /\ t + 1 < CyclesPerSample =>
             (t + 1) \div CyclesPerSample = 0 /\ (t + 1) % CyclesPerSample = t + 1
        /\ ~(t + 1 < CyclesPerSample) =>
             (t + 1) \div CyclesPerSample = 1 /\ (t + 1) % CyclesPerSample = 0
    BY <1>2, ClockSuccessor
  <2>4. SamplesDue(e, 1) = (t + 1) \div CyclesPerSample /\ ClockAt(e, 1) = (t + 1) % CyclesPerSample
    BY <1>1 DEF SamplesDue, ClockAt
  <2> QED BY <2>3, <2>4, Zenon
<1>5. Clocked(e, 0, FALSE) = z /\ z \in SoundSpu(h) /\ z.raise = FALSE
  <2>1. FALSE \in BOOLEAN
    OBVIOUS
  <2>2. z \in SoundSpu(h)
    BY <1>3, <2>1, ClockType, ClockedType
  <2> QED BY <1>1, <1>3, <2>2 DEF Clocked, SoundSpu, SpuState
<1>6. After(h, e, 0) = z /\ After(h, e, 1) = GenerateSample(z)
  <2> HIDE DEF z
  <2>1. 0 + 1 = 1 /\ 0 \in Nat
    OBVIOUS
  <2>2. After(h, e, 0) = z
    BY <1>1, <1>5, AfterSteps
  <2>3. After(h, e, 0 + 1) = GenerateSample(After(h, e, 0))
    BY <1>1, <2>1, AfterSteps
  <2> QED BY <2>1, <2>2, <2>3
<1> DEFINE b == Rings(m)
           g == GenerateSample(m)
<1>7. GenerateSample(z) = Clocked(g, 0, b) /\ b \in BOOLEAN
  <2>1. FALSE \in BOOLEAN
    OBVIOUS
  <2>2. b \in BOOLEAN
    BY <1>3, RingsType DEF SoundSpu
  <2>3. GenerateSample(z) = Clocked(g, 0, FALSE \/ b)
    BY <1>3, <2>1, ClockType, SampleCommutes
  <2>4. (FALSE \/ b) = b
    BY <2>2
  <2> HIDE DEF b, g, z
  <2> QED BY <2>2, <2>3, <2>4
<1>8. g \in SoundSpu(h) /\ g.raise = (m.raise \/ b)
  BY <1>3, SampleKeeps
<1>9. /\ SpuTick(s, n + 1) = Clocked(After(h, s, SamplesDue(s, n + 1)), ClockAt(s, n + 1), FALSE)
      /\ SpuRaises(s, n + 1) = (s.raise \/ After(h, s, SamplesDue(s, n + 1)).raise)
  <2>1. n + 1 \in Nat
    OBVIOUS
  <2> QED BY <2>1, SpuTickIs
<1>10. /\ SpuTick(e, 1) = Clocked(After(h, e, SamplesDue(e, 1)), ClockAt(e, 1), FALSE)
       /\ SpuRaises(e, 1) = (e.raise \/ After(h, e, SamplesDue(e, 1)).raise)
  <2>0. e \in SoundSpu(h)
    BY <1>1
  <2>1. \A i \in Nat :
          /\ SpuTick(e, i) = Clocked(After(h, e, SamplesDue(e, i)), ClockAt(e, i), FALSE)
          /\ SpuRaises(e, i) = (e.raise \/ After(h, e, SamplesDue(e, i)).raise)
    BY <2>0, SpuTickIs
  <2>2. 1 \in Nat
    OBVIOUS
  <2> QED BY <2>1, <2>2
<1>11. /\ Clocked(z, t + 1, FALSE) = Clocked(m, t + 1, FALSE)
       /\ Clocked(Clocked(g, 0, b), 0, FALSE) = Clocked(g, 0, FALSE)
       /\ Clocked(g, 0, b).raise = b
  <2> HIDE DEF g, b, m
  <2>1. m \in SpuState(Frames) /\ g \in SpuState(Frames)
    BY <1>3, <1>8 DEF SoundSpu
  <2> QED BY <2>1 DEF Clocked, SpuState
<1> HIDE DEF m, k, t, z, g, b
<1>12. CASE t + 1 < CyclesPerSample
  <2>1. SpuTick(e, 1) = Clocked(z, t + 1, FALSE) /\ SpuTick(s, n + 1) = Clocked(m, t + 1, FALSE)
    BY <1>2, <1>4, <1>6, <1>9, <1>10, <1>12 DEF m
  <2>2. SpuRaises(e, 1) <=> FALSE
    BY <1>1, <1>4, <1>5, <1>6, <1>10, <1>12
  <2>3. SpuRaises(s, n + 1) <=> s.raise \/ m.raise
    BY <1>2, <1>9, <1>12 DEF m
  <2> QED BY <1>1, <1>11, <2>1, <2>2, <2>3 DEF e
<1>13. CASE ~(t + 1 < CyclesPerSample)
  <2>1. After(h, e, SamplesDue(e, 1)) = Clocked(g, 0, b)
    BY <1>4, <1>6, <1>7, <1>13
  <2>2. After(h, s, SamplesDue(s, n + 1)) = g
    BY <1>2, <1>3, <1>13 DEF g
  <2>3. SpuTick(e, 1) = Clocked(g, 0, FALSE) /\ SpuTick(s, n + 1) = Clocked(g, 0, FALSE)
    BY <1>2, <1>4, <1>9, <1>10, <1>11, <1>13, <2>1, <2>2
  <2>4. SpuRaises(e, 1) <=> b
    BY <1>1, <1>7, <1>10, <1>11, <2>1
  <2>5. SpuRaises(s, n + 1) <=> s.raise \/ m.raise \/ b
    BY <1>8, <1>9, <2>2
  <2> QED BY <1>1, <2>3, <2>4, <2>5 DEF e
<1> QED BY <1>12, <1>13

\* Nothing rings before the sample that is due next.
LEMMA SpuStaysQuiet ==
  ASSUME NEW h \in Nat, NEW s \in SoundSpu(h), NEW n \in Nat \ {0}, n < SpuNextEvent(s)
  PROVE  ~SpuRaises(s, n)
<1>1. /\ s.raise \in BOOLEAN /\ s.timer \in 0..(CyclesPerSample - 1)
      /\ CyclesPerSample \in Nat \ {0}
  BY SpuFields, ClockType DEF SoundSpu
<1>2. ~s.raise /\ n < CyclesPerSample - s.timer
  BY <1>1 DEF SpuNextEvent
<1>3. SamplesDue(s, n) = 0
  <2>1. s.timer + n \in 0..(CyclesPerSample - 1)
    BY <1>1, <1>2
  <2> QED BY <1>1, <2>1, DivisionOfSmall DEF SamplesDue
<1>4. SpuRaises(s, n) = (s.raise \/ After(h, s, 0).raise)
  BY <1>3, SpuTickIs
<1>5. After(h, s, 0).raise = FALSE
  <2>1. After(h, s, 0) = Clocked(s, 0, FALSE)
    BY AfterSteps
  <2> QED BY <2>1 DEF Clocked, SoundSpu, SpuState
<1> QED BY <1>2, <1>4, <1>5

(***************************************************************************)
(* What the drive and the guest do to it.                                  *)
(***************************************************************************)
LEMMA NewestType ==
  ASSUME NEW S, NEW q \in Seq(S), NEW n \in Nat
  PROVE  /\ Newest(q, n) \in Seq(S) /\ Len(Newest(q, n)) <= n
         /\ Len(q) <= n => Newest(q, n) = q
<1> DEFINE l == Len(q)
           k == IF l < n THEN l ELSE n
           a == l - k + 1
           r == Newest(q, n)
<1>1. l \in Nat /\ k \in Nat /\ k <= l /\ k <= n /\ a \in Nat \ {0} /\ l - a + 1 = k
  OBVIOUS
<1>2. r = SubSeq(q, a, l)
  BY DEF Newest
<1>3. \A i \in a..l : q[i] \in S
  <2>1. DOMAIN q = 1..l /\ \A i \in DOMAIN q : q[i] \in S
    BY QueueDomain
  <2> HIDE DEF l, a
  <2> QED BY <1>1, <2>1
<1>4. r \in Seq(S) /\ Len(r) = k /\ \A i \in 1..k : r[i] = q[a + i - 1]
  <2> HIDE DEF l, a, r, k
  <2>1. /\ r \in Seq(S) /\ Len(r) = IF a <= l THEN l - a + 1 ELSE 0
        /\ \A i \in 1..(l - a + 1) : r[i] = q[a + i - 1]
    BY <1>1, <1>2, <1>3, SubSeqProperties
  <2> QED BY <1>1, <2>1
<1>5. ASSUME l <= n PROVE r = q
  <2>1. k = l /\ a = 1
    BY <1>1, <1>5
  <2> HIDE DEF r, l, a, k
  <2>2. Len(r) = l /\ \A i \in 1..l : r[i] = q[i]
    BY <1>1, <1>4, <2>1
  <2>3. Len(q) = l
    BY DEF l
  <2> QED BY <1>4, <2>2, <2>3, SeqEqual
<1> QED BY <1>1, <1>4, <1>5

LEMMA CdAudioPushed ==
  ASSUME NEW h, NEW s \in SoundSpu(h), NEW q \in Seq(Frames)
  PROVE  PushCdAudio(s, q) \in SoundSpu(h) /\ (q = <<>> => PushCdAudio(s, q) = s)
<1> DEFINE r == Newest(s.cdQueue \o q, CdQueueMax)
           e == PushCdAudio(s, q)
<1>1. /\ s \in SpuState(Frames) /\ \A v \in Voices : Sounding(s.voices[v])
      /\ Len(s.samples) <= MaxQueued /\ Len(s.cdQueue) <= CdQueueMax /\ Whole(s, h)
      /\ s.cdQueue \in Seq(Frames) /\ CdQueueMax \in Nat
  BY SpuFields, CountType DEF SoundSpu
<1>2. s.cdQueue \o q \in Seq(Frames) /\ (q = <<>> => s.cdQueue \o q = s.cdQueue)
  BY <1>1, ConcatProperties, ConcatEmptySeq
<1>3. r \in Seq(Frames) /\ Len(r) <= CdQueueMax /\ (q = <<>> => r = s.cdQueue)
  BY <1>1, <1>2, NewestType
<1>4. e = [s EXCEPT !.cdQueue = r]
  BY DEF PushCdAudio
<1> HIDE DEF r, e
<1>5. /\ e \in SpuState(Frames) /\ e.voices = s.voices /\ e.samples = s.samples
      /\ e.produced = s.produced /\ e.dropped = s.dropped /\ e.cdQueue = r
  BY <1>1, <1>3, <1>4 DEF SpuState
<1>6. Whole(e, h)
  BY <1>1, <1>5 DEF Whole
<1>7. e \in SoundSpu(h)
  BY <1>1, <1>3, <1>5, <1>6 DEF SoundSpu
<1>8. q = <<>> => e = s
  BY <1>1, <1>3, <1>4 DEF SpuState
<1> QED BY <1>7, <1>8 DEF e

\* A state that has the queues of another is as whole.
LEMMA SameQueues ==
  ASSUME NEW h, NEW s \in SoundSpu(h), NEW e \in SpuState(Frames),
         \A v \in Voices : Sounding(e.voices[v]), e.cdQueue = s.cdQueue,
         e.samples = s.samples, e.produced = s.produced, e.dropped = s.dropped
  PROVE  e \in SoundSpu(h)
<1>1. Whole(s, h) /\ Len(s.samples) <= MaxQueued /\ Len(s.cdQueue) <= CdQueueMax
  BY DEF SoundSpu
<1>2. Whole(e, h)
  BY <1>1 DEF Whole
<1> QED BY <1>1, <1>2 DEF SoundSpu

LEMMA SoundFields ==
  ASSUME NEW h, NEW s \in SoundSpu(h)
  PROVE  s \in SpuState(Frames) /\ \A v \in Voices : Sounding(s.voices[v])
  BY DEF SoundSpu

LEMMA NoteIrqKeeps ==
  ASSUME NEW h, NEW s \in SoundSpu(h), NEW match \in BOOLEAN
  PROVE  NoteIrq(s, match) \in SoundSpu(h)
<1>1. CASE s.irqOn /\ match
  <2> DEFINE e == [s EXCEPT !.irqFlag = TRUE, !.raise = TRUE]
  <2>1. /\ e \in SpuState(Frames) /\ e.voices = s.voices /\ e.samples = s.samples
        /\ e.produced = s.produced /\ e.dropped = s.dropped /\ e.cdQueue = s.cdQueue
    <3>1. s \in SpuState(Frames)
      BY SoundFields
    <3> QED BY <3>1 DEF SpuState
  <2> HIDE DEF e
  <2>2. e \in SoundSpu(h)
    BY <2>1, SoundFields, SameQueues
  <2> QED BY <1>1, <2>2 DEF NoteIrq, e
<1>2. CASE ~(s.irqOn /\ match)
  BY <1>2 DEF NoteIrq
<1> QED BY <1>1, <1>2

LEMMA UnitTransfers ==
  /\ Units * Halves \in Nat \ {0}
  /\ \A u \in Unit : u * Halves \in 0..(Units * Halves - 1)
BY VoiceAssumption DEF Unit

LEMMA TransferIrqKeeps ==
  ASSUME NEW h, NEW s \in SoundSpu(h)
  PROVE  NoteTransferIrq(s) \in SoundSpu(h)
  BY NoteIrqKeeps DEF NoteTransferIrq

LEMMA NextHalfKeeps ==
  ASSUME NEW h, NEW s \in SoundSpu(h)
  PROVE  NextHalf(s) \in SoundSpu(h)
<1> DEFINE t == (s.transfer + 1) % (Units * Halves)
           e == NextHalf(s)
<1>1. t \in 0..(Units * Halves - 1)
  <2> DEFINE c == Units * Halves
  <2>1. c \in Nat \ {0} /\ s.transfer \in 0..(c - 1)
    BY SoundFields, SpuFields, UnitTransfers
  <2> HIDE DEF c
  <2>2. (s.transfer + 1) % c \in 0..(c - 1)
    BY <2>1
  <2> QED BY <2>2 DEF c
<1>2. e = [s EXCEPT !.transfer = t]
  BY DEF NextHalf
<1> HIDE DEF t, e
<1>3. /\ e \in SpuState(Frames) /\ e.voices = s.voices /\ e.samples = s.samples
      /\ e.produced = s.produced /\ e.dropped = s.dropped /\ e.cdQueue = s.cdQueue
  <2>1. s \in SpuState(Frames)
    BY SoundFields
  <2> QED BY <1>1, <1>2, <2>1 DEF SpuState
<1> QED BY <1>3, SoundFields, SameQueues DEF e

LEMMA FifoWriteKeeps ==
  ASSUME NEW h, NEW s \in SoundSpu(h), NEW half \in Flags
  PROVE  FifoWrite(s, half) \in SoundSpu(h)
<1> DEFINE r == [s.ram EXCEPT ![s.transfer] = half]
           e == [s EXCEPT !.ram[s.transfer] = half]
<1>0. s \in SpuState(Frames) /\ r \in SampleRam /\ e = [s EXCEPT !.ram = r]
  <2>1. s \in SpuState(Frames) /\ s.ram \in SampleRam
    BY SoundFields, SpuFields
  <2> QED BY <2>1 DEF SampleRam
<1> HIDE DEF r, e
<1>1. /\ e \in SpuState(Frames) /\ e.voices = s.voices /\ e.samples = s.samples
      /\ e.produced = s.produced /\ e.dropped = s.dropped /\ e.cdQueue = s.cdQueue
  BY <1>0 DEF SpuState
<1>2. e \in SoundSpu(h)
  BY <1>1, SoundFields, SameQueues
<1> QED BY <1>2, TransferIrqKeeps, NextHalfKeeps DEF FifoWrite, e

LEMMA DmaKeeps ==
  ASSUME NEW h, NEW s \in SoundSpu(h)
  PROVE  /\ \A low, high \in Flags : DmaWriteWord(s, low, high) \in SoundSpu(h)
         /\ DmaReadWord(s) \in SoundSpu(h)
<1>1. ASSUME NEW low \in Flags, NEW high \in Flags
      PROVE  DmaWriteWord(s, low, high) \in SoundSpu(h)
  BY FifoWriteKeeps DEF DmaWriteWord
<1>2. DmaReadWord(s) \in SoundSpu(h)
  BY TransferIrqKeeps, NextHalfKeeps DEF DmaReadWord
<1> QED BY <1>1, <1>2

\* What a register write may change besides sample RAM, in the voices.
LEMMA VoicesKept ==
  ASSUME NEW h, NEW s \in SoundSpu(h), NEW a \in [Voices -> VoiceState],
         \A v \in Voices : Sounding(a[v])
  PROVE  [s EXCEPT !.voices = a] \in SoundSpu(h)
<1> DEFINE e == [s EXCEPT !.voices = a]
<1>1. /\ e \in SpuState(Frames) /\ e.voices = a /\ e.samples = s.samples
      /\ e.produced = s.produced /\ e.dropped = s.dropped /\ e.cdQueue = s.cdQueue
  <2>1. s \in SpuState(Frames)
    BY SoundFields
  <2> QED BY <2>1 DEF SpuState
<1> HIDE DEF e
<1> QED BY <1>1, SameQueues DEF e

LEMMA KeyedKeeps ==
  ASSUME NEW h, NEW s \in SoundSpu(h), NEW mask
  PROVE  Keyed(s, mask) \in SoundSpu(h) /\ Released(s, mask) \in SoundSpu(h)
<1> DEFINE a == [v \in Voices |->
                   IF v \in mask THEN KeyOn(s.voices[v], s.ram, s.start[v]) ELSE s.voices[v]]
           b == [v \in Voices |-> IF v \in mask THEN KeyOff(s.voices[v]) ELSE s.voices[v]]
<1>1. /\ s.voices \in [Voices -> VoiceState] /\ s.start \in [Voices -> Unit]
      /\ \A v \in Voices : Sounding(s.voices[v])
  BY SoundFields, SpuFields
<1>2. ASSUME NEW v \in Voices
      PROVE  a[v] \in VoiceState /\ Sounding(a[v]) /\ b[v] \in VoiceState /\ Sounding(b[v])
  <2>1. s.voices[v] \in VoiceState /\ s.start[v] \in Unit /\ Sounding(s.voices[v])
    BY <1>1
  <2>2. /\ KeyOn(s.voices[v], s.ram, s.start[v]) \in VoiceState
        /\ Sounding(KeyOn(s.voices[v], s.ram, s.start[v]))
    BY <2>1, KeyOnType DEF OnVoice, Sounding
  <2>3. KeyOff(s.voices[v]) \in VoiceState /\ Sounding(KeyOff(s.voices[v]))
    BY <2>1, KeyOffType
  <2> QED BY <2>1, <2>2, <2>3
<1>3. a \in [Voices -> VoiceState] /\ b \in [Voices -> VoiceState]
  BY <1>2
<1>4. Keyed(s, mask) = [s EXCEPT !.voices = a] /\ Released(s, mask) = [s EXCEPT !.voices = b]
  BY DEF Keyed, Released
<1> HIDE DEF a, b
<1> QED BY <1>2, <1>3, <1>4, VoicesKept

\* A write to one field of a voice that says nothing of its phase.
LEMMA VoiceFieldKept ==
  ASSUME NEW h, NEW s \in SoundSpu(h), NEW v \in Voices, NEW w \in VoiceState,
         w.on = s.voices[v].on, w.phase = s.voices[v].phase
  PROVE  [s EXCEPT !.voices[v] = w] \in SoundSpu(h)
<1> DEFINE a == [s.voices EXCEPT ![v] = w]
<1>1. s.voices \in [Voices -> VoiceState] /\ \A u \in Voices : Sounding(s.voices[u])
  BY SoundFields, SpuFields
<1>2. a \in [Voices -> VoiceState] /\ \A u \in Voices : Sounding(a[u])
  BY <1>1 DEF Sounding
<1>3. [s EXCEPT !.voices[v] = w] = [s EXCEPT !.voices = a]
  OBVIOUS
<1> HIDE DEF a
<1> QED BY <1>2, <1>3, VoicesKept

LEMMA RegisterKeeps ==
  ASSUME NEW h, NEW s \in SoundSpu(h), NEW w \in RegisterWrite
  PROVE  SpuWrite(s, w) \in SoundSpu(h)
<1> DEFINE e == SpuWrite(s, w)
<1>0. s \in SpuState(Frames) /\ \A v \in Voices : Sounding(s.voices[v])
  BY SoundFields
<1>1. CASE w \in [reg : {"fifo"}, half : Flags]
  <2>1. w.reg = "fifo" /\ w.half \in Flags
    BY <1>1
  <2> QED BY <2>1, FifoWriteKeeps DEF SpuWrite
<1>2. CASE w \in [reg : {"control"}, on : BOOLEAN]
  <2> DEFINE f == s.irqFlag /\ w.on
             o == w.on
  <2>1. w.reg = "control" /\ o \in BOOLEAN /\ f \in BOOLEAN
    BY <1>0, <1>2, SpuFields
  <2>2. e = [s EXCEPT !.irqOn = o, !.irqFlag = f]
    BY <2>1 DEF SpuWrite, Control
  <2> HIDE DEF e, f, o
  <2>3. /\ e \in SpuState(Frames) /\ e.voices = s.voices /\ e.samples = s.samples
        /\ e.produced = s.produced /\ e.dropped = s.dropped /\ e.cdQueue = s.cdQueue
    BY <1>0, <2>1, <2>2 DEF SpuState
  <2> QED BY <1>0, <2>3, SameQueues DEF e
<1>3. CASE w \in [reg : {"transfer", "irqAddr"}, unit : Unit]
  <2> DEFINE t == w.unit * Halves
             u == w.unit
  <2>1. /\ u \in Unit /\ t \in 0..(Units * Halves - 1)
        /\ w.reg = "transfer" \/ w.reg = "irqAddr"
    BY <1>3, UnitTransfers
  <2>2. \/ e = [s EXCEPT !.transfer = t]
        \/ e = [s EXCEPT !.irqAddr = u]
    BY <2>1 DEF SpuWrite
  <2> HIDE DEF e, t, u
  <2>3. /\ e \in SpuState(Frames) /\ e.voices = s.voices /\ e.samples = s.samples
        /\ e.produced = s.produced /\ e.dropped = s.dropped /\ e.cdQueue = s.cdQueue
    BY <1>0, <2>1, <2>2 DEF SpuState
  <2> QED BY <1>0, <2>3, SameQueues DEF e
<1>4. CASE w \in [reg : {"keyOn", "keyOff", "endx"}, mask : SUBSET Voices]
  <2>1. w.reg \in {"keyOn", "keyOff", "endx"}
    BY <1>4
  <2>2. CASE w.reg = "keyOn"
    BY <2>2, KeyedKeeps DEF SpuWrite
  <2>3. CASE w.reg = "keyOff"
    BY <2>3, KeyedKeeps DEF SpuWrite
  <2>4. CASE w.reg = "endx"
    <3> DEFINE a == [v \in Voices |-> IF v \in w.mask THEN [s.voices[v] EXCEPT !.ended = FALSE]
                                                      ELSE s.voices[v]]
    <3>1. ASSUME NEW v \in Voices PROVE a[v] \in VoiceState /\ Sounding(a[v])
      <4>1. s.voices[v] \in VoiceState /\ Sounding(s.voices[v])
        BY <1>0, SpuFields
      <4> QED BY <4>1 DEF VoiceState, Sounding
    <3>2. a \in [Voices -> VoiceState]
      BY <3>1
    <3>3. e = [s EXCEPT !.voices = a]
      BY <2>4 DEF SpuWrite
    <3> HIDE DEF a, e
    <3> QED BY <3>1, <3>2, <3>3, VoicesKept DEF e
  <2> QED BY <2>1, <2>2, <2>3, <2>4
<1>5. CASE w \in [reg : {"start", "repeat"}, v : Voices, unit : Unit]
  <2>1. w.v \in Voices /\ w.unit \in Unit /\ (w.reg = "start" \/ w.reg = "repeat")
    BY <1>5
  <2>2. CASE w.reg = "start"
    <3> DEFINE a == [s.start EXCEPT ![w.v] = w.unit]
    <3>1. a \in [Voices -> Unit]
      BY <1>0, <2>1, SpuFields
    <3>2. e = [s EXCEPT !.start = a]
      BY <2>2 DEF SpuWrite
    <3> HIDE DEF a, e
    <3>3. /\ e \in SpuState(Frames) /\ e.voices = s.voices /\ e.samples = s.samples
          /\ e.produced = s.produced /\ e.dropped = s.dropped /\ e.cdQueue = s.cdQueue
      BY <1>0, <3>1, <3>2 DEF SpuState
    <3> QED BY <1>0, <3>3, SameQueues DEF e
  <2>3. CASE w.reg = "repeat"
    <3> DEFINE b == [s.voices[w.v] EXCEPT !.repeat = w.unit]
    <3>1. b \in VoiceState /\ b.on = s.voices[w.v].on /\ b.phase = s.voices[w.v].phase
      <4>1. s.voices[w.v] \in VoiceState
        BY <1>0, <2>1, SpuFields
      <4> QED BY <2>1, <4>1 DEF VoiceState
    <3>2. e = [s EXCEPT !.voices[w.v] = b]
      BY <2>3 DEF SpuWrite
    <3> HIDE DEF b, e
    <3> QED BY <2>1, <3>1, <3>2, VoiceFieldKept DEF e
  <2> QED BY <2>1, <2>2, <2>3
<1>6. CASE w \in [reg : {"pitch"}, v : Voices, pitch : Nat]
  <2> DEFINE a == [s.pitch EXCEPT ![w.v] = w.pitch]
  <2>1. a \in [Voices -> Nat] /\ w.reg = "pitch"
    BY <1>0, <1>6, SpuFields
  <2>2. e = [s EXCEPT !.pitch = a]
    BY <2>1 DEF SpuWrite
  <2> HIDE DEF a, e
  <2>3. /\ e \in SpuState(Frames) /\ e.voices = s.voices /\ e.samples = s.samples
        /\ e.produced = s.produced /\ e.dropped = s.dropped /\ e.cdQueue = s.cdQueue
    BY <1>0, <2>1, <2>2 DEF SpuState
  <2> QED BY <1>0, <2>3, SameQueues DEF e
<1>7. CASE w \in [reg : {"envelope"}, v : Voices, env : Envelopes]
  <2> DEFINE a == [s.envelope EXCEPT ![w.v] = w.env]
  <2>1. w.v \in Voices /\ w.env \in Envelopes /\ w.reg = "envelope"
    BY <1>7
  <2>2. a \in [Voices -> Envelopes]
    BY <1>0, <2>1, SpuFields
  <2>3. e = [s EXCEPT !.envelope = a]
    BY <2>1 DEF SpuWrite
  <2> HIDE DEF a, e
  <2>4. /\ e \in SpuState(Frames) /\ e.voices = s.voices /\ e.samples = s.samples
        /\ e.produced = s.produced /\ e.dropped = s.dropped /\ e.cdQueue = s.cdQueue
    BY <1>0, <2>2, <2>3 DEF SpuState
  <2> QED BY <1>0, <2>4, SameQueues DEF e
<1>8. CASE w \in [reg : {"level"}, v : Voices, level : 0..MaxLevel]
  <2> DEFINE b == [s.voices[w.v] EXCEPT !.level = w.level]
  <2>1. w.v \in Voices /\ w.level \in 0..MaxLevel /\ w.reg = "level"
    BY <1>8
  <2>2. b \in VoiceState /\ b.on = s.voices[w.v].on /\ b.phase = s.voices[w.v].phase
    <3>1. s.voices[w.v] \in VoiceState
      BY <1>0, <2>1, SpuFields
    <3> QED BY <2>1, <3>1 DEF VoiceState
  <2>3. e = [s EXCEPT !.voices[w.v] = b]
    BY <2>1 DEF SpuWrite
  <2> HIDE DEF b, e
  <2> QED BY <2>1, <2>2, <2>3, VoiceFieldKept DEF e
<1> QED BY <1>1, <1>2, <1>3, <1>4, <1>5, <1>6, <1>7, <1>8 DEF RegisterWrite

\* The frontend takes what is queued.
LEMMA DrainedKeeps ==
  ASSUME NEW h \in Nat, NEW s \in SoundSpu(h)
  PROVE  /\ (h + Len(s.samples) \div 2) % Count \in 0..(Count - 1)
         /\ Drained(s) \in SoundSpu((h + Len(s.samples) \div 2) % Count)
<1> DEFINE e == Drained(s)
<1>1. /\ s \in SpuState(Frames) /\ \A v \in Voices : Sounding(s.voices[v])
      /\ Len(s.cdQueue) <= CdQueueMax /\ Whole(s, h) /\ s.dropped \in 0..(Count - 1)
      /\ Count \in Nat \ {0} /\ MaxQueued \in Nat
  BY SpuFields, CountType DEF SoundSpu
<1>2. PICK q \in Nat : IsStream(s.samples, h, s.dropped, s.produced, q)
  BY <1>1 DEF Whole
<1>3. Len(s.samples) \div 2 = q
  BY <1>2 DEF IsStream
<1> DEFINE z == Wrapped(h + q)
<1>4. (h + Len(s.samples) \div 2) % Count = z
  BY <1>3 DEF Wrapped
<1>5. z \in 0..(Count - 1) /\ z \in Nat
  <2>1. h + q \in Nat
    OBVIOUS
  <2>2. z \in 0..(Count - 1)
    BY <2>1, WrappedType
  <2> HIDE DEF z
  <2> QED BY <1>1, <2>2
<1>6. e = [s EXCEPT !.samples = <<>>]
  BY DEF Drained
<1> HIDE DEF e
<1>7. /\ e \in SpuState(Frames) /\ e.voices = s.voices /\ e.samples = <<>>
      /\ e.produced = s.produced /\ e.dropped = s.dropped /\ e.cdQueue = s.cdQueue
  <2> DEFINE p == <<>>
  <2>1. p \in Seq(Entry)
    OBVIOUS
  <2>2. e = [s EXCEPT !.samples = p]
    BY <1>6
  <2> HIDE DEF p
  <2>3. /\ e \in SpuState(Frames) /\ e.voices = s.voices /\ e.samples = p
        /\ e.produced = s.produced /\ e.dropped = s.dropped /\ e.cdQueue = s.cdQueue
    BY <1>1, <2>1, <2>2 DEF SpuState, Entry
  <2> QED BY <2>3 DEF p
<1>8. Wrapped(z + s.dropped + 0) = s.produced
  <2>1. Wrapped(z + s.dropped) = Wrapped((h + q) + s.dropped)
    <3>1. h + q \in Nat /\ s.dropped \in Nat
      BY <1>1
    <3> QED BY <3>1, WrappedType
  <2> HIDE DEF z
  <2>2. z + s.dropped + 0 = z + s.dropped /\ (h + q) + s.dropped = h + s.dropped + q
    BY <1>1, <1>5
  <2>3. Wrapped(h + s.dropped + q) = s.produced
    BY <1>2 DEF IsStream
  <2> QED BY <2>1, <2>2, <2>3
<1> HIDE DEF z
<1>9. IsStream(<<>>, z, s.dropped, s.produced, 0)
  BY <1>8 DEF IsStream
<1>10. Whole(e, z)
  BY <1>7, <1>9 DEF Whole
<1>11. e \in SoundSpu(z)
  BY <1>1, <1>7, <1>10 DEF SoundSpu
<1> QED BY <1>4, <1>5, <1>11 DEF e

(***************************************************************************)
(* Drive and sound processor together.                                     *)
(***************************************************************************)
\* Whatever plays or reads was started by a command.
RunStarted(cd) == cd.reading \/ cd.playing => cd.run >= 1

LEMMA TickKeepsStart ==
  ASSUME NEW n \in Nat, NEW cd \in DriveState(n), Cadence(cd), RunStarted(cd)
  PROVE  RunStarted(TickOne(cd))
<1> DEFINE s == Spun(cd)
           c == CountedDown(s)
           e == TickOne(cd)
<1>1. /\ SpinStep(n, cd, s) /\ CountStep(n, s, c)
      /\ Latches(cd) => LatchStep(n, c, e)
      /\ ~ Latches(cd) => e = c
  BY TickFields
<1> HIDE DEF s, c, e
<1>2. s.run = cd.run /\ s.reading = cd.reading /\ (s.playing => cd.playing)
  BY <1>1 DEF SpinStep, SpinFrame
<1>3. c.run = s.run /\ c.reading = s.reading /\ c.playing = s.playing
  BY <1>1 DEF CountStep, QueueFrame
<1>4. e.run = c.run /\ e.reading = c.reading /\ e.playing = c.playing
  BY <1>1 DEF LatchStep
<1> QED BY <1>2, <1>3, <1>4 DEF RunStarted, e

LEMMA CommandKeepsStart ==
  ASSUME NEW n \in Nat, NEW cd \in DriveState(n), Cadence(cd), RunStarted(cd), cd.count < n,
         NEW cmd, WellArgued(cmd)
  PROVE  RunStarted(RunCommand(cd, cmd))
<1> DEFINE e == RunCommand(cd, cmd)
<1>1. CommandStep(n, cd, cmd, e)
  BY RunCommandFields
<1> HIDE DEF e
<1>2. e.reading \/ e.playing =>
         e.run = cd.count + 1 \/ (e.run = cd.run /\ (cd.reading \/ cd.playing))
  BY <1>1 DEF CommandStep
<1>3. cd.count \in Nat /\ cd.run \in Nat
  BY DEF DriveState
<1> QED BY <1>2, <1>3 DEF RunStarted, e

LEMMA FramesType ==
  ASSUME NEW cd \in DriveState(MaxCommands), cd.run >= 1, NEW k \in Nat,
         k <= FramesPerSector + XaFrames
  PROVE  FramesOf(cd, k) \in Seq(Frames)
<1>1. /\ cd.run \in 1..MaxCommands /\ cd.lba \in Lba
      /\ FramesPerSector + XaFrames \in Nat
  BY DriveAssumption, PlaybackAssumption DEF DriveState
<1>2. \A i \in 1..k : [run |-> cd.run, lba |-> cd.lba, i |-> i] \in Frames
  BY <1>1 DEF Frames
<1>3. FramesOf(cd, k) \in [1..k -> Frames]
  BY <1>2 DEF FramesOf
<1> QED BY <1>3, SeqDef

LEMMA DecodedType ==
  ASSUME NEW cd \in DriveState(MaxCommands), RunStarted(cd), NEW r \in Routes
  PROVE  Decoded(cd, r) \in Seq(Frames)
<1>1. XaFrames \in Nat /\ FramesPerSector \in Nat
  BY PlaybackAssumption
<1>2. <<>> \in Seq(Frames)
  OBVIOUS
<1>3. [i \in 1..FramesPerSector |-> Muted] \in Seq(Frames)
  <2>1. [i \in 1..FramesPerSector |-> Muted] \in [1..FramesPerSector -> Frames]
    BY DEF Frames
  <2> QED BY <1>1, <2>1, SeqDef
<1>4. cd.reading \/ cd.playing =>
        FramesOf(cd, XaFrames) \in Seq(Frames) /\ FramesOf(cd, FramesPerSector) \in Seq(Frames)
  BY <1>1, FramesType DEF RunStarted
<1>5. CASE ~SectorDue(cd) \/ ~cd.disc
  BY <1>2, <1>5 DEF Decoded
<1>6. CASE SectorDue(cd) /\ cd.disc /\ cd.reading
  BY <1>2, <1>4, <1>6 DEF Decoded
<1>7. CASE SectorDue(cd) /\ cd.disc /\ ~cd.reading
  BY <1>2, <1>3, <1>4, <1>7 DEF Decoded
<1> QED BY <1>5, <1>6, <1>7

IrqBits == SUBSET {"CdRom", "Spu"}

Machine(h) ==
  {m \in [cd : DriveState(MaxCommands), route : Routes, audio : Seq(Frames),
          spu : SoundSpu(h), stat : IrqBits] :
     DriveInv(MaxCommands, m.cd) /\ RunStarted(m.cd)}

\* The fields of a machine, given at once.
MachineOf(cd, r, q, s, i) == [cd |-> cd, route |-> r, audio |-> q, spu |-> s, stat |-> i]

LEMMA MachineFields ==
  ASSUME NEW h, NEW m \in Machine(h)
  PROVE  /\ m.cd \in DriveState(MaxCommands) /\ m.route \in Routes /\ m.audio \in Seq(Frames)
         /\ m.spu \in SoundSpu(h) /\ m.stat \in IrqBits
         /\ DriveInv(MaxCommands, m.cd) /\ RunStarted(m.cd) /\ MaxCommands \in Nat
         /\ m = MachineOf(m.cd, m.route, m.audio, m.spu, m.stat)
BY DriveAssumption DEF Machine, MachineOf

LEMMA MachineType ==
  ASSUME NEW h, NEW cd, DriveInv(MaxCommands, cd), RunStarted(cd), NEW r \in Routes,
         NEW q \in Seq(Frames), NEW s \in SoundSpu(h), NEW i \in IrqBits
  PROVE  MachineOf(cd, r, q, s, i) \in Machine(h)
<1>1. cd \in DriveState(MaxCommands)
  BY DEF DriveInv
<1> QED BY <1>1 DEF Machine, MachineOf

LEMMA DriveUpdate ==
  ASSUME NEW h, NEW m \in Machine(h), NEW x, NEW q, NEW i,
         NEW n, n = [m EXCEPT !.cd = x, !.audio = q, !.stat = i]
  PROVE  n = MachineOf(x, m.route, q, m.spu, i)
<1> DEFINE a == m.cd
           b == m.route
           c == m.audio
           d == m.spu
           e == m.stat
<1>1. m = MachineOf(a, b, c, d, e)
  BY MachineFields
<1> HIDE DEF a, b, c, d, e
<1>2. [m EXCEPT !.cd = x] = MachineOf(x, b, c, d, e)
  BY <1>1 DEF MachineOf
<1>3. /\ [MachineOf(x, b, c, d, e) EXCEPT !.audio = q] = MachineOf(x, b, q, d, e)
      /\ [MachineOf(x, b, q, d, e) EXCEPT !.stat = i] = MachineOf(x, b, q, d, i)
  BY DEF MachineOf
<1>4. [m EXCEPT !.cd = x, !.audio = q, !.stat = i]
        = [[[m EXCEPT !.cd = x] EXCEPT !.audio = q] EXCEPT !.stat = i]
  OBVIOUS
<1> QED BY <1>2, <1>3, <1>4 DEF b, d

LEMMA QueueUpdate ==
  ASSUME NEW h, NEW m \in Machine(h), NEW q, NEW s
  PROVE  [m EXCEPT !.audio = q, !.spu = s] = MachineOf(m.cd, m.route, q, s, m.stat)
<1> DEFINE a == m.cd
           b == m.route
           c == m.audio
           d == m.spu
           e == m.stat
<1>1. m = MachineOf(a, b, c, d, e)
  BY MachineFields
<1> HIDE DEF a, b, c, d, e
<1>2. [m EXCEPT !.audio = q] = MachineOf(a, b, q, d, e)
  BY <1>1 DEF MachineOf
<1>3. [MachineOf(a, b, q, d, e) EXCEPT !.spu = s] = MachineOf(a, b, q, s, e)
  BY DEF MachineOf
<1>4. [m EXCEPT !.audio = q, !.spu = s] = [[m EXCEPT !.audio = q] EXCEPT !.spu = s]
  OBVIOUS
<1> QED BY <1>2, <1>3, <1>4 DEF a, b, e

LEMMA SpuUpdate ==
  ASSUME NEW h, NEW m \in Machine(h), NEW s, NEW i
  PROVE  [m EXCEPT !.spu = s, !.stat = i] = MachineOf(m.cd, m.route, m.audio, s, i)
<1> DEFINE a == m.cd
           b == m.route
           c == m.audio
           d == m.spu
           e == m.stat
<1>1. m = MachineOf(a, b, c, d, e)
  BY MachineFields
<1> HIDE DEF a, b, c, d, e
<1>2. [m EXCEPT !.spu = s] = MachineOf(a, b, c, s, e)
  BY <1>1 DEF MachineOf
<1>3. [MachineOf(a, b, c, s, e) EXCEPT !.stat = i] = MachineOf(a, b, c, s, i)
  BY DEF MachineOf
<1>4. [m EXCEPT !.spu = s, !.stat = i] = [[m EXCEPT !.spu = s] EXCEPT !.stat = i]
  OBVIOUS
<1> QED BY <1>2, <1>3, <1>4 DEF a, b, c

\* What the drive's cycle comes to.
CdStep(m) ==
  MachineOf(TickOne(m.cd), m.route, Newest(m.audio \o Decoded(m.cd, m.route), CdAudioCap), m.spu,
            IF TickRaises(m.cd) THEN m.stat \cup {"CdRom"} ELSE m.stat)

LEMMA CdCycleIs ==
  ASSUME NEW h, NEW m \in Machine(h)
  PROVE  CdCycle(m) = CdStep(m) /\ CdCycle(m) \in Machine(h)
<1> DEFINE q == Newest(m.audio \o Decoded(m.cd, m.route), CdAudioCap)
           e == TickOne(m.cd)
           i == IF TickRaises(m.cd) THEN m.stat \cup {"CdRom"} ELSE m.stat
<1>1. CdCycle(m) = [m EXCEPT !.cd = e, !.audio = q, !.stat = i]
  BY DEF CdCycle, Machine
<1>2. q \in Seq(Frames)
  <2>1. Decoded(m.cd, m.route) \in Seq(Frames) /\ m.audio \in Seq(Frames)
    BY MachineFields, DecodedType
  <2>2. CdAudioCap \in Nat
    BY PlaybackAssumption
  <2>3. m.audio \o Decoded(m.cd, m.route) \in Seq(Frames)
    BY <2>1, ConcatProperties
  <2> QED BY <2>2, <2>3, NewestType
<1>3. DriveInv(MaxCommands, e) /\ RunStarted(e)
  <2>1. DriveInv(MaxCommands, m.cd) /\ RunStarted(m.cd) /\ MaxCommands \in Nat
    BY MachineFields
  <2>2. m.cd \in DriveState(MaxCommands) /\ Cadence(m.cd)
    BY <2>1 DEF DriveInv
  <2> QED BY <2>1, <2>2, TickKeepsDrive, TickKeepsStart
<1>4. i \in IrqBits
  <2>1. m.stat \in IrqBits
    BY MachineFields
  <2> QED BY <2>1 DEF IrqBits
<1> HIDE DEF q, e, i
<1>5. CdCycle(m) = MachineOf(e, m.route, q, m.spu, i)
  BY <1>1, DriveUpdate
<1>6. m.route \in Routes /\ m.spu \in SoundSpu(h)
  BY MachineFields
<1>7. MachineOf(e, m.route, q, m.spu, i) \in Machine(h)
  BY <1>2, <1>3, <1>4, <1>6, MachineType
<1>8. CdStep(m) = MachineOf(e, m.route, q, m.spu, i)
  BY DEF CdStep, e, q, i
<1> QED BY <1>5, <1>7, <1>8

LEMMA BridgeIs ==
  ASSUME NEW h, NEW m \in Machine(h)
  PROVE  /\ Bridge(m) = MachineOf(m.cd, m.route, <<>>, PushCdAudio(m.spu, m.audio), m.stat)
         /\ Bridge(m) \in Machine(h) /\ Bridge(m).audio = <<>>
<1> DEFINE s == PushCdAudio(m.spu, m.audio)
           q == <<>>
<1>1. s \in SoundSpu(h) /\ q \in Seq(Frames)
  BY MachineFields, CdAudioPushed
<1>2. Bridge(m) = [m EXCEPT !.audio = q, !.spu = s]
  BY DEF Bridge, Machine
<1> HIDE DEF s, q
<1>3. [m EXCEPT !.audio = q, !.spu = s] = MachineOf(m.cd, m.route, q, s, m.stat)
  BY QueueUpdate
<1>4. MachineOf(m.cd, m.route, q, s, m.stat) \in Machine(h)
  BY <1>1, MachineFields, MachineType
<1>5. MachineOf(m.cd, m.route, q, s, m.stat).audio = q
  BY DEF MachineOf
<1> QED BY <1>2, <1>3, <1>4, <1>5 DEF s, q

LEMMA SoundTickIs ==
  ASSUME NEW h \in Nat, NEW m \in Machine(h), NEW n \in Nat
  PROVE  /\ SoundTick(m, n) =
              MachineOf(m.cd, m.route, m.audio, SpuTick(m.spu, n),
                        IF SpuRaises(m.spu, n) THEN m.stat \cup {"Spu"} ELSE m.stat)
         /\ SoundTick(m, n) \in Machine(h)
<1> DEFINE s == SpuTick(m.spu, n)
           i == IF SpuRaises(m.spu, n) THEN m.stat \cup {"Spu"} ELSE m.stat
<1>1. s \in SoundSpu(h)
  BY MachineFields, SpuTickIs
<1>2. i \in IrqBits
  <2>1. m.stat \in IrqBits
    BY MachineFields
  <2> QED BY <2>1 DEF IrqBits
<1>3. SoundTick(m, n) = [m EXCEPT !.spu = s, !.stat = i]
  BY DEF SoundTick, Machine
<1> HIDE DEF s, i
<1>4. [m EXCEPT !.spu = s, !.stat = i] = MachineOf(m.cd, m.route, m.audio, s, i)
  BY SpuUpdate
<1>5. MachineOf(m.cd, m.route, m.audio, s, i) \in Machine(h)
  BY <1>1, <1>2, MachineFields, MachineType
<1> QED BY <1>3, <1>4, <1>5 DEF s, i

LEMMA OneCycleKeeps ==
  ASSUME NEW h \in Nat, NEW m \in Machine(h)
  PROVE  OneCycle(m) \in Machine(h) /\ OneCycle(m).audio = <<>>
<1> DEFINE c == CdCycle(m)
           b == Bridge(c)
<1>1. c \in Machine(h)
  BY CdCycleIs
<1> HIDE DEF c
<1>2. b \in Machine(h) /\ b.audio = <<>>
  BY <1>1, BridgeIs
<1>3. OneCycle(m) = SoundTick(b, 1)
  BY DEF OneCycle, c
<1> HIDE DEF b
<1>4. SoundTick(b, 1) \in Machine(h) /\ SoundTick(b, 1).audio = b.audio
  BY <1>2, SoundTickIs DEF MachineOf
<1> QED BY <1>2, <1>3, <1>4

(***************************************************************************)
(* The invariant of the sound path.                                        *)
(***************************************************************************)
SoundInv ==
  /\ Sound \in Machine(heard) /\ cdAudio = <<>>
  /\ heard \in 0..(Count - 1) /\ use \in Uses

LEMMA SoundIs == Sound = MachineOf(cdrom, route, cdAudio, spu, irqStat)
  BY DEF Sound, MachineOf

LEMMA SoundParts ==
  ASSUME SoundInv
  PROVE  /\ cdrom \in DriveState(MaxCommands) /\ DriveInv(MaxCommands, cdrom)
         /\ RunStarted(cdrom) /\ MaxCommands \in Nat
         /\ route \in Routes /\ spu \in SoundSpu(heard) /\ irqStat \in IrqBits
         /\ Sound \in Machine(heard) /\ cdAudio = <<>> /\ cdAudio \in Seq(Frames)
         /\ heard \in 0..(Count - 1) /\ heard \in Nat /\ use \in Uses
<1>1. /\ Sound.cd = cdrom /\ Sound.route = route /\ Sound.spu = spu /\ Sound.stat = irqStat
      /\ Sound.audio = cdAudio
  BY DEF Sound
<1>2. heard \in Nat
  BY CountType DEF SoundInv
<1> QED BY <1>1, <1>2, MachineFields DEF SoundInv

LEMMA NewSpuSounds ==
  ASSUME NEW s \in SpuState({}), s.samples = <<>>, s.produced = 0, s.dropped = 0,
         \A v \in Voices : Sounding(s.voices[v])
  PROVE  s \in SoundSpu(0)
<1>1. s.cdQueue = <<>> /\ s.cdSample = Silence
  <2>1. s.cdQueue \in Seq({}) /\ s.cdSample \in {} \cup {Silence}
    BY DEF SpuState
  <2>2. s.cdQueue = <<>>
    BY <2>1
  <2> QED BY <2>1, <2>2
<1>2. s.cdQueue \in Seq(Frames) /\ Len(s.cdQueue) = 0 /\ Len(s.samples) = 0
  BY <1>1
<1>3. s \in SpuState(Frames)
  BY <1>1, <1>2 DEF SpuState
<1>4. Wrapped(0 + 0 + 0) = 0
  <2>1. 0 \in 0..(Count - 1) /\ Count \in Nat \ {0}
    BY CountType
  <2>2. 0 % Count = 0
    BY <2>1, DivisionOfSmall
  <2>3. 0 + 0 + 0 = 0
    OBVIOUS
  <2> QED BY <2>2, <2>3 DEF Wrapped
<1>5. IsStream(s.samples, 0, s.dropped, s.produced, 0)
  BY <1>2, <1>4 DEF IsStream
<1>6. Whole(s, 0)
  BY <1>5 DEF Whole
<1> QED BY <1>2, <1>3, <1>6, CountType DEF SoundSpu

LEMMA SoundStart == SoundInit => SoundInv
<1> SUFFICES ASSUME SoundInit PROVE SoundInv
  OBVIOUS
<1>1. PICK up \in Setups :
        /\ cdrom = [NewDrive EXCEPT !.disc = TRUE, !.ie = {1, 2, 4},
                                    !.seekTarget = up.seek, !.mode = up.mode]
        /\ route = up.route /\ spu = up.spu /\ use = up.use
  BY DEF SoundInit
<1>2. up \in Setup
  BY PlaybackAssumption
<1>3. /\ up.use \in Uses /\ up.seek \in Lba /\ up.mode \in Modes /\ up.route \in Routes
      /\ up.spu \in SpuState({}) /\ up.spu.samples = <<>> /\ up.spu.produced = 0
      /\ up.spu.dropped = 0 /\ \A v \in Voices : Sounding(up.spu.voices[v])
  BY <1>2 DEF Setup
<1>4. spu \in SoundSpu(0)
  BY <1>1, <1>3, NewSpuSounds
<1>5. cdrom \in DriveState(MaxCommands)
  <2>1. NewDrive \in DriveState(MaxCommands)
    BY NewDriveType
  <2> QED BY <1>1, <1>3, <2>1 DEF DriveState
<1>6. /\ cdrom.pending = <<>> /\ ~ cdrom.reading /\ ~ cdrom.playing /\ ~ cdrom.busy
      /\ cdrom.flag.sector = Blank /\ cdrom.run = 0 /\ cdrom.count = 0 /\ cdrom.halted = 0
  BY <1>1 DEF NewDrive, NoResp
<1>7. DriveInv(MaxCommands, cdrom)
  <2>0. DOMAIN cdrom.pending = {}
    BY <1>6
  <2>1. Cadence(cdrom) /\ AnswerOwed(cdrom) /\ ReportsInRun(cdrom)
    BY <1>6, <2>0 DEF Cadence, AnswerOwed, ReportsInRun
  <2>2. RunsInOrder(cdrom) /\ NewestIsBuffered(cdrom)
    BY <1>6, <2>0 DEF RunsInOrder, NewestIsBuffered
  <2> QED BY <1>5, <2>1, <2>2 DEF DriveInv
<1>8. RunStarted(cdrom)
  BY <1>6 DEF RunStarted
<1>9. cdAudio = <<>> /\ cdAudio \in Seq(Frames) /\ irqStat \in IrqBits /\ heard = 0
  BY DEF SoundInit, IrqBits
<1>10. Sound \in Machine(heard)
  BY <1>1, <1>3, <1>4, <1>7, <1>8, <1>9, MachineType, SoundIs
<1>11. 0 \in 0..(Count - 1)
  BY CountType
<1> QED BY <1>1, <1>3, <1>9, <1>10, <1>11 DEF SoundInv

LEMMA CyclePasses == SoundInv /\ Cycle => SoundInv'
<1> SUFFICES ASSUME SoundInv, Cycle PROVE SoundInv'
  OBVIOUS
<1> DEFINE m == OneCycle(Sound)
<1>1. /\ cdrom' = m.cd /\ cdAudio' = m.audio /\ spu' = m.spu /\ irqStat' = m.stat
      /\ route' = route /\ heard' = heard /\ use' = use
  BY DEF Cycle
<1>2. m \in Machine(heard) /\ m.audio = <<>>
  BY SoundParts, OneCycleKeeps
<1> HIDE DEF m
<1>3. /\ DriveInv(MaxCommands, m.cd) /\ RunStarted(m.cd) /\ m.audio \in Seq(Frames)
      /\ m.spu \in SoundSpu(heard) /\ m.stat \in IrqBits
  BY <1>2, MachineFields
<1>4. Sound' = MachineOf(m.cd, route, m.audio, m.spu, m.stat)
  BY <1>1 DEF Sound, MachineOf
<1>5. MachineOf(m.cd, route, m.audio, m.spu, m.stat) \in Machine(heard)
  BY <1>3, SoundParts, MachineType
<1> QED BY <1>1, <1>2, <1>4, <1>5, SoundParts DEF SoundInv

\* A step of the guest or the frontend, by what it leaves.
LEMMA SoundStep ==
  ASSUME NEW cd, DriveInv(MaxCommands, cd), RunStarted(cd), NEW r \in Routes,
         NEW h \in 0..(Count - 1), NEW s \in SoundSpu(h), NEW i \in IrqBits,
         cdrom' = cd, route' = r, cdAudio' = <<>>, spu' = s, irqStat' = i, heard' = h,
         use' \in Uses
  PROVE  SoundInv'
<1> DEFINE q == <<>>
<1>1. q \in Seq(Frames) /\ cdAudio' = q
  OBVIOUS
<1>2. Sound' = MachineOf(cd, r, q, s, i)
  BY <1>1 DEF Sound, MachineOf
<1> HIDE DEF q
<1>3. MachineOf(cd, r, q, s, i) \in Machine(h)
  BY <1>1, MachineType
<1> QED BY <1>2, <1>3 DEF SoundInv

LEMMA CommandSounds ==
  ASSUME NEW cmd \in SoundCommands, SoundInv, SendCommand(cmd)
  PROVE  SoundInv'
<1>1. cmd \in SoundCommand /\ WellArgued(cmd)
  BY PlaybackAssumption, CommandArguments
<1>2. /\ DriveInv(MaxCommands, cdrom) /\ RunStarted(cdrom) /\ MaxCommands \in Nat
      /\ cdrom \in DriveState(MaxCommands) /\ Cadence(cdrom)
  BY SoundParts DEF DriveInv
<1>3. /\ cdrom.count < MaxCommands /\ cdrom' = RunCommand(cdrom, cmd)
      /\ route' = RouteAfter(cmd) /\ cdAudio' = cdAudio /\ spu' = spu /\ irqStat' = irqStat
      /\ heard' = heard /\ use' = use
  BY DEF SendCommand
<1>4. DriveInv(MaxCommands, RunCommand(cdrom, cmd)) /\ RunStarted(RunCommand(cdrom, cmd))
  BY <1>1, <1>2, <1>3, CommandKeepsDrive, CommandKeepsStart
<1>5. RouteAfter(cmd) \in Routes
  <2>1. route \in Routes
    BY SoundParts
  <2>2. /\ cmd.name = "setmode" => cmd.cdda \in BOOLEAN /\ cmd.filter \in BOOLEAN
        /\ cmd.name = "setfilter" => cmd.channel \in {1, 2}
    BY <1>1 DEF SoundCommand, Command
  <2> QED BY <2>1, <2>2 DEF RouteAfter, Routes
<1> QED BY <1>3, <1>4, <1>5, SoundParts, SoundStep

LEMMA HandlerSounds == SoundInv /\ HandleInterrupt => SoundInv'
<1> SUFFICES ASSUME SoundInv, HandleInterrupt PROVE SoundInv'
  OBVIOUS
<1> DEFINE e == [cdrom EXCEPT !.flag = NoResp]
<1>1. /\ DriveInv(MaxCommands, cdrom) /\ RunStarted(cdrom) /\ MaxCommands \in Nat
      /\ cdrom \in DriveState(MaxCommands)
  BY SoundParts
<1>2. NoResp \in Resp(MaxCommands)
  BY DriveAssumption, AddressTypes DEF NoResp, Resp
<1>3. /\ e \in DriveState(MaxCommands) /\ e.flag = NoResp
      /\ e.pending = cdrom.pending /\ e.sectorBuffer = cdrom.sectorBuffer /\ e.busy = cdrom.busy
      /\ e.count = cdrom.count /\ e.run = cdrom.run /\ e.halted = cdrom.halted
      /\ e.readTimer = cdrom.readTimer /\ e.reading = cdrom.reading /\ e.playing = cdrom.playing
  BY <1>1, <1>2 DEF DriveState
<1>4. /\ cdrom' = e /\ irqStat' = {} /\ route' = route /\ cdAudio' = cdAudio /\ spu' = spu
      /\ heard' = heard /\ use' = use
  BY DEF HandleInterrupt
<1> HIDE DEF e
<1>5. DriveInv(MaxCommands, e) /\ RunStarted(e)
  BY <1>1, <1>3, RegisterKeepsDrive DEF RunStarted
<1>6. {} \in IrqBits
  BY DEF IrqBits
<1> QED BY <1>4, <1>5, <1>6, SoundParts, SoundStep

LEMMA AccessSounds ==
  ASSUME SoundInv, NEW s \in SoundSpu(heard), SpuAccess(s)
  PROVE  SoundInv'
<1>1. /\ spu' = s /\ cdrom' = cdrom /\ route' = route /\ cdAudio' = cdAudio
      /\ irqStat' = irqStat /\ heard' = heard /\ use' = use
  BY DEF SpuAccess
<1> QED BY <1>1, SoundParts, SoundStep

LEMMA DrainSounds == SoundInv /\ Drain => SoundInv'
<1> SUFFICES ASSUME SoundInv, Drain PROVE SoundInv'
  OBVIOUS
<1> DEFINE h == (heard + Len(spu.samples) \div 2) % Count
<1>1. /\ heard' = h /\ spu' = Drained(spu) /\ cdrom' = cdrom /\ route' = route
      /\ cdAudio' = cdAudio /\ irqStat' = irqStat /\ use' = use
  BY DEF Drain
<1>2. h \in 0..(Count - 1) /\ Drained(spu) \in SoundSpu(h)
  BY SoundParts, DrainedKeeps
<1> HIDE DEF h
<1> QED BY <1>1, <1>2, SoundParts, SoundStep

LEMMA SoundIsInductive == SoundInv /\ [SoundNext]_soundVars => SoundInv'
<1> SUFFICES ASSUME SoundInv, [SoundNext]_soundVars PROVE SoundInv'
  OBVIOUS
<1>1. CASE Cycle
  BY <1>1, CyclePasses
<1>2. ASSUME NEW cmd \in SoundCommands, SendCommand(cmd) PROVE SoundInv'
  BY <1>2, CommandSounds
<1>3. CASE HandleInterrupt
  BY <1>3, HandlerSounds
<1>4. ASSUME NEW w \in SpuWrites[use], WriteRegister(w) PROVE SoundInv'
  <2>1. w \in RegisterWrite
    BY PlaybackAssumption, SoundParts
  <2>2. SpuWrite(spu, w) \in SoundSpu(heard)
    BY <2>1, SoundParts, RegisterKeeps
  <2> QED BY <1>4, <2>2, AccessSounds DEF WriteRegister
<1>5. ASSUME NEW w \in DmaWords, DmaWrite(w) PROVE SoundInv'
  <2>1. w[1] \in Flags /\ w[2] \in Flags
    BY PlaybackAssumption
  <2>2. DmaWriteWord(spu, w[1], w[2]) \in SoundSpu(heard)
    BY <2>1, SoundParts, DmaKeeps
  <2> QED BY <1>5, <2>2, AccessSounds DEF DmaWrite
<1>6. CASE DmaRead
  <2>1. DmaReadWord(spu) \in SoundSpu(heard)
    BY SoundParts, DmaKeeps
  <2> QED BY <1>6, <2>1, AccessSounds DEF DmaRead
<1>7. CASE Drain
  BY <1>7, DrainSounds
<1>8. CASE UNCHANGED soundVars
  BY <1>8 DEF soundVars, SoundInv, Sound
<1> QED BY <1>1, <1>2, <1>3, <1>4, <1>5, <1>6, <1>7, <1>8 DEF SoundNext

\* The drive, its queue, the sound processor and the stream of samples.
THEOREM SoundInvariant == SoundSpec => []SoundInv
<1> QED
  BY SoundStart, SoundIsInductive, PTL DEF SoundSpec

\* Types; a voice is on exactly while its envelope is in a phase, and no decoded
\* frame stays with the drive between cycles (catch_up_devices).
THEOREM SoundTypes == SoundSpec => []SoundTypeOK
<1>1. SoundInv => SoundTypeOK
  <2> SUFFICES ASSUME SoundInv PROVE SoundTypeOK
    OBVIOUS
  <2>1. /\ spu \in SpuState(Frames) /\ Len(spu.samples) <= MaxQueued
        /\ Len(spu.cdQueue) <= CdQueueMax /\ \A v \in Voices : Sounding(spu.voices[v])
    BY SoundParts DEF SoundSpu
  <2> QED BY <2>1, SoundParts DEF SoundTypeOK, IrqBits
<1> QED
  BY <1>1, SoundInvariant, PTL

\* Every sample made was heard, dropped or waits, oldest first and with its two
\* sides together, across a full queue and a drain (push_sample, drain_samples).
THEOREM SamplesAreWhole == SoundSpec => []StreamIsWhole
<1>1. SoundInv => StreamIsWhole
  <2> SUFFICES ASSUME SoundInv PROVE StreamIsWhole
    OBVIOUS
  <2>1. PICK q \in Nat : IsStream(spu.samples, heard, spu.dropped, spu.produced, q)
    BY SoundParts DEF SoundSpu, Whole
  <2>2. Len(spu.samples) \div 2 = q
    BY <2>1 DEF IsStream
  <2>3. spu.dropped \in Nat /\ heard \in Nat
    BY SoundParts, SoundFields, SpuFields, CountType
  <2>4. \A k \in 1..q : heard + spu.dropped + (k - 1) = heard + spu.dropped + k - 1
    BY <2>3
  <2>5. /\ (heard + spu.dropped + q) % Count = spu.produced
        /\ Len(spu.samples) = 2 * q
        /\ \A k \in 1..q :
             /\ spu.samples[2 * k - 1] = <<(heard + spu.dropped + (k - 1)) % Count, "left">>
             /\ spu.samples[2 * k]     = <<(heard + spu.dropped + (k - 1)) % Count, "right">>
    BY <2>1 DEF IsStream, Wrapped
  <2> QED BY <2>2, <2>4, <2>5 DEF StreamIsWhole
<1> QED
  BY <1>1, SoundInvariant, PTL

(***************************************************************************)
(* Windows in which the drive decodes no sound.                            *)
(***************************************************************************)
\* For k cycles: no sector falls due, or the one that does is not of sound and
\* the next is further off.
AudioFree(cd, k) ==
  /\ ~ cd.playing
  /\ cd.reading /\ cd.disc =>
       \/ k < cd.readTimer
       \/ cd.lba \notin XaSectors /\ k < cd.readTimer + SectorPeriod(cd)

\* A cycle of a drive that reads: the timer and, between sectors, the head.
LEMMA ReadingSpins ==
  ASSUME NEW n \in Nat, NEW cd \in DriveState(n), cd.reading
  PROVE  /\ SectorDue(cd) => Spun(cd).readTimer = SectorPeriod(cd)
         /\ ~ SectorDue(cd) => Spun(cd).readTimer = cd.readTimer - 1 /\ Spun(cd).lba = cd.lba
<1>1. CASE ~ SectorDue(cd)
  <2>1. Spun(cd) = [cd EXCEPT !.readTimer = cd.readTimer - 1]
    BY <1>1 DEF Spun
  <2> QED BY <1>1, <2>1 DEF DriveState
<1>2. CASE SectorDue(cd)
  <2> DEFINE x == ProcessReadSector(cd)
             t == SectorPeriod(cd)
  <2>1. Spun(cd) = [x EXCEPT !.readTimer = t]
    BY <1>2 DEF Spun
  <2>2. "readTimer" \in DOMAIN x
    BY DEF ProcessReadSector, PushResp, DriveState
  <2> HIDE DEF x, t
  <2>3. Spun(cd).readTimer = t
    BY <2>1, <2>2
  <2> QED BY <1>2, <2>3 DEF t
<1> QED BY <1>1, <1>2

LEMMA FreeCycle ==
  ASSUME NEW n \in Nat, NEW cd, DriveInv(n, cd), NEW k \in Nat \ {0}, AudioFree(cd, k), NEW r
  PROVE  Decoded(cd, r) = <<>> /\ AudioFree(TickOne(cd), k - 1)
<1> DEFINE s == Spun(cd)
           c == CountedDown(s)
           e == TickOne(cd)
           p == SectorPeriod(cd)
<1>1. cd \in DriveState(n) /\ Cadence(cd)
  BY DEF DriveInv
<1>2. /\ cd.readTimer \in Nat /\ cd.reading \in BOOLEAN /\ cd.disc \in BOOLEAN
      /\ (cd.reading => cd.readTimer > 0) /\ ~ cd.playing
  BY <1>1 DEF DriveState, Cadence, AudioFree
<1>3. /\ SpinStep(n, cd, s) /\ CountStep(n, s, c)
      /\ Latches(cd) => LatchStep(n, c, e)
      /\ ~ Latches(cd) => e = c
  BY <1>1, TickFields
<1>4. /\ cd.reading /\ SectorDue(cd) => s.readTimer = p
      /\ cd.reading /\ ~ SectorDue(cd) => s.readTimer = cd.readTimer - 1 /\ s.lba = cd.lba
  BY <1>1, ReadingSpins
<1>5. p \in Nat \ {0}
  BY PeriodType
<1> HIDE DEF s, c, e
<1>6. s.mode = cd.mode /\ s.reading = cd.reading /\ (s.playing => cd.playing) /\ s.disc = cd.disc
  BY <1>3 DEF SpinStep, SpinFrame
<1>7. /\ c.mode = s.mode /\ c.reading = s.reading /\ c.playing = s.playing /\ c.disc = s.disc
      /\ c.readTimer = s.readTimer /\ c.lba = s.lba
  BY <1>3 DEF CountStep, QueueFrame
<1>8. /\ e.mode = c.mode /\ e.reading = c.reading /\ e.playing = c.playing /\ e.disc = c.disc
      /\ e.readTimer = c.readTimer /\ e.lba = c.lba
  BY <1>3 DEF LatchStep
<1>9. SectorPeriod(e) = p
  BY <1>6, <1>7, <1>8 DEF SectorPeriod
<1> HIDE DEF p
<1>10. AudioFree(e, k - 1)
  <2> SUFFICES ASSUME cd.reading, cd.disc
               PROVE  \/ k - 1 < e.readTimer
                      \/ e.lba \notin XaSectors /\ k - 1 < e.readTimer + p
    BY <1>2, <1>6, <1>7, <1>8, <1>9 DEF AudioFree
  <2>1. k < cd.readTimer \/ (cd.lba \notin XaSectors /\ k < cd.readTimer + p)
    BY DEF AudioFree, p
  <2>2. CASE SectorDue(cd)
    <3>1. cd.readTimer = 1
      BY <1>2, <2>2 DEF SectorDue
    <3>2. k - 1 < p
      BY <1>5, <2>1, <3>1
    <3> QED BY <1>4, <1>7, <1>8, <2>2, <3>2
  <2>3. CASE ~ SectorDue(cd)
    <3>1. e.readTimer = cd.readTimer - 1 /\ e.lba = cd.lba
      BY <1>4, <1>7, <1>8, <2>3
    <3> QED BY <1>2, <1>5, <2>1, <3>1
  <2> QED BY <2>2, <2>3
<1>11. Decoded(cd, r) = <<>>
  <2>1. CASE ~ SectorDue(cd) \/ ~ cd.disc
    BY <2>1 DEF Decoded
  <2>2. CASE SectorDue(cd) /\ cd.disc /\ cd.reading
    <3>1. cd.readTimer = 1
      BY <1>2, <2>2 DEF SectorDue
    <3>2. cd.lba \notin XaSectors
      BY <2>2, <3>1 DEF AudioFree
    <3> QED BY <2>2, <3>2 DEF Decoded
  <2>3. CASE SectorDue(cd) /\ cd.disc /\ ~ cd.reading
    BY <1>2, <2>3 DEF Decoded
  <2> QED BY <2>1, <2>2, <2>3
<1> QED BY <1>10, <1>11 DEF e

\* The window of a batch: up to the drive's next event and the wait states of
\* one instruction more.
LEMMA WindowIsFree ==
  ASSUME NEW n \in Nat, NEW cd, DriveInv(n, cd), ~ CdAudioActive(cd), NEW d \in Nat \ {0},
         CyclesToNextEvent(cd) = NoEvent \/ d <= CyclesToNextEvent(cd),
         NEW k \in 1..(d + MaxExtra)
  PROVE  AudioFree(cd, k)
<1>1. cd \in DriveState(n) /\ Cadence(cd)
  BY DEF DriveInv
<1>2. /\ ~ cd.playing
      /\ cd.reading /\ cd.disc => cd.lba \notin XaSectors
  BY DEF CdAudioActive
<1> SUFFICES ASSUME cd.reading, cd.disc PROVE k < cd.readTimer + SectorPeriod(cd)
  BY <1>2 DEF AudioFree
<1>3. cd.readTimer \in Nat /\ cd.readTimer > 0
  BY <1>1 DEF DriveState, Cadence
<1>4. MaxExtra \in Nat /\ MaxExtra < SectorPeriod(cd) /\ SectorPeriod(cd) \in Nat
  BY PlaybackAssumption, DriveAssumption DEF SectorPeriod
<1>5. d <= cd.readTimer
  <2>1. CyclesToNextEvent(cd) \in Promises /\ PromiseKept(cd, CyclesToNextEvent(cd))
    BY <1>1, FreshPromise
  <2>2. CyclesToNextEvent(cd) # NoEvent
    BY <2>1 DEF PromiseKept, Idle
  <2>3. CyclesToNextEvent(cd) \in Nat /\ CyclesToNextEvent(cd) <= cd.readTimer
    BY <2>1, <2>2 DEF PromiseKept, Promises
  <2> QED BY <1>3, <2>2, <2>3
<1> QED BY <1>3, <1>4, <1>5

(***************************************************************************)
(* A batch against the cycles it stands for.                               *)
(***************************************************************************)
CycleOf(h)   == [m \in Machine(h) |-> OneCycle(m)]
CdCycleOf(h) == [m \in Machine(h) |-> CdCycle(m)]

LEMMA CyclesIterate ==
  ASSUME NEW h \in Nat, NEW m \in Machine(h), NEW n \in Nat
  PROVE  /\ CycleOf(h) \in [Machine(h) -> Machine(h)]
         /\ Cycles(m, n) = Iterated(CycleOf(h), m, n)
<1> DEFINE Runs(f) == f = [i \in 0..n |-> IF i = 0 THEN m ELSE OneCycle(f[i - 1])]
           g == CHOOSE f : Runs(f)
           S == Machine(h)
           G == CycleOf(h)
<1>1. G \in [S -> S] /\ \A e \in S : G[e] = OneCycle(e)
  BY OneCycleKeeps DEF CycleOf
<1> HIDE DEF G, S
<1>2. PICK f : IsRun(S, G, m, n, f)
  BY <1>1, RunExists DEF S
<1>3. Runs(f)
  <2>1. ASSUME NEW i \in 0..n PROVE i = 0 \/ i \in 1..n
    OBVIOUS
  <2>2. \A i \in 0..n : f[i] = IF i = 0 THEN m ELSE OneCycle(f[i - 1])
    BY <1>1, <1>2, <2>1 DEF IsRun
  <2> QED BY <1>2, <2>2 DEF IsRun
<1>4. Runs(g)
  BY <1>3
<1>5. Cycles(m, n) = g[n]
  BY DEF Cycles, Repeat
<1> HIDE DEF g
<1>6. g[0] = m /\ \A i \in 1..n : g[i] = OneCycle(g[i - 1])
  BY <1>4
<1>7. g[n] = Iterated(G, m, n)
  <2>1. \A i \in 1..n : g[i - 1] \in S => g[i] = G[g[i - 1]]
    BY <1>1, <1>6
  <2>2. m \in S
    BY DEF S
  <2> QED BY <1>1, <1>6, <2>1, <2>2, RunIterates
<1> QED BY <1>1, <1>5, <1>7 DEF G, S

LEMMA CdTicksIterate ==
  ASSUME NEW h \in Nat, NEW m \in Machine(h), NEW n \in Nat
  PROVE  /\ CdCycleOf(h) \in [Machine(h) -> Machine(h)]
         /\ CdTick(m, n) = Iterated(CdCycleOf(h), m, n)
<1> DEFINE Runs(f) == f = [i \in 0..n |-> IF i = 0 THEN m ELSE CdCycle(f[i - 1])]
           g == CHOOSE f : Runs(f)
           S == Machine(h)
           G == CdCycleOf(h)
<1>1. G \in [S -> S] /\ \A e \in S : G[e] = CdCycle(e)
  BY CdCycleIs DEF CdCycleOf
<1> HIDE DEF G, S
<1>2. PICK f : IsRun(S, G, m, n, f)
  BY <1>1, RunExists DEF S
<1>3. Runs(f)
  <2>1. ASSUME NEW i \in 0..n PROVE i = 0 \/ i \in 1..n
    OBVIOUS
  <2>2. \A i \in 0..n : f[i] = IF i = 0 THEN m ELSE CdCycle(f[i - 1])
    BY <1>1, <1>2, <2>1 DEF IsRun
  <2> QED BY <1>2, <2>2 DEF IsRun
<1>4. Runs(g)
  BY <1>3
<1>5. CdTick(m, n) = g[n]
  BY DEF CdTick, Repeat
<1> HIDE DEF g
<1>6. g[0] = m /\ \A i \in 1..n : g[i] = CdCycle(g[i - 1])
  BY <1>4
<1>7. g[n] = Iterated(G, m, n)
  <2>1. \A i \in 1..n : g[i - 1] \in S => g[i] = G[g[i - 1]]
    BY <1>1, <1>6
  <2>2. m \in S
    BY DEF S
  <2> QED BY <1>1, <1>6, <2>1, <2>2, RunIterates
<1> QED BY <1>1, <1>5, <1>7 DEF G, S

\* The bits of I_STAT after one more may have been raised.
Rung(stat, b, bit) == IF b THEN stat \cup {bit} ELSE stat

\* A cycle of the drive that decodes nothing leaves nothing to hand over.
LEMMA SilentCdCycle ==
  ASSUME NEW h, NEW m \in Machine(h), m.audio = <<>>, Decoded(m.cd, m.route) = <<>>,
         NEW q, q = <<>>
  PROVE  /\ CdCycle(m) \in Machine(h)
         /\ CdCycle(m) = MachineOf(TickOne(m.cd), m.route, q, m.spu,
                                   Rung(m.stat, TickRaises(m.cd), "CdRom"))
         /\ Bridge(CdCycle(m)) = CdCycle(m)
<1> DEFINE e == CdCycle(m)
           a == m.audio \o Decoded(m.cd, m.route)
<1>1. CdAudioCap \in Nat /\ m.audio \in Seq(Frames)
  BY PlaybackAssumption, MachineFields
<1>2. a = q
  OBVIOUS
<1>3. Newest(q, CdAudioCap) = q
  <2>1. q \in Seq(Frames) /\ Len(q) = 0 /\ 0 <= CdAudioCap
    BY <1>1
  <2> QED BY <1>1, <2>1, NewestType
<1>4. Newest(a, CdAudioCap) = q
  BY <1>2, <1>3
<1>5. e \in Machine(h) /\ e = CdStep(m)
  BY CdCycleIs
<1>6. e = MachineOf(TickOne(m.cd), m.route, q, m.spu,
                    Rung(m.stat, TickRaises(m.cd), "CdRom"))
  BY <1>4, <1>5 DEF CdStep, Rung
<1> HIDE DEF e, a
<1>7. e.audio = q
  BY <1>6 DEF MachineOf
<1>8. Bridge(e) = e
  <2>1. Bridge(e) = MachineOf(e.cd, e.route, <<>>, PushCdAudio(e.spu, e.audio), e.stat)
    BY <1>5, BridgeIs
  <2>2. PushCdAudio(e.spu, e.audio) = e.spu
    <3>1. e.spu \in SoundSpu(h) /\ e.audio \in Seq(Frames)
      BY <1>5, MachineFields
    <3> QED BY <1>7, <3>1, CdAudioPushed
  <2>3. e = MachineOf(e.cd, e.route, e.audio, e.spu, e.stat)
    BY <1>5, MachineFields
  <2> QED BY <1>7, <2>1, <2>2, <2>3
<1> QED BY <1>5, <1>6, <1>8 DEF e

\* n cycles of sound after what the drive made of m.
Batched(m, n) ==
  MachineOf(m.cd, m.route, m.audio, SpuTick(m.spu, n), Rung(m.stat, SpuRaises(m.spu, n), "Spu"))

LEMMA BatchedIs ==
  ASSUME NEW h \in Nat, NEW m \in Machine(h), NEW n \in Nat
  PROVE  SoundTick(m, n) = Batched(m, n) /\ Batched(m, n) \in Machine(h)
BY SoundTickIs DEF Batched, Rung

\* One cycle more of both.
LEMMA BatchGrows ==
  ASSUME NEW h \in Nat, NEW m \in Machine(h), m.audio = <<>>, Decoded(m.cd, m.route) = <<>>,
         NEW n \in Nat
  PROVE  OneCycle(Batched(m, n)) = Batched(CdCycle(m), n + 1)
<1> DEFINE q == <<>>
           b == Batched(m, n)
           t == TickOne(m.cd)
           k == Rung(m.stat, TickRaises(m.cd), "CdRom")
           u == SpuTick(m.spu, n)
           w == Rung(m.stat, SpuRaises(m.spu, n), "Spu")
           x == Rung(w, TickRaises(m.cd), "CdRom")
<1>1. b \in Machine(h) /\ b = MachineOf(m.cd, m.route, q, u, w)
  BY BatchedIs DEF Batched
<1> HIDE DEF b
<1>2. b.cd = m.cd /\ b.route = m.route /\ b.audio = q /\ b.spu = u /\ b.stat = w
  BY <1>1 DEF MachineOf
<1>3. CdCycle(m) = MachineOf(t, m.route, q, m.spu, k)
  BY SilentCdCycle
<1>4. /\ CdCycle(b) \in Machine(h) /\ Bridge(CdCycle(b)) = CdCycle(b)
      /\ CdCycle(b) = MachineOf(t, m.route, q, u, x)
  <2>1. Decoded(b.cd, b.route) = <<>> /\ b.audio = <<>>
    BY <1>2
  <2> HIDE DEF q
  <2>2. q = <<>>
    BY DEF q
  <2>3. /\ CdCycle(b) \in Machine(h) /\ Bridge(CdCycle(b)) = CdCycle(b)
        /\ CdCycle(b) = MachineOf(TickOne(b.cd), b.route, q, b.spu,
                                  Rung(b.stat, TickRaises(b.cd), "CdRom"))
    BY <1>1, <2>1, <2>2, SilentCdCycle
  <2> QED BY <1>2, <2>3
<1> DEFINE c == CdCycle(b)
<1>5. OneCycle(b) = Batched(c, 1)
  <2>1. OneCycle(b) = SoundTick(c, 1)
    BY <1>4 DEF OneCycle
  <2>2. c \in Machine(h) /\ 1 \in Nat
    BY <1>4
  <2> HIDE DEF c
  <2> QED BY <2>1, <2>2, BatchedIs
<1>6. c.cd = t /\ c.route = m.route /\ c.audio = q /\ c.spu = u /\ c.stat = x
  BY <1>4 DEF MachineOf
<1> HIDE DEF c
<1>7. OneCycle(b) = MachineOf(t, m.route, q, SpuTick(u, 1), Rung(x, SpuRaises(u, 1), "Spu"))
  BY <1>5, <1>6 DEF Batched
<1> DEFINE d == CdCycle(m)
<1>8. d.cd = t /\ d.route = m.route /\ d.audio = q /\ d.spu = m.spu /\ d.stat = k
  BY <1>3 DEF MachineOf
<1> HIDE DEF d
<1>9. Batched(d, n + 1) = MachineOf(t, m.route, q, SpuTick(m.spu, n + 1),
                                    Rung(k, SpuRaises(m.spu, n + 1), "Spu"))
  BY <1>8 DEF Batched
<1>10. /\ SpuTick(u, 1) = SpuTick(m.spu, n + 1)
       /\ SpuRaises(m.spu, n + 1) <=> SpuRaises(m.spu, n) \/ SpuRaises(u, 1)
  <2>1. m.spu \in SoundSpu(h)
    BY MachineFields
  <2> QED BY <2>1, SpuTicksCompose
<1>11. Rung(x, SpuRaises(u, 1), "Spu") = Rung(k, SpuRaises(m.spu, n + 1), "Spu")
  BY <1>10 DEF Rung
<1> QED BY <1>7, <1>9, <1>10, <1>11 DEF b, d

LEMMA EmptyBridge ==
  ASSUME NEW h, NEW m \in Machine(h), m.audio = <<>>
  PROVE  Bridge(m) = m
<1>1. Bridge(m) = MachineOf(m.cd, m.route, <<>>, PushCdAudio(m.spu, m.audio), m.stat)
  BY BridgeIs
<1>2. m.spu \in SoundSpu(h) /\ m.audio \in Seq(Frames)
  BY MachineFields
<1>3. PushCdAudio(m.spu, m.audio) = m.spu
  BY <1>2, CdAudioPushed
<1>4. m = MachineOf(m.cd, m.route, m.audio, m.spu, m.stat)
  BY MachineFields
<1> QED BY <1>1, <1>3, <1>4

\* After i of n cycles the loop is where a batch of i would be, and the rest of
\* the window is still free.
InStep(h, m, n, i) ==
  /\ Iterated(CdCycleOf(h), m, i).audio = <<>>
  /\ i < n => AudioFree(Iterated(CdCycleOf(h), m, i).cd, n - i)
  /\ i # 0 => Iterated(CycleOf(h), m, i) = Batched(Iterated(CdCycleOf(h), m, i), i)

LEMMA CyclesOneByOne ==
  ASSUME NEW h \in Nat, NEW m \in Machine(h), NEW i \in Nat
  PROVE  /\ Iterated(CdCycleOf(h), m, i) \in Machine(h) /\ Iterated(CdCycleOf(h), m, 0) = m
         /\ Iterated(CdCycleOf(h), m, i + 1) = CdCycle(Iterated(CdCycleOf(h), m, i))
         /\ Iterated(CycleOf(h), m, i) \in Machine(h) /\ Iterated(CycleOf(h), m, 0) = m
         /\ Iterated(CycleOf(h), m, i + 1) = OneCycle(Iterated(CycleOf(h), m, i))
<1> DEFINE S == Machine(h)
           F == CdCycleOf(h)
           G == CycleOf(h)
<1>1. F \in [S -> S] /\ G \in [S -> S]
  BY CdTicksIterate, CyclesIterate
<1>2. /\ \A e \in S : F[e] = CdCycle(e)
      /\ \A e \in S : G[e] = OneCycle(e)
  BY DEF CdCycleOf, CycleOf
<1>3. m \in S
  OBVIOUS
<1> HIDE DEF S, F, G
<1>4. /\ Iterated(F, m, i) \in S /\ Iterated(F, m, 0) = m
      /\ Iterated(F, m, i + 1) = F[Iterated(F, m, i)]
  <2>1. F \in [S -> S]
    BY <1>1
  <2> QED BY <1>3, <2>1, Iteration
<1>5. /\ Iterated(G, m, i) \in S /\ Iterated(G, m, 0) = m
      /\ Iterated(G, m, i + 1) = G[Iterated(G, m, i)]
  <2>1. G \in [S -> S]
    BY <1>1
  <2> QED BY <1>3, <2>1, Iteration
<1> QED BY <1>2, <1>4, <1>5 DEF S, F, G

LEMMA BatchIsCycles ==
  ASSUME NEW h \in Nat, NEW m \in Machine(h), m.audio = <<>>, NEW n \in Nat \ {0},
         AudioFree(m.cd, n)
  PROVE  /\ Cycles(m, n) = SoundTick(Bridge(CdTick(m, n)), n)
         /\ Cycles(m, n) = Batched(CdTick(m, n), n)
<1> DEFINE C(i) == Iterated(CdCycleOf(h), m, i)
           O(i) == Iterated(CycleOf(h), m, i)
           T == {i \in Nat : i <= n => InStep(h, m, n, i)}
<1>1. \A i \in Nat : /\ C(i) \in Machine(h) /\ C(i + 1) = CdCycle(C(i))
                     /\ O(i) \in Machine(h) /\ O(i + 1) = OneCycle(O(i))
  <2>1. ASSUME NEW i \in Nat
        PROVE  /\ C(i) \in Machine(h) /\ C(i + 1) = CdCycle(C(i))
               /\ O(i) \in Machine(h) /\ O(i + 1) = OneCycle(O(i))
    <3>1. C(i) \in Machine(h) /\ O(i) \in Machine(h)
      BY CyclesOneByOne
    <3>2. C(i + 1) = CdCycle(C(i))
      BY CyclesOneByOne
    <3>3. O(i + 1) = OneCycle(O(i))
      BY CyclesOneByOne
    <3> QED BY <3>1, <3>2, <3>3
  <2> QED BY <2>1
<1>2. C(0) = m /\ O(0) = m
  <2>1. 0 \in Nat
    OBVIOUS
  <2> QED BY <2>1, CyclesOneByOne
<1>3. 0 \in T
  BY <1>2 DEF InStep
<1>4. ASSUME NEW i \in T, i < n PROVE InStep(h, m, n, i + 1)
  <2> DEFINE c == C(i)
             k == n - i
  <2>1. i \in Nat /\ InStep(h, m, n, i) /\ c \in Machine(h) /\ C(i + 1) = CdCycle(c)
    BY <1>1, <1>4
  <2>2. c.audio = <<>> /\ AudioFree(c.cd, k) /\ k \in Nat \ {0} /\ k - 1 = n - (i + 1)
    BY <1>4, <2>1 DEF InStep
  <2> HIDE DEF k
  <2>3. Decoded(c.cd, c.route) = <<>> /\ AudioFree(TickOne(c.cd), k - 1)
    <3>1. DriveInv(MaxCommands, c.cd) /\ MaxCommands \in Nat
      BY <2>1, MachineFields
    <3> QED BY <2>2, <3>1, FreeCycle
  <2> HIDE DEF c
  <2> DEFINE d == CdCycle(c)
             q == <<>>
  <2>4. d.audio = q /\ d.cd = TickOne(c.cd)
    <3>1. d = MachineOf(TickOne(c.cd), c.route, q, c.spu, Rung(c.stat, TickRaises(c.cd), "CdRom"))
      BY <2>1, <2>2, <2>3, SilentCdCycle
    <3> HIDE DEF d
    <3> QED BY <3>1 DEF MachineOf
  <2>5. O(i + 1) = Batched(d, i + 1)
    <3>1. CASE i = 0
      <4>1. O(1) = OneCycle(m) /\ c = m
        <5>1. O(0 + 1) = OneCycle(O(0)) /\ 0 + 1 = 1
          BY <1>1
        <5> QED BY <1>2, <3>1, <5>1 DEF c
      <4>2. Bridge(d) = d /\ d \in Machine(h)
        BY <2>1, <2>2, <2>3, SilentCdCycle
      <4>3. OneCycle(m) = SoundTick(d, 1)
        BY <4>1, <4>2 DEF OneCycle
      <4>4. SoundTick(d, 1) = Batched(d, 1)
        <5>1. 1 \in Nat
          OBVIOUS
        <5> HIDE DEF d
        <5> QED BY <4>2, <5>1, BatchedIs
      <4> QED BY <3>1, <4>1, <4>3, <4>4
    <3>2. CASE i # 0
      <4>1. O(i) = Batched(c, i)
        BY <2>1, <3>2 DEF InStep, c
      <4>2. OneCycle(Batched(c, i)) = Batched(d, i + 1)
        BY <2>1, <2>2, <2>3, BatchGrows
      <4> QED BY <1>1, <2>1, <4>1, <4>2
    <3> QED BY <3>1, <3>2
  <2> QED BY <2>1, <2>2, <2>3, <2>4, <2>5 DEF InStep
<1>5. T = Nat
  <2> HIDE DEF C, O
  <2>1. ASSUME NEW i \in T PROVE i + 1 \in T
    <3>1. i \in Nat /\ n \in Nat
      OBVIOUS
    <3>2. i + 1 <= n => InStep(h, m, n, i + 1)
      BY <1>4, <3>1
    <3> QED BY <3>1, <3>2
  <2> HIDE DEF T
  <2>2. T \in SUBSET Nat
    BY DEF T
  <2> QED BY <1>3, <2>1, <2>2, Induction
<1>6. C(n).audio = <<>> /\ C(n) \in Machine(h) /\ O(n) = Batched(C(n), n)
  <2>1. n \in T /\ n <= n /\ n # 0 /\ n \in Nat
    <3> HIDE DEF T
    <3> QED BY <1>5
  <2>2. InStep(h, m, n, n)
    BY <2>1
  <2> QED BY <1>1, <2>1, <2>2 DEF InStep
<1>7. Cycles(m, n) = O(n) /\ CdTick(m, n) = C(n)
  BY CyclesIterate, CdTicksIterate
<1> HIDE DEF C, O
<1>8. Bridge(C(n)) = C(n)
  BY <1>6, EmptyBridge
<1>9. SoundTick(C(n), n) = Batched(C(n), n)
  BY <1>6, BatchedIs
<1> QED BY <1>6, <1>7, <1>8, <1>9

\* What is left of the drive's estimate after i cycles.
Owed(left, i) == IF left = NoEvent THEN NoEvent ELSE left - i

StillQuiet(h, m, left, i) ==
  /\ Iterated(CdCycleOf(h), m, i).spu = m.spu
  /\ left = NoEvent \/ i < left =>
       /\ Iterated(CdCycleOf(h), m, i).stat = m.stat
       /\ PromiseKept(Iterated(CdCycleOf(h), m, i).cd, Owed(left, i))

\* The drive raises nothing before its next event, and leaves the sound
\* processor alone.
LEMMA DriveStaysQuiet ==
  ASSUME NEW h \in Nat, NEW m \in Machine(h), NEW n \in Nat
  PROVE  /\ CdTick(m, n).spu = m.spu
         /\ CyclesToNextEvent(m.cd) = NoEvent \/ n < CyclesToNextEvent(m.cd)
              => CdTick(m, n).stat = m.stat
<1> DEFINE C(i) == Iterated(CdCycleOf(h), m, i)
           left == CyclesToNextEvent(m.cd)
           T == {i \in Nat : StillQuiet(h, m, left, i)}
<1>1. CdCycleOf(h) \in [Machine(h) -> Machine(h)] /\ CdTick(m, n) = C(n)
  BY CdTicksIterate
<1>2. \A i \in Nat : C(i) \in Machine(h) /\ C(i + 1) = CdCycle(C(i)) /\ C(0) = m
  BY <1>1, Iteration DEF CdCycleOf
<1>3. left \in Promises /\ PromiseKept(m.cd, left)
  <2>1. MaxCommands \in Nat /\ DriveInv(MaxCommands, m.cd)
    BY MachineFields
  <2> QED BY <2>1, FreshPromise DEF DriveInv
<1> HIDE DEF left
<1>4. left = NoEvent \/ left \in Nat \ {0}
  BY <1>3 DEF Promises
<1>5. 0 \in T
  <2>1. Owed(left, 0) = left
    BY <1>4 DEF Owed
  <2> QED BY <1>2, <1>3, <2>1 DEF StillQuiet
<1>6. ASSUME NEW i \in T PROVE i + 1 \in T
  <2> DEFINE c == C(i)
             d == CdCycle(c)
  <2>1. i \in Nat /\ StillQuiet(h, m, left, i) /\ c \in Machine(h) /\ C(i + 1) = d
    BY <1>2
  <2> HIDE DEF c
  <2>2. d.spu = c.spu /\ d.cd = TickOne(c.cd) /\ d.stat = Rung(c.stat, TickRaises(c.cd), "CdRom")
    <3>1. d = CdStep(c)
      BY <2>1, CdCycleIs
    <3> QED BY <3>1 DEF CdStep, MachineOf, Rung
  <2>3. ASSUME left = NoEvent \/ i + 1 < left
        PROVE  d.stat = m.stat /\ PromiseKept(d.cd, Owed(left, i + 1))
    <3>1. left = NoEvent \/ i < left
      BY <1>4, <2>1, <2>3
    <3>2. c.stat = m.stat /\ PromiseKept(c.cd, Owed(left, i))
      BY <2>1, <3>1 DEF StillQuiet, c
    <3>3. ~ Latches(c.cd) /\ PromiseKept(TickOne(c.cd), Owed(left, i + 1))
      <4>1. CASE left = NoEvent
        <5>1. Idle(c.cd)
          BY <3>2, <4>1 DEF Owed, PromiseKept
        <5> QED BY <3>2, <4>1, <5>1, IdleStill DEF Owed
      <4>2. CASE left # NoEvent
        <5> DEFINE k == left - i
        <5>1. left \in Nat /\ k \in Nat /\ k > 1 /\ left - (i + 1) = k - 1
          BY <1>4, <2>1, <2>3, <4>2
        <5>2. PromiseKept(c.cd, k)
          BY <3>2, <4>2 DEF Owed
        <5>3. c.cd \in DriveState(MaxCommands) /\ Cadence(c.cd) /\ MaxCommands \in Nat
          BY <2>1, MachineFields DEF DriveInv
        <5> HIDE DEF k
        <5>4. k # NoEvent
          BY <5>1 DEF NoEvent
        <5>5. ~ Latches(c.cd) /\ PromiseKept(TickOne(c.cd), k - 1)
          BY <5>1, <5>2, <5>3, <5>4, LongPromise
        <5> QED BY <4>2, <5>1, <5>5 DEF Owed
      <4> QED BY <4>1, <4>2
    <3> QED BY <2>2, <3>2, <3>3 DEF TickRaises, Rung
  <2>4. StillQuiet(h, m, left, i + 1)
    BY <2>1, <2>2, <2>3 DEF StillQuiet, c
  <2> QED BY <2>1, <2>4
<1>7. n \in T
  <2> HIDE DEF T
  <2>1. T \in SUBSET Nat
    BY DEF T
  <2> QED BY <1>5, <1>6, <2>1, Induction
<1> QED BY <1>1, <1>7 DEF StillQuiet, left

(***************************************************************************)
(* The contract.                                                           *)
(***************************************************************************)
LEMMA NextEventType ==
  ASSUME NEW h, NEW s \in SoundSpu(h)
  PROVE  SpuNextEvent(s) \in Nat \ {0}
<1>1. /\ s.raise \in BOOLEAN /\ s.timer \in 0..(CyclesPerSample - 1)
      /\ CyclesPerSample \in Nat \ {0}
  BY SpuFields, ClockType DEF SoundSpu
<1> QED BY <1>1 DEF SpuNextEvent

LEMMA DeadlineIsNearest ==
  ASSUME SoundInv
  PROVE  /\ SoundDeadline \in Nat \ {0} /\ SoundDeadline <= SpuNextEvent(spu)
         /\ CyclesToNextEvent(cdrom) = NoEvent \/ SoundDeadline <= CyclesToNextEvent(cdrom)
<1> DEFINE a == CyclesToNextEvent(cdrom)
           b == SpuNextEvent(spu)
           waits == {a, b} \ {NoEvent}
<1>1. a = NoEvent \/ a \in Nat \ {0}
  <2>1. a \in Promises
    BY SoundParts, FreshPromise DEF DriveInv
  <2> QED BY <2>1 DEF Promises
<1>2. b \in Nat \ {0} /\ b # NoEvent
  BY SoundParts, NextEventType DEF NoEvent
<1>3. SoundDeadline = CHOOSE w \in waits : \A x \in waits : w <= x
  BY DEF SoundDeadline
<1> HIDE DEF a, b
<1>4. \E w \in waits : \A x \in waits : w <= x
  <2>1. CASE a = NoEvent \/ b <= a
    <3>1. b \in waits /\ \A x \in waits : b <= x
      BY <1>1, <1>2, <2>1
    <3> QED BY <3>1
  <2>2. CASE ~ (a = NoEvent \/ b <= a)
    <3>1. a \in waits /\ \A x \in waits : a <= x
      BY <1>1, <1>2, <2>2
    <3> QED BY <3>1
  <2> QED BY <2>1, <2>2
<1>5. SoundDeadline \in waits /\ \A x \in waits : SoundDeadline <= x
  BY <1>3, <1>4
<1> QED BY <1>1, <1>2, <1>5 DEF a, b

\* catch_up_devices may take the time up to the next event of the drive and the
\* sound processor, and the wait states of one instruction beyond it, in one
\* go: the state is that of the reference loop, and nothing was raised before.
THEOREM SoundKeepsContract == SoundSpec => []KeepsContract
<1>1. SoundInv => KeepsContract
  <2> SUFFICES ASSUME SoundInv, NEW n \in 1..(SoundDeadline + MaxExtra)
               PROVE  /\ CatchUp(Sound, n) = Cycles(Sound, n)
                      /\ n < SoundDeadline => Cycles(Sound, n).stat = irqStat
    BY DEF KeepsContract
  <2> DEFINE d == SoundDeadline
             m == Sound
  <2>1. /\ d \in Nat \ {0} /\ d <= SpuNextEvent(spu)
        /\ CyclesToNextEvent(cdrom) = NoEvent \/ d <= CyclesToNextEvent(cdrom)
    BY DeadlineIsNearest
  <2>2. /\ m \in Machine(heard) /\ heard \in Nat
        /\ DriveInv(MaxCommands, cdrom) /\ MaxCommands \in Nat /\ spu \in SoundSpu(heard)
    BY SoundParts
  <2>3. m.cd = cdrom /\ m.spu = spu /\ m.stat = irqStat /\ m.audio = <<>>
    BY SoundParts DEF Sound
  <2>4. n \in Nat \ {0}
    BY <2>1, PlaybackAssumption
  <2> HIDE DEF d, m
  <2>5. CASE CdAudioActive(cdrom)
    <3>1. CatchUp(m, n) = Cycles(m, n)
      BY <2>3, <2>5 DEF CatchUp
    <3>2. CyclesToNextEvent(cdrom) = 1
      BY <2>5 DEF CyclesToNextEvent, CdAudioActive, Idle
    <3>3. ~ (n < d)
      BY <2>1, <2>4, <3>2 DEF NoEvent
    <3> QED BY <3>1, <3>3 DEF m, d
  <2>6. CASE ~ CdAudioActive(cdrom)
    <3>1. AudioFree(cdrom, n)
      <4>1. n \in 1..(d + MaxExtra)
        BY DEF d
      <4> QED BY <2>1, <2>2, <2>6, <4>1, WindowIsFree
    <3>2. /\ Cycles(m, n) = SoundTick(Bridge(CdTick(m, n)), n)
          /\ Cycles(m, n) = Batched(CdTick(m, n), n)
      BY <2>2, <2>3, <2>4, <3>1, BatchIsCycles
    <3>3. CatchUp(m, n) = Cycles(m, n)
      BY <2>3, <2>6, <3>2 DEF CatchUp
    <3>4. ASSUME n < d PROVE Cycles(m, n).stat = irqStat
      <4> DEFINE e == CdTick(m, n)
      <4>1. e.spu = spu /\ e.stat = irqStat
        <5>1. CyclesToNextEvent(m.cd) = NoEvent \/ n < CyclesToNextEvent(m.cd)
          <6>1. CyclesToNextEvent(cdrom) \in Promises
            BY <2>2, FreshPromise DEF DriveInv
          <6> QED BY <2>1, <2>3, <2>4, <3>4, <6>1 DEF Promises
        <5> QED BY <2>2, <2>3, <2>4, <5>1, DriveStaysQuiet
      <4>2. ~ SpuRaises(spu, n)
        <5>1. n < SpuNextEvent(spu)
          BY <2>1, <2>2, <2>4, <3>4, NextEventType
        <5> QED BY <2>2, <2>4, <5>1, SpuStaysQuiet
      <4> HIDE DEF e
      <4>3. Batched(e, n).stat = Rung(e.stat, SpuRaises(e.spu, n), "Spu")
        BY DEF Batched, MachineOf
      <4> QED BY <3>2, <4>1, <4>2, <4>3 DEF Rung, e
    <3> QED BY <3>3, <3>4 DEF m, d
  <2> QED BY <2>5, <2>6
<1> QED
  BY <1>1, SoundInvariant, PTL

(***************************************************************************)
(* Gapless playback.  The frame mixed last, x, and those that wait behind  *)
(* it, q, are taken as one sequence: in it a frame of the run that is      *)
(* playing is followed by its successor, up to the sector the head is at.  *)
(***************************************************************************)
Nth(x, q, k) == IF k = 0 THEN x ELSE q[k]

OfRun(run, f) == f \notin {Silence, Muted} /\ f.run = run

\* Each frame of the run is followed by the next one, or by a muted one; the
\* last ends the sector before the head's, at l.
Linked(run, x, q, l) ==
  \A k \in 0..Len(q) : OfRun(run, Nth(x, q, k)) =>
    /\ k < Len(q) => Nth(x, q, k + 1) \in {Successor(Nth(x, q, k)), Muted}
    /\ k = Len(q) => Nth(x, q, k).i = FramesPerSector /\ Nth(x, q, k).lba + 1 = l

Present(run, x, q) == \E k \in 0..Len(q) : OfRun(run, Nth(x, q, k))

\* With d samples to go until the next sector is decoded, the queue neither
\* runs out before it nor overflows with it.
Bounded(q, d) == d <= Len(q) /\ Len(q) <= CdQueueMax - FramesPerSector + d

RunOn(run, x, q, l, d, cdda) ==
  /\ Linked(run, x, q, l)
  /\ Present(run, x, q) => cdda /\ Bounded(q, d)

\* The frames of a run and of those before it.
Upto(run) == {f \in Frames : f = Muted \/ f.run <= run}

\* r is q without its first d frames and with those of f behind it, none of
\* them given up unless all c places are taken.
Behind(q, f, c, d, r) ==
  /\ Len(r) = Len(q) - d + Len(f) /\ Len(r) <= c /\ (d > 0 => Len(r) = c)
  /\ \A i \in 1..(Len(q) - d) : r[i] = q[d + i]
  /\ \A i \in 1..Len(f) : r[Len(q) - d + i] = f[i]

LEMMA NewestIsBehind ==
  ASSUME NEW S, NEW q \in Seq(S), NEW f \in Seq(S), NEW c \in Nat, Len(f) <= c
  PROVE  \E d \in 0..Len(q) : Behind(q, f, c, d, Newest(q \o f, c))
<1> DEFINE p == q \o f
           r == Newest(p, c)
           l == Len(p)
           n == IF l < c THEN l ELSE c
           a == l - n + 1
           d == l - n
<1>1. /\ p \in Seq(S) /\ l = Len(q) + Len(f) /\ Len(q) \in Nat /\ Len(f) \in Nat
      /\ \A i \in 1..Len(q) : p[i] = q[i]
      /\ \A i \in 1..Len(f) : p[Len(q) + i] = f[i]
  <2>1. p \in Seq(S) /\ Joins(q, p, f)
    BY ConcatJoins
  <2>2. l = Len(q) + Len(f) /\ Len(q) \in Nat /\ Len(f) \in Nat
    BY ConcatProperties
  <2> HIDE DEF p, l
  <2> QED BY <2>1, <2>2 DEF Joins
<1>2. r = SubSeq(p, a, l)
  BY DEF Newest
<1> HIDE DEF p, r, l
<1>3. /\ a \in Nat \ {0} /\ d \in 0..Len(q) /\ n \in Nat /\ n <= c /\ Len(f) <= n
      /\ l - a + 1 = n /\ d + n = l /\ a = d + 1 /\ (d > 0 => n = c)
  BY <1>1
<1> HIDE DEF a, d, n
<1>4. \A i \in a..l : p[i] \in S
  <2>1. DOMAIN p = 1..l /\ \A i \in DOMAIN p : p[i] \in S
    BY <1>1, QueueDomain DEF l
  <2>2. a..l \in SUBSET (1..l)
    BY <1>1, <1>3
  <2> QED BY <2>1, <2>2
<1>5. /\ Len(r) = IF a <= l THEN l - a + 1 ELSE 0
      /\ \A i \in 1..(l - a + 1) : r[i] = p[a + i - 1]
  BY <1>1, <1>2, <1>3, <1>4, SubSeqProperties
<1>6. Len(r) = n /\ \A i \in 1..n : r[i] = p[d + i]
  <2>1. a <= l \/ n = 0
    BY <1>1, <1>3
  <2>2. Len(r) = n
    BY <1>1, <1>3, <1>5, <2>1
  <2>3. ASSUME NEW i \in 1..n PROVE r[i] = p[d + i]
    <3>1. i \in 1..(l - a + 1) /\ a + i - 1 = d + i
      BY <1>1, <1>3
    <3> QED BY <1>5, <3>1
  <2> QED BY <2>2, <2>3
<1>7. ASSUME NEW i \in 1..(Len(q) - d) PROVE r[i] = q[d + i]
  <2>1. i \in 1..n /\ d + i \in 1..Len(q)
    BY <1>1, <1>3
  <2> QED BY <1>1, <1>6, <2>1
<1>8. ASSUME NEW i \in 1..Len(f) PROVE r[Len(q) - d + i] = f[i]
  <2> DEFINE j == Len(q) - d + i
  <2>1. j \in 1..n /\ d + j = Len(q) + i
    BY <1>1, <1>3
  <2> HIDE DEF j
  <2>2. r[j] = p[Len(q) + i]
    BY <1>6, <2>1
  <2> QED BY <1>1, <2>2 DEF j
<1>9. Len(r) = Len(q) - d + Len(f)
  BY <1>1, <1>3, <1>6
<1>10. Behind(q, f, c, d, r)
  BY <1>3, <1>6, <1>7, <1>8, <1>9 DEF Behind
<1> QED BY <1>3, <1>10 DEF r, p

\* The frames a sector adds to the run: all of them in order, or as many muted.
SectorFrames(run, l, f) ==
  /\ Len(f) = FramesPerSector
  /\ \/ \A i \in 1..FramesPerSector : f[i] = [run |-> run, lba |-> l, i |-> i]
     \/ \A i \in 1..FramesPerSector : f[i] = Muted

LEMMA NextSectorStarts ==
  ASSUME NEW g \in [run : 1..MaxCommands, lba : Lba, i : 1..(FramesPerSector + XaFrames)],
         ~ (g.i < FramesPerSector)
  PROVE  Successor(g) = [run |-> g.run, lba |-> g.lba + 1, i |-> 1]
<1> DEFINE a == g.lba + 1
           e == [g EXCEPT !.lba = a, !.i = 1]
<1>1. Successor(g) = e
  BY DEF Successor
<1> HIDE DEF a
<1>2. e = [run |-> g.run, lba |-> a, i |-> 1]
  <2> DEFINE r == g.run
             l == g.lba
             i == g.i
  <2>1. g = [run |-> r, lba |-> l, i |-> i]
    OBVIOUS
  <2> HIDE DEF r, l, i
  <2>2. [[run |-> r, lba |-> l, i |-> i] EXCEPT !.lba = a] = [run |-> r, lba |-> a, i |-> i]
    OBVIOUS
  <2>3. [[run |-> r, lba |-> a, i |-> i] EXCEPT !.i = 1] = [run |-> r, lba |-> a, i |-> 1]
    OBVIOUS
  <2>4. e = [[g EXCEPT !.lba = a] EXCEPT !.i = 1]
    OBVIOUS
  <2> QED BY <2>1, <2>2, <2>3, <2>4 DEF r
<1> QED BY <1>1, <1>2 DEF a

LEMMA LinkedBySector ==
  ASSUME NEW run, NEW l \in Nat, NEW x \in Frames \cup {Silence}, NEW q \in Seq(Frames),
         Linked(run, x, q, l), NEW f, SectorFrames(run, l, f),
         NEW c \in Nat, NEW d \in 0..Len(q), d > 0 => ~Present(run, x, q),
         NEW r, Behind(q, f, c, d, r)
  PROVE  Linked(run, x, r, l + 1)
<1> DEFINE b == Len(q) - d
<1>1. /\ Len(q) \in Nat /\ FramesPerSector \in Nat \ {0} /\ Len(f) = FramesPerSector
      /\ Len(r) = b + FramesPerSector /\ b \in Nat /\ b <= Len(q) /\ b + d = Len(q)
      /\ \A i \in 1..b : r[i] = q[d + i]
      /\ \A i \in 1..FramesPerSector : r[b + i] = f[i]
  <2>1. Len(q) \in Nat /\ FramesPerSector \in Nat \ {0} /\ Len(f) = FramesPerSector
    BY PlaybackAssumption DEF SectorFrames
  <2>2. b \in Nat /\ b <= Len(q) /\ b + d = Len(q)
    BY <2>1
  <2>3. /\ Len(r) = b + FramesPerSector
        /\ \A i \in 1..b : r[i] = q[d + i]
        /\ \A i \in 1..FramesPerSector : r[b + i] = f[i]
    BY <2>1, Zenon DEF Behind
  <2> HIDE DEF b
  <2> QED BY <2>1, <2>2, <2>3
<1> HIDE DEF b
<1> SUFFICES ASSUME NEW k \in 0..Len(r), OfRun(run, Nth(x, r, k))
             PROVE  /\ k < Len(r) => Nth(x, r, k + 1) \in {Successor(Nth(x, r, k)), Muted}
                    /\ k = Len(r) => /\ Nth(x, r, k).i = FramesPerSector
                                     /\ Nth(x, r, k).lba + 1 = l + 1
  BY Zenon DEF Linked
<1>2. ASSUME k <= b
      PROVE  d = 0 /\ b = Len(q) /\ \A j \in 0..b : Nth(x, r, j) = Nth(x, q, j)
  <2>1. d = 0
    <3>1. CASE k = 0
      <4>1. OfRun(run, Nth(x, q, 0)) /\ 0 \in 0..Len(q)
        BY <1>1, <3>1 DEF Nth
      <4> QED BY <1>1, <4>1 DEF Present
    <3>2. CASE k # 0
      <4>1. k \in 1..b /\ d + k \in 0..Len(q) /\ d + k # 0
        BY <1>1, <1>2, <3>2
      <4>2. Nth(x, r, k) = Nth(x, q, d + k)
        BY <1>1, <3>2, <4>1 DEF Nth
      <4> QED BY <1>1, <4>1, <4>2 DEF Present
    <3> QED BY <3>1, <3>2
  <2>2. ASSUME NEW j \in 0..b PROVE Nth(x, r, j) = Nth(x, q, j)
    <3>1. CASE j = 0
      BY <3>1 DEF Nth
    <3>2. CASE j # 0
      <4>1. j \in 1..b /\ d + j = j
        BY <1>1, <2>1, <3>2
      <4> QED BY <1>1, <3>2, <4>1 DEF Nth
    <3> QED BY <3>1, <3>2
  <2> QED BY <1>1, <2>1, <2>2
<1>3. CASE k < b
  <2>1. k \in 0..Len(q) /\ k < Len(q) /\ k \in 0..b /\ k + 1 \in 0..b /\ k # Len(r)
    BY <1>1, <1>3
  <2>2. Nth(x, r, k) = Nth(x, q, k) /\ Nth(x, r, k + 1) = Nth(x, q, k + 1)
    BY <1>1, <1>2, <1>3, <2>1
  <2>3. Nth(x, q, k + 1) \in {Successor(Nth(x, q, k)), Muted}
    BY <2>1, <2>2 DEF Linked
  <2> QED BY <2>1, <2>2, <2>3
<1>4. CASE k = b
  <2> DEFINE g == Nth(x, r, k)
  <2>1. k = Len(q) /\ k \in 0..Len(q) /\ g = Nth(x, q, k) /\ k < Len(r)
    BY <1>1, <1>2, <1>4
  <2>2. g.i = FramesPerSector /\ g.lba + 1 = l /\ g.run = run
    BY <2>1 DEF Linked, OfRun
  <2>3. g \in Frames \cup {Silence}
    <3>1. \A i \in 1..Len(q) : q[i] \in Frames
      BY QueueDomain
    <3>2. k = 0 \/ k \in 1..Len(q)
      BY <1>1, <2>1
    <3> QED BY <2>1, <3>1, <3>2 DEF Nth
  <2>4. g \in [run : 1..MaxCommands, lba : Lba, i : 1..(FramesPerSector + XaFrames)]
    BY <2>3 DEF OfRun, Frames
  <2>5. Nth(x, r, k + 1) = f[1]
    <3>1. 1 \in 1..FramesPerSector /\ k + 1 # 0 /\ k + 1 = b + 1
      BY <1>1, <1>4
    <3> QED BY <1>1, <3>1 DEF Nth
  <2>6. CASE f[1] = Muted
    BY <1>1, <2>1, <2>5, <2>6
  <2>7. CASE f[1] = [run |-> run, lba |-> l, i |-> 1]
    <3> HIDE DEF g
    <3>3. Successor(g) = [run |-> run, lba |-> l, i |-> 1]
      <4>1. ~ (g.i < FramesPerSector)
        BY <1>1, <2>2
      <4>2. Successor(g) = [run |-> g.run, lba |-> g.lba + 1, i |-> 1]
        BY <2>4, <4>1, NextSectorStarts
      <4> QED BY <2>2, <4>2
    <3> QED BY <1>1, <2>1, <2>5, <2>7, <3>3 DEF g
  <2>8. f[1] = Muted \/ f[1] = [run |-> run, lba |-> l, i |-> 1]
    <3>1. 1 \in 1..FramesPerSector
      BY <1>1
    <3> QED BY <3>1 DEF SectorFrames
  <2> QED BY <2>6, <2>7, <2>8
<1>5. CASE k > b
  <2> DEFINE i == k - b
             g == Nth(x, r, k)
  <2>1. i \in 1..FramesPerSector /\ k # 0 /\ b + i = k
    BY <1>1, <1>5
  <2>2. g = f[i]
    <3>1. r[b + i] = f[i]
      BY <1>1, <2>1
    <3> QED BY <2>1, <3>1 DEF Nth
  <2> HIDE DEF i, g
  <2>3. \A j \in 1..FramesPerSector : f[j] = [run |-> run, lba |-> l, i |-> j]
    <3>1. f[i] # Muted
      BY <2>2 DEF OfRun, g
    <3> QED BY <2>1, <3>1 DEF SectorFrames
  <2>4. g = [run |-> run, lba |-> l, i |-> i]
    BY <2>1, <2>2, <2>3
  <2>5. ASSUME k < Len(r) PROVE Nth(x, r, k + 1) = Successor(g)
    <3>1. i + 1 \in 1..FramesPerSector /\ i < FramesPerSector /\ k + 1 = b + (i + 1) /\ k + 1 # 0
      <4>1. /\ b \in Nat /\ FramesPerSector \in Nat /\ i \in 1..FramesPerSector
            /\ k = b + i /\ k < b + FramesPerSector
        BY <1>1, <2>1, <2>5
      <4> QED BY <4>1
    <3>2. Nth(x, r, k + 1) = f[i + 1]
      <4> DEFINE j == i + 1
      <4>1. j \in 1..FramesPerSector /\ k + 1 = b + j /\ k + 1 # 0
        BY <3>1
      <4> HIDE DEF j
      <4>2. r[b + j] = f[j]
        BY <1>1, <4>1
      <4> QED BY <4>1, <4>2 DEF Nth, j
    <3>3. Successor(g) = [run |-> run, lba |-> l, i |-> i + 1]
      <4> DEFINE j == i + 1
      <4>1. g.i = i /\ Successor(g) = [g EXCEPT !.i = j]
        BY <2>4, <3>1 DEF Successor
      <4> HIDE DEF j
      <4>2. [g EXCEPT !.i = j] = [run |-> run, lba |-> l, i |-> j]
        BY <2>4
      <4> QED BY <4>1, <4>2 DEF j
    <3> QED BY <2>3, <3>1, <3>2, <3>3
  <2>6. ASSUME k = Len(r) PROVE g.i = FramesPerSector /\ g.lba + 1 = l + 1
    <3>1. i = FramesPerSector
      BY <1>1, <2>1, <2>6
    <3> QED BY <2>4, <3>1
  <2> QED BY <2>5, <2>6 DEF g
<1>6. k < b \/ k = b \/ k > b
  BY <1>1
<1> QED BY <1>3, <1>4, <1>5, <1>6

\* The sample that takes the first frame, and what is left.
First(q) == IF q = <<>> THEN Silence ELSE Head(q)
Others(q) == IF q = <<>> THEN <<>> ELSE Tail(q)

LEMMA LinkedBySample ==
  ASSUME NEW run, NEW l, NEW x, NEW q \in Seq(Frames), Linked(run, x, q, l)
  PROVE  /\ Linked(run, First(q), Others(q), l)
         /\ Present(run, First(q), Others(q)) => Present(run, x, q) /\ q # <<>>
<1>1. CASE q = <<>>
  <2>1. First(q) = Silence /\ Others(q) = <<>>
    BY <1>1 DEF First, Others
  <2>2. \A k \in 0..Len(Others(q)) : k = 0
    BY <2>1
  <2>3. \A k \in 0..Len(Others(q)) : ~ OfRun(run, Nth(First(q), Others(q), k))
    BY <2>1, <2>2 DEF OfRun, Nth
  <2> QED BY <2>3, Zenon DEF Linked, Present
<1>2. CASE q # <<>>
  <2> DEFINE r == Others(q)
             z == First(q)
  <2>1. Drops(q, Tail(q)) /\ Tail(q) \in Seq(Frames) /\ Head(q) = q[1] /\ r = Tail(q) /\ z = q[1]
    BY <1>2, TailDrops DEF First, Others
  <2>2. Len(q) \in Nat \ {0} /\ Len(r) = Len(q) - 1 /\ \A k \in 1..Len(r) : r[k] = q[k + 1]
    <3>1. Len(r) \in Nat /\ DOMAIN r = 1..Len(r)
      BY <2>1, QueueDomain
    <3> HIDE DEF r, z
    <3>2. Len(q) \in Nat \ {0} /\ 1..Len(r) = 1..(Len(q) - 1) /\ \A k \in DOMAIN r : r[k] = q[k + 1]
      BY <2>1, <3>1 DEF Drops
    <3>3. Len(r) = Len(q) - 1
      BY <3>1, <3>2
    <3> QED BY <3>1, <3>2, <3>3
  <2> HIDE DEF r, z
  <2>3. \A k \in 0..Len(r) : k + 1 \in 0..Len(q) /\ Nth(z, r, k) = Nth(x, q, k + 1)
    <3> SUFFICES ASSUME NEW k \in 0..Len(r)
                 PROVE  k + 1 \in 0..Len(q) /\ Nth(z, r, k) = Nth(x, q, k + 1)
      OBVIOUS
    <3>1. CASE k = 0
      BY <2>1, <2>2, <3>1 DEF Nth
    <3>2. CASE k # 0
      <4>1. k \in 1..Len(r)
        BY <2>2, <3>2
      <4> QED BY <2>2, <3>2, <4>1 DEF Nth
    <3> QED BY <3>1, <3>2
  <2>4. Linked(run, z, r, l)
    <3> SUFFICES ASSUME NEW k \in 0..Len(r), OfRun(run, Nth(z, r, k))
                 PROVE  /\ k < Len(r) => Nth(z, r, k + 1) \in {Successor(Nth(z, r, k)), Muted}
                        /\ k = Len(r) => /\ Nth(z, r, k).i = FramesPerSector
                                         /\ Nth(z, r, k).lba + 1 = l
      BY Zenon DEF Linked
    <3>1. k + 1 \in 0..Len(q) /\ Nth(z, r, k) = Nth(x, q, k + 1) /\ OfRun(run, Nth(x, q, k + 1))
      BY <2>3
    <3>2. /\ k + 1 < Len(q) =>
               Nth(x, q, k + 1 + 1) \in {Successor(Nth(x, q, k + 1)), Muted}
          /\ k + 1 = Len(q) =>
               Nth(x, q, k + 1).i = FramesPerSector /\ Nth(x, q, k + 1).lba + 1 = l
      BY <3>1, Zenon DEF Linked
    <3>3. ASSUME k < Len(r) PROVE Nth(z, r, k + 1) = Nth(x, q, k + 1 + 1) /\ k + 1 < Len(q)
      <4>1. k + 1 \in 0..Len(r) /\ k + 1 < Len(q)
        BY <2>2, <3>3
      <4> QED BY <2>3, <4>1
    <3>4. k = Len(r) => k + 1 = Len(q)
      BY <2>2
    <3> QED BY <3>1, <3>2, <3>3, <3>4
  <2>5. Present(run, z, r) => Present(run, x, q)
    BY <2>3, Zenon DEF Present
  <2> QED BY <1>2, <2>4, <2>5 DEF r, z
<1> QED BY <1>1, <1>2

(***************************************************************************)
(* The samples to go until the next sector.                                *)
(***************************************************************************)
LEMMA QuotientUnique ==
  ASSUME NEW c \in Nat \ {0}, NEW q \in Int, NEW r \in 0..(c - 1), NEW x \in Int, x = c * q + r
  PROVE  x \div c = q
  OBVIOUS

\* d is the time to the next sector in samples, from a clock at t.
LEMMA SamplesToGo ==
  ASSUME NEW t \in 0..(CyclesPerSample - 1), NEW p \in Nat \ {0}
  PROVE  /\ (t + p) \div CyclesPerSample \in Nat
         /\ (p - 1) \div CyclesPerSample \in Nat
         /\ t + 1 = CyclesPerSample =>
              (t + p) \div CyclesPerSample = (p - 1) \div CyclesPerSample + 1
<1>1. CyclesPerSample \in Nat \ {0} /\ t \in Nat
  BY ClockType
<1> DEFINE y == p - 1
           q == y \div CyclesPerSample
           r == y % CyclesPerSample
<1>2. \A x \in Nat : x \div CyclesPerSample \in Nat
  BY <1>1, DivisionOfSuccessor
<1>3. y \in Nat /\ t + p \in Nat
  BY <1>1
<1> HIDE DEF y
<1>4. q \in Int /\ r \in 0..(CyclesPerSample - 1) /\ y = CyclesPerSample * q + r
  BY <1>1, <1>3, RemainderOf
<1> HIDE DEF q, r
<1>5. ASSUME t + 1 = CyclesPerSample PROVE (t + p) \div CyclesPerSample = q + 1
  <2>1. q + 1 \in Int /\ t + p \in Int
    BY <1>3, <1>4
  <2>2. t + p = CyclesPerSample * (q + 1) + r
    <3>1. CyclesPerSample * (q + 1) = CyclesPerSample * q + CyclesPerSample
      BY <1>1, <1>4
    <3>2. CyclesPerSample * q \in Int /\ t + p = y + CyclesPerSample
      BY <1>1, <1>3, <1>4, <1>5 DEF y
    <3> QED BY <1>1, <1>4, <3>1, <3>2
  <2> DEFINE u == q + 1
             x == t + p
  <2>3. u \in Int /\ x \in Int /\ x = CyclesPerSample * u + r
    BY <2>1, <2>2
  <2> HIDE DEF u, x
  <2>4. x \div CyclesPerSample = u
    BY <1>1, <1>4, <2>3, QuotientUnique
  <2> QED BY <2>4 DEF u, x
<1> QED BY <1>2, <1>3, <1>5 DEF q, y

\* A sector lasts as many samples as it has frames.
LEMMA SectorLasts ==
  ASSUME NEW t \in 0..(CyclesPerSample - 1)
  PROVE  /\ (t + SinglePeriod) \div CyclesPerSample = FramesPerSector
         /\ t \div CyclesPerSample = 0
<1>1. CyclesPerSample \in Nat \ {0} /\ FramesPerSector \in Nat /\ SinglePeriod \in Nat
  BY ClockType, PlaybackAssumption, DriveAssumption
<1>2. SinglePeriod = CyclesPerSample * FramesPerSector
  BY <1>1, PlaybackAssumption
<1> DEFINE x == t + SinglePeriod
<1>3. x = CyclesPerSample * FramesPerSector + t /\ x \in Int
  BY <1>1, <1>2
<1> HIDE DEF x
<1>4. x \div CyclesPerSample = FramesPerSector
  BY <1>1, <1>3, QuotientUnique
<1> QED BY <1>1, <1>4, DivisionOfSmall DEF x

\* The clock goes on, with a sample or without.
LEMMA RunOnByClock ==
  ASSUME NEW run, NEW l, NEW x, NEW q \in Seq(Frames), NEW cdda,
         NEW t \in 0..(CyclesPerSample - 1), NEW p \in Nat \ {0},
         RunOn(run, x, q, l, (t + p) \div CyclesPerSample, cdda)
  PROVE  /\ t + 1 < CyclesPerSample =>
              RunOn(run, x, q, l, (t + 1 + p - 1) \div CyclesPerSample, cdda)
         /\ t + 1 = CyclesPerSample =>
              /\ RunOn(run, First(q), Others(q), l, (0 + p - 1) \div CyclesPerSample, cdda)
              /\ OfRun(run, x) => First(q) \in {Successor(x), Muted}
<1> DEFINE d == (t + p) \div CyclesPerSample
           e == (p - 1) \div CyclesPerSample
<1>1. /\ d \in Nat /\ e \in Nat /\ (t + 1 = CyclesPerSample => d = e + 1)
      /\ t + 1 + p - 1 = t + p /\ 0 + p - 1 = p - 1
  <2>1. d \in Nat /\ e \in Nat /\ (t + 1 = CyclesPerSample => d = e + 1)
    BY SamplesToGo, Zenon
  <2> HIDE DEF d, e
  <2>2. t \in Nat /\ p \in Nat
    BY ClockType
  <2> QED BY <2>1, <2>2
<1>2. /\ Linked(run, x, q, l) /\ Len(q) \in Nat
      /\ Present(run, x, q) => cdda /\ Bounded(q, d)
  BY DEF RunOn
<1> HIDE DEF d, e
<1>3. ASSUME t + 1 = CyclesPerSample
      PROVE  /\ RunOn(run, First(q), Others(q), l, e, cdda)
             /\ OfRun(run, x) => First(q) \in {Successor(x), Muted}
  <2>1. /\ Linked(run, First(q), Others(q), l)
        /\ Present(run, First(q), Others(q)) => Present(run, x, q) /\ q # <<>>
    BY <1>2, LinkedBySample
  <2>2. ASSUME Present(run, First(q), Others(q)) PROVE cdda /\ Bounded(Others(q), e)
    <3>1. q # <<>> /\ cdda /\ d <= Len(q) /\ Len(q) <= CdQueueMax - FramesPerSector + d
      BY <1>2, <2>1, <2>2 DEF Bounded
    <3>2. Len(Others(q)) = Len(q) - 1
      BY <3>1 DEF Others
    <3>3. CdQueueMax \in Nat /\ FramesPerSector \in Nat
      BY CountType, PlaybackAssumption
    <3> QED BY <1>1, <1>2, <1>3, <3>1, <3>2, <3>3 DEF Bounded
  <2>3. ASSUME OfRun(run, x) PROVE First(q) \in {Successor(x), Muted}
    <3>1. Nth(x, q, 0) = x /\ 0 \in 0..Len(q)
      BY <1>2 DEF Nth
    <3>2. Present(run, x, q)
      BY <2>3, <3>1 DEF Present
    <3>3. 0 < Len(q)
      BY <1>1, <1>2, <1>3, <3>2 DEF Bounded
    <3>4. Nth(x, q, 0 + 1) \in {Successor(x), Muted}
      BY <1>2, <2>3, <3>1, <3>3, Zenon DEF Linked
    <3>5. q # <<>> /\ First(q) = q[1] /\ Nth(x, q, 0 + 1) = q[1]
      BY <3>3 DEF First, Nth
    <3> QED BY <3>4, <3>5
  <2> QED BY <2>1, <2>2, <2>3 DEF RunOn
<1>4. RunOn(run, x, q, l, d, cdda)
  BY DEF d
<1> QED BY <1>1, <1>3, <1>4 DEF d, e

(***************************************************************************)
(* The drive while it plays.                                               *)
(***************************************************************************)
LEMMA PlayingSpins ==
  ASSUME NEW n \in Nat, NEW cd \in DriveState(n), cd.playing, ~ cd.reading
  PROVE  LET s == Spun(cd)
         IN /\ ~ SectorDue(cd) =>
                 s.playing /\ s.lba = cd.lba /\ s.readTimer = cd.readTimer - 1
            /\ SectorDue(cd) /\ PlaybackEnds(cd) => ~ s.playing
            /\ SectorDue(cd) /\ ~ PlaybackEnds(cd) =>
                 s.playing /\ s.lba = cd.lba + 1 /\ s.readTimer = SinglePeriod
<1>1. CASE ~ SectorDue(cd)
  <2>1. Spun(cd) = [cd EXCEPT !.readTimer = cd.readTimer - 1]
    BY <1>1 DEF Spun
  <2> QED BY <1>1, <2>1 DEF DriveState
<1>2. CASE SectorDue(cd)
  <2> DEFINE x == ProcessCddaSector(cd)
             t == SinglePeriod
  <2>1. Spun(cd) = [x EXCEPT !.readTimer = t]
    BY <1>2 DEF Spun
  <2>2. /\ "readTimer" \in DOMAIN x /\ "lba" \in DOMAIN x /\ "playing" \in DOMAIN x
        /\ PlaybackEnds(cd) => ~ x.playing
        /\ ~ PlaybackEnds(cd) => x.lba = NextLba(cd) /\ x.playing
    <3>1. CASE PlaybackEnds(cd)
      <4> DEFINE y == [cd EXCEPT !.playing = FALSE]
      <4>1. x = ReportIf(y, cd.mode.autopause, 4)
        BY <3>1 DEF ProcessCddaSector
      <4>2. ~ y.playing /\ DOMAIN y = DOMAIN cd
        BY DEF DriveState
      <4> HIDE DEF x, y
      <4>3. DOMAIN x = DOMAIN cd /\ x.playing = y.playing
        BY <4>1, <4>2 DEF ReportIf, PushResp, DriveState
      <4> QED BY <3>1, <4>2, <4>3 DEF DriveState
    <3>2. CASE ~ PlaybackEnds(cd)
      <4> DEFINE l == NextLba(cd)
                 y == [cd EXCEPT !.lba = l]
      <4>1. x = ReportIf(y, cd.mode.report, 1)
        BY <3>2 DEF ProcessCddaSector
      <4> HIDE DEF l
      <4>2. y.lba = l /\ y.playing /\ DOMAIN y = DOMAIN cd
        BY DEF DriveState
      <4> HIDE DEF x, y
      <4>3. DOMAIN x = DOMAIN cd /\ x.lba = y.lba /\ x.playing = y.playing
        BY <4>1, <4>2 DEF ReportIf, PushResp, DriveState
      <4> QED BY <3>2, <4>2, <4>3 DEF DriveState, l
    <3> QED BY <3>1, <3>2
  <2> HIDE DEF x, t
  <2>3. Spun(cd).readTimer = t /\ Spun(cd).lba = x.lba /\ Spun(cd).playing = x.playing
    BY <2>1, <2>2
  <2>4. ~ PlaybackEnds(cd) => NextLba(cd) = cd.lba + 1
    <3>1. cd.lba \in Lba /\ LeadOut \in Nat
      BY DriveAssumption DEF DriveState
    <3> QED BY <3>1 DEF PlaybackEnds, NextLba, Lba
  <2> QED BY <1>2, <2>2, <2>3, <2>4 DEF t
<1> QED BY <1>1, <1>2

LEMMA TickPlays ==
  ASSUME NEW n \in Nat, NEW cd, DriveInv(n, cd)
  PROVE  LET e == TickOne(cd)
         IN /\ e.run = cd.run /\ e.disc = cd.disc /\ (e.playing => cd.playing)
            /\ e.playing =>
                 IF SectorDue(cd)
                 THEN /\ ~ PlaybackEnds(cd) /\ e.lba = cd.lba + 1
                      /\ e.readTimer = SinglePeriod
                 ELSE e.lba = cd.lba /\ e.readTimer = cd.readTimer - 1
            /\ cd.playing /\ ~ (SectorDue(cd) /\ PlaybackEnds(cd)) => e.playing
<1> DEFINE s == Spun(cd)
           c == CountedDown(s)
           e == TickOne(cd)
<1>1. cd \in DriveState(n) /\ Cadence(cd)
  BY DEF DriveInv
<1>2. /\ SpinStep(n, cd, s) /\ CountStep(n, s, c)
      /\ Latches(cd) => LatchStep(n, c, e)
      /\ ~ Latches(cd) => e = c
  BY <1>1, TickFields
<1>3. ASSUME cd.playing
      PROVE  /\ ~ SectorDue(cd) =>
                   s.playing /\ s.lba = cd.lba /\ s.readTimer = cd.readTimer - 1
             /\ SectorDue(cd) /\ PlaybackEnds(cd) => ~ s.playing
             /\ SectorDue(cd) /\ ~ PlaybackEnds(cd) =>
                  s.playing /\ s.lba = cd.lba + 1 /\ s.readTimer = SinglePeriod
  <2>1. ~ cd.reading
    BY <1>1, <1>3 DEF Cadence
  <2> QED BY <1>1, <1>3, <2>1, PlayingSpins
<1> HIDE DEF s, c, e
<1>4. s.run = cd.run /\ s.disc = cd.disc /\ (s.playing => cd.playing)
  BY <1>2 DEF SpinStep, SpinFrame
<1>5. /\ c.run = s.run /\ c.disc = s.disc /\ c.playing = s.playing
      /\ c.readTimer = s.readTimer /\ c.lba = s.lba
  BY <1>2 DEF CountStep, QueueFrame
<1>6. /\ e.run = c.run /\ e.disc = c.disc /\ e.playing = c.playing
      /\ e.readTimer = c.readTimer /\ e.lba = c.lba
  BY <1>2 DEF LatchStep
<1> QED BY <1>3, <1>4, <1>5, <1>6 DEF e

\* What a sector that is played adds to the queue.
LEMMA SectorIsPlayed ==
  ASSUME NEW cd \in DriveState(MaxCommands), RunStarted(cd), ~ cd.reading, NEW r \in Routes
  PROVE  /\ Decoded(cd, r) \in Seq(Frames) /\ Len(Decoded(cd, r)) <= FramesPerSector
         /\ ~ SectorDue(cd) \/ ~ r.cdda => Decoded(cd, r) = <<>>
         /\ SectorDue(cd) /\ cd.playing /\ ~ PlaybackEnds(cd) /\ r.cdda =>
              SectorFrames(cd.run, cd.lba, Decoded(cd, r))
<1> DEFINE f == Decoded(cd, r)
<1>1. FramesPerSector \in Nat /\ f \in Seq(Frames)
  BY PlaybackAssumption, DecodedType
<1>2. \/ f = <<>>
      \/ /\ SectorDue(cd) /\ r.cdda
         /\ f = [i \in 1..FramesPerSector |-> Muted] \/ f = FramesOf(cd, FramesPerSector)
  BY DEF Decoded
<1>3. SectorDue(cd) /\ cd.playing /\ ~ PlaybackEnds(cd) /\ r.cdda =>
        f = [i \in 1..FramesPerSector |-> Muted] \/ f = FramesOf(cd, FramesPerSector)
  BY DEF Decoded, PlaybackEnds
<1> HIDE DEF f
<1>4. ASSUME f = [i \in 1..FramesPerSector |-> Muted]
      PROVE  Len(f) = FramesPerSector /\ \A i \in 1..FramesPerSector : f[i] = Muted
  <2>1. DOMAIN f = 1..FramesPerSector /\ DOMAIN f = 1..Len(f) /\ Len(f) \in Nat
    BY <1>1, <1>4, QueueDomain
  <2>2. Len(f) = FramesPerSector
    BY <1>1, <2>1
  <2> QED BY <1>4, <2>2
<1>5. ASSUME f = FramesOf(cd, FramesPerSector)
      PROVE  /\ Len(f) = FramesPerSector
             /\ \A i \in 1..FramesPerSector : f[i] = [run |-> cd.run, lba |-> cd.lba, i |-> i]
  <2>1. DOMAIN f = 1..FramesPerSector /\ DOMAIN f = 1..Len(f) /\ Len(f) \in Nat
    BY <1>1, <1>5, QueueDomain DEF FramesOf
  <2>2. Len(f) = FramesPerSector
    BY <1>1, <2>1
  <2> QED BY <1>5, <2>2 DEF FramesOf
<1>6. Len(f) <= FramesPerSector
  <2>1. CASE f = <<>>
    BY <1>1, <2>1
  <2>2. CASE f # <<>>
    BY <1>1, <1>2, <1>4, <1>5, <2>2
  <2> QED BY <2>1, <2>2
<1>7. SectorDue(cd) /\ cd.playing /\ ~ PlaybackEnds(cd) /\ r.cdda => SectorFrames(cd.run, cd.lba, f)
  BY <1>3, <1>4, <1>5 DEF SectorFrames
<1> QED BY <1>1, <1>2, <1>6, <1>7 DEF f

\* A cycle of a drive that goes on playing, before the clock has moved.
LEMMA RunOnByDrive ==
  ASSUME NEW cd, DriveInv(MaxCommands, cd), RunStarted(cd), NEW r \in Routes,
         cd.playing, TickOne(cd).playing,
         NEW x \in Frames \cup {Silence}, NEW q \in Seq(Frames), Len(q) <= CdQueueMax,
         NEW t \in 0..(CyclesPerSample - 1),
         RunOn(cd.run, x, q, cd.lba, (t + cd.readTimer - 1) \div CyclesPerSample, r.cdda)
  PROVE  /\ TickOne(cd).readTimer \in Nat \ {0}
         /\ RunOn(cd.run, x, Newest(q \o Decoded(cd, r), CdQueueMax), TickOne(cd).lba,
                  (t + TickOne(cd).readTimer) \div CyclesPerSample, r.cdda)
<1> DEFINE e == TickOne(cd)
           f == Decoded(cd, r)
           c == CdQueueMax
           z == Newest(q \o f, c)
           d == (t + cd.readTimer - 1) \div CyclesPerSample
           g == (t + e.readTimer) \div CyclesPerSample
<1>1. /\ cd \in DriveState(MaxCommands) /\ ~ cd.reading /\ cd.readTimer \in Nat \ {0}
      /\ MaxCommands \in Nat /\ cd.lba \in Nat
  <2>1. cd \in DriveState(MaxCommands) /\ Cadence(cd) /\ MaxCommands \in Nat
    BY DriveAssumption DEF DriveInv
  <2>2. cd.readTimer \in Nat /\ cd.lba \in Nat
    BY <2>1, DriveAssumption DEF DriveState, Lba
  <2> QED BY <2>1, <2>2 DEF Cadence
<1>2. /\ IF SectorDue(cd)
         THEN ~ PlaybackEnds(cd) /\ e.lba = cd.lba + 1 /\ e.readTimer = SinglePeriod
         ELSE e.lba = cd.lba /\ e.readTimer = cd.readTimer - 1
      /\ SinglePeriod \in Nat \ {0}
  BY <1>1, TickPlays, PeriodType
<1>3. /\ FramesPerSector \in Nat \ {0} /\ c \in Nat /\ FramesPerSector <= c
      /\ CyclesPerSample \in Nat \ {0} /\ t \in Nat
  BY PlaybackAssumption, CountType, ClockType
<1>4. /\ f \in Seq(Frames) /\ Len(f) <= FramesPerSector
      /\ ~ SectorDue(cd) \/ ~ r.cdda => f = <<>>
      /\ SectorDue(cd) /\ r.cdda => SectorFrames(cd.run, cd.lba, f)
  BY <1>1, <1>2, SectorIsPlayed
<1>5. /\ Linked(cd.run, x, q, cd.lba)
      /\ Present(cd.run, x, q) => r.cdda /\ Bounded(q, d)
  BY DEF RunOn
<1>6. q \in Seq(Frames) /\ Len(q) \in Nat /\ Len(f) \in Nat
  BY <1>4
<1>7. f = <<>> => z = q
  <2>1. f = <<>> => q \o f = q
    BY ConcatEmptySeq
  <2>2. Newest(q, c) = q
    BY <1>3, NewestType
  <2> HIDE DEF f
  <2> QED BY <2>1, <2>2
<1> HIDE DEF e, f, d, g, z
<1>8. CASE ~ SectorDue(cd)
  <2>1. e.readTimer \in Nat \ {0}
    BY <1>1, <1>2, <1>8 DEF SectorDue
  <2>2. t + cd.readTimer - 1 = t + e.readTimer
    BY <1>1, <1>2, <1>3, <1>8
  <2>3. g = d
    BY <2>2 DEF g, d
  <2>4. z = q /\ e.lba = cd.lba
    BY <1>2, <1>4, <1>7, <1>8
  <2> QED BY <1>5, <2>1, <2>3, <2>4 DEF RunOn, e, f, g, z
<1>9. CASE SectorDue(cd)
  <2>1. cd.readTimer = 1 /\ e.readTimer = SinglePeriod /\ e.lba = cd.lba + 1
    BY <1>1, <1>2, <1>9 DEF SectorDue
  <2>2. g = FramesPerSector
    BY <2>1, SectorLasts DEF g
  <2>3. d = 0
    <3>1. t + cd.readTimer - 1 = t
      BY <1>3, <2>1
    <3>2. t \div CyclesPerSample = 0
      BY SectorLasts
    <3> QED BY <3>1, <3>2 DEF d
  <2>4. CASE ~ r.cdda
    <3>1. z = q /\ ~ Present(cd.run, x, q)
      BY <1>4, <1>5, <1>7, <2>4
    <3>2. Linked(cd.run, x, q, e.lba)
      BY <3>1 DEF Linked, Present
    <3>3. e.readTimer \in Nat \ {0}
      BY <1>2, <2>1
    <3> QED BY <3>1, <3>2, <3>3 DEF RunOn, e, f, g, z
  <2>5. CASE r.cdda
    <3>1. SectorFrames(cd.run, cd.lba, f) /\ Len(f) = FramesPerSector
      BY <1>4, <1>9, <2>5 DEF SectorFrames
    <3>2. PICK k \in 0..Len(q) : Behind(q, f, c, k, z)
      <4>1. Len(f) <= c
        BY <1>3, <3>1
      <4> QED BY <1>3, <1>4, <4>1, NewestIsBehind DEF z
    <3>3. /\ Len(z) = Len(q) - k + FramesPerSector /\ Len(z) <= c /\ (k > 0 => Len(z) = c)
      BY <3>1, <3>2 DEF Behind
    <3>4. k > 0 => ~ Present(cd.run, x, q)
      <4>1. ASSUME Present(cd.run, x, q) PROVE ~ (k > 0)
        <5>1. Len(q) <= c - FramesPerSector + 0
          BY <1>5, <2>3, <4>1 DEF Bounded
        <5> QED BY <1>3, <1>6, <3>3, <5>1
      <4> QED BY <4>1
    <3>5. Linked(cd.run, x, z, e.lba)
      <4>1. Linked(cd.run, x, z, cd.lba + 1)
        BY <1>1, <1>3, <1>5, <1>6, <3>1, <3>2, <3>4, LinkedBySector
      <4> QED BY <2>1, <4>1
    <3>6. Bounded(z, g)
      <4>1. FramesPerSector <= Len(z) /\ Len(z) <= c - FramesPerSector + FramesPerSector
        BY <1>3, <1>6, <3>3
      <4> QED BY <2>2, <4>1 DEF Bounded
    <3>7. e.readTimer \in Nat \ {0}
      BY <1>2, <2>1
    <3> QED BY <2>5, <3>5, <3>6, <3>7 DEF RunOn, e, f, g, z
  <2> QED BY <2>4, <2>5
<1> QED BY <1>8, <1>9

(***************************************************************************)
(* Frames are of the run that is going on, or of one before it.            *)
(***************************************************************************)
LEMMA UptoGrows ==
  ASSUME NEW a \in Nat, NEW b \in Nat, a <= b
  PROVE  Upto(a) \in SUBSET Upto(b) /\ Seq(Upto(a)) \in SUBSET Seq(Upto(b))
<1>1. Upto(a) \in SUBSET Upto(b)
  <2> SUFFICES ASSUME NEW f \in Upto(a) PROVE f \in Upto(b)
    OBVIOUS
  <2>1. CASE f = Muted
    BY <2>1 DEF Upto
  <2>2. CASE f # Muted
    <3>1. f \in Frames /\ f.run <= a /\ f.run \in Nat
      BY <2>2 DEF Upto, Frames
    <3>2. f.run <= b
      BY <3>1
    <3> QED BY <3>1, <3>2 DEF Upto
  <2> QED BY <2>1, <2>2
<1>2. ASSUME NEW q \in Seq(Upto(a)) PROVE q \in Seq(Upto(b))
  BY <1>1, <1>2
<1> QED BY <1>1, <1>2

LEMMA DecodedOfRun ==
  ASSUME NEW cd \in DriveState(MaxCommands), RunStarted(cd), NEW r \in Routes
  PROVE  Decoded(cd, r) \in Seq(Upto(cd.run))
<1> DEFINE f == Decoded(cd, r)
<1>1. f \in Seq(Frames)
  BY DecodedType
<1>2. \A i \in DOMAIN f : f[i] = Muted \/ f[i] = [run |-> cd.run, lba |-> cd.lba, i |-> i]
  BY DEF Decoded, FramesOf
<1> HIDE DEF f
<1>3. Len(f) \in Nat /\ DOMAIN f = 1..Len(f) /\ \A i \in DOMAIN f : f[i] \in Frames
  BY <1>1, QueueDomain
<1>4. cd.run \in Nat
  BY DEF DriveState
<1>5. \A i \in DOMAIN f : f[i] \in Upto(cd.run)
  BY <1>2, <1>3, <1>4 DEF Upto
<1>6. f \in [1..Len(f) -> Upto(cd.run)]
  BY <1>1, <1>3, <1>5
<1> QED BY <1>3, <1>6, SeqDef DEF f

(***************************************************************************)
(* One cycle of the sound processor and of both.                           *)
(***************************************************************************)
LEMMA SampleTakes ==
  ASSUME NEW s \in SpuState(Frames)
  PROVE  /\ GenerateSample(s).cdSample = First(s.cdQueue)
         /\ GenerateSample(s).cdQueue = Others(s.cdQueue)
<1> DEFINE a == Advanced(s)
           f == s.irqFlag \/ Rings(s)
           r == s.raise \/ Rings(s)
           x == NextFrame(s)
           q == RestOfQueue(s)
           p == Pushed(s.samples, s.produced, Overflow(s))
           y == Wrapped(s.produced + 1)
           z == Wrapped(s.dropped + Overflow(s))
<1>1. GenerateSample(s) = Sampling(s, a, f, r, x, q, p, y, z)
  BY GenerateSampleIs DEF Generated
<1>2. x = First(s.cdQueue) /\ q = Others(s.cdQueue)
  BY DEF NextFrame, RestOfQueue, First, Others
<1> HIDE DEF a, f, r, x, q, p, y, z
<1>3. /\ Sampling(s, a, f, r, x, q, p, y, z).cdSample = x
      /\ Sampling(s, a, f, r, x, q, p, y, z).cdQueue = q
  BY DEF Sampling, SpuState
<1> QED BY <1>1, <1>2, <1>3

LEMMA OneSpuCycle ==
  ASSUME NEW h \in Nat, NEW s \in SoundSpu(h)
  PROVE  LET e == SpuTick(s, 1)
         IN /\ s.timer + 1 < CyclesPerSample =>
                 /\ e.timer = s.timer + 1 /\ e.cdSample = s.cdSample /\ e.cdQueue = s.cdQueue
                 /\ e.produced = s.produced
            /\ s.timer + 1 = CyclesPerSample =>
                 /\ e.timer = 0 /\ e.cdSample = First(s.cdQueue) /\ e.cdQueue = Others(s.cdQueue)
<1> DEFINE e == SpuTick(s, 1)
           t == s.timer
           v == Clocked(s, 0, FALSE)
           g == GenerateSample(v)
<1>1. t \in 0..(CyclesPerSample - 1) /\ CyclesPerSample \in Nat \ {0} /\ s \in SpuState(Frames)
  BY SpuFields, ClockType DEF SoundSpu
<1>2. e = Clocked(After(h, s, SamplesDue(s, 1)), ClockAt(s, 1), FALSE)
  <2>1. 1 \in Nat
    OBVIOUS
  <2> QED BY <2>1, SpuTickIs
<1>3. SamplesDue(s, 1) = (t + 1) \div CyclesPerSample /\ ClockAt(s, 1) = (t + 1) % CyclesPerSample
  BY DEF SamplesDue, ClockAt
<1>4. After(h, s, 0) = v /\ After(h, s, 1) = g
  <2>1. After(h, s, 0) = v
    BY AfterSteps
  <2>2. After(h, s, 0 + 1) = GenerateSample(After(h, s, 0))
    BY AfterSteps
  <2> HIDE DEF v
  <2>3. 0 + 1 = 1
    OBVIOUS
  <2> QED BY <2>1, <2>2, <2>3
<1>5. v \in SoundSpu(h) /\ v \in SpuState(Frames) /\ v.cdQueue = s.cdQueue
  <2>1. FALSE \in BOOLEAN
    OBVIOUS
  <2>2. v \in SoundSpu(h) /\ v.cdQueue = s.cdQueue
    <3>1. \A b \in BOOLEAN, z \in 0..(CyclesPerSample - 1) :
            Clocked(s, z, b) \in SoundSpu(h) /\ Clocked(s, z, b).cdQueue = s.cdQueue
      BY ClockedType
    <3> QED BY <2>1, <3>1, ClockType, Zenon
  <2> HIDE DEF v
  <2> QED BY <2>2 DEF SoundSpu
<1>6. g \in SpuState(Frames) /\ g.cdSample = First(s.cdQueue) /\ g.cdQueue = Others(s.cdQueue)
  <2> HIDE DEF v
  <2>1. g \in SoundSpu(h)
    BY <1>5, SampleKeeps
  <2>2. g.cdSample = First(v.cdQueue) /\ g.cdQueue = Others(v.cdQueue)
    BY <1>5, SampleTakes
  <2> HIDE DEF g
  <2> QED BY <1>5, <2>1, <2>2 DEF SoundSpu
<1> HIDE DEF e, g, t
<1>7. CASE t + 1 < CyclesPerSample
  <2>1. SamplesDue(s, 1) = 0 /\ ClockAt(s, 1) = t + 1
    BY <1>1, <1>3, <1>7, ClockSuccessor, Zenon
  <2>2. e = Clocked(v, t + 1, FALSE)
    BY <1>2, <1>4, <2>1
  <2> DEFINE u == t + 1
  <2>3. e = Clocked(s, u, FALSE)
    <3>1. Clocked(Clocked(s, 0, FALSE), u, FALSE) = Clocked(s, u, FALSE)
      <4> HIDE DEF u
      <4> QED BY <1>1 DEF Clocked, SpuState
    <3> QED BY <2>2, <3>1
  <2> HIDE DEF u
  <2>4. e.timer = u /\ e.cdSample = s.cdSample /\ e.cdQueue = s.cdQueue /\ e.produced = s.produced
    BY <1>1, <2>3 DEF Clocked, SpuState
  <2>5. ~ (t + 1 = CyclesPerSample)
    BY <1>1, <1>7
  <2> QED BY <2>4, <2>5 DEF u, e, t
<1>8. CASE t + 1 = CyclesPerSample
  <2>1. SamplesDue(s, 1) = 1 /\ ClockAt(s, 1) = 0
    <3>1. ~ (t + 1 < CyclesPerSample)
      BY <1>1, <1>8
    <3> QED BY <1>1, <1>3, <3>1, ClockSuccessor, Zenon
  <2>2. e = Clocked(g, 0, FALSE)
    BY <1>2, <1>4, <2>1
  <2>3. e.timer = 0 /\ e.cdSample = g.cdSample /\ e.cdQueue = g.cdQueue
    BY <1>6, <2>2 DEF Clocked, SpuState
  <2>4. ~ (t + 1 < CyclesPerSample)
    BY <1>1, <1>8
  <2> QED BY <1>6, <2>3, <2>4 DEF e, t
<1> QED BY <1>1, <1>7, <1>8 DEF e, t

\* The queue after the drive's cycle, from the queue before it.
FedQueue(cd, r, q) == Newest(q \o Newest(Decoded(cd, r), CdAudioCap), CdQueueMax)

LEMMA OneCycleSounds ==
  ASSUME NEW h \in Nat, NEW m \in Machine(h), m.audio = <<>>
  PROVE  LET e == OneCycle(m).spu
             q == FedQueue(m.cd, m.route, m.spu.cdQueue)
         IN /\ OneCycle(m).cd = TickOne(m.cd)
            /\ m.spu.timer + 1 < CyclesPerSample =>
                 /\ e.timer = m.spu.timer + 1 /\ e.cdSample = m.spu.cdSample /\ e.cdQueue = q
                 /\ e.produced = m.spu.produced
            /\ m.spu.timer + 1 = CyclesPerSample =>
                 e.timer = 0 /\ e.cdSample = First(q) /\ e.cdQueue = Others(q)
<1> DEFINE c == CdCycle(m)
           b == Bridge(c)
           f == Newest(Decoded(m.cd, m.route), CdAudioCap)
           q == FedQueue(m.cd, m.route, m.spu.cdQueue)
           s == PushCdAudio(m.spu, f)
           o == OneCycle(m)
<1>1. c = CdStep(m) /\ c \in Machine(h)
  BY CdCycleIs
<1>2. c.cd = TickOne(m.cd) /\ c.audio = f /\ c.spu = m.spu
  <2>1. Decoded(m.cd, m.route) \in Seq(Frames)
    BY MachineFields, DecodedType
  <2>2. m.audio \o Decoded(m.cd, m.route) = Decoded(m.cd, m.route)
    BY <2>1, ConcatEmptySeq
  <2> HIDE DEF c
  <2> QED BY <1>1, <2>2 DEF CdStep, MachineOf
<1> HIDE DEF c
<1>3. b = MachineOf(c.cd, c.route, <<>>, PushCdAudio(c.spu, c.audio), c.stat) /\ b \in Machine(h)
  BY <1>1, BridgeIs
<1> HIDE DEF b, f
<1>4. b.cd = TickOne(m.cd) /\ b.spu = s
  BY <1>2, <1>3 DEF MachineOf
<1>5. o = SoundTick(b, 1)
  BY DEF OneCycle, b, c
<1> HIDE DEF o
<1>6. o.cd = b.cd /\ o.spu = SpuTick(b.spu, 1)
  <2>1. SoundTick(b, 1) = MachineOf(b.cd, b.route, b.audio, SpuTick(b.spu, 1),
                             IF SpuRaises(b.spu, 1) THEN b.stat \cup {"Spu"} ELSE b.stat)
    <3>1. 1 \in Nat
      OBVIOUS
    <3> QED BY <1>3, <3>1, SoundTickIs
  <2> QED BY <1>5, <2>1 DEF MachineOf
<1>7. /\ s.timer = m.spu.timer /\ s.cdSample = m.spu.cdSample /\ s.produced = m.spu.produced
      /\ s.cdQueue = q
  <2>1. m.spu \in SpuState(Frames)
    BY MachineFields DEF SoundSpu
  <2> DEFINE z == Newest(m.spu.cdQueue \o f, CdQueueMax)
  <2>2. s = [m.spu EXCEPT !.cdQueue = z] /\ z = q
    BY DEF PushCdAudio, FedQueue, f
  <2> HIDE DEF z, q, s
  <2> QED BY <2>1, <2>2 DEF SpuState
<1>8. s \in SoundSpu(h)
  BY <1>3, <1>4, MachineFields
<1> HIDE DEF s, q
<1>9. /\ s.timer + 1 < CyclesPerSample =>
           /\ o.spu.timer = s.timer + 1 /\ o.spu.cdSample = s.cdSample /\ o.spu.cdQueue = s.cdQueue
           /\ o.spu.produced = s.produced
      /\ s.timer + 1 = CyclesPerSample =>
           /\ o.spu.timer = 0 /\ o.spu.cdSample = First(s.cdQueue)
           /\ o.spu.cdQueue = Others(s.cdQueue)
  BY <1>4, <1>6, <1>8, OneSpuCycle
<1> QED BY <1>4, <1>6, <1>7, <1>9 DEF o, q

(***************************************************************************)
(* The invariant.                                                          *)
(***************************************************************************)
SamplesToSector == (spu.timer + cdrom.readTimer - 1) \div CyclesPerSample

PlaybackInv ==
  /\ use # "cd" => ~ cdrom.playing
  /\ use = "cd" =>
       /\ spu.cdQueue \in Seq(Upto(cdrom.run)) /\ spu.cdSample \in Upto(cdrom.run) \cup {Silence}
       /\ cdrom.playing => RunOn(cdrom.run, spu.cdSample, spu.cdQueue, cdrom.lba,
                                 SamplesToSector, route.cdda)

\* What a cycle does to it, and what a sample that falls into it mixes.
LEMMA CyclePlaysOn ==
  ASSUME SoundInv, PlaybackInv, Cycle
  PROVE  /\ PlaybackInv'
         /\ use = "cd" =>
              \A f \in {spu.cdSample} \ {Silence, Muted} :
                spu'.produced # spu.produced /\ StillPlaying(f)
                  => spu'.cdSample \in {Successor(f), Muted}
<1> DEFINE e == TickOne(cdrom)
           q == FedQueue(cdrom, route, spu.cdQueue)
           x == spu.cdSample
           t == spu.timer
<1>1. /\ DriveInv(MaxCommands, cdrom) /\ RunStarted(cdrom) /\ MaxCommands \in Nat
      /\ cdrom \in DriveState(MaxCommands) /\ Cadence(cdrom)
      /\ route \in Routes /\ spu \in SoundSpu(heard) /\ spu \in SpuState(Frames)
      /\ heard \in Nat /\ Sound \in Machine(heard) /\ cdAudio = <<>>
  BY SoundParts DEF DriveInv, SoundSpu
<1>2. /\ t \in 0..(CyclesPerSample - 1) /\ CyclesPerSample \in Nat \ {0} /\ CdQueueMax \in Nat
      /\ x \in Frames \cup {Silence} /\ spu.cdQueue \in Seq(Frames)
      /\ Len(spu.cdQueue) <= CdQueueMax
  BY <1>1, SpuFields, ClockType, CountType DEF SoundSpu
<1>3. /\ cdrom' = e /\ route' = route /\ use' = use
      /\ t + 1 < CyclesPerSample =>
           /\ spu'.timer = t + 1 /\ spu'.cdSample = x /\ spu'.cdQueue = q
           /\ spu'.produced = spu.produced
      /\ t + 1 = CyclesPerSample =>
           spu'.timer = 0 /\ spu'.cdSample = First(q) /\ spu'.cdQueue = Others(q)
  <2> DEFINE m == OneCycle(Sound)
  <2>1. cdrom' = m.cd /\ spu' = m.spu /\ route' = route /\ use' = use
    BY DEF Cycle
  <2>2. Sound.cd = cdrom /\ Sound.route = route /\ Sound.spu = spu /\ Sound.audio = <<>>
    BY <1>1 DEF Sound
  <2>3. /\ m.cd = TickOne(Sound.cd)
        /\ Sound.spu.timer + 1 < CyclesPerSample =>
             /\ m.spu.timer = Sound.spu.timer + 1 /\ m.spu.cdSample = Sound.spu.cdSample
             /\ m.spu.cdQueue = FedQueue(Sound.cd, Sound.route, Sound.spu.cdQueue)
             /\ m.spu.produced = Sound.spu.produced
        /\ Sound.spu.timer + 1 = CyclesPerSample =>
             /\ m.spu.timer = 0
             /\ m.spu.cdSample = First(FedQueue(Sound.cd, Sound.route, Sound.spu.cdQueue))
             /\ m.spu.cdQueue = Others(FedQueue(Sound.cd, Sound.route, Sound.spu.cdQueue))
    BY <1>1, <2>2, OneCycleSounds
  <2> HIDE DEF m
  <2> QED BY <2>1, <2>2, <2>3
<1>4. /\ e.run = cdrom.run /\ (e.playing => cdrom.playing)
      /\ cdrom.playing /\ ~ (SectorDue(cdrom) /\ PlaybackEnds(cdrom)) => e.playing
  BY <1>1, TickPlays
<1>5. t + 1 < CyclesPerSample \/ t + 1 = CyclesPerSample
  BY <1>2
<1>6. CASE use # "cd"
  BY <1>3, <1>4, <1>6 DEF PlaybackInv
<1>7. CASE use = "cd"
  <2> DEFINE U == Upto(cdrom.run)
             f == Newest(Decoded(cdrom, route), CdAudioCap)
  <2>1. /\ spu.cdQueue \in Seq(U) /\ x \in U \cup {Silence}
        /\ cdrom.playing => RunOn(cdrom.run, x, spu.cdQueue, cdrom.lba, SamplesToSector,
                                  route.cdda)
    BY <1>7 DEF PlaybackInv
  <2>2. f \in Seq(U) /\ q \in Seq(U) /\ q \in Seq(Frames)
    <3>1. CdAudioCap \in Nat /\ Decoded(cdrom, route) \in Seq(U)
      BY <1>1, DecodedOfRun, PlaybackAssumption
    <3> HIDE DEF U
    <3>2. f \in Seq(U)
      BY <3>1, NewestType
    <3> HIDE DEF f
    <3>3. spu.cdQueue \o f \in Seq(U)
      BY <2>1, <3>2, ConcatProperties
    <3>4. q \in Seq(U)
      BY <1>2, <3>3, NewestType DEF FedQueue, f
    <3> HIDE DEF q
    <3>5. U \in SUBSET Frames
      BY DEF U, Upto
    <3>6. q \in Seq(Frames)
      BY <3>4, <3>5
    <3> QED BY <3>2, <3>4, <3>6
  <2>3. First(q) \in U \cup {Silence} /\ Others(q) \in Seq(U)
    <3> HIDE DEF q, U
    <3>1. CASE q = <<>>
      BY <3>1 DEF First, Others
    <3>2. CASE q # <<>>
      BY <2>2, <3>2 DEF First, Others
    <3> QED BY <3>1, <3>2
  <2>4. spu'.cdQueue \in Seq(U) /\ spu'.cdSample \in U \cup {Silence}
    <3> HIDE DEF U, q
    <3> QED BY <1>3, <1>5, <2>1, <2>2, <2>3
  <2>5. ASSUME e.playing
        PROVE  /\ e.readTimer \in Nat \ {0}
               /\ RunOn(cdrom.run, x, q, e.lba, (t + e.readTimer) \div CyclesPerSample, route.cdda)
    <3>1. cdrom.playing /\ ~ cdrom.reading
      BY <1>1, <1>4, <2>5 DEF Cadence
    <3>2. q = Newest(spu.cdQueue \o Decoded(cdrom, route), CdQueueMax)
      <4>1. /\ Decoded(cdrom, route) \in Seq(Frames)
            /\ Len(Decoded(cdrom, route)) <= FramesPerSector
        BY <1>1, <3>1, SectorIsPlayed
      <4>2. Len(Decoded(cdrom, route)) <= CdAudioCap /\ CdAudioCap \in Nat
        BY <4>1, PlaybackAssumption
      <4>3. f = Decoded(cdrom, route)
        BY <4>1, <4>2, NewestType
      <4> QED BY <4>3 DEF FedQueue
    <3> HIDE DEF q
    <3>3. RunOn(cdrom.run, x, spu.cdQueue, cdrom.lba,
                (t + cdrom.readTimer - 1) \div CyclesPerSample, route.cdda)
      BY <2>1, <3>1 DEF SamplesToSector
    <3> QED BY <1>1, <1>2, <2>5, <3>1, <3>2, <3>3, RunOnByDrive
  <2>6. ASSUME e.playing
        PROVE  /\ t + 1 < CyclesPerSample =>
                    RunOn(cdrom.run, x, q, e.lba, (t + 1 + e.readTimer - 1) \div CyclesPerSample,
                          route.cdda)
               /\ t + 1 = CyclesPerSample =>
                    /\ RunOn(cdrom.run, First(q), Others(q), e.lba,
                             (0 + e.readTimer - 1) \div CyclesPerSample, route.cdda)
                    /\ OfRun(cdrom.run, x) => First(q) \in {Successor(x), Muted}
    <3> HIDE DEF q, e, x, t
    <3> QED BY <1>2, <2>2, <2>5, <2>6, RunOnByClock
  <2>7. e.playing => RunOn(cdrom'.run, spu'.cdSample, spu'.cdQueue, cdrom'.lba,
                           (spu'.timer + cdrom'.readTimer - 1) \div CyclesPerSample, route'.cdda)
    <3> HIDE DEF q, e, x
    <3> QED BY <1>3, <1>4, <1>5, <2>6
  <2>8. PlaybackInv'
    <3>1. /\ spu'.cdQueue \in Seq(Upto(cdrom'.run))
          /\ spu'.cdSample \in Upto(cdrom'.run) \cup {Silence}
      BY <1>3, <1>4, <2>4
    <3> HIDE DEF e, U
    <3> QED BY <1>3, <1>7, <2>7, <3>1 DEF PlaybackInv, SamplesToSector
  <2>9. ASSUME x \notin {Silence, Muted}, spu'.produced # spu.produced, StillPlaying(x)
        PROVE  spu'.cdSample \in {Successor(x), Muted}
    <3>1. /\ cdrom.playing /\ OfRun(cdrom.run, x)
          /\ x.i = FramesPerSector /\ cdrom.lba = x.lba + 1 => ~ PlaybackEnds(cdrom)
      BY <2>9 DEF StillPlaying, OfRun
    <3>2. t + 1 = CyclesPerSample /\ spu'.cdSample = First(q)
      BY <1>3, <1>5, <2>9
    <3>3. CASE e.playing
      BY <2>6, <3>1, <3>2, <3>3
    <3>4. CASE ~ e.playing
      <4>1. SectorDue(cdrom) /\ PlaybackEnds(cdrom)
        BY <1>4, <3>1, <3>4
      <4>2. Decoded(cdrom, route) = <<>>
        BY <1>1, <3>1, <4>1 DEF Decoded, Cadence
      <4>3. q = spu.cdQueue
        <5>1. CdAudioCap \in Nat /\ Newest(<<>>, CdAudioCap) = <<>>
          <6> DEFINE n == <<>>
          <6>1. n \in Seq(Frames) /\ Len(n) = 0
            OBVIOUS
          <6> HIDE DEF n
          <6>2. CdAudioCap \in Nat /\ Len(n) <= CdAudioCap
            BY <6>1, PlaybackAssumption
          <6>3. Newest(n, CdAudioCap) = n
            BY <6>1, <6>2, NewestType
          <6> QED BY <6>2, <6>3 DEF n
        <5>2. spu.cdQueue \o <<>> = spu.cdQueue
          BY <1>2, ConcatEmptySeq
        <5>3. Newest(spu.cdQueue, CdQueueMax) = spu.cdQueue
          BY <1>2, NewestType
        <5> QED BY <4>2, <5>1, <5>2, <5>3 DEF FedQueue
      <4>4. Linked(cdrom.run, x, spu.cdQueue, cdrom.lba) /\ Len(spu.cdQueue) \in Nat
        BY <1>2, <2>1, <3>1 DEF RunOn
      <4>5. Nth(x, spu.cdQueue, 0) = x /\ 0 \in 0..Len(spu.cdQueue)
        BY <4>4 DEF Nth
      <4>6. Len(spu.cdQueue) # 0
        BY <3>1, <4>1, <4>4, <4>5 DEF Linked
      <4>7. Nth(x, spu.cdQueue, 0 + 1) \in {Successor(x), Muted}
        BY <3>1, <4>4, <4>5, <4>6 DEF Linked
      <4>8. spu.cdQueue # <<>> /\ Head(spu.cdQueue) = Nth(x, spu.cdQueue, 0 + 1)
        BY <1>2, <4>4, <4>6 DEF Nth
      <4> QED BY <3>2, <4>3, <4>7, <4>8 DEF First
    <3> QED BY <3>3, <3>4
  <2> QED BY <2>8, <2>9
<1> QED BY <1>6, <1>7

\* A command other than a seek leaves the run that is playing where it is, ends
\* it or starts another.
LEMMA CommandPlays ==
  ASSUME NEW n \in Nat, NEW cd \in DriveState(n), NEW cmd, WellArgued(cmd), cd.count < n,
         Cadence(cd), cmd.name # "seek"
  PROVE  LET e == RunCommand(cd, cmd)
         IN /\ e.run \in {cd.run, cd.count + 1}
            /\ e.playing =>
                 \/ e.run = cd.count + 1
                 \/ /\ e.run = cd.run /\ cd.playing /\ e.lba = cd.lba
                    /\ e.readTimer = cd.readTimer /\ cmd.name # "init"
<1> DEFINE k == cd.count + 1
           f == Effect(cd, cmd, k)
           q == cd.pending \o Queued(cd, cmd, k)
           e == RunCommand(cd, cmd)
<1>1. EffectStep(n, cd, cmd, f)
  BY EffectFields
<1>2. e = [f EXCEPT !.busy = TRUE, !.count = @ + 1, !.pending = q]
  BY DEF RunCommand
<1>3. f \in DriveState(n) /\ f.run \in {cd.run, k}
  BY <1>1 DEF EffectStep
<1>4. f.playing => \/ cmd.name = "play" /\ f.run = k
                   \/ /\ f.run = cd.run /\ cd.playing /\ f.lba = cd.lba
                      /\ f.readTimer = cd.readTimer /\ cmd.name # "init"
  <2>1. CASE cmd.name = "play"
    <3> DEFINE l == IF cmd.track = 0 THEN cd.seekTarget ELSE TrackStartLba(cd, cmd.track)
    <3>1. f = PlayFrom(cd, l, k)
      BY <2>1 DEF Effect
    <3> HIDE DEF l, f, k
    <3>2. f.run = k
      BY <3>1 DEF PlayFrom, DriveState
    <3> QED BY <2>1, <3>2
  <2>2. CASE cmd.name \in {"read", "pause", "init"}
    <3> HIDE DEF k
    <3>1. ~ f.playing
      BY <2>2 DEF Effect, ReadFrom, Halt, DriveState
    <3> QED BY <3>1
  <2>3. CASE cmd.name \notin {"play", "read", "pause", "init", "seek"}
    <3> HIDE DEF k
    <3>1. /\ f.playing = cd.playing /\ f.run = cd.run /\ f.lba = cd.lba
          /\ f.readTimer = cd.readTimer
      BY <2>3 DEF Effect, DriveState
    <3> QED BY <2>3, <3>1
  <2> QED BY <2>1, <2>2, <2>3
<1> HIDE DEF e, f, q, k
<1>5. e.run = f.run /\ e.playing = f.playing /\ e.lba = f.lba /\ e.readTimer = f.readTimer
  BY <1>2, <1>3 DEF DriveState
<1> QED BY <1>3, <1>4, <1>5 DEF e, k

LEMMA CommandPlaysOn ==
  ASSUME StaysOnTrack, SoundInv, PlaybackInv, NEW cmd \in SoundCommands, SendCommand(cmd)
  PROVE  PlaybackInv'
<1> DEFINE e == RunCommand(cdrom, cmd)
<1>1. /\ DriveInv(MaxCommands, cdrom) /\ MaxCommands \in Nat /\ RunsInOrder(cdrom)
      /\ cdrom \in DriveState(MaxCommands) /\ Cadence(cdrom)
      /\ cdrom.run \in Nat /\ cdrom.count \in Nat /\ cdrom.run <= cdrom.count
      /\ route \in Routes /\ spu \in SpuState(Frames)
  BY SoundParts DEF DriveInv, RunsInOrder, DriveState, SoundSpu
<1>2. /\ cmd \in SoundCommand /\ WellArgued(cmd) /\ cmd.name # "seek"
      /\ (cmd.name = "setmode" => cmd.cdda)
  BY PlaybackAssumption, CommandArguments DEF StaysOnTrack
<1>3. /\ use = "cd" /\ use' = use /\ cdrom' = e /\ spu' = spu /\ cdrom.count < MaxCommands
      /\ route' = RouteAfter(cmd)
  BY DEF SendCommand
<1>4. /\ e.run \in {cdrom.run, cdrom.count + 1}
      /\ e.playing =>
           \/ e.run = cdrom.count + 1
           \/ /\ e.run = cdrom.run /\ cdrom.playing /\ e.lba = cdrom.lba
              /\ e.readTimer = cdrom.readTimer /\ cmd.name # "init"
  BY <1>1, <1>2, <1>3, CommandPlays
<1> HIDE DEF e
<1>5. /\ spu.cdQueue \in Seq(Upto(cdrom.run)) /\ spu.cdSample \in Upto(cdrom.run) \cup {Silence}
      /\ cdrom.playing => RunOn(cdrom.run, spu.cdSample, spu.cdQueue, cdrom.lba,
                                SamplesToSector, route.cdda)
  BY <1>3 DEF PlaybackInv
<1>6. /\ spu.cdQueue \in Seq(Upto(e.run)) /\ spu.cdSample \in Upto(e.run) \cup {Silence}
  <2>1. e.run \in Nat /\ cdrom.run <= e.run
    BY <1>1, <1>4
  <2>2. Upto(cdrom.run) \in SUBSET Upto(e.run) /\ Seq(Upto(cdrom.run)) \in SUBSET Seq(Upto(e.run))
    BY <1>1, <2>1, UptoGrows
  <2> QED BY <1>5, <2>2
<1>7. ASSUME cmd.name # "init", route.cdda PROVE RouteAfter(cmd).cdda
  <2>1. CASE cmd.name = "setmode"
    BY <1>1, <1>2, <2>1 DEF RouteAfter, Routes
  <2>2. CASE cmd.name # "setmode"
    BY <1>1, <1>7, <2>2 DEF RouteAfter, Routes
  <2> QED BY <2>1, <2>2
<1>8. CASE e.playing /\ e.run = cdrom.count + 1
  <2>1. \A f \in Upto(cdrom.run) \cup {Silence} : ~ OfRun(e.run, f)
    <3> SUFFICES ASSUME NEW f \in Upto(cdrom.run), OfRun(e.run, f) PROVE FALSE
      BY DEF OfRun
    <3>1. f.run <= cdrom.run /\ f.run = cdrom.count + 1
      BY <1>8 DEF OfRun, Upto
    <3> QED BY <1>1, <3>1
  <2>2. \A k \in 0..Len(spu.cdQueue) :
          Nth(spu.cdSample, spu.cdQueue, k) \in Upto(cdrom.run) \cup {Silence}
    <3>1. \A k \in 1..Len(spu.cdQueue) : spu.cdQueue[k] \in Upto(cdrom.run)
      BY <1>5, QueueDomain
    <3>2. \A k \in 0..Len(spu.cdQueue) : k = 0 \/ k \in 1..Len(spu.cdQueue)
      <4>1. Len(spu.cdQueue) \in Nat
        BY <1>5, QueueDomain
      <4> QED BY <4>1
    <3> QED BY <1>5, <3>1, <3>2 DEF Nth
  <2>3. \A l, d, c : RunOn(e.run, spu.cdSample, spu.cdQueue, l, d, c)
    BY <2>1, <2>2, Zenon DEF RunOn, Linked, Present
  <2> QED BY <1>3, <1>6, <2>3 DEF PlaybackInv
<1>9. CASE e.playing /\ e.run # cdrom.count + 1
  <2>1. /\ e.run = cdrom.run /\ cdrom.playing /\ e.lba = cdrom.lba
        /\ e.readTimer = cdrom.readTimer /\ cmd.name # "init"
    BY <1>4, <1>9
  <2>2. RunOn(e.run, spu.cdSample, spu.cdQueue, e.lba, SamplesToSector, route.cdda)
    BY <1>5, <2>1
  <2>3. RunOn(e.run, spu.cdSample, spu.cdQueue, e.lba, SamplesToSector, RouteAfter(cmd).cdda)
    BY <1>7, <2>1, <2>2 DEF RunOn
  <2>4. SamplesToSector' = SamplesToSector
    BY <1>3, <2>1 DEF SamplesToSector
  <2> QED BY <1>3, <1>6, <2>3, <2>4 DEF PlaybackInv
<1>10. CASE ~ e.playing
  BY <1>3, <1>6, <1>10 DEF PlaybackInv
<1> QED BY <1>8, <1>9, <1>10

\* Nothing else moves the head, the clock or the queue while the drive plays.
LEMMA OthersPlayOn ==
  ASSUME SoundInv, PlaybackInv, use' = use, route' = route,
         cdrom' = cdrom \/ cdrom' = [cdrom EXCEPT !.flag = NoResp],
         use = "cd" => spu' = spu
  PROVE  PlaybackInv'
<1>1. cdrom \in DriveState(MaxCommands)
  BY SoundParts
<1>2. /\ cdrom'.run = cdrom.run /\ cdrom'.lba = cdrom.lba /\ cdrom'.playing = cdrom.playing
      /\ cdrom'.readTimer = cdrom.readTimer
  BY <1>1 DEF DriveState
<1> QED BY <1>2 DEF PlaybackInv, SamplesToSector

LEMMA PlaybackStart == SoundInit => PlaybackInv
<1> SUFFICES ASSUME SoundInit PROVE PlaybackInv
  OBVIOUS
<1>1. PICK up \in Setups :
        /\ cdrom = [NewDrive EXCEPT !.disc = TRUE, !.ie = {1, 2, 4},
                                    !.seekTarget = up.seek, !.mode = up.mode]
        /\ spu = up.spu
  BY DEF SoundInit
<1>2. up.spu \in SpuState({})
  BY PlaybackAssumption DEF Setup
<1>3. spu.cdQueue \in Seq({}) /\ spu.cdSample = Silence
  BY <1>1, <1>2 DEF SpuState
<1>4. ~ cdrom.playing
  BY <1>1 DEF NewDrive
<1> QED BY <1>3, <1>4 DEF PlaybackInv

\* The step of the property.
GaplessStep ==
  \A f \in {spu.cdSample} \ {Silence, Muted} :
    spu'.produced # spu.produced /\ StillPlaying(f) => spu'.cdSample \in {Successor(f), Muted}

LEMMA PlaybackStep ==
  ASSUME StaysOnTrack, SoundInv, PlaybackInv, [SoundNext]_soundVars
  PROVE  PlaybackInv' /\ GaplessStep
<1>1. CASE Cycle
  <2>1. use # "cd" => GaplessStep
    BY DEF PlaybackInv, StillPlaying, GaplessStep
  <2> QED BY <1>1, <2>1, CyclePlaysOn DEF GaplessStep
<1>2. ASSUME NEW cmd \in SoundCommands, SendCommand(cmd) PROVE PlaybackInv' /\ GaplessStep
  <2>1. spu' = spu
    BY <1>2 DEF SendCommand
  <2> QED BY <1>2, <2>1, CommandPlaysOn DEF GaplessStep
<1>3. CASE HandleInterrupt
  <2>1. spu' = spu
    BY <1>3 DEF HandleInterrupt
  <2> QED BY <1>3, <2>1, OthersPlayOn DEF HandleInterrupt, GaplessStep
<1>4. ASSUME NEW s, SpuAccess(s) PROVE PlaybackInv' /\ GaplessStep
  <2>1. ~ cdrom.playing
    BY <1>4 DEF SpuAccess, PlaybackInv
  <2> QED BY <1>4, <2>1, OthersPlayOn DEF SpuAccess, GaplessStep, StillPlaying
<1>5. CASE Drain
  <2>1. ~ cdrom.playing
    BY <1>5 DEF Drain, PlaybackInv
  <2> QED BY <1>5, <2>1, OthersPlayOn DEF Drain, GaplessStep, StillPlaying
<1>6. CASE UNCHANGED soundVars
  <2>1. spu' = spu /\ cdrom' = cdrom /\ route' = route /\ use' = use
    BY <1>6 DEF soundVars
  <2> QED BY <2>1, OthersPlayOn DEF GaplessStep
<1> QED
  BY <1>1, <1>2, <1>3, <1>4, <1>5, <1>6 DEF SoundNext, WriteRegister, DmaWrite, DmaRead

\* CD-DA has no gap: a sample mixes the frame after the one before it, across
\* sectors, a mute and a change of mode, from whatever the queue held when the
\* drive was started (process_cdda_sector, push_cd_audio_samples, tick), when
\* the guest leaves the head and the CDDA mode alone.
THEOREM GaplessPlayback == StaysOnTrack => (SoundSpec => PlaybackIsGapless)
<1> SUFFICES ASSUME StaysOnTrack PROVE SoundSpec => PlaybackIsGapless
  OBVIOUS
<1>1. SoundInv /\ PlaybackInv /\ [SoundNext]_soundVars => PlaybackInv' /\ [GaplessStep]_soundVars
  BY PlaybackStep
<1> QED
  BY <1>1, PlaybackStart, SoundInvariant, PTL DEF SoundSpec, PlaybackIsGapless, GaplessStep
=============================================================================
