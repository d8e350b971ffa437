----------------------------- MODULE MCLiveMarket -----------------------------
(* A market in miniature: swings of 4 minutes, retrace gaps of 3, internal *)
(* gaps and the retrace window of 2, deadlines counted in units of 3 as    *)
(* the program counts them in units of 8 where a profile has 5, 4 or 2;    *)
(* prices in even numbers.                                                 *)
EXTENDS LiveMarket

Strategy == [linked |-> FALSE, legacy |-> FALSE, matchWindow |-> 1, ratioMin |-> 1,
             ratioMax |-> 4, direct |-> TRUE, legTarget |-> FALSE, uncapped |-> FALSE]

STRICT    == [Strategy EXCEPT !.linked = TRUE, !.direct = FALSE, !.ratioMax = 3]
PROFILE_F == [Strategy EXCEPT !.linked = TRUE]
PROFILE_2 == [Strategy EXCEPT !.legacy = TRUE, !.ratioMax = 3, !.legTarget = TRUE,
                              !.uncapped = TRUE]

AllProfiles == {STRICT, PROFILE_F, PROFILE_2}

(* The bullish market is the bearish one upside down. *)
Mirror(bar) == Bar(200 - bar.o, 200 - bar.l, 200 - bar.h, 200 - bar.c)

Record(bars) == [t \in 0 .. Len(bars) - 1 |-> bars[t + 1]]

Flat(c)    == Bar(c, c, c, c)
Tap(c)     == Bar(c, c + 6, c, c + 2)
Through(c) == Bar(c, c + 6, c, c + 6)
Sink(c)    == Bar(c, c, c - 4, c - 2)
Crash(c)   == Bar(c, c, c - 32, c - 30)
Spike(c)   == Bar(c, c + 24, c, c + 22)

Calm == [i \in 1 .. 12 |-> Flat(82)]

(* A swing high at minutes 20..23, its expansion, the main gap behind it,   *)
(* and the first candles of a retrace gap.                                 *)
Falling == Record(Calm \o <<
  Bar(82,84,82,82), Bar(82,84,82,82), Bar(82,84,82,82), Bar(82,82,82,82),
  Bar(80,84,80,82), Bar(82,82,80,82), Bar(82,84,82,82), Bar(82,84,82,84),
  Bar(84,90,84,88), Bar(88,88,84,86), Bar(86,86,82,84), Bar(84,86,82,86),
  Bar(86,86,80,80), Bar(80,80,74,74), Bar(74,74,72,72), Bar(72,74,72,72),
  Bar(72,72,70,70), Bar(70,70,68,68), Bar(68,68,68,68), Bar(68,70,68,68),
  Bar(68,68,68,68), Bar(68,68,68,68)>>)

(* The same, but the price rebounds before a main gap is there. *)
NoMainGap ==
  [t \in DOMAIN Falling |-> IF t < 29 THEN Falling[t]
                            ELSE IF t = 29 THEN Bar(68, 84, 68, 84) ELSE Flat(84)]

(* The same, but the price rebounds before a retrace gap is there. *)
NoRetraceGapYet ==
  [t \in DOMAIN Falling |-> IF t < 30 THEN Falling[t]
                            ELSE IF t = 30 THEN Bar(68, 74, 68, 72) ELSE Flat(72)]

(* A swing high at minutes 16..19, its expansion, a main and a retrace gap *)
(* with no internal gap inside the leg; the only one, at minute 2, is the  *)
(* older market's and about to leave the buffer.                           *)
NoInternalGap == Record(<<
  Flat(78),         Flat(78),         Bar(78,82,78,82), Flat(82),
  Flat(82),         Flat(82),         Flat(82),         Flat(82),
  Flat(82),         Flat(82),         Flat(82),         Flat(82),
  Bar(82,86,82,84), Bar(84,86,84,84), Bar(84,86,82,84), Bar(84,86,84,86),
  Bar(86,90,86,88), Bar(88,88,80,82), Bar(82,84,80,82), Bar(82,84,82,82),
  Bar(82,82,74,78), Bar(78,80,76,78), Bar(78,82,76,80), Bar(80,80,76,76),
  Bar(76,78,74,76), Bar(76,78,74,76), Bar(76,76,72,74), Bar(74,74,72,74),
  Bar(74,74,72,72)>> \o [i \in 1 .. 11 |-> Flat(72)])

Upside(record) == [t \in DOMAIN record |-> Mirror(record[t])]

Market ==
  {Falling, Upside(Falling), NoMainGap, Upside(NoRetraceGapYet), NoInternalGap}

FallingMoves(n, c) ==
  CASE n = 34 /\ c = 68            -> {Flat(c), Tap(c)}
    [] n = 35 /\ c = 84            -> {Flat(c), Crash(c)}
    [] n = 36 /\ c \in {68, 70}     -> {Flat(c), Through(c)}
    [] n = 38 /\ c \in {70, 74, 76} -> {Flat(c), Crash(c), Spike(c)}
    [] n = 39 /\ c < 60            -> {Sink(c)}
    [] OTHER                       -> {Flat(c)}

MirroredMoves(n, c) ==
  IF c < 100 THEN FallingMoves(n, c)
  ELSE {Mirror(bar) : bar \in FallingMoves(n, 200 - c)}
=============================================================================
