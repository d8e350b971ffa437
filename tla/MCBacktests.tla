------------------------------ MODULE MCBacktests ------------------------------
EXTENDS Backtests

(* The two profiles: the production one with its fixed take profit, and a  *)
(* research one that targets the leg and may be given another model.       *)
Base == [linked |-> FALSE, legacy |-> FALSE, matchWindow |-> 1, ratioMin |-> 1,
         ratioMax |-> 4, direct |-> TRUE, legTarget |-> FALSE, uncapped |-> FALSE]

MCStrategies ==
  [PROFILE_F |-> [funnel |-> [Base EXCEPT !.linked = TRUE],
                  model |-> "RR", research |-> FALSE, tunable |-> FALSE],
   PROFILE_2 |-> [funnel |-> [Base EXCEPT !.legacy = TRUE, !.ratioMax = 3,
                                            !.legTarget = TRUE, !.uncapped = TRUE],
                  model |-> "LEG", research |-> TRUE, tunable |-> TRUE]]

(* A fall that leads to a bearish entry at minute 22, and its mirror.      *)
Opening == <<
  Bar(82,84,82,82), Bar(82,84,82,82), Bar(82,84,82,82), Bar(82,82,82,82),
  Bar(80,84,80,82), Bar(82,82,80,82), Bar(82,84,82,82), Bar(82,84,82,84),
  Bar(84,90,84,88), Bar(88,88,84,86), Bar(86,86,82,84), Bar(84,86,82,86),
  Bar(86,86,80,80), Bar(80,80,74,74), Bar(74,74,72,72), Bar(72,74,72,72),
  Bar(72,72,70,70), Bar(70,70,68,68), Bar(68,68,68,68), Bar(68,70,68,68),
  Bar(68,68,68,68), Bar(68,68,68,68), Bar(68,74,68,70)>>

Turned(bars) ==
  [i \in DOMAIN bars |-> Bar(152 - bars[i].o, 152 - bars[i].l, 152 - bars[i].h, 152 - bars[i].c)]

Flats(n, c) == [i \in 1 .. n |-> Bar(c, c, c, c)]
Crash(c)    == Bar(c, c, c - 32, c - 30)
Spike(c)    == Bar(c, c + 24, c, c + 22)

(* The bearish trade is entered at 22 (70, stop 90), the bullish at 58     *)
(* (82, stop 62).  In TwoLosses both end at their stops, the later one     *)
(* first; in OneLoss the last candle reaches stop and target.              *)
BothWays == Opening \o Flats(13, 70) \o Turned(Opening)

TwoLosses   == BothWays \o <<Bar(82,82,82,82), Crash(82), Spike(52), Spike(74)>>
OneLoss     == Opening \o Flats(3, 70) \o <<Bar(70,94,38,60)>>

Rows(bars) == [i \in DOMAIN bars |-> [t |-> i - 1, bar |-> bars[i]]]

MCCsvs ==
  [mixed   |-> [column |-> "BTC", header |-> "FULL", rows |-> Rows(Turned(TwoLosses))],
   short   |-> [column |-> Unknown, header |-> "NONE", rows |-> Reverse(Rows(OneLoss))],
   empty   |-> [column |-> "BTC", header |-> "FULL", rows |-> <<>>],
   doubled |-> [column |-> "BTC", header |-> "FULL", rows |-> Rows(OneLoss) \o Rows(OneLoss)]]

(* One name with a symbol in it and one without. *)
MCNamed == [ETH_1M |-> "ETH", prices |-> Unknown]

CONSTANTS w1, w2, p1, p2

MCWorkers == {w1, w2}
MCPages == {p1, p2}

Symmetry == Permutations(MCWorkers) \union Permutations(MCPages)

(* One page does all there is to do.  A second one, so that one still      *)
(* shows an upload from before a restart when the other begins anew, joins *)
(* in only while both send the same content, under either name, and there  *)
(* is one run, of one kind.                                                *)
InUse(p) == page[p].id # None \/ page[p].uploading # None

Alike(x) ==
  /\ x.file \in {None, "short"}
  /\ x.request # None => x.request.model = "LEG" /\ x.request.profile = "PROFILE_2"

TwoPagesAlike ==
  (\A p \in Pages : InUse(p)) =>
    /\ \A p \in Pages : page[p].file \in {None, "short"}
    /\ \A id \in DOMAIN uploads : uploads[id].file = "short"
    /\ \A w \in Workers : Alike(task[w])
    /\ \A n \in DOMAIN runs : Alike(runs[n])
    /\ Cardinality(DOMAIN runs) + Cardinality({w \in Workers : Running(w)}) <= 1
===============================================================================
