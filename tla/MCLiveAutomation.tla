-------------------------- MODULE MCLiveAutomation --------------------------
(* Instances of LiveAutomation for TLC. *)
EXTENDS LiveAutomation, TLC

CONSTANTS poll, api, s1, s2, s3

OneThread  == {poll}
TwoThreads == {poll, api}
TwoSetups  == {s1, s2}
TwoPairs   == (s1 :> "BTCUSDT") @@ (s2 :> "ETHUSDT")
OnePair    == (s1 :> "BTCUSDT") @@ (s2 :> "BTCUSDT")
ThreeSetups == {s1, s2, s3}
ThreePairs == (s1 :> "BTCUSDT") @@ (s2 :> "BTCUSDT") @@ (s3 :> "ETHUSDT")
OneSetup   == {s1}
OnePairOnly == (s1 :> "BTCUSDT")
=============================================================================
