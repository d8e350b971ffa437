------------------------ MODULE MCMonitoringSession ------------------------
(* Instances of MonitoringSession for TLC. *)
EXTENDS MonitoringSession, TLC

CONSTANTS btc, eth

TwoPairs == {btc, eth}
=============================================================================
