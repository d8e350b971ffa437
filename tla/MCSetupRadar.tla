---------------------------- MODULE MCSetupRadar ----------------------------
(* Instances of SetupRadar for TLC: two swings confirmed one minute apart. *)
EXTENDS SetupRadar, TLC

CONSTANTS s1, s2

MCSwings == {s1, s2}
MCBornAt == (s1 :> 0) @@ (s2 :> 1)
OneBornAt == (s1 :> 0)
=============================================================================
