----------------------------- MODULE MCAutoRun -----------------------------
(***************************************************************************)
(* Instances of AutoRun for TLC.                                           *)
(***************************************************************************)
EXTENDS AutoRun, TLC

CONSTANTS l1, l2, g1    \* symbols

MCTickers == (Losers :> <<l1, l2>>) @@ (Gainers :> <<g1>>)
MCCap     == (Losers :> 1) @@ (Gainers :> 1)
MCGap     == {3}
MCTargets == {{Losers}, {Losers, Gainers}}
MCManual  == {Gainers}
MCNoManual == {}
=============================================================================
