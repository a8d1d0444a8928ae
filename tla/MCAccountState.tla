--------------------------- MODULE MCAccountState ---------------------------
(***************************************************************************)
(* Two consumers and the worker on one account at each of the exchanges.   *)
(***************************************************************************)
EXTENDS AccountState, TLC

Muted == {[internal |-> FALSE, position_drift |-> TRUE]}

\* Figures that add up, and figures only Binance, which sends no total, can mean.
MCFigures == {<<0, 1, 1>>, <<1, 1, 0>>}

MCQuantities == {-1, 0, 2}

Symmetry == Permutations(Streams)
=============================================================================
