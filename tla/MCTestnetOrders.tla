-------------------------- MODULE MCTestnetOrders --------------------------
(***************************************************************************)
(* Instances of TestnetOrders for TLC.                                     *)
(***************************************************************************)
EXTENDS TestnetOrders

CONSTANTS o1, o2

\* The second order is over the limits of the risk settings.
OnlyFirstPasses == [o \in Orders |-> o = o1]
AllPass == [o \in Orders |-> TRUE]
=============================================================================
