------------------------- MODULE MCSignalExecution -------------------------
(***************************************************************************)
(* Instances of SignalExecution for TLC.  Two threads, one account with    *)
(* one symbol, and two signals of its owner: one for a fixed quantity, one *)
(* for a target position.                                                  *)
(***************************************************************************)
EXTENDS SignalExecution

CONSTANTS u1, s1, btc

MCOwner == [s \in Signals |-> u1]
MCAccountOwner == [a \in Accounts |-> u1]

Buy(q)    == [symbol |-> btc, side |-> 1, price |-> 0, quantity |-> q,
              target |-> NoTarget]
Target(q) == [symbol |-> btc, side |-> 1, price |-> 2, quantity |-> 0,
              target |-> q]

MCSignalSpec == [s \in Signals |-> IF s = s1 THEN Buy(1) ELSE Target(2)]
MCBuys == [s \in Signals |-> IF s = s1 THEN Buy(1) ELSE Buy(2)]

DistinctIds == [k \in Signals \X Accounts |-> k]

Enabled == [trading_enabled |-> TRUE, blocked_symbols |-> {},
            min_order_quantity |-> 0, max_order_quantity |-> 0,
            max_single_order_notional |-> 0]
\* Lets the order for one through and stops the one for two (at price 2).
Limited == [Enabled EXCEPT !.max_single_order_notional = 3]

JustEnabled == {Enabled}
JustLimited == {Limited}

\* With no request in flight a position is the sum of all FILLED executions
\* of its account and symbol: what apply_fill is for.
PositionMatchesFills ==
    (\A w \in Workers : pc[w] = "idle") =>
        \A a \in Accounts, y \in Symbols :
            positions[<<a, y>>] # NoRow =>
                positions[<<a, y>>] = SumFunctionOnSet(order, Filled(a, y))
=============================================================================
