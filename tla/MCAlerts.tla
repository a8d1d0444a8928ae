------------------------------ MODULE MCAlerts ------------------------------
(* Instances of Alerts for TLC. *)
EXTENDS Alerts

\* The API process and the monitor share nothing but the channels: a behaviour
\* is about one of them.
Setting(calls, enabled, valid, monitor) ==
    [calls |-> calls, enabled |-> enabled, valid |-> valid, monitor |-> monitor]

OrderCalls ==
    {<<"order_failure", "FAILED", "risk_rejected">>,
     <<"rate_limit", "binance", "account", "order">>}
StopCall == {<<"emergency_stop", "global">>}
DriftCalls ==
    {<<"reconciliation_drift", "DRIFT_DETECTED", "CRITICAL">>,
     <<"reconciliation_drift", "MATCHED", "INFO">>}

MCConfigs ==
    {Setting(OrderCalls, <<"telegram">>, TRUE, FALSE),
     Setting(StopCall, <<"telegram", "email">>, TRUE, FALSE),
     Setting(DriftCalls, <<>>, TRUE, FALSE),
     Setting({}, <<"telegram", "email">>, TRUE, TRUE),
     Setting({}, <<"telegram">>, FALSE, TRUE)}
=============================================================================
