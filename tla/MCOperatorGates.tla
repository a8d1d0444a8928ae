-------------------------- MODULE MCOperatorGates --------------------------
(***************************************************************************)
(* Instances of OperatorGates: a behaviour is about the TESTNET window, or *)
(* about the phase 4 records of a REAL account that has passed a read-only *)
(* check, or about the requests that ask the exchange.                     *)
(***************************************************************************)
EXTENDS OperatorGates, TLC

Acc(mode, active, trading) ==
    [mode |-> mode, active |-> active, trading |-> trading]

CheckRow ==
    [action |-> "real_check", good |-> TRUE, at |-> 0, cap |-> 0,
     what |-> AnyInstrument, ev |-> <<>>, boot |-> 0]

\* Approvals, the three switches an operator needs, a restart, submissions.
WindowCampaign ==
    [kinds |-> {"approval", "submit"}, account |-> Acc("TESTNET", TRUE, FALSE),
     risk |-> "off", key |-> "plain", log |-> <<>>,
     patches |-> {Acc("SIMULATION", TRUE, FALSE), Acc("TESTNET", TRUE, TRUE)},
     time |-> 2, rows |-> 2, changes |-> 3, boots |-> 1]

Phase4Campaign ==
    [kinds |-> {"review", "real_window", "final_check"},
     account |-> Acc("REAL", TRUE, FALSE), risk |-> "off", key |-> "phrase",
     log |-> <<CheckRow>>, patches |-> {Acc("REAL", TRUE, TRUE)},
     time |-> 0, rows |-> 5, changes |-> 0, boots |-> 0]

\* Reviews that overlap and are committed late, and order windows that cite them.
LateCampaign ==
    [Phase4Campaign EXCEPT !.kinds = {"review", "real_window"},
                           !.time = 1, !.rows = 3]

ProbeCampaign ==
    [kinds |-> {"testnet_check", "real_check", "balances", "open_orders"},
     account |-> Acc("REAL", TRUE, FALSE), risk |-> "absent", key |-> "none",
     log |-> <<>>, patches |-> {Acc("TESTNET", TRUE, FALSE)},
     time |-> 0, rows |-> 1, changes |-> 3, boots |-> 1]

MCCampaigns == {WindowCampaign, Phase4Campaign, LateCampaign, ProbeCampaign}

Symmetry == Permutations(Sessions)
=============================================================================
