---------------------------- MODULE MCRateLimit ----------------------------
(***************************************************************************)
(* Instances of RateLimit: the account rule (one order per interval) and a *)
(* rule shared by all accounts with a larger limit and a longer window.    *)
(***************************************************************************)
EXTENDS RateLimit

MCLimit == <<1, 2>>
MCInterval == <<2, 3>>
=============================================================================
