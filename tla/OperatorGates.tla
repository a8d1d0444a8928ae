--------------------------- MODULE OperatorGates ---------------------------
(***************************************************************************)
(* The gates an operator passes before an order may leave: the TESTNET     *)
(* order window (approval, authorization at submission) and the phase 4    *)
(* records for a REAL account (read-only check, review, order window,      *)
(* final release check).  A gate is a request that SELECTs the account,    *)
(* the risk settings, the API key and the audit rows it relies on, one     *)
(* statement after another at READ COMMITTED, then decides and commits one *)
(* row of the append-only audit log.  Other requests come in between.      *)
(*                                                                         *)
(* created_at is PostgreSQL's now(), the time the transaction began: a row *)
(* that is committed late carries an early time, and the gates look for    *)
(* the latest row by created_at.                                           *)
(*                                                                         *)
(* Abstracted: one OKX account and its owner; what a gate checks of the    *)
(* request alone (role, acknowledgement, confirmations, duration, a price, *)
(* quantity times price) may refuse it at any time (Die); a cap stands for *)
(* quantity and notional, an instrument for symbol and side.               *)
(***************************************************************************)
EXTENDS Integers, Sequences

CONSTANTS
    Sessions,      \* request threads
    Instruments,   \* <<symbol, side>>
    Caps,          \* max_notional values and order sizes
    PHASE4_SMALL_FUND_MAX_NOTIONAL_CAP,
    Duration,      \* duration_minutes, in ticks
    Campaigns      \* what a behaviour is about: see Campaign

AccountMode == {"SIMULATION", "TESTNET", "REAL"}
Account == [mode : AccountMode, active : BOOLEAN, trading : BOOLEAN]
Risk == {"absent", "off", "on"}       \* risk_settings.trading_enabled
Key  == {"none", "plain", "phrase"}   \* api_key_secrets, with a passphrase?

Kinds == {"testnet_check", "approval", "submit", "real_check", "balances",
          "open_orders", "review", "real_window", "final_check"}

Row ==
    [action : Kinds, good : BOOLEAN,   \* severity INFO or CRITICAL
     at : Nat, cap : Nat, what : Instruments,
     ev : Seq(Nat \ {0}),              \* ids of the rows it cites
     boot : Nat]                       \* the process that wrote it (history)

\* The requests a behaviour is made of, the rows it starts from, the account
\* states operators switch to, and bounds on time, audit rows, operator
\* requests and restarts.
Campaign ==
    [kinds : SUBSET Kinds, account : Account, risk : Risk, key : Key,
     log : Seq(Row), patches : SUBSET Account,
     time : Nat, rows : Nat, changes : Nat, boots : Nat]

ASSUME GatesAssumption ==
    /\ Caps \subseteq Nat
    /\ PHASE4_SMALL_FUND_MAX_NOTIONAL_CAP \in Nat
    /\ Duration \in Nat \ {0}
    /\ Instruments # {}
    /\ Campaigns \subseteq Campaign

VARIABLES
    account, risk, key,   \* the rows of the account
    adapters,             \* settings.testnet_adapters_enabled of the process
    log,                  \* audit_logs, in commit order
    clock, boot, changes, \* time, process starts and operator requests so far
    campaign,             \* what this behaviour is about
    pc, req               \* control point and local values of each session

rowvars == <<account, risk, key>>
envvars == <<adapters, clock, boot, changes, campaign>>
vars == <<rowvars, envvars, log, pc, req>>

\* What a request keeps: its parameters, whether every value it has read so far
\* lets it pass, and the audit rows it has found.
Request ==
    [kind : Kinds, cap : Nat, what : Instruments, ok : BOOLEAN,
     ev : Seq(Nat \ {0}),
     began : Nat,           \* start of its transaction
     seen : Nat]            \* audit rows then committed (history)

PCs == {"idle", "account", "risk", "key", "evidence", "exchange", "record",
        "authorize", "credentials", "send"}

TypeOK ==
    /\ account \in Account /\ risk \in Risk /\ key \in Key
    /\ adapters \in BOOLEAN
    /\ log \in Seq(Row)
    /\ clock \in Nat /\ boot \in Nat /\ changes \in Nat
    /\ campaign \in Campaigns
    /\ pc \in [Sessions -> PCs]
    /\ req \in [Sessions -> Request]

AnyInstrument == CHOOSE i \in Instruments : TRUE

NoRequest ==
    [kind |-> "submit", cap |-> 0, what |-> AnyInstrument, ok |-> FALSE,
     ev |-> <<>>, began |-> 0, seen |-> 0]

Init ==
    /\ campaign \in Campaigns
    /\ account = campaign.account
    /\ risk = campaign.risk
    /\ key = campaign.key
    /\ log = campaign.log
    /\ adapters = FALSE
    /\ clock = 0 /\ boot = 0 /\ changes = 0
    /\ pc = [s \in Sessions |-> "idle"]
    /\ req = [s \in Sessions |-> NoRequest]
-----------------------------------------------------------------------------
(***************************************************************************)
(* Requests that change the rows, one commit each.                         *)
(***************************************************************************)
Change ==
    /\ changes < campaign.changes
    /\ changes' = changes + 1
    /\ UNCHANGED <<adapters, clock, boot, campaign, log, pc, req>>

\* PATCH /exchange-accounts/{id}: any of the three, on a removed account too.
patch_account(a) == Change /\ account' = a /\ UNCHANGED <<risk, key>>

remove_account ==
    /\ Change
    /\ account' = [account EXCEPT !.active = FALSE, !.trading = FALSE]
    /\ UNCHANGED <<risk, key>>

set_api_key(k) == Change /\ key' = k /\ UNCHANGED <<account, risk>>

remove_api_key ==
    /\ key # "none"
    /\ Change /\ key' = "none" /\ UNCHANGED <<account, risk>>

read_risk_settings ==
    /\ risk = "absent"
    /\ Change /\ risk' = "off" /\ UNCHANGED <<account, key>>

patch_risk_settings(r) ==
    /\ account.mode = "SIMULATION"
    /\ Change /\ risk' = r /\ UNCHANGED <<account, key>>

\* TESTNET_ADAPTERS_ENABLED is read at start-up: switching it means a restart,
\* which ends every request.
Restart(flag) ==
    /\ boot < campaign.boots
    /\ boot' = boot + 1
    /\ adapters' = flag
    /\ pc' = [s \in Sessions |-> "idle"]
    /\ req' = [s \in Sessions |-> NoRequest]
    /\ UNCHANGED <<rowvars, log, clock, changes, campaign>>

Tick ==
    /\ clock < campaign.time
    /\ clock' = clock + 1
    /\ UNCHANGED <<rowvars, adapters, boot, changes, campaign, log, pc, req>>
-----------------------------------------------------------------------------
(***************************************************************************)
(* What each request asks of the account, the risk settings and the key.   *)
(* The code collects reasons and decides at the end; the outcome is the    *)
(* conjunction.                                                            *)
(***************************************************************************)
\* The requests that ask the exchange.
Checks == {"testnet_check", "real_check"}
Probes == Checks \cup {"balances", "open_orders"}

\* Mutant: the flag of the adapters does not matter to a submission.
AccountPassesAnyTime(kind, a) ==
    CASE kind = "submit" -> a.mode = "TESTNET" /\ a.trading
      [] kind = "approval" ->
            ~adapters /\ a.active /\ ~a.trading /\ a.mode = "TESTNET"
      [] kind = "testnet_check" ->
            adapters /\ a.active /\ ~a.trading /\ a.mode = "TESTNET"
      [] OTHER -> a.active /\ ~a.trading /\ a.mode = "REAL"

\* The account and the flag of the adapters.
AccountPasses(kind, a) ==
    CASE kind = "submit" -> adapters /\ a.mode = "TESTNET" /\ a.trading
      [] kind = "approval" ->
            ~adapters /\ a.active /\ ~a.trading /\ a.mode = "TESTNET"
      [] kind = "testnet_check" ->
            adapters /\ a.active /\ ~a.trading /\ a.mode = "TESTNET"
      [] OTHER -> a.active /\ ~a.trading /\ a.mode = "REAL"

RiskPasses(kind, r) == r = (IF kind = "submit" THEN "on" ELSE "off")

KeyPasses(kind, k) ==
    IF kind \in {"review", "real_window"} THEN k = "phrase" ELSE k # "none"
-----------------------------------------------------------------------------
(***************************************************************************)
(* A request.  Begin is the first statement of its transaction.            *)
(***************************************************************************)
Goto(s, label) == pc' = [pc EXCEPT ![s] = label]

Return(s) == Goto(s, "idle") /\ req' = [req EXCEPT ![s] = NoRequest]

Begin(s, kind) ==
    /\ pc[s] = "idle"
    /\ kind \in campaign.kinds
    /\ Goto(s, "account")
    /\ req' = [req EXCEPT ![s] =
                  [NoRequest EXCEPT !.kind = kind, !.ok = TRUE,
                                    !.began = clock, !.seen = Len(log)]]
    /\ UNCHANGED <<rowvars, envvars, log>>

check_testnet_read_only_credentials(s) == Begin(s, "testnet_check")
check_real_read_only_credentials(s) == Begin(s, "real_check")
read_real_balances(s) == Begin(s, "balances")
read_real_open_orders(s) == Begin(s, "open_orders")
approve_testnet_order_window(s) == Begin(s, "approval")
submit_testnet_order(s) == Begin(s, "submit")
record_small_fund_review(s) == Begin(s, "review")
record_small_fund_order_window_approval(s) == Begin(s, "real_window")
record_final_release_check(s) == Begin(s, "final_check")

\* The request goes on at label if all it has read lets it.  A gate that is
\* blocked raises in the end and stores nothing, so the model drops it here; a
\* submission goes on to the end of its gate, a check to its WARNING row.
GoOn(s, ok, label) ==
    LET kind == req[s].kind
        dropped == \/ ~ok /\ kind \notin {"submit"} \cup Probes
                   \/ ~ok /\ pc[s] = "key" /\ kind \notin Checks
    IN \/ dropped /\ Return(s)
       \/ ~dropped /\ req' = [req EXCEPT ![s].ok = ok] /\ Goto(s, label)

\* get_owned_account
ReadAccount(s) ==
    /\ pc[s] = "account"
    /\ GoOn(s, AccountPasses(req[s].kind, account),
               IF req[s].kind \in Probes THEN "key" ELSE "risk")
    /\ UNCHANGED <<rowvars, envvars, log>>

\* submit creates a missing row (get_or_create_risk_settings).
ReadRisk(s) ==
    /\ pc[s] = "risk"
    /\ risk' = IF risk = "absent" /\ req[s].kind = "submit" THEN "off" ELSE risk
    /\ GoOn(s, req[s].ok /\ RiskPasses(req[s].kind, risk'),
               IF req[s].kind = "final_check" THEN "evidence" ELSE "key")
    /\ UNCHANGED <<account, key, envvars, log>>

\* get_api_key_secret_metadata or get_exchange_credentials
ReadKey(s) ==
    /\ pc[s] = "key"
    /\ LET kind == req[s].kind
           ok == req[s].ok /\ KeyPasses(kind, key)
       IN GoOn(s, ok, CASE kind = "submit" -> "authorize"
                        [] kind = "approval" -> "record"
                        [] kind \in Probes -> IF ok THEN "exchange" ELSE "record"
                        [] OTHER -> "evidence")
    /\ UNCHANGED <<rowvars, envvars, log>>

\* adapter.get_balances(), get_open_orders(): it answers, or fails.
AskExchange(s) ==
    /\ pc[s] = "exchange"
    /\ \E answered \in BOOLEAN : req' = [req EXCEPT ![s].ok = answered]
    /\ Goto(s, "record")
    /\ UNCHANGED <<rowvars, envvars, log>>

\* ORDER BY created_at DESC: one of the latest good rows of an action, 0 for
\* None.  The mutants take the first one that was committed, or the last one.
EarliestGood(action) ==
    LET found == {i \in DOMAIN log : log[i].action = action /\ log[i].good}
    IN IF found = {} THEN {0}
       ELSE {i \in found : \A j \in found : i <= j}

LastCommittedGood(action) ==
    LET found == {i \in DOMAIN log : log[i].action = action /\ log[i].good}
    IN IF found = {} THEN {0}
       ELSE {i \in found : \A j \in found : j <= i}

LatestGood(action) ==
    LET found == {i \in DOMAIN log : log[i].action = action /\ log[i].good}
    IN IF found = {} THEN {0}
       ELSE {i \in found : \A j \in found : log[j].at <= log[i].at}

\* The audit rows each gate looks up, in this order.
Evidence(kind) ==
    CASE kind = "review"      -> <<"real_check">>
      [] kind = "real_window" -> <<"real_check", "review">>
      [] kind = "final_check" -> <<"review", "real_window">>
      [] OTHER                -> <<>>

\* Row n of an audit log cites earlier good rows of the gates before its own,
\* and stays within their amounts.
RowChained(rows, n) ==
    LET row == rows[n]
        cited == Evidence(row.action)
        within(r) == row.cap <= r.cap
    IN /\ Len(row.ev) = Len(cited)
       /\ \A i \in DOMAIN cited :
             row.ev[i] \in 1..(n - 1) /\ rows[row.ev[i]].action = cited[i]
                                     /\ rows[row.ev[i]].good
       /\ row.action = "real_window" => within(rows[row.ev[2]])
       /\ row.action = "final_check" =>
             LET window == rows[row.ev[2]]
             IN within(rows[row.ev[1]]) /\ within(window)
                   /\ within(rows[window.ev[2]])

Chained(rows) == \A n \in DOMAIN rows : RowChained(rows, n)

\* The rows a behaviour starts from were written by these gates, which store
\* an approval only when they grant it, in processes that are gone.
ASSUME EarlierRowsAssumption ==
    \A c \in Campaigns :
        /\ Chained(c.log)
        /\ \A i \in DOMAIN c.log :
              c.log[i].boot = 0 /\ (c.log[i].action = "approval" => c.log[i].good)

\* Mutant: a missing row is not noticed.
ReadEvidenceUnchecked(s) ==
    /\ pc[s] = "evidence"
    /\ LET wanted == Evidence(req[s].kind)
           n == Len(req[s].ev) + 1
       IN \E i \in LatestGood(wanted[n]) :
             /\ req' = [req EXCEPT ![s].ev = Append(@, i)]
             /\ Goto(s, IF n < Len(wanted) THEN "evidence" ELSE "record")
    /\ UNCHANGED <<rowvars, envvars, log>>

ReadEvidence(s) ==
    /\ pc[s] = "evidence"
    /\ LET wanted == Evidence(req[s].kind)
           n == Len(req[s].ev) + 1
       IN \E i \in LatestGood(wanted[n]) :
             \/ i = 0 /\ Return(s)
             \/ /\ i # 0
                /\ req' = [req EXCEPT ![s].ev = Append(@, i)]
                /\ Goto(s, IF n < Len(wanted) THEN "evidence" ELSE "record")
    /\ UNCHANGED <<rowvars, envvars, log>>

\* The caps a phase 4 record may not exceed.
CapPasses(cap) == cap > 0 /\ cap <= PHASE4_SMALL_FUND_MAX_NOTIONAL_CAP
RealWindowCap(cap, ev) == CapPasses(cap) /\ cap <= log[ev[2]].cap

\* Mutant: the cap of the order window is not looked at.
FinalCheckCapReviewOnly(cap, ev) == CapPasses(cap) /\ cap <= log[ev[1]].cap

FinalCheckCap(cap, ev) ==
    CapPasses(cap) /\ cap <= log[ev[1]].cap /\ cap <= log[ev[2]].cap

\* db.add(AuditLog(...)) and db.commit(); created_at is the transaction's start.
Record(s, kind, cap, what) ==
    /\ pc[s] = "record" /\ req[s].kind = kind
    /\ Len(log) < campaign.rows
    /\ log' = Append(log, [action |-> kind, good |-> req[s].ok,
                           at |-> req[s].began, cap |-> cap, what |-> what,
                           ev |-> req[s].ev, boot |-> boot])
    /\ Return(s)
    /\ UNCHANGED <<rowvars, envvars>>

\* The parameters of the request are chosen where they are first looked at; one
\* whose cap is refused ends as a request that dies.
record_testnet_order_window_approval(s, cap, what) ==
    Record(s, "approval", cap, what)

record_phase4_small_fund_review(s, cap) ==
    CapPasses(cap) /\ Record(s, "review", cap, AnyInstrument)

record_phase4_small_fund_order_window_approval(s, cap) ==
    /\ Record(s, "real_window", cap, AnyInstrument)
    /\ RealWindowCap(cap, req[s].ev)

record_phase4_final_release_check(s, cap) ==
    /\ Record(s, "final_check", cap, AnyInstrument)
    /\ FinalCheckCap(cap, req[s].ev)

\* The checks and loads write a row whatever the exchange answered.
run_testnet_read_only_check(s) == Record(s, "testnet_check", 0, AnyInstrument)
run_real_read_only_check(s) == Record(s, "real_check", 0, AnyInstrument)
AuditRealBalances(s) == Record(s, "balances", 0, AnyInstrument)
AuditRealOpenOrders(s) == Record(s, "open_orders", 0, AnyInstrument)

\* require_valid_testnet_order_window_authorization
Authorize(s, cap, what) ==
    /\ pc[s] = "authorize"
    /\ \E i \in LatestGood("approval") :
          LET allowed == /\ i # 0
                         /\ log[i].what = what
                         /\ cap <= log[i].cap
                         /\ clock <= log[i].at + Duration
          IN \/ ~allowed /\ Return(s)
             \/ /\ allowed
                /\ req' = [req EXCEPT ![s].ev = <<i>>, ![s].cap = cap,
                                      ![s].what = what]
                /\ Goto(s, "credentials")
    /\ UNCHANGED <<rowvars, envvars, log>>

\* get_exchange_credentials: the key as it is now.
ReadCredentials(s) ==
    /\ pc[s] = "credentials"
    /\ \/ key = "none" /\ Return(s)
       \/ key # "none" /\ Goto(s, "send") /\ UNCHANGED req
    /\ UNCHANGED <<rowvars, envvars, log>>

\* The execution is stored and the order sent (TestnetOrders has the steps).
Send(s) ==
    /\ pc[s] = "send"
    /\ Return(s)
    /\ UNCHANGED <<rowvars, envvars, log>>

\* A request dies anywhere; its transaction is rolled back.
Die(s) ==
    /\ pc[s] # "idle"
    /\ Return(s)
    /\ UNCHANGED <<rowvars, envvars, log>>
-----------------------------------------------------------------------------
OperatorStep ==
    \/ \E a \in campaign.patches : patch_account(a)
    \/ remove_account
    \/ \E k \in Key \ {"none"} : set_api_key(k)
    \/ remove_api_key
    \/ read_risk_settings
    \/ \E r \in {"off", "on"} : patch_risk_settings(r)
    \/ \E flag \in BOOLEAN : Restart(flag)

NewRequest(s) ==
    \/ check_testnet_read_only_credentials(s)
    \/ check_real_read_only_credentials(s)
    \/ read_real_balances(s)
    \/ read_real_open_orders(s)
    \/ approve_testnet_order_window(s)
    \/ submit_testnet_order(s)
    \/ record_small_fund_review(s)
    \/ record_small_fund_order_window_approval(s)
    \/ record_final_release_check(s)

RequestStep(s) ==
    \/ ReadAccount(s) \/ ReadRisk(s) \/ ReadKey(s) \/ AskExchange(s)
    \/ ReadEvidence(s)
    \/ \E cap \in Caps, what \in Instruments :
          \/ record_testnet_order_window_approval(s, cap, what)
          \/ Authorize(s, cap, what)
    \/ \E cap \in Caps :
          \/ record_phase4_small_fund_review(s, cap)
          \/ record_phase4_small_fund_order_window_approval(s, cap)
          \/ record_phase4_final_release_check(s, cap)
    \/ run_testnet_read_only_check(s) \/ run_real_read_only_check(s)
    \/ AuditRealBalances(s) \/ AuditRealOpenOrders(s)
    \/ ReadCredentials(s) \/ Send(s)
    \/ Die(s)

Next ==
    \/ OperatorStep
    \/ Tick
    \/ \E s \in Sessions : NewRequest(s) \/ RequestStep(s)

Spec == Init /\ [][Next]_vars
-----------------------------------------------------------------------------
(***************************************************************************)
(* Properties.                                                             *)
(***************************************************************************)
\* Among the first n rows is a good one of the same action that is newer than
\* row i.
Superseded(i, n) ==
    \E j \in 1..n : /\ log[j].action = log[i].action /\ log[j].good
                    /\ log[j].at > log[i].at

\* An order that is about to leave has an approval of its instrument and size
\* that had not expired when its request began, and no approval committed
\* before that moment is newer: a narrower window replaces a wider one for
\* every later request, however approvals and submissions overlap.
WindowCoversOrder ==
    \A s \in Sessions :
        pc[s] \in {"credentials", "send"} =>
            LET r == req[s]
                a == log[r.ev[1]]
            IN /\ a.action = "approval" /\ a.what = r.what /\ r.cap <= a.cap
               /\ r.began <= a.at + Duration
               /\ ~Superseded(r.ev[1], r.seen)

\* An order never leaves the process that recorded its approval: between the
\* two lies a restart that switched the adapters on.
ApprovedBeforeRestart ==
    \A s \in Sessions :
        pc[s] \in {"credentials", "send"} => log[req[s].ev[1]].boot < boot

\* Each phase 4 record cites rows that were committed before it, of the gates
\* before its own, and the amount never grows along the citations: a final
\* check is within the review behind its order window as well, even if newer
\* reviews were recorded in between.
EvidenceChain == Chained(log)

\* A phase 4 gate decides on current evidence: of the rows it cites, none was
\* superseded by a newer one that had been committed when its request began,
\* although requests take long and commit their rows in another order than that
\* of their created_at.
EvidenceIsCurrent ==
    \A s \in Sessions :
        pc[s] \in {"evidence", "record"} =>
            \A i \in DOMAIN req[s].ev : ~Superseded(req[s].ev[i], req[s].seen)
=============================================================================
