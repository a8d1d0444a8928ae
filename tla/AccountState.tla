---------------------------- MODULE AccountState ----------------------------
(***************************************************************************)
(* What the database holds of a TESTNET account's balances and positions,  *)
(* and who looks at it: stream consumers write the absolute values of the  *)
(* events they receive, one transaction per event; the reconciliation      *)
(* worker takes three snapshots one after another, compares them and       *)
(* records; the user reads notifications and sets preferences.             *)
(*                                                                         *)
(* Abstracted: one account and its owner, in one-way mode, so that a       *)
(* position event carries the net quantity (a snapshot of the exchange may *)
(* list it as two entries); the wire formats of the three exchanges are    *)
(* reduced to the numbers they carry and whether the sync accepts them; a  *)
(* notification is one of a number of rows, unread until it is marked.     *)
(* Outside src/: the exchange, and the caller of the worker, which commits.*)
(***************************************************************************)
EXTENDS PositionReconciliation, Sequences

CONSTANTS
    Streams,       \* threads that consume the account's user stream
    Exchanges,     \* the exchanges the account may be at
    Quantities,    \* position sizes at the exchange and targets
    Figures,       \* <<available, locked, total>> of balance events
    None,          \* no row, no value
    MaxEvents,     \* bound: events the exchange sends
    PreferenceChoices,   \* what a user may ask for
    MaxDrifts      \* bound: runs of the worker that record drift

Preferences == [internal : BOOLEAN, position_drift : BOOLEAN]
DefaultPreferences == [internal |-> TRUE, position_drift |-> TRUE]

ASSUME AccountStateAssumption ==
    /\ Exchanges \subseteq {"BINANCE", "BYBIT", "OKX"}
    /\ Quantities \subseteq Int /\ Figures \subseteq Nat \X Nat \X Nat
    /\ None \notin Int /\ PreferenceChoices \subseteq Preferences
    /\ {MaxEvents, MaxDrifts} \subseteq Nat

VARIABLES
    exchange,            \* exchange_name of the account
    open,                \* the account is active and in TESTNET mode
    venue,               \* positions at the exchange
    sent,                \* events sent so far
    link, wire,          \* of each consumer: connected?, events to handle
    loaded,              \* of each consumer: the row its event has loaded
    positions, balance,  \* rows of the database; one asset
    target,              \* target positions
    worker,              \* the worker's control point
    snaps,               \* the snapshots it has taken
    report,              \* its last report, or None
    steady,              \* nothing moved since its first snapshot (history)
    gap,                 \* symbols with a move no consumer handled (history)
    audits, notes,       \* drifts recorded and notified so far
    preferences,         \* committed row, or None
    draft,               \* what an open /notifications request has flushed
    promised             \* what the last PUT answered, or None (history)

streamvars == <<link, wire, loaded>>
dbvars == <<positions, balance>>
counts == <<audits, notes>>
workvars == <<worker, snaps, report, counts>>
prefvars == <<preferences, draft, promised>>
vars == <<exchange, open, venue, sent, streamvars, dbvars, target, workvars,
          steady, gap, prefvars>>

\* A position event carries a quantity, a balance event three figures of which
\* each exchange sends two or three.  It is wellformed if all it says can be
\* parsed and stored and no symbol or asset is listed twice.
PositionEvent ==
    [type : {"POSITION"}, wellformed : BOOLEAN, symbol : Symbols, quantity : Int]
BalanceEvent ==
    [type : {"BALANCE"}, wellformed : BOOLEAN, available : Nat, locked : Nat,
     total : Nat]
OtherEvent == [type : {"UNKNOWN"}]
Event == PositionEvent \cup BalanceEvent \cup OtherEvent

Balance == [available : Int, locked : Int, total : Int]
Snapshot == SUBSET [symbol : Symbols, leg : Nat, quantity : Int]

TypeOK ==
    /\ exchange \in Exchanges /\ open \in BOOLEAN /\ steady \in BOOLEAN
    /\ venue \in [Symbols -> Int] /\ target \in [Symbols -> Int]
    /\ {sent, audits, notes} \subseteq Nat /\ gap \subseteq Symbols
    /\ link \in [Streams -> BOOLEAN] /\ wire \in [Streams -> Seq(Event)]
    /\ \A c \in Streams :
          loaded[c] # <<>> =>
             /\ wire[c] # <<>>
             /\ IF Head(wire[c]).type = "POSITION"
                THEN loaded[c][1] \in Int \cup {None}
                ELSE loaded[c][1] \in Balance \cup {None}
    /\ positions \in [Symbols -> Int \cup {None}]
    /\ balance \in Balance \cup {None}
    /\ worker \in {"idle", "database", "target", "persist"}
    /\ snaps \in Seq(Snapshot) /\ Len(snaps) <= 2
    /\ report \in Report \cup {None}
    /\ {preferences, promised} \subseteq Preferences \cup {None}
    /\ draft \in {"nothing", "preferences", "read"}

Init ==
    /\ exchange \in Exchanges
    /\ open = TRUE /\ sent = 0
    /\ venue = [x \in Symbols |-> 0] /\ target = [x \in Symbols |-> 0]
    /\ link = [c \in Streams |-> FALSE]
    /\ wire = [c \in Streams |-> <<>>]
    /\ loaded = [c \in Streams |-> <<>>]
    /\ positions = [x \in Symbols |-> None] /\ balance = None
    /\ worker = "idle" /\ snaps = <<>> /\ report = None /\ steady = TRUE
    /\ audits = 0 /\ notes = 0 /\ gap = {}
    /\ preferences = None /\ draft = "nothing" /\ promised = None
-----------------------------------------------------------------------------
(***************************************************************************)
(* The exchange sends every change to the connected consumers.             *)
(***************************************************************************)
SendEvent(e) ==
    /\ sent < MaxEvents
    /\ sent' = sent + 1
    /\ wire' = [c \in Streams |-> IF link[c] THEN Append(wire[c], e) ELSE wire[c]]
    /\ UNCHANGED <<exchange, open, link, loaded, dbvars, target, workvars,
                   prefvars>>

\* Is a move of x on its way to some consumer?
OnTheWay(x) ==
    \E c \in Streams : \E i \in DOMAIN wire[c] :
        wire[c][i].type = "POSITION" /\ wire[c][i].symbol = x

PositionMoves(x, q, wellformed) ==
    /\ exchange # "BINANCE" /\ venue[x] # q
    /\ venue' = [venue EXCEPT ![x] = q]
    /\ steady' = FALSE
    /\ gap' = CASE \A c \in Streams : ~link[c] -> gap \cup {x}
                [] OnTheWay(x) -> gap
                [] OTHER -> gap \ {x}
    /\ SendEvent([type |-> "POSITION", wellformed |-> wellformed, symbol |-> x,
                  quantity |-> q])

BalanceMoves(f, wellformed) ==
    /\ SendEvent([type |-> "BALANCE", wellformed |-> wellformed,
                  available |-> f[1], locked |-> f[2], total |-> f[3]])
    /\ UNCHANGED <<venue, steady, gap>>

SomethingElse == SendEvent([type |-> "UNKNOWN"]) /\ UNCHANGED <<venue, steady, gap>>
-----------------------------------------------------------------------------
(***************************************************************************)
(* A consumer: POST .../user-stream-consume and the persisting handler.    *)
(***************************************************************************)
envvars == <<exchange, open, venue, sent, target>>

Connect(c) ==
    /\ ~link[c] /\ open
    /\ link' = [link EXCEPT ![c] = TRUE]
    /\ UNCHANGED <<envvars, wire, loaded, dbvars, workvars, steady, gap,
                   prefvars>>

\* Mutant: the session of a request that ends keeps its row.
HangUpKeepsRow(c) ==
    /\ gap' = gap \cup {wire[c][i].symbol : i \in
                           {j \in DOMAIN wire[c] : wire[c][j].type = "POSITION"}}
    /\ link' = [link EXCEPT ![c] = FALSE]
    /\ wire' = [wire EXCEPT ![c] = <<>>]
    /\ UNCHANGED loaded

\* The message limit, a stop, a lost connection, or an error of the handler.
\* What was not handled is never sent again.
HangUp(c) ==
    /\ gap' = gap \cup {wire[c][i].symbol : i \in
                           {j \in DOMAIN wire[c] : wire[c][j].type = "POSITION"}}
    /\ link' = [link EXCEPT ![c] = FALSE]
    /\ wire' = [wire EXCEPT ![c] = <<>>]
    /\ loaded' = [loaded EXCEPT ![c] = <<>>]

Disconnect(c) ==
    /\ link[c] /\ HangUp(c)
    /\ UNCHANGED <<envvars, dbvars, workvars, steady, prefvars>>

\* Mutant: a locked amount above the total is not an error.
BalanceUpdateUnchecked(e) ==
    CASE exchange = "BINANCE" ->
            <<[available |-> e.available, locked |-> e.locked,
               total |-> e.available + e.locked]>>
      [] exchange = "BYBIT" ->
            <<[available |-> e.total - e.locked, locked |-> e.locked,
               total |-> e.total]>>
      [] OTHER ->
            <<[available |-> e.available, locked |-> e.locked,
               total |-> e.total]>>

\* _binance_, _bybit_ and _okx_balance_updates: <<row>>, or <<>> for an error.
BalanceUpdate(e) ==
    CASE exchange = "BINANCE" ->
            <<[available |-> e.available, locked |-> e.locked,
               total |-> e.available + e.locked]>>
      [] exchange = "BYBIT" ->
            IF e.locked > e.total THEN <<>>
            ELSE <<[available |-> e.total - e.locked, locked |-> e.locked,
                    total |-> e.total]>>
      [] OTHER ->
            IF e.available + e.locked > e.total THEN <<>>
            ELSE <<[available |-> e.available, locked |-> e.locked,
                    total |-> e.total]>>

\* _require_testnet_account, the updates, and the SELECT of the row.  A handler
\* that raises has written nothing; its request ends.  Other events are counted.
LoadRow(c) ==
    /\ link[c] /\ wire[c] # <<>> /\ loaded[c] = <<>>
    /\ LET e == Head(wire[c])
           valid == /\ open
                    /\ e.type # "UNKNOWN" => e.wellformed
                    /\ e.type = "BALANCE" => BalanceUpdate(e) # <<>>
       IN \/ ~valid /\ HangUp(c)
          \/ /\ valid /\ e.type = "UNKNOWN"
             /\ wire' = [wire EXCEPT ![c] = Tail(@)]
             /\ UNCHANGED <<link, loaded, gap>>
          \/ /\ valid /\ e.type # "UNKNOWN"
             /\ loaded' = [loaded EXCEPT ![c] =
                              <<IF e.type = "POSITION" THEN positions[e.symbol]
                                                       ELSE balance>>]
             /\ UNCHANGED <<link, wire, gap>>
    /\ UNCHANGED <<envvars, dbvars, workvars, steady, prefvars>>

\* The value a flush leaves in a row: an INSERT fails when the row has appeared
\* since it was looked for, and an UPDATE is only sent for a changed value.
Flush(row, before, value) ==
    IF before = value THEN row ELSE value

Clashes(row, before) == before = None /\ row # None

\* Mutant: an event of a position is taken as a change of it.
PositionWrittenAsChange(e) ==
    e.quantity + (IF positions[e.symbol] = None THEN 0 ELSE positions[e.symbol])

PositionWritten(e) == e.quantity

\* _upsert_position, _upsert_balance, flush and commit.
CommitRow(c) ==
    /\ loaded[c] # <<>>
    /\ LET e == Head(wire[c])
           before == loaded[c][1]
           row == IF e.type = "POSITION" THEN positions[e.symbol] ELSE balance
       IN \/ Clashes(row, before) /\ HangUp(c) /\ UNCHANGED dbvars
          \/ /\ ~Clashes(row, before)
             /\ \/ /\ e.type = "POSITION"
                   /\ positions' = [positions EXCEPT ![e.symbol] =
                                       Flush(@, before, PositionWritten(e))]
                   /\ UNCHANGED balance
                \/ /\ e.type = "BALANCE"
                   /\ balance' = Flush(balance, before, BalanceUpdate(e)[1])
                   /\ UNCHANGED positions
             /\ wire' = [wire EXCEPT ![c] = Tail(@)]
             /\ loaded' = [loaded EXCEPT ![c] = <<>>]
             /\ UNCHANGED <<link, gap>>
    /\ steady' = (steady /\ positions' = positions)
    /\ UNCHANGED <<envvars, workvars, prefvars>>

\* PATCH and DELETE of the account.
SwitchAccount ==
    /\ open' = ~open
    /\ UNCHANGED <<exchange, venue, sent, target, streamvars, dbvars, workvars,
                   steady, gap, prefvars>>
-----------------------------------------------------------------------------
(***************************************************************************)
(* PositionReconciliationWorker.run_account                                *)
(***************************************************************************)
\* The exchange lists a position as one entry or as two legs.
Listings(quantity) ==
    {{[symbol |-> x, leg |-> 1, quantity |-> quantity[x]] : x \in Symbols},
     {[symbol |-> x, leg |-> n, quantity |-> IF n = 1 THEN quantity[x] + 1
                                                      ELSE -1] :
         x \in Symbols, n \in {1, 2}}}

runenv == <<envvars, streamvars, dbvars, gap, prefvars>>

LoadExchange ==
    /\ worker = "idle" /\ audits < MaxDrifts
    /\ \E s \in Listings(venue) : snaps' = <<s>>
    /\ worker' = "database" /\ steady' = TRUE /\ report' = None
    /\ UNCHANGED <<runenv, counts>>

\* DatabasePositionSnapshotProvider
LoadDatabase ==
    /\ worker = "database"
    /\ snaps' = Append(snaps,
                       {[symbol |-> x, leg |-> 1, quantity |-> positions[x]] :
                           x \in {y \in Symbols : positions[y] # None}})
    /\ worker' = "target"
    /\ UNCHANGED <<runenv, report, steady, counts>>

\* The third snapshot, the report, and build_reconciliation_hook_plan.  For a
\* drift it sends an alert if the worker has a runtime, which it has not by
\* default; Alerts models what becomes of it, and nothing here depends on it.
LoadTarget ==
    /\ worker = "target"
    /\ LET s == {[symbol |-> x, leg |-> 1, quantity |-> target[x]] : x \in Symbols}
       IN report' = reconcile_position_snapshots(snaps[1], snaps[2], s)
    /\ snaps' = <<>>
    /\ worker' = "persist"
    /\ UNCHANGED <<runenv, steady, counts>>

\* _preferences_allow_internal_notification, for a drift
Allows(p) == p.internal /\ p.position_drift

\* persist_reconciliation_hook_plan and the caller's commit: the audit row
\* always; for a drift a system event and, if the preferences allow it, a
\* notification (the preferences row is created when it is missing).
persist_reconciliation_hook_plan ==
    /\ worker = "persist"
    /\ LET drift == report.status = "DRIFT_DETECTED"
           wanted == IF preferences = None THEN DefaultPreferences
                                           ELSE preferences
       IN /\ audits' = audits + (IF drift THEN 1 ELSE 0)
          /\ notes' = notes + (IF drift /\ Allows(wanted) THEN 1 ELSE 0)
          /\ preferences' = IF drift THEN wanted ELSE preferences
    /\ worker' = "idle" /\ report' = None
    /\ UNCHANGED <<envvars, streamvars, dbvars, draft, promised, steady, gap,
                   snaps>>

\* A provider raises, or the process dies.
WorkerFails ==
    /\ worker # "idle"
    /\ worker' = "idle" /\ snaps' = <<>> /\ report' = None
    /\ UNCHANGED <<runenv, steady, counts>>

TargetMoves(x, q) ==
    /\ target[x] # q
    /\ target' = [target EXCEPT ![x] = q]
    /\ steady' = FALSE
    /\ UNCHANGED <<exchange, open, venue, sent, streamvars, dbvars, workvars,
                   gap, prefvars>>
-----------------------------------------------------------------------------
(***************************************************************************)
(* /notifications: the service flushes, and get_db closes the session      *)
(* without a commit.                                                       *)
(***************************************************************************)
requestenv == <<envvars, streamvars, dbvars, workvars, steady, gap, preferences>>

\* PUT /preferences; enabling an external channel is refused.
update_preferences(p) ==
    /\ draft = "nothing"
    /\ draft' = "preferences"
    /\ promised' = p
    /\ UNCHANGED requestenv

\* POST /{id}/read
mark_internal_notification_read ==
    /\ draft = "nothing" /\ notes > 0
    /\ draft' = "read"
    /\ UNCHANGED <<requestenv, promised>>

\* The response is sent and get_db closes the session.
CloseSession ==
    /\ draft # "nothing"
    /\ draft' = "nothing"
    /\ UNCHANGED <<requestenv, promised>>
-----------------------------------------------------------------------------
ExchangeStep ==
    \/ \E wellformed \in BOOLEAN :
          \/ \E x \in Symbols, q \in Quantities : PositionMoves(x, q, wellformed)
          \/ \E f \in Figures : BalanceMoves(f, wellformed)
    \/ SomethingElse

WorkerStep ==
    \/ LoadExchange \/ LoadDatabase \/ LoadTarget
    \/ persist_reconciliation_hook_plan \/ WorkerFails

Next ==
    \/ ExchangeStep
    \/ \E c \in Streams :
          Connect(c) \/ Disconnect(c) \/ LoadRow(c) \/ CommitRow(c)
    \/ SwitchAccount
    \/ WorkerStep
    \/ \E x \in Symbols, q \in Quantities : TargetMoves(x, q)
    \/ \E p \in PreferenceChoices : update_preferences(p)
    \/ mark_internal_notification_read
    \/ CloseSession

Spec == Init /\ [][Next]_vars
-----------------------------------------------------------------------------
(***************************************************************************)
(* Properties.                                                             *)
(***************************************************************************)
Held(x) == IF positions[x] = None THEN 0 ELSE positions[x]

\* Whatever figures an exchange sends, the stored balance adds up: nothing is
\* negative and the parts do not exceed the total, which they make up except
\* on OKX.
BalanceAddsUp ==
    balance # None =>
        LET parts == balance.available + balance.locked
        IN /\ balance.available >= 0 /\ balance.locked >= 0
           /\ parts <= balance.total
           /\ exchange # "OKX" => parts = balance.total

\* The database catches up with the exchange: once no move of a symbol is on
\* its way, its position is the exchange's, however many consumers write the
\* same row and whatever they had loaded, unless a move reached no consumer or
\* was dropped by one that hung up.
PositionsCatchUp ==
    \A x \in Symbols \ gap : OnTheWay(x) \/ Held(x) = venue[x]

\* A report about positions that did not move while the snapshots were taken
\* is right: drift is reported exactly when the three quantities of a symbol
\* spread by more than the tolerance, as critical exactly when such a spread
\* reaches the threshold, however the providers list them.
SteadyReportIsRight ==
    worker = "persist" /\ steady =>
        LET values(x) == {venue[x], Held(x), target[x]}
            spread(x) == Max(values(x)) - Min(values(x))
            drifted == {x \in Symbols : spread(x) > QuantityTolerance}
        IN /\ {d.symbol : d \in report.differences} = drifted
           /\ report.status = "DRIFT_DETECTED" <=> drifted # {}
           /\ report.severity = "CRITICAL"
                 <=> \E x \in drifted : spread(x) >= CriticalThreshold

\* The repair plan of a report leaves no symbol out, and carrying out its
\* proposals would bring the exchange to the target; a symbol that is there
\* already has a wrong row in the database.
RepairReachesTarget ==
    worker = "persist" =>
        LET plan == build_reconciliation_repair_plan(report, TRUE, FALSE)
        IN \A d \in report.differences :
              \E p \in plan.proposals :
                 /\ p.symbol = d.symbol /\ p.quantity > 0
                 /\ CASE p.action = "BUY_TO_TARGET" ->
                            d.exchange + p.quantity = d.target
                      [] p.action = "SELL_TO_TARGET" ->
                            d.exchange - p.quantity = d.target
                      [] OTHER -> /\ d.exchange = d.target
                                  /\ Abs(d.database - d.target) = p.quantity

\* The worker raises no false alarm about the database: if nothing moved while
\* it took its snapshots, a symbol it reports with different quantities at the
\* exchange and in the database has an event that some consumer has yet to
\* handle, or lost one, however its position is listed and whoever wrote it.
DatabaseDriftIsExplained ==
    worker = "persist" /\ steady =>
        \A d \in report.differences :
            d.exchange # d.database => d.symbol \in gap \/ OnTheWay(d.symbol)

\* "Users can ... manage current-user notification preferences": what a PUT
\* answered is what is stored once its request is over.
PreferencesAreKept ==
    promised # None /\ draft = "nothing" => preferences = promised
=============================================================================
