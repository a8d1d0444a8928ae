-------------------------- MODULE SignalExecution --------------------------
(***************************************************************************)
(* Manual signal execution on the mock exchange: execute_signal_for_account*)
(* in backend/app/services/order_engine.py with everything it calls (the   *)
(* emergency stop, the position engine, the risk engine, the order state   *)
(* machine), run by concurrent request threads over one PostgreSQL         *)
(* database, together with the operator requests that change what it       *)
(* reads.                                                                  *)
(*                                                                         *)
(* The API handlers are synchronous, so FastAPI runs each on its own       *)
(* thread with its own session at READ COMMITTED.  A step is one SELECT or *)
(* one commit; nothing is locked in between, so every value a request has  *)
(* read may be stale when it is used.                                      *)
(*                                                                         *)
(* Data: side and quantity of an order are one signed integer (BUY is      *)
(* positive), an absent Decimal is NoValue or NoTarget, symbols, signals   *)
(* and accounts are model values.                                          *)
(***************************************************************************)
EXTENDS OrderStateMachine, Integers, FiniteSets, Functions

CONSTANTS
    Workers,        \* request threads
    Users, Signals, Accounts, Symbols,
    SignalOwner,    \* [Signals -> Users]
    AccountOwner,   \* [Accounts -> Users]
    SignalSpec,     \* [Signals -> TradingSignal], the rows clients may create
    ClientOrderId,  \* client_order_id: [Signals \X Accounts -> ids]
    RiskPatches,    \* risk_settings rows an operator may PATCH in
    NoRow,          \* SELECT found nothing
    CrashAllowed    \* whether a request may die between two commits

NoValue  == 0
NoTarget == -1

TradingSignal ==
    [symbol : Symbols, side : {1, -1}, price : Int,
     quantity : Nat, target : Nat \cup {NoTarget}]

RiskSetting ==
    [trading_enabled : BOOLEAN, blocked_symbols : SUBSET Symbols,
     min_order_quantity : Nat, max_order_quantity : Nat,
     max_single_order_notional : Nat]

AccountMode == {"SIMULATION", "TESTNET", "REAL"}

ExchangeAccount == [account_mode : AccountMode, trading_enabled : BOOLEAN]

ASSUME OwnersAssumption ==
    /\ SignalOwner \in [Signals -> Users]
    /\ AccountOwner \in [Accounts -> Users]

ASSUME DataAssumption ==
    /\ SignalSpec \in [Signals -> TradingSignal]
    /\ RiskPatches \subseteq RiskSetting
    /\ DOMAIN ClientOrderId = Signals \X Accounts
    /\ CrashAllowed \in BOOLEAN

Job == [user : Users, signal : Signals, account : Accounts]

ASSUME NoRowAssumption == NoRow \notin RiskSetting \cup Job \cup Int

\* One row of order_executions per (signal_id, exchange_account_id).
Key == Signals \X Accounts
KeyOf(j) == <<j.signal, j.account>>

VARIABLES
    stop,        \* system_controls.emergency_stop_enabled
    accounts,    \* exchange_accounts
    risk,        \* risk_settings: [Accounts -> row or NoRow]
    positions,   \* positions: [Accounts \X Symbols -> quantity or NoRow]
    signals,     \* trading_signals that exist
    status,      \* order_executions.status, Absent before the INSERT
    trail,       \* order_execution_transitions of each execution
    order,       \* signed quantity stored in each execution
    placed,      \* calls of MockExchange.place_order for each execution
    pc, job, loc,\* the control point, request and local values of a thread
    orphaned,    \* executions whose request died (history)
    quiet        \* stop on, no flag switched on again since (history)

dbvars  == <<stop, accounts, risk, positions, signals, status, trail, order>>
vars    == <<dbvars, placed, pc, job, loc, orphaned, quiet>>

\* Control points between the INSERT of the execution and the last commit.
OwningPC ==
    {"risk_settings", "new_risk", "risk_account", "submit", "place",
     "fill_read", "new_fill_position", "fill_commit"}
PCs == {"idle", "stop_check", "lookup", "position", "new_position", "insert"}
       \cup OwningPC
\* Past the risk check: the request is committed to placing its order.
PastRiskPC == {"submit", "place", "fill_read", "new_fill_position",
               "fill_commit"}

Locals == [delta : Int, risk : RiskSetting \cup {NoRow}, posn : Int,
           late : BOOLEAN]
NoLocals == [delta |-> 0, risk |-> NoRow, posn |-> 0, late |-> FALSE]

TypeOK ==
    /\ stop \in BOOLEAN
    /\ accounts \in [Accounts -> ExchangeAccount]
    /\ risk \in [Accounts -> RiskSetting \cup {NoRow}]
    /\ positions \in [Accounts \X Symbols -> Int \cup {NoRow}]
    /\ signals \subseteq Signals
    /\ status \in [Key -> OrderExecutionStatus \cup {Absent}]
    /\ trail \in [Key -> Seq(Transition)]
    /\ order \in [Key -> Int]
    /\ placed \in [Key -> Nat]
    /\ pc \in [Workers -> PCs]
    /\ job \in [Workers -> Job \cup {NoRow}]
    /\ loc \in [Workers -> Locals]
    /\ orphaned \subseteq Key
    /\ quiet \in BOOLEAN

Init ==
    /\ stop = FALSE
    /\ accounts \in [Accounts -> {[account_mode |-> "SIMULATION",
                                   trading_enabled |-> e] : e \in BOOLEAN}]
    /\ risk = [a \in Accounts |-> NoRow]
    /\ positions = [p \in Accounts \X Symbols |-> NoRow]
    /\ signals = {}
    /\ status = [k \in Key |-> Absent]
    /\ trail = [k \in Key |-> <<>>]
    /\ order = [k \in Key |-> 0]
    /\ placed = [k \in Key |-> 0]
    /\ pc = [w \in Workers |-> "idle"]
    /\ job = [w \in Workers |-> NoRow]
    /\ loc = [w \in Workers |-> NoLocals]
    /\ orphaned = {}
    /\ quiet = FALSE
-----------------------------------------------------------------------------
Goto(w, label) == pc' = [pc EXCEPT ![w] = label]

\* The handler returns (or raises): the session is closed, locals are gone.
Return(w) ==
    /\ Goto(w, "idle")
    /\ job' = [job EXCEPT ![w] = NoRow]
    /\ loc' = [loc EXCEPT ![w] = NoLocals]

\* The handler dies on an exception nobody catches: the open transaction is
\* rolled back, the rows it committed before stay as they are.
Abort(w) ==
    /\ Return(w)
    /\ orphaned' = IF pc[w] \in OwningPC
                   THEN orphaned \cup {KeyOf(job[w])} ELSE orphaned

\* Mutant: the status moves, the audit row is forgotten.
TransitionUnrecorded(k, to) ==
    /\ CanTransition(status[k], to)
    /\ status' = [status EXCEPT ![k] = to]
    /\ UNCHANGED trail

\* transition_order_execution followed by the commit; no other request
\* writes a mock execution, so the status in the session is the row's.
transition_order_execution(k, to) ==
    /\ CanTransition(status[k], to)
    /\ status' = [status EXCEPT ![k] = to]
    /\ trail' = [trail EXCEPT ![k] = add_transition(@, status[k], to)]
-----------------------------------------------------------------------------
(***************************************************************************)
(* Requests of clients and operators.                                      *)
(***************************************************************************)
create_manual_signal(s) ==
    /\ signals' = signals \cup {s}
    /\ UNCHANGED <<stop, accounts, risk, positions, status, trail, order,
                   placed, pc, job, loc, orphaned, quiet>>

\* PATCH /exchange-accounts/{id}; no handler consults the emergency stop.
update_account(a, mode, enabled) ==
    /\ accounts' = [accounts EXCEPT ![a] = [account_mode |-> mode,
                                            trading_enabled |-> enabled]]
    /\ quiet' = (quiet /\ ~enabled)
    /\ UNCHANGED <<stop, risk, positions, signals, status, trail, order,
                   placed, pc, job, loc, orphaned>>

delete_account(a) ==
    /\ accounts' = [accounts EXCEPT ![a].trading_enabled = FALSE]
    /\ UNCHANGED <<stop, risk, positions, signals, status, trail, order,
                   placed, pc, job, loc, orphaned, quiet>>

DefaultRiskSetting ==
    [trading_enabled |-> FALSE, blocked_symbols |-> {},
     min_order_quantity |-> NoValue, max_order_quantity |-> NoValue,
     max_single_order_notional |-> NoValue]

\* GET /risk-settings/{id}, and the first half of a PATCH.
read_risk_settings(a) ==
    /\ risk[a] = NoRow
    /\ risk' = [risk EXCEPT ![a] = DefaultRiskSetting]
    /\ UNCHANGED <<stop, accounts, positions, signals, status, trail, order,
                   placed, pc, job, loc, orphaned, quiet>>

patch_risk_settings(a, r) ==
    /\ accounts[a].account_mode = "SIMULATION"
    /\ risk[a] # NoRow
    /\ risk' = [risk EXCEPT ![a] = r]
    /\ quiet' = (quiet /\ ~r.trading_enabled)
    /\ UNCHANGED <<stop, accounts, positions, signals, status, trail, order,
                   placed, pc, job, loc, orphaned>>

SwitchOff(row) ==
    IF row = NoRow THEN NoRow ELSE [row EXCEPT !.trading_enabled = FALSE]

\* Mutant: the stop leaves the flags of existing risk settings alone.
ActivateStopKeepsRiskFlags ==
    /\ stop' = TRUE
    /\ accounts' = [a \in Accounts |->
                       [accounts[a] EXCEPT !.trading_enabled = FALSE]]
    /\ quiet' = TRUE
    /\ UNCHANGED <<risk, positions, signals, status, trail, order, placed, pc,
                   job, loc, orphaned>>

\* set_emergency_stop(enabled=True): one transaction.
activate_emergency_stop ==
    /\ stop' = TRUE
    /\ accounts' = [a \in Accounts |->
                       [accounts[a] EXCEPT !.trading_enabled = FALSE]]
    /\ risk' = [a \in Accounts |-> SwitchOff(risk[a])]
    /\ quiet' = TRUE
    /\ UNCHANGED <<positions, signals, status, trail, order, placed, pc, job,
                   loc, orphaned>>

\* set_emergency_stop(enabled=False) switches no flag on.
deactivate_emergency_stop ==
    /\ stop' = FALSE
    /\ quiet' = FALSE
    /\ UNCHANGED <<accounts, risk, positions, signals, status, trail, order,
                   placed, pc, job, loc, orphaned>>
-----------------------------------------------------------------------------
(***************************************************************************)
(* execute_signal_for_account, one SELECT or commit at a time.             *)
(***************************************************************************)
execute_signal(w, j) ==
    /\ pc[w] = "idle"
    /\ Goto(w, "stop_check")
    /\ job' = [job EXCEPT ![w] = j]
    /\ UNCHANGED <<dbvars, placed, loc, orphaned, quiet>>

assert_new_orders_allowed(w) ==
    /\ pc[w] = "stop_check"
    /\ \/ stop /\ Return(w)
       \/ ~stop /\ Goto(w, "lookup") /\ UNCHANGED <<job, loc>>
    /\ UNCHANGED <<dbvars, placed, orphaned, quiet>>

\* _get_owned_signal and _get_owned_account find their rows.
Owned(j) ==
    /\ j.signal \in signals
    /\ SignalOwner[j.signal] = j.user
    /\ AccountOwner[j.account] = j.user

\* Mutant: a row left SUBMITTED by a dead request is taken up again.
FindExistingResumes(w) ==
    /\ pc[w] = "lookup"
    /\ LET k == KeyOf(job[w])
           spec == SignalSpec[job[w].signal]
       IN \/ /\ Owned(job[w]) /\ status[k] = "SUBMITTED"
             /\ loc' = [loc EXCEPT ![w].delta = order[k]]
             /\ Goto(w, "place")
             /\ UNCHANGED job
          \/ /\ Owned(job[w]) /\ status[k] = Absent
             /\ loc' = [loc EXCEPT ![w].delta = spec.side * spec.quantity]
             /\ Goto(w, IF spec.target = NoTarget THEN "insert" ELSE "position")
             /\ UNCHANGED job
          \/ /\ ~Owned(job[w]) \/ status[k] \notin {Absent, "SUBMITTED"}
             /\ Return(w)
    /\ UNCHANGED <<dbvars, placed, orphaned, quiet>>

\* Ownership, the idempotency lookup and the start of
\* _resolve_side_and_quantity.
FindExisting(w) ==
    /\ pc[w] = "lookup"
    /\ LET j == job[w]
           spec == SignalSpec[j.signal]
           fresh == Owned(j) /\ status[KeyOf(j)] = Absent
       IN \/ /\ ~fresh \/ (spec.target = NoTarget /\ spec.quantity = NoValue)
             /\ Return(w)
          \/ /\ fresh /\ spec.target = NoTarget /\ spec.quantity # NoValue
             /\ loc' = [loc EXCEPT ![w].delta = spec.side * spec.quantity]
             /\ Goto(w, "insert")
             /\ UNCHANGED job
          \/ /\ fresh /\ spec.target # NoTarget
             /\ Goto(w, "position")
             /\ UNCHANGED <<job, loc>>
    /\ UNCHANGED <<dbvars, placed, orphaned, quiet>>

PosKey(j) == <<j.account, SignalSpec[j.signal].symbol>>

\* calculate_delta, as a signed quantity.
calculate_delta(current, target) == target - current

\* get_or_create_position for a target order: the SELECT, or the refresh
\* after the row was created.
ReadPosition(w) ==
    /\ pc[w] = "position"
    /\ LET p == positions[PosKey(job[w])]
       IN \/ /\ p # NoRow
             /\ loc' = [loc EXCEPT ![w].delta = calculate_delta(p,
                                       SignalSpec[job[w].signal].target)]
             /\ Goto(w, "insert")
          \/ p = NoRow /\ Goto(w, "new_position") /\ UNCHANGED loc
    /\ UNCHANGED <<dbvars, placed, job, orphaned, quiet>>

\* Its INSERT: another request may have created the row since the SELECT
\* (UniqueConstraint exchange_account_id, symbol).
CreatePosition(w) ==
    /\ pc[w] = "new_position"
    /\ LET p == PosKey(job[w])
       IN \/ positions[p] # NoRow /\ Abort(w) /\ UNCHANGED positions
          \/ /\ positions[p] = NoRow
             /\ positions' = [positions EXCEPT ![p] = 0]
             /\ Goto(w, "position")
             /\ UNCHANGED <<job, loc, orphaned>>
    /\ UNCHANGED <<stop, accounts, risk, signals, status, trail, order, placed,
                   quiet>>

\* Mutant: a row that ended FAILED may be replaced.
UniqueUnlessFailed(k) == status[k] \notin {Absent, "FAILED"}

\* UniqueConstraint(signal_id, exchange_account_id) and the unique
\* client_order_id, built from the first eight characters of both ids.
UniqueViolation(k) ==
    \E other \in Key : /\ status[other] # Absent
                       /\ \/ other = k
                          \/ ClientOrderId[other] = ClientOrderId[k]

\* Mutant: the row is stored with a status of the exchange, not of the enum.
StoreExchangeStatus(w, k) ==
    /\ status' = [status EXCEPT ![k] = "NEW"]
    /\ trail' = [trail EXCEPT ![k] = record_initial_order_state]
    /\ order' = [order EXCEPT ![k] = loc[w].delta]
    /\ Goto(w, "risk_settings")
    /\ UNCHANGED <<job, loc, orphaned>>

\* The INSERT of the execution that passes its unique constraints.
StoreExecution(w, k) ==
    /\ status' = [status EXCEPT ![k] = "CREATED"]
    /\ trail' = [trail EXCEPT ![k] = record_initial_order_state]
    /\ order' = [order EXCEPT ![k] = loc[w].delta]
    /\ Goto(w, "risk_settings")
    /\ UNCHANGED <<job, loc, orphaned>>

\* Mutant: no unique constraint behind the idempotency lookup.
InsertExecutionUnchecked(w) ==
    /\ pc[w] = "insert"
    /\ StoreExecution(w, KeyOf(job[w]))
    /\ UNCHANGED <<stop, accounts, risk, positions, signals, placed, quiet>>

InsertExecution(w) ==
    /\ pc[w] = "insert"
    /\ LET k == KeyOf(job[w])
       IN \/ UniqueViolation(k) /\ Abort(w) /\ UNCHANGED <<status, trail, order>>
          \/ ~UniqueViolation(k) /\ StoreExecution(w, k)
    /\ UNCHANGED <<stop, accounts, risk, positions, signals, placed, quiet>>

\* get_or_create_risk_settings: the SELECT, or the refresh after the INSERT.
ReadRiskSettings(w) ==
    /\ pc[w] = "risk_settings"
    /\ LET r == risk[job[w].account]
       IN \/ /\ r # NoRow
             /\ loc' = [loc EXCEPT ![w].risk = r, ![w].late = quiet]
             /\ Goto(w, "risk_account")
          \/ r = NoRow /\ Goto(w, "new_risk") /\ UNCHANGED loc
    /\ UNCHANGED <<dbvars, placed, job, orphaned, quiet>>

CreateRiskSettings(w) ==
    /\ pc[w] = "new_risk"
    /\ LET a == job[w].account
       IN \/ risk[a] # NoRow /\ Abort(w) /\ UNCHANGED risk
          \/ /\ risk[a] = NoRow
             /\ risk' = [risk EXCEPT ![a] = DefaultRiskSetting]
             /\ Goto(w, "risk_settings")
             /\ UNCHANGED <<job, loc, orphaned>>
    /\ UNCHANGED <<stop, accounts, positions, signals, status, trail, order,
                   placed, quiet>>

AbsInt(n) == IF n < 0 THEN -n ELSE n

\* check_order_risk: no reason to reject.  A missing price counts as one.
check_order_risk(account, settings, spec, quantity) ==
    /\ account.account_mode = "SIMULATION"
    /\ account.trading_enabled
    /\ settings.trading_enabled
    /\ spec.symbol \notin settings.blocked_symbols
    /\ settings.min_order_quantity # NoValue
          => quantity >= settings.min_order_quantity
    /\ settings.max_order_quantity # NoValue
          => quantity <= settings.max_order_quantity
    /\ settings.max_single_order_notional # NoValue
          => quantity * (IF spec.price = NoValue THEN 1 ELSE spec.price)
                <= settings.max_single_order_notional

\* Mutant: a rejected order returns without recording FAILED.
CheckRiskSilently(w) ==
    /\ pc[w] = "risk_account"
    /\ LET j == job[w]
           quantity == AbsInt(loc[w].delta)
           passed == /\ check_order_risk(accounts[j.account], loc[w].risk,
                                         SignalSpec[j.signal], quantity)
                     /\ quantity > 0
       IN \/ /\ passed
             /\ transition_order_execution(KeyOf(j), "RISK_PASSED")
             /\ Goto(w, "submit")
             /\ loc' = [loc EXCEPT ![w].late = @ \/ quiet]
             /\ UNCHANGED job
          \/ ~passed /\ Return(w) /\ UNCHANGED <<status, trail>>
    /\ UNCHANGED <<stop, accounts, risk, positions, signals, order, placed,
                   orphaned, quiet>>

\* Reads the account again (the commits expired it), decides on the risk
\* settings read before, and commits the outcome.
CheckRisk(w) ==
    /\ pc[w] = "risk_account"
    /\ LET j == job[w]
           quantity == AbsInt(loc[w].delta)
           passed == /\ check_order_risk(accounts[j.account], loc[w].risk,
                                         SignalSpec[j.signal], quantity)
                     /\ quantity > 0
       IN \/ /\ passed
             /\ transition_order_execution(KeyOf(j), "RISK_PASSED")
             /\ Goto(w, "submit")
             /\ loc' = [loc EXCEPT ![w].late = @ \/ quiet]
             /\ UNCHANGED job
          \/ /\ ~passed
             /\ transition_order_execution(KeyOf(j), "FAILED")
             /\ Return(w)
    /\ UNCHANGED <<stop, accounts, risk, positions, signals, order, placed,
                   orphaned, quiet>>

\* Mutant: the order goes to the exchange before SUBMITTED is committed.
SubmitOrderLate(w) ==
    /\ pc[w] = "submit"
    /\ Goto(w, "place")
    /\ UNCHANGED <<dbvars, placed, job, loc, orphaned, quiet>>

SubmitOrder(w) ==
    /\ pc[w] = "submit"
    /\ transition_order_execution(KeyOf(job[w]), "SUBMITTED")
    /\ Goto(w, "place")
    /\ UNCHANGED <<stop, accounts, risk, positions, signals, order, placed,
                   job, loc, orphaned, quiet>>

\* MockExchange.place_order answers FILLED at once and never fails.
place_order(w) ==
    /\ pc[w] = "place"
    /\ placed' = [placed EXCEPT ![KeyOf(job[w])] = @ + 1]
    /\ Goto(w, "fill_read")
    /\ UNCHANGED <<dbvars, job, loc, orphaned, quiet>>

\* apply_fill: the SELECT of get_or_create_position, or the refresh.
ReadFillPosition(w) ==
    /\ pc[w] = "fill_read"
    /\ LET p == positions[PosKey(job[w])]
       IN \/ /\ p # NoRow
             /\ loc' = [loc EXCEPT ![w].posn = p]
             /\ Goto(w, "fill_commit")
          \/ p = NoRow /\ Goto(w, "new_fill_position") /\ UNCHANGED loc
    /\ UNCHANGED <<dbvars, placed, job, orphaned, quiet>>

\* The INSERT of the position also commits the pending FILLED transition.
CreateFillPosition(w) ==
    /\ pc[w] = "new_fill_position"
    /\ LET p == PosKey(job[w])
       IN \/ positions[p] # NoRow /\ Abort(w)
             /\ UNCHANGED <<positions, status, trail>>
          \/ /\ positions[p] = NoRow
             /\ positions' = [positions EXCEPT ![p] = 0]
             /\ transition_order_execution(KeyOf(job[w]), "FILLED")
             /\ Goto(w, "fill_read")
             /\ UNCHANGED <<job, loc, orphaned>>
    /\ UNCHANGED <<stop, accounts, risk, signals, order, placed, quiet>>

\* Mutant: the fill is committed a second time.
ApplyFillTwice(w) ==
    /\ pc[w] = "fill_commit"
    /\ positions' = [positions EXCEPT ![PosKey(job[w])] =
                        loc[w].posn + 2 * loc[w].delta]
    /\ \/ /\ status[KeyOf(job[w])] = "FILLED"
          /\ UNCHANGED <<status, trail>>
       \/ /\ status[KeyOf(job[w])] # "FILLED"
          /\ transition_order_execution(KeyOf(job[w]), "FILLED")
    /\ Return(w)
    /\ UNCHANGED <<stop, accounts, risk, signals, order, placed, orphaned,
                   quiet>>

\* The absolute quantity computed from the one read is written back, with
\* the FILLED transition unless that is committed already.
apply_fill(w) ==
    /\ pc[w] = "fill_commit"
    /\ positions' = [positions EXCEPT ![PosKey(job[w])] =
                        loc[w].posn + loc[w].delta]
    /\ \/ /\ status[KeyOf(job[w])] = "FILLED"
          /\ UNCHANGED <<status, trail>>
       \/ /\ status[KeyOf(job[w])] # "FILLED"
          /\ transition_order_execution(KeyOf(job[w]), "FILLED")
    /\ Return(w)
    /\ UNCHANGED <<stop, accounts, risk, signals, order, placed, orphaned,
                   quiet>>

\* The process is killed or the database connection is lost.
Crash(w) ==
    /\ CrashAllowed
    /\ pc[w] # "idle"
    /\ Abort(w)
    /\ UNCHANGED <<dbvars, placed, quiet>>
-----------------------------------------------------------------------------
WorkerStep(w) ==
    \/ assert_new_orders_allowed(w) \/ FindExisting(w) \/ ReadPosition(w)
    \/ CreatePosition(w) \/ InsertExecution(w) \/ ReadRiskSettings(w)
    \/ CreateRiskSettings(w) \/ CheckRisk(w) \/ SubmitOrder(w) \/ place_order(w)
    \/ ReadFillPosition(w) \/ CreateFillPosition(w) \/ apply_fill(w)

OperatorStep ==
    \/ \E s \in Signals : create_manual_signal(s)
    \/ \E a \in Accounts, m \in AccountMode, e \in BOOLEAN :
          update_account(a, m, e)
    \/ \E a \in Accounts : delete_account(a) \/ read_risk_settings(a)
    \/ \E a \in Accounts, r \in RiskPatches : patch_risk_settings(a, r)
    \/ activate_emergency_stop
    \/ deactivate_emergency_stop

Next ==
    \/ OperatorStep
    \/ \E w \in Workers, j \in Job : execute_signal(w, j)
    \/ \E w \in Workers : WorkerStep(w) \/ Crash(w)

\* A request thread that has started keeps running until it returns or dies;
\* nobody is obliged to send requests.
Fairness == \A w \in Workers : WF_vars(WorkerStep(w))

Spec == Init /\ [][Next]_vars
FairSpec == Spec /\ Fairness
-----------------------------------------------------------------------------
(***************************************************************************)
(* Properties.                                                             *)
(***************************************************************************)
\* However many threads execute the same signal on the same account, and
\* wherever they die, place_order is called at most once for it: the
\* idempotency lookup of execute_signal_for_account is not atomic with the
\* INSERT, and only the unique constraint closes the gap.
AtMostOnePlacement == \A k \in Key : placed[k] <= 1

\* The database never lags the exchange by more than the fill: an order that
\* reached the exchange is recorded SUBMITTED or FILLED, whatever died since,
\* and an execution recorded FILLED has been placed.
PlacementIsRecorded ==
    \A k \in Key :
        /\ placed[k] > 0 => status[k] \in {"SUBMITTED", "FILLED"}
        /\ status[k] = "FILLED" => placed[k] > 0

\* Every execution's trail is a chained path of the status graph from CREATED
\* to its present status (record_initial_order_state,
\* transition_order_execution).
TrailSound ==
    \A k \in Key :
        status[k] # Absent =>
            /\ TrailFollowsGraph(trail[k])
            /\ TrailIsChained(trail[k])
            /\ trail[k][Len(trail[k])].to = status[k]

\* A request whose risk check read the risk settings or the account after an
\* emergency stop was activated, with no trading flag switched on again in
\* between, never gets its order past the check, although it passed
\* assert_new_orders_allowed before the stop.
StopCutsOff == \A w \in Workers : pc[w] \in PastRiskPC => ~loc[w].late

\* An execution whose request died is never moved again: a later request for
\* the same signal and account returns the row it finds.
OrphansStayPut ==
    [][\A k \in orphaned : status'[k] = status[k] /\ placed'[k] = placed[k]]_vars

\* Executions of account a on symbol y that are recorded FILLED.
Filled(a, y) ==
    {k \in Key : /\ k[2] = a
                 /\ SignalSpec[k[1]].symbol = y
                 /\ status[k] = "FILLED"}

\* Whatever the interleaving, a position is the sum of some of the account's
\* FILLED executions: apply_fill never adds an order twice and never adds one
\* that is not recorded (an update it overwrites may be missing).
PositionExplained ==
    \A a \in Accounts, y \in Symbols :
        positions[<<a, y>>] # NoRow =>
            \E F \in SUBSET Filled(a, y) :
                positions[<<a, y>>] = SumFunctionOnSet(order, F)

\* How the database stands to an order: refused when its row is terminal
\* without the order ever having been sent.
RecordOf(k) ==
    CASE status[k] = Absent -> "none"
      [] status[k] \in TERMINAL_ORDER_STATUSES /\ placed[k] = 0 -> "refused"
      [] OTHER -> "kept"

Once == INSTANCE OrderOnce WITH
            Orders <- Key, sent <- placed, record <- [k \in Key |-> RecordOf(k)]

\* Execution implements OrderOnce: recorded, then placed at most once, and a
\* row that ended FAILED without placement is never taken up again.
ImplementsOrderOnce == Once!Spec

\* Every execution reaches a terminal status unless its request died.
SettlesOrOrphaned ==
    \A k \in Key :
        status[k] # Absent ~>
            (status[k] \in TERMINAL_ORDER_STATUSES \/ k \in orphaned)
=============================================================================
