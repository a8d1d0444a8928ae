# Verification of the crypto copy trading platform

TLA+ models of the platform's backend (order paths, the gates an operator
passes before an order, authentication, account state and its reconciliation,
alerts), the TLC runs that check them on small instances and TLAPS proofs that
their safety properties hold for every size of the system. Paths below
are relative to the repository; `services/` stands for `backend/app/services/`,
`api/` for `backend/app/api/v1/`.

## 1. The system

A FastAPI backend over PostgreSQL and Redis. Handlers are synchronous, so each
request runs on a thread of its own with its own SQLAlchemy session
(`db/session.py`: `autoflush=False`, `expire_on_commit` left at its default) at
PostgreSQL's READ COMMITTED. There is no row lock on the order paths; what
keeps two requests apart is three unique constraints (`db/models/trading.py`):
`(signal_id, exchange_account_id)` and `client_order_id` on `order_executions`,
`(order_execution_id, sequence_number)` on `order_execution_transitions`.

### Inventory

| Component | State | Operations | Hard behaviour | What makes it correct |
|---|---|---|---|---|
| Order status graph (`services/order_state_machine.py`) | status and audit rows of an execution | record the initial state, transition | status checked on a cached object, sequence number read before the commit | the trail is a path of the graph and ends at the status |
| Mock signal execution (`services/order_engine.py`, `position_engine.py`, `risk_engine.py`, `signal_engine.py`, `exchanges/mock.py`) | signals, executions, positions, risk settings | create a signal, execute it on an account | concurrent requests, a request dying between commits, commits hidden in helpers | at most one placement, recorded before it happens; positions equal the fills; every execution settles |
| Emergency stop (`services/emergency_stop.py`, `api/admin_system_control.py`) | one flag, and all trading flags | activate, deactivate, check | a request passes the check and the stop comes after | what reads a flag after the stop is stopped |
| Accounts and risk settings (`services/exchange_accounts.py`, `api/exchange_accounts.py`, `api/risk_settings.py`) | mode, flags, limits, API keys | CRUD | changed while orders run | see emergency stop |
| Testnet submission (`api/orders.py`, `services/testnet_order_api.py`, `_gate`, `_persistence`, `_execution`, `_request`) | executions | submit, replay | HTTP between two commits, unknown outcome | at most one request per client order id, recorded before it is sent |
| Testnet reconciliation (`services/testnet_order_reconciliation.py`, `testnet_order_lifecycle.py`) | executions | REST lookup of pending orders | objects cached across lookups, failing lookups, clashes | never ahead of the exchange, converges |
| Testnet user stream (`services/testnet_user_stream*.py`) | executions, balances, positions | bounded consumption with reconnects | lost and late events | never ahead of the exchange |
| Rate limiter (`services/rate_limit_service.py`) | Redis counters with expiry | acquire | several commands per acquire, failures in between | windows an interval apart, windows close |
| Order window (`services/testnet_order_window*.py`, `testnet_order_admission.py`) | approvals in the audit log | approve, authorize, report (read-only) | the newest row by transaction start, expiry, a restart in between | no order outside the approval that was newest |
| Phase 4 gates (`services/phase4_*.py`) | audit records that cite each other | review, order window, final check, readiness report (read-only) | what was read is out of date when the record is written, rows committed in another order than their created_at | amounts never grow along the citations, no gate decides on a row that was superseded when it began |
| Read-only checks (`services/*_read_only_check.py`, `real_balances.py`, `real_open_orders.py`) | audit rows | ask the exchange, record | the exchange fails | only a successful check counts |
| Authentication (`services/mfa.py`, `users.py`, `super_admin_bootstrap.py`, `core/security.py`, `api/deps.py`) | password, token version, TOTP step, recovery codes | register, bootstrap, login, reauthenticate, enrol, confirm, disable, change password | overlapping requests decide on loaded rows, only login locks | a code is used once, a change revokes tokens, MFA columns stay together |
| Account state sync (`services/testnet_account_state_sync.py`) | balances, positions | absolute writes from events | several consumers, lost events, clashing INSERTs | the database catches up; balances add up |
| Position reconciliation (`services/position_reconciliation.py`, `reconciliation_*.py`) | audit rows, notifications | compare three snapshots, alert, persist, plan a repair | snapshots at different times, rows that consumers have yet to write | a report about quiet positions is right and blames no row that all events have reached, the repair reaches the target |
| Notifications (`services/notification_service.py`, `api/notifications.py`) | notifications, preferences | notify, mark read, set preferences | flush without commit | what was answered is stored (it is not) |
| Alerts (`services/operational_alerts.py`, `external_alerts.py`, `dependency_health_monitor.py`) | time of the last dispatch per key and process | send unless throttled | threads sharing a dictionary, failed channels, restarts | no flood, an outage is reported to whoever can be reached |
| Permissions, adapters, market data, backups, storage, frontend | none that a decision reads | requests, parsing, formatting | | not modelled, see 7 |

Interactions: the order paths call the emergency stop, the risk engine and the
state machine in their own session; the operator's requests change the rows
those read; submitter, reconciler and stream consumer share rows of
`order_executions` and nothing else; the rate limiter shares Redis keys between
all processes. The gates are tied to submission through the audit log and the
flags; stream consumers and the reconciliation worker meet in the `positions`
table; the worker, the order path, the emergency stop and the monitor report
through the alerts.

## 2. Modules

| Module | Models |
|---|---|
| `OrderOnce` | abstract: what both order paths promise for an order |
| `OrderStateMachine` | status graph, audit trail, what a reader of the trail relies on; extended by both order modules |
| `SignalExecution` | mock signal execution, accounts, risk settings, emergency stop; implements `OrderOnce` |
| `SignalExecutionProofs`, `PositionProofs` | its theorems; the second has those about positions and the lemmas about sums they need |
| `TestnetOrders`, `TestnetOrdersProofs` | submission, reconciliation, user stream and exchange around one table; implements `OrderOnce` |
| `RateLimit`, `RateLimitProofs` | the Redis window store and the rules; its theorems |
| `OperatorGates`, `OperatorGatesProofs` | TESTNET order window, phase 4 records, read-only checks, API keys |
| `Authentication`, `AuthenticationProofs` | users, tokens, MFA, bootstrap |
| `PositionReconciliation` | comparison of snapshots and repair plan (no state) |
| `AccountState`, `AccountStateProofs` | extends it: stream consumers, reconciliation worker, preferences |
| `Alerts`, `AlertsProofs` | throttled dispatch, channels, dependency monitor |
| `MC...` | instances of the module of the same name; `MCSignalExecution` also states what apply_fill is for, which the code does not achieve |

Definitions keep the names of the code where the action is one function. Where
a function is cut into steps, each step is named for what it does.
Definitions whose comment begins with "Mutant" are wrong on purpose: each is a
plausible bug of one definition, used to see that a property would notice it.
No specification uses them.

### SignalExecution

A step is one SELECT or one commit of `execute_signal_for_account`; the program
counter of a thread names the next one:

`stop_check` (`assert_new_orders_allowed`), `lookup` (owner checks and the
idempotency lookup), `position`/`new_position` (`get_or_create_position` for a
target order), `insert` (execution and first audit row), `risk_settings`/
`new_risk` (`get_or_create_risk_settings`), `risk_account` (the account is
reloaded since the commits expired it; `check_order_risk`; RISK_PASSED or
FAILED committed), `submit` (SUBMITTED committed), `place`
(`MockExchange.place_order`), `fill_read`/`new_fill_position`/`fill_commit`
(`apply_fill`).

An IntegrityError is `Abort`: the request dies and what it had committed stays.
`Crash` is the same at any point. Two subtleties of the code are kept: the
commit in `get_or_create_position` also commits the pending FILLED transition
(`CreateFillPosition`), and `apply_fill` writes an absolute quantity computed
from the one it read.

Side and quantity are one signed integer, an absent Decimal is 0 (`NoValue`) or
-1 (`NoTarget`), and `price or Decimal("1")` is kept as it is in the code.
`is_active` is left out because nothing on this path reads it. History
variables: `orphaned` (executions whose request died), `quiet` (the stop is on
and no flag was switched on since), `late` in a thread's locals (it read a flag
while `quiet`).

### TestnetOrders

Three kinds of sessions over one account. What matters is which status each
decides on. The submitter refreshes its execution after the INSERT and keeps
that object across the HTTP call. The reconciler keeps the tuple of listed
executions, so the identity map returns the old objects until a commit of its
own expires them (`expired`). The stream handler reads the row for each event.
All then run `transition_order_execution`: graph check on the cached status,
`_next_sequence_number` (`ReadSeq`), and a commit (`Commit`) whose UPDATE is
unconditional and whose INSERT fails if the number is taken.

The exchange (external) moves an order along `ExchangeGraph` and sends an event
to every open stream. `normalize` is the status mapping (Binance's names; the
mappings of Bybit and OKX are subsets up to spelling). A request may be taken,
refused or lost (`Post`); an answer may be an error although the order was
taken (`Answer`). It is assumed that the exchange answers success only for an
order it took. The approval window and the rate limiter may let a request
through or not: `OperatorGates` and `RateLimit` say when they do.

### OrderOnce

Three values of a record (none, kept, refused) and how often an order was sent:
it is kept before it is sent, sent at most once, and refused for good only
while it was not sent. In both refinements `record` is read off the execution's
status: Absent is none, a terminal status of an order that was never sent is
refused, everything else is kept; `sent` is the history of `MockExchange` calls
(`placed`) or HTTP requests (`posts`). The refinement covers what the
invariants about counts leave open: a row once refused is not taken up by a
later request with the same id, and no step both stores and sends.

### RateLimit

One acquire is INCR, EXPIRE if the result was 1, TTL; a thread walks the rules
in order and stops at the first exceeded one. Counters are capped one above the
limit. `StoreUnavailable` is a RedisError or the death of the process at any
point. `since` measures the time from a key's creation.

### OperatorGates

Every gate has the same shape in the code: SELECT the account, the risk
settings, the key, the audit rows it relies on; collect reasons; raise, or
insert an audit row and commit. `Begin`, `ReadAccount`, `ReadRisk`, `ReadKey`,
`ReadEvidence` and the record actions are those steps, one statement each, so
that operator requests (`patch_account`, `set_api_key`, ...) come in between.
The conditions are in `AccountPasses`, `RiskPasses`, `KeyPasses` and the cap
operators, one line per group of reasons. What a gate asks of the request alone
(role, acknowledgement, confirmations, duration) is not state: such a request
is refused at once, which is `Die`. A row's time is the start of its
transaction (PostgreSQL's `now()`), and `LatestGood` orders by it, with ties
open. `boot` in a row (the process that wrote it) and `seen` in a request (how
many rows were committed when it began) are history: a row is superseded if
among the rows seen there is a good one of its kind with a later time. A
*campaign* fixes what a behaviour is about, its initial rows and its bounds.
The readiness, admission and window reports are not modelled: they change
nothing and no gate reads them.

### Authentication

One user row; a session loads it, and what it writes later are the columns
SQLAlchemy found changed against the loaded values (`EXCEPT` on the present
row). `LockUser` is the SELECT ... FOR UPDATE of `authenticate_user`; all other
requests load without a lock but wait with their UPDATE while a login holds it.
A commit expires the row, so the version in a token is the one read after it
(`IssueToken`). A code is `<<kind, secret or set, step or number>>`: what
anybody can type in is `Presentable`. Tokens do not expire here (an expired one
is refused, which only removes behaviours). History: `epoch` counts credential
changes, `overlapped` says that two of them did, `spent` and `replayed` keep
the codes that logins used and used again, `confirmed` and `reconfirmed` the
secrets that were confirmed and confirmed again. No request takes a code out of
`spent`.

### PositionReconciliation and AccountState

The comparison is three operators and the repair plan two; they are checked on
every report the worker makes, against the spread of the three quantities.
A consumer handles one event in two steps, `LoadRow` (account check, figures,
SELECT) and `CommitRow` (flush and commit), so two consumers and the worker
interleave between them. An error of the handler ends the consumer's request
(`HangUp`), with what was still to be received; an event that is not
`wellformed` (a figure that cannot be parsed or stored, a symbol listed twice)
is such an error. Accounts are in one-way mode: an event carries a symbol's net
quantity, though a snapshot may list two legs. `gap` (history) has the symbols
of which some move reached nobody. `open` stands for the conditions on the
account. The worker takes the exchange's, the database's and the target's
snapshot in three steps; its caller, which commits, is not in the repository.
The alert of a drift is not part of this module: by default the worker has no
alert runtime (`reconciliation_hooks.py:106`), nothing here depends on it, and
what becomes of a requested one is in `Alerts`.

### Alerts

A dispatch is: throttle check, one step per channel, storing the time it began.
Times are ages capped at the throttle, so that time is unbounded and liveness
can be checked. Each process has its dictionaries; the three of the API process
never hold the same key, so one stands for them. The monitor is a loop of
ticks, `Interval` apart; a tick that raises is noted and the loop goes on.

## 3. Runs

| Run | Expected | Shows |
|---|---|---|
| `MCSignalExecution` | pass | 2 threads, 2 signals (a quantity, a target), 1 account, crashes, all operator requests: `TypeOK`, `AtMostOnePlacement`, `PlacementIsRecorded`, `TrailSound`, `StopCutsOff`, `PositionExplained`, `OrphansStayPut`, the refinement `ImplementsOrderOnce`, and `SettlesOrOrphaned` under fairness |
| `MCSignalLostUpdate` | violation | two concurrent fills, one is lost |
| `MCTestnetOrders` | pass | 2 submitters, 2 orders (one refused by its limits), crashes, stop: `AtMostOnePost`, `PostIsRecorded`, `StopCutsOff`, `ImplementsOrderOnce` |
| `MCTestnetWriters` | pass | submitter, reconciler, stream on one order: `TypeOK`, `NeverAheadOfExchange`, `TrailMatchesStatus`, `ImplementsOrderOnce` |
| `MCTestnetConverges` | pass | `ReconcileConverges` under fairness |
| `MCTestnetTerminal` | violation | a terminal status is overwritten |
| `MCRateLimit` | pass | 2 threads, an account rule and a shared rule, failures anywhere: `TypeOK`, `WindowSpacing`, `WindowCloses` |
| `MCOperatorGates` | pass | 2 threads, four campaigns: `TypeOK`, `WindowCoversOrder`, `ApprovedBeforeRestart`, `EvidenceChain`, `EvidenceIsCurrent` |
| `MCAuthentication` | pass | 2 sessions, 3 credential changes: `TypeOK`, `SingleUse`, `MfaColumnsAgree`, `ChangeRevokesTokens`, `UserIsCreatedOnce` |
| `MCAccountState` | pass | 2 consumers, the worker, three exchanges: `TypeOK`, `BalanceAddsUp`, `PositionsCatchUp`, `SteadyReportIsRight`, `RepairReachesTarget`, `DatabaseDriftIsExplained` |
| `MCAlerts` | pass | 2 threads or the monitor, 2 channels: `TypeOK`, `AlertsAreSpaced`, `DownIsReported` |
| `MCNotificationLoss` | violation | preferences that were answered are not stored |

**Bounds.** Two threads are enough for the races of the mock path: every
conflict there is between two requests for one row (execution, position or risk
settings), and a third would meet the same row in a state the second can also
produce. One user, account and symbol make all of them meet. The three writers
of testnet orders are checked on one order, where they conflict; with one order
a reconciler's batch is a single lookup, so that a commit expires the rest of a
batch (`expired`) is modelled but not reached in the runs. `MaxMessages` 2 and `MaxReconnects` 1 let a stream see two
events, lose some in between and stop at either limit (the code's values are up
to 20 and 1). `Endings`, `Modes`, `StopUsed`, `ReplayUsed` and `CrashAllowed`
restrict an instance to the behaviour its property is about. The rate limiter
has an account rule with limit 1 and a shared rule with limit 2 and a longer
interval, so that either can refuse while the other admits.

The window campaign has two approvals, a submission beside them, the three
switches an operator needs (risk settings only change in SIMULATION mode), one
restart and time to let a window of one tick expire. The phase 4 campaign
starts with a successful read-only check and has room for four records, so that
a second review comes between an order window and the final check; the late
campaign has reviews and windows that begin at different times, so that rows
are committed in another order than their created_at; the probe campaign has
the requests that ask the exchange. Three credential changes are
one to enrol, one to disable or change the password, and one that overlaps
another; two secrets and two TOTP steps allow enrolments to replace each other and
a step to be presented again.
Two events, two consumers and three quantities let consumers be at different
events of one symbol and a row clash; a quantity of 2 with tolerance 1 and
threshold 3 gives reports of every severity. `MaxDrifts` bounds
the runs of the worker that record a drift. A throttle of 3 and an interval of
2 do not divide each other. A behaviour of `Alerts` is about the API process or
about the monitor: they share nothing but the channels. Deadlock is not checked
there, since time never stops.

**Fairness.** A request that has started goes on (weak fairness of a thread's
steps): the server runs it until it returns. Nobody is obliged to send
requests, to operate switches, or to make the exchange move. `ReconcileConverges`
further assumes what its premise says, that the account is again and again open
to reconciliation, that the operator then asks for one again (strong fairness,
since the account may be closed in between), and that the lookup of an order
does not fail every time. `WindowCloses` assumes that time passes and that a
thread that was not cut off goes on. `DownIsReported` assumes that time passes
and that the monitor's loop and its dispatch go on (each channel has a timeout);
that channels or dependencies behave, and that the monitor is not restarted for
ever, are premises of the property.

## 4. What the violations show

1. *Lost update* (`position_engine.py:83`). Two signals of one account and
   symbol, executed at once, both end FILLED while the position has one fill.
2. *Overwritten terminal status* (`order_state_machine.py:96`). The graph is
   checked on a cached status. The unique sequence number catches two sessions
   that read the same number, not one that reads the number after the other's
   commit and still decides on the old status.
3. *Preferences that are not kept* (`notification_service.py:222`). The service
   flushes, the endpoint does not commit, `get_db` closes the session: the
   answer shows values the database never gets. Marking a notification read
   ends the same way.

More weaknesses are part of the models and bound what the passing properties
claim. The helper's commit in `position_engine.py:41` makes FILLED durable
before the quantity, so a request that dies there leaves a fill no position
has. A process that stops between INCR and EXPIRE leaves a rate limit key that
never expires; `WindowCloses` excepts exactly those (`Abandoned`). The walk
over the rules counts a request in the earlier rules even if a later one
refuses it; no property judges that. Two dispatches of one alert key that
overlap both pass the throttle check (`operational_alerts.py:203`) and both
send; `AlertsAreSpaced` excepts them. And two credential changes that overlap
write the same `auth_version`, so a token handed out between their commits
survives the second; `ChangeRevokesTokens` is about changes that do not
overlap.

One more contradicts the documents. Confirming an enrolment takes no row
lock and stores the step of its own code without looking at the one stored
(`mfa.py:82-89`). Of two confirms that loaded the same pending secret, the later
one can put `mfa_last_used_step` back behind the step a login used in between,
and that step is accepted again, although "TOTP time steps cannot be replayed"
(`docs/configurable-storage.md:159`, and `tests/test_mfa.py:107-144`).
`SingleUse` excepts exactly the TOTP steps of a secret that was confirmed twice,
and says that nothing else opens a used code. Without the exception TLC refutes
it: both sessions load the pending secret, one confirms it with an early step,
the user logs in with a later one, the other confirms with an early step, and
the later code logs in once more.

Outside the models, reports and gates disagree: the readiness report asks for
`operator_mfa_enabled` (`phase4_readiness.py:69-73`), which no gate does, and
the admission report (`testnet_order_admission.py:77-132`) does not look at the
account's `is_active`, which the approval of a window requires.

The passing properties say how far the damage goes: a position is always the
sum of *some* of the FILLED executions (`PositionExplained`); in spite of 2
every audit row is an edge of the graph, the last one names the status
(`TrailMatchesStatus`), and no status is one the exchange has not reached
(`NeverAheadOfExchange`); and windows never open too early (`WindowSpacing`).

## 5. Proofs

Each module with state has a proofs module beside it. All safety properties the
passing runs check are theorems there, for every value of the constants. None
is inductive as it stands; each module defines an invariant `IndInv`, proves
that `Init` establishes it and every action keeps it (`Invariance`), and reads
the properties off. TLC checked each of them on the runs' instances too (for
`AccountState` with its quantifiers over Int restricted to the quantities in use).
There is one lemma per action and, under it, one step per conjunct the action
can disturb.

| Module | Theorems (property) | Assumptions on constants |
|---|---|---|
| `SignalExecutionProofs` | `TypeCorrectness`, `Idempotence` (`AtMostOnePlacement`), `RecordedBeforePlaced` (`PlacementIsRecorded`), `TrailCorrectness` (`TrailSound`), `EmergencyStop` (`StopCutsOff`), `DeadRowsStay` (`OrphansStayPut`), `ExecutesOnce` (`ImplementsOrderOnce`) | `OwnersAssumption`, `DataAssumption` (types), `NoRowAssumption` (`NoRow` is not a row) |
| `PositionProofs` | `PositionsAreExplained` (`PositionExplained`) | the same |
| `TestnetOrdersProofs` | `TypeCorrectness`, `SentAtMostOnce` (`AtMostOnePost`), `RecordedBeforeSent` (`PostIsRecorded`), `BackedByExchange` (`NeverAheadOfExchange`), `TrailCorrectness` (`TrailMatchesStatus`), `EmergencyStop` (`StopCutsOff`), `SubmitsOnce` (`ImplementsOrderOnce`) | `SessionsAssumption` (a session has one role), `BoundsAssumption` (types) |
| `RateLimitProofs` | `TypeCorrectness`, `Spacing` (`WindowSpacing`) | `RulesAssumption` (limits and intervals are positive) |
| `OperatorGatesProofs` | `TypeCorrectness`, `WindowCovers` (`WindowCoversOrder`), `ApprovalPrecedesRestart` (`ApprovedBeforeRestart`), `ChainHolds` (`EvidenceChain`), `EvidenceStaysCurrent` (`EvidenceIsCurrent`) | `GatesAssumption` (types, a window has a positive length), `EarlierRowsAssumption` (rows present at the start were written by the same gates in an earlier process) |
| `AuthenticationProofs` | `TypeCorrectness`, `CodesAreSingleUse` (`SingleUse`), `ColumnsAgree` (`MfaColumnsAgree`), `TokensAreRevoked` (`ChangeRevokesTokens`), `CreatedOnce` (`UserIsCreatedOnce`) | `AuthenticationAssumption` (types), `AbsenceAssumption` (no user is not a user) |
| `AccountStateProofs` | `TypeCorrectness`, `BalancesAddUp` (`BalanceAddsUp`), `CatchesUp` (`PositionsCatchUp`), `ReportsAreRight` (`SteadyReportIsRight`), `DatabaseDriftHasACause` (`DatabaseDriftIsExplained`), `RepairsAreRight` (`RepairReachesTarget`) | `ReconciliationAssumption`, `AccountStateAssumption` (types) |
| `AlertsProofs` | `TypeCorrectness`, `Spacing` (`AlertsAreSpaced`) | `AlertsAssumption` (positive times, the monitor is no request thread) |

**Signal execution.** `AtMostOnePlacement` depends on who may still place an
order. `IndInv` adds: a thread at work has a job (`Busy`); a thread past the
INSERT owns its execution, no two own the same one, an orphaned one has no owner
(`Ownership`); the owner's control point fixes status and number of placements
(`OwnerProgress`); a placed row is SUBMITTED or FILLED and a FILLED row was
placed (`Rows`); while `quiet`, all flags are off, and a thread between the risk
check's two reads that began after the stop holds settings that are off
(`FlagsOff`). The refinement needs no more: a step changes the record of at most
the execution its thread owns, and `OwnerProgress` tells which abstract step
that is.

**Positions.** `PositionInv` says that every position, and every quantity a
request has read and is about to add to, is the sum of FILLED executions that
nobody works on any more (`Done`), and that a request adds what its execution
records. `Done` only grows and its quantities are never changed, so a quantity
stays explained however stale it is. The execution of a request that commits a
fill is not in `Done` before and is afterwards, so it is counted once. That
adding an element to a set adds its value to the sum is proved from the
library's recursive definition without induction: of the finite sets for which
it fails, take a smallest.

**Testnet orders.** A row for which no order was sent is SUBMITTED, has the
three initial audit rows and is its submitter's alone (`Unsent`, `Ownership`);
that gives at most one request and the refinement. Whatever any session is about
to write, and whatever is still on a stream's wire, the exchange has reached
(`Backed`), and the exchange only moves forward. So `NeverAheadOfExchange` holds
although the cached status a writer decided on may be old, and every audit row
is an edge of the graph although consecutive rows need not meet.

**Rate limiter.** A key that does not exist was created at least an interval ago
(`Gone`); one with an expiry will be an interval old by then (`Closing`); a
thread about to send EXPIRE has a key that exists without one (`Opener`), and is
alone with that key (`OneOpener`).

**Gates.** The log only grows, so a citation stays good. An approval was
recorded while the adapters were off and the adapters change with a restart
only (`ApprovalsOK`); a submission that has got past the account check knows
that they are on (`RequestOK`), and so goes by an approval of an earlier
process. What a request could see when it began is still on record when it
looks for evidence (`seen` never exceeds the log), so the row `LatestGood`
returns, the newest of more rows, is not superseded by any of them, and rows
committed since do not change that (`Current`).

**Authentication.** While a login holds the lock, its row is the current one
(`LoginOK`), since every UPDATE waits. Codes that may still be accepted are not
among the spent ones (`CodesOK`): recovery codes are new with every confirm, and
a spent TOTP step of a secret confirmed once is not above the last used one.
Until two changes overlap, `auth_version`
counts the changes, in the row, in every token and in every row a change has
loaded (`VersionsOK`).

**Account state.** A row that differs from the exchange has a consumer that will
still write it (`CatchingUp`): it holds a move of the symbol, other than one
whose quantity it found in the row, in which case SQLAlchemy emits no UPDATE.
The last move of a symbol a consumer holds is the exchange's last
(`LastMoveOK`). The worker's report is about quantities that were seen, and
these are the present ones if nothing moved (`WorkerOK`); with `CatchingUp`, a
difference it shows between exchange and database is that of a row still to be
written or of a lost event. The sums over the
entries of a symbol, one or two legs, are unfolded from the library's
definition.

**Alerts.** Unless dispatches of a key overlapped, one in flight is alone and
the last that began (`InFlight`), and a key not in flight has the time of its
last dispatch stored (`Stored`).

Only model-checked: the liveness properties `SettlesOrOrphaned`,
`ReconcileConverges`, `WindowCloses` and `DownIsReported` (fairness is outside
the prover), and the three violations, which are counterexamples.

## 6. Plan

Every module of the system's logic is modelled and its safety proved. What is
left to prove are the steps of the liveness arguments that need no fairness:

1. `SignalExecution`: every step of an owner moves its control point forward or
   creates a row that is never removed, the measure behind `SettlesOrOrphaned`.
2. `TestnetOrders`: a lookup that succeeds leaves the row at the exchange's
   terminal status or at one from which the next lookup can reach it, the step
   behind `ReconcileConverges`.
3. `RateLimit`: a key with an expiry loses one unit of it with each tick and no
   step but a new window adds to it, the step behind `WindowCloses`.

## 7. Not modelled

Pure I/O and formatting: signing and formatting of exchange requests, the
websocket wire and listen keys, the public market data proxies, `pg_dump` and
`pg_restore` command lines, storage path parsing, the alert smoke test, the
frontend, the integration scripts. Read-only queries (observability) and reports
(readiness, admission, order window plan). Account
permissions: rows that nothing reads. Hashing, encryption and token signatures.
The in-memory rate limit store: the
singleton is built with `create_runtime_rate_limit_service()` and so uses Redis
(`docs/phase-3-redis-rate-limit-counters.md` still describes an in-memory
default), and only tests construct the service without a store.
`PROJECT.json` lists every component with its status, and the hazards no
property covers, with the reason. One of them
deserves a word: after a transport timeout a testnet execution is FAILED, a
terminal status that reconciliation does not look up, although the order may
exist on the exchange. No text in the repository says what is intended, so the
models record the behaviour and no property judges it.
