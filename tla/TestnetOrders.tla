--------------------------- MODULE TestnetOrders ---------------------------
(***************************************************************************)
(* The life of a TESTNET order: submit_testnet_order (api/v1/orders.py)    *)
(* with the persistence service it calls, the private REST reconciliation  *)
(* and the private user stream, all running at once over one database and  *)
(* one exchange.  The three write the same row of order_executions, each   *)
(* from a status it has read earlier:                                      *)
(*   - a submitter keeps the object it inserted across the HTTP call;      *)
(*   - the reconciler keeps the objects it listed across the REST lookup;  *)
(*   - the stream handler reads the row once per event.                    *)
(* transition_order_execution checks the status graph on that cached       *)
(* status, reads the next sequence_number, and the commit then writes      *)
(* status and audit row.  Only the unique (execution, sequence_number)     *)
(* stands between two writers.                                             *)
(*                                                                         *)
(* Abstracted: one account, with credentials and not removed; an order is  *)
(* its client_order_id; whether the approval window and the rate limiter   *)
(* let a request through is left open (either answer, at any time); the    *)
(* limits of the risk settings are a constant of the order.                *)
(***************************************************************************)
EXTENDS OrderStateMachine, FiniteSets

CONSTANTS
    Orders,        \* client_order_id values
    Submitters,    \* threads in POST /orders/testnet/submit
    Reconcilers,   \* threads in POST .../order-reconciliation
    Streams,       \* threads in POST .../user-stream-consume
    LimitsPass,    \* [Orders -> BOOLEAN]: the limits of check_order_risk
    MaxMessages,   \* max_messages of a stream request
    MaxReconnects, \* max_reconnect_attempts of its consumer
    Endings,       \* how the exchange may end an order in this instance
    StopUsed,      \* whether an operator uses the emergency stop
    Modes,         \* the account modes an operator chooses from
    ReplayUsed,    \* whether clients send a client_order_id again
    NoOrder,
    CrashAllowed

AccountMode == {"SIMULATION", "TESTNET"}

Sessions == Submitters \cup Reconcilers \cup Streams

ASSUME SessionsAssumption ==
    /\ Submitters \cap Reconcilers = {}
    /\ Submitters \cap Streams = {}
    /\ Reconcilers \cap Streams = {}

ASSUME BoundsAssumption ==
    /\ LimitsPass \in [Orders -> BOOLEAN]
    /\ MaxMessages \in Nat \ {0}
    /\ MaxReconnects \in Nat
    /\ NoOrder \notin Orders
    /\ Endings \subseteq {"FILLED", "CANCELED", "REJECTED", "EXPIRED"}
    /\ Modes \subseteq AccountMode
    /\ StopUsed \in BOOLEAN /\ ReplayUsed \in BOOLEAN
    /\ CrashAllowed \in BOOLEAN

VARIABLES
    stop,      \* system_controls.emergency_stop_enabled
    mode,      \* exchange_accounts.account_mode
    enabled,   \* exchange_accounts.trading_enabled
    riskOn,    \* risk_settings.trading_enabled (FALSE: no row yet, too)
    status,    \* order_executions.status
    trail,     \* order_execution_transitions
    ex,        \* what the exchange says of each order
    posts,     \* order requests sent to the exchange
    wire,      \* events sent to an open stream and not yet received
    pc, loc,   \* control point and local values of each session
    quiet      \* stop on, no flag switched on again since (history)

flags == <<stop, mode, enabled, riskOn, quiet>>
rows  == <<status, trail>>
exch  == <<ex, posts>>
vars  == <<flags, rows, exch, wire, pc, loc>>

\* Order statuses of the exchange (Binance names); "NONE": no such order.
ExchangeStatus ==
    {"NONE", "NEW", "PARTIALLY_FILLED", "FILLED", "CANCELED", "REJECTED",
     "EXPIRED"}

\* External: how an order moves on the exchange.
ExchangeGraph ==
    [from \in ExchangeStatus |->
        CASE from = "NEW" -> {"PARTIALLY_FILLED"} \cup Endings
          [] from = "PARTIALLY_FILLED" -> Endings \ {"REJECTED"}
          [] OTHER -> {}]

\* normalize_testnet_user_stream_order_event, normalize_testnet_rest_order_status.
normalize(raw) ==
    CASE raw = "NEW"      -> "ACCEPTED"
      [] raw = "CANCELED" -> "CANCELLED"
      [] raw = "EXPIRED"  -> "TIMEOUT"
      [] OTHER            -> raw

\* Mutant: partially filled orders are not looked up any more.
PendingWithoutPartial == {"SUBMITTED", "ACCEPTED"}

PENDING_STATUSES == {"SUBMITTED", "ACCEPTED", "PARTIALLY_FILLED"}

PCs == {"idle", "stop_check", "account", "gate", "lookup", "risk", "insert",
        "prepare", "post", "answer", "list", "pick", "rest", "connect",
        "listen", "seq", "commit"}

StatusOrAbsent == OrderExecutionStatus \cup {Absent}

\* What a request holds in Python locals and in its session's identity map.
Locals ==
    [order  : Orders \cup {NoOrder},
     flag   : BOOLEAN,          \* gate and risk check passed so far
     acked  : BOOLEAN,          \* the exchange took the order
     cached : StatusOrAbsent,   \* execution.status in the session
     to     : StatusOrAbsent,   \* pending status
     seq    : Nat,              \* pending sequence_number
     late   : BOOLEAN,          \* risk settings read after the stop (history)
     todo   : SUBSET Orders,    \* listed executions not yet looked up
     listed : [Orders -> StatusOrAbsent],
     expired : BOOLEAN,         \* a commit expired the listed objects
     msgs   : Nat, reconnects : Nat]

NoLocals ==
    [order |-> NoOrder, flag |-> FALSE, acked |-> FALSE, cached |-> Absent,
     to |-> Absent, seq |-> 0, late |-> FALSE, todo |-> {},
     listed |-> [o \in Orders |-> Absent], expired |-> FALSE,
     msgs |-> 0, reconnects |-> 0]

TypeOK ==
    /\ stop \in BOOLEAN /\ enabled \in BOOLEAN /\ riskOn \in BOOLEAN
    /\ quiet \in BOOLEAN
    /\ mode \in AccountMode
    /\ status \in [Orders -> StatusOrAbsent]
    /\ trail \in [Orders -> Seq(Transition)]
    /\ ex \in [Orders -> ExchangeStatus]
    /\ posts \in [Orders -> Nat]
    /\ wire \in [Streams -> Seq(Orders \X ExchangeStatus)]
    /\ pc \in [Sessions -> PCs]
    /\ loc \in [Sessions -> Locals]

Init ==
    /\ stop = FALSE
    /\ mode \in Modes
    /\ enabled = FALSE
    /\ riskOn \in BOOLEAN
    /\ quiet = FALSE
    /\ status = [o \in Orders |-> Absent]
    /\ trail = [o \in Orders |-> <<>>]
    /\ ex = [o \in Orders |-> "NONE"]
    /\ posts = [o \in Orders |-> 0]
    /\ wire = [c \in Streams |-> <<>>]
    /\ pc = [p \in Sessions |-> "idle"]
    /\ loc = [p \in Sessions |-> NoLocals]
-----------------------------------------------------------------------------
Goto(p, label) == pc' = [pc EXCEPT ![p] = label]

\* The request ends, by a response or by an exception: the session closes.
Return(p) == Goto(p, "idle") /\ loc' = [loc EXCEPT ![p] = NoLocals]

\* A socket that is open receives the exchange's events.
Open(c) == pc[c] \in {"listen", "seq", "commit"}

Broadcast(o, st) ==
    wire' = [c \in Streams |->
                IF Open(c) THEN Append(wire[c], <<o, st>>) ELSE wire[c]]

Hangup(c) == wire' = [wire EXCEPT ![c] = <<>>]
-----------------------------------------------------------------------------
(***************************************************************************)
(* Operators and the exchange.                                             *)
(***************************************************************************)
update_account(m, e) ==
    /\ mode' = m
    /\ enabled' = e
    /\ quiet' = (quiet /\ ~e)
    /\ UNCHANGED <<stop, riskOn, rows, exch, wire, pc, loc>>

\* PATCH /risk-settings is refused unless the account is in SIMULATION mode.
patch_risk_settings(e) ==
    /\ mode = "SIMULATION"
    /\ riskOn' = e
    /\ quiet' = (quiet /\ ~e)
    /\ UNCHANGED <<stop, mode, enabled, rows, exch, wire, pc, loc>>

activate_emergency_stop ==
    /\ StopUsed
    /\ stop' = TRUE
    /\ enabled' = FALSE
    /\ riskOn' = FALSE
    /\ quiet' = TRUE
    /\ UNCHANGED <<mode, rows, exch, wire, pc, loc>>

deactivate_emergency_stop ==
    /\ stop' = FALSE
    /\ quiet' = FALSE
    /\ UNCHANGED <<mode, enabled, riskOn, rows, exch, wire, pc, loc>>

\* External: matching, cancellation, expiry.
ExchangeMove(o, st) ==
    /\ st \in ExchangeGraph[ex[o]]
    /\ ex' = [ex EXCEPT ![o] = st]
    /\ Broadcast(o, st)
    /\ UNCHANGED <<flags, rows, posts, pc, loc>>
-----------------------------------------------------------------------------
(***************************************************************************)
(* submit_testnet_order                                                    *)
(***************************************************************************)
submit_testnet_order(s, o) ==
    /\ pc[s] = "idle"
    /\ ReplayUsed \/ status[o] = Absent
    /\ Goto(s, "stop_check")
    /\ loc' = [loc EXCEPT ![s].order = o]
    /\ UNCHANGED <<flags, rows, exch, wire>>

assert_new_orders_allowed(s) ==
    /\ pc[s] = "stop_check"
    /\ \/ stop /\ Return(s)
       \/ ~stop /\ Goto(s, "account") /\ UNCHANGED loc
    /\ UNCHANGED <<flags, rows, exch, wire>>

\* build_testnet_order_api_context reads the account, which the context keeps.
ReadAccount(s) ==
    /\ pc[s] = "account"
    /\ loc' = [loc EXCEPT ![s].flag = (mode = "TESTNET" /\ enabled)]
    /\ Goto(s, "gate")
    /\ UNCHANGED <<flags, rows, exch, wire>>

\* Its read of the risk settings, check_testnet_order_gate, and the window
\* authorization, which may refuse.
check_testnet_order_gate(s) ==
    /\ pc[s] = "gate"
    /\ \/ Return(s)
       \/ loc[s].flag /\ riskOn /\ Goto(s, "lookup") /\ UNCHANGED loc
    /\ UNCHANGED <<flags, rows, exch, wire>>

\* create_or_get_testnet_submission_execution: a replay, or a conflict.
FindExisting(s) ==
    /\ pc[s] = "lookup"
    /\ \/ status[loc[s].order] # Absent /\ Return(s)
       \/ status[loc[s].order] = Absent /\ Goto(s, "risk") /\ UNCHANGED loc
    /\ UNCHANGED <<flags, rows, exch, wire>>

\* Mutant: the risk settings read by the gate are used again.
CheckRiskOnGateSettings(s) ==
    /\ pc[s] = "risk"
    /\ loc' = [loc EXCEPT ![s].flag = LimitsPass[loc[s].order],
                          ![s].late = quiet]
    /\ Goto(s, "insert")
    /\ UNCHANGED <<flags, rows, exch, wire>>

\* check_order_risk: the account is the context's, the settings are read anew.
CheckRisk(s) ==
    /\ pc[s] = "risk"
    /\ loc' = [loc EXCEPT ![s].flag = riskOn /\ LimitsPass[loc[s].order],
                          ![s].late = quiet]
    /\ Goto(s, "insert")
    /\ UNCHANGED <<flags, rows, exch, wire>>

\* The rows create_or_get_testnet_submission_execution adds.
SubmittedTrail ==
    add_transition(
        add_transition(record_initial_order_state, "CREATED", "RISK_PASSED"),
        "RISK_PASSED", "SUBMITTED")
RejectedTrail ==
    add_transition(record_initial_order_state, "CREATED", "REJECTED")

\* Mutant: no unique constraint on client_order_id.
InsertExecutionUnchecked(s) ==
    /\ pc[s] = "insert"
    /\ LET o == loc[s].order
       IN /\ status' = [status EXCEPT ![o] = "SUBMITTED"]
          /\ trail' = [trail EXCEPT ![o] = SubmittedTrail]
          /\ Goto(s, "prepare")
          /\ UNCHANGED loc
    /\ UNCHANGED <<flags, exch, wire>>

\* Mutant: the rows are flushed, the commit is left to the end.
InsertExecutionUncommitted(s) ==
    /\ pc[s] = "insert"
    /\ \/ loc[s].flag /\ Goto(s, "prepare") /\ UNCHANGED loc
       \/ ~loc[s].flag /\ Return(s)
    /\ UNCHANGED <<flags, rows, exch, wire>>

\* Mutant: a row the risk check rejected may be replaced.
InsertExecutionOverRejected(s) ==
    /\ pc[s] = "insert"
    /\ LET o == loc[s].order
       IN \/ status[o] \notin {Absent, "REJECTED"} /\ Return(s) /\ UNCHANGED rows
          \/ /\ status[o] \in {Absent, "REJECTED"} /\ loc[s].flag
             /\ status' = [status EXCEPT ![o] = "SUBMITTED"]
             /\ trail' = [trail EXCEPT ![o] = SubmittedTrail]
             /\ Goto(s, "prepare")
             /\ UNCHANGED loc
          \/ /\ status[o] \in {Absent, "REJECTED"} /\ ~loc[s].flag
             /\ status' = [status EXCEPT ![o] = "REJECTED"]
             /\ trail' = [trail EXCEPT ![o] = RejectedTrail]
             /\ Return(s)
    /\ UNCHANGED <<flags, exch, wire>>

\* One commit stores the execution and its first transitions.  client_order_id
\* is unique: the second INSERT of an order raises IntegrityError.
InsertExecution(s) ==
    /\ pc[s] = "insert"
    /\ LET o == loc[s].order
       IN \/ status[o] # Absent /\ Return(s) /\ UNCHANGED rows
          \/ /\ status[o] = Absent /\ loc[s].flag
             /\ status' = [status EXCEPT ![o] = "SUBMITTED"]
             /\ trail' = [trail EXCEPT ![o] = SubmittedTrail]
             /\ Goto(s, "prepare")
             /\ UNCHANGED loc
          \/ /\ status[o] = Absent /\ ~loc[s].flag
             /\ status' = [status EXCEPT ![o] = "REJECTED"]
             /\ trail' = [trail EXCEPT ![o] = RejectedTrail]
             /\ Return(s)
    /\ UNCHANGED <<flags, exch, wire>>

\* record_testnet_submission_accepted and ..._failure up to the sequence
\* number: both give up unless the cached status is SUBMITTED.
Record(s, cached, to) ==
    \/ /\ cached = "SUBMITTED"
       /\ loc' = [loc EXCEPT ![s].cached = cached, ![s].to = to]
       /\ Goto(s, "seq")
    \/ cached # "SUBMITTED" /\ Return(s)

\* db.refresh(execution), prepare_testnet_order_request (a ValueError leaves
\* the row as it is) and the rate limiter (which may refuse).
Prepare(s) ==
    /\ pc[s] = "prepare"
    /\ LET cached == status[loc[s].order]
       IN \/ Return(s)
          \/ Record(s, cached, "FAILED")
          \/ loc' = [loc EXCEPT ![s].cached = cached] /\ Goto(s, "post")
    /\ UNCHANGED <<flags, rows, exch, wire>>

\* execute_prepared_request: the request is sent, and taken by the exchange or
\* refused or lost.
Post(s) ==
    /\ pc[s] = "post"
    /\ LET o == loc[s].order
       IN /\ posts' = [posts EXCEPT ![o] = @ + 1]
          /\ \/ /\ ex[o] = "NONE"
                /\ ex' = [ex EXCEPT ![o] = "NEW"]
                /\ Broadcast(o, "NEW")
                /\ loc' = [loc EXCEPT ![s].acked = TRUE]
             \/ UNCHANGED <<ex, wire, loc>>
    /\ Goto(s, "answer")
    /\ UNCHANGED <<flags, rows>>

\* Mutant: the response is not searched for a rejection.
AnswerOptimistic(s) ==
    /\ pc[s] = "answer"
    /\ Record(s, loc[s].cached, "ACCEPTED")
    /\ UNCHANGED <<flags, rows, exch, wire>>

\* The answer.  A timeout or transport error says nothing about the order; a
\* body that is not JSON is a ValueError, which leaves the row as it is.
Answer(s) ==
    /\ pc[s] = "answer"
    /\ \/ loc[s].acked /\ Record(s, loc[s].cached, "ACCEPTED")
       \/ Record(s, loc[s].cached, "FAILED")
       \/ Return(s)
    /\ UNCHANGED <<flags, rows, exch, wire>>
-----------------------------------------------------------------------------
(***************************************************************************)
(* TestnetOrderLifecycleProcessor.apply, shared by reconciler and stream.  *)
(***************************************************************************)
\* apply returns: its locals are gone, the consumer or the reconciler goes on.
Proceed(p, l) ==
    /\ loc' = [loc EXCEPT ![p] = [l EXCEPT !.order = NoOrder, !.to = Absent,
                                           !.cached = Absent, !.seq = 0]]
    /\ Goto(p, IF p \in Reconcilers THEN "pick" ELSE "listen")

\* Given the status in the session: no such execution, a duplicate, a stale or
\* invalid event (nothing is written), or a transition.
apply(p, l, to) ==
    \/ /\ l.cached = Absent \/ to = l.cached \/ ~CanTransition(l.cached, to)
       /\ Proceed(p, l)
    \/ /\ l.cached # Absent /\ to # l.cached /\ CanTransition(l.cached, to)
       /\ loc' = [loc EXCEPT ![p] = [l EXCEPT !.to = to]]
       /\ Goto(p, "seq")

\* _next_sequence_number
ReadSeq(p) ==
    /\ pc[p] = "seq"
    /\ loc' = [loc EXCEPT ![p].seq = Len(trail[loc[p].order]) + 1]
    /\ Goto(p, "commit")
    /\ UNCHANGED <<flags, rows, exch, wire>>

\* db.commit(): the UPDATE of the status is unconditional, the INSERT of the
\* audit row needs a free sequence_number.
WriteTransition(o, l) ==
    /\ l.seq = Len(trail[o]) + 1
    /\ status' = [status EXCEPT ![o] = l.to]
    /\ trail' = [trail EXCEPT ![o] = add_transition(@, l.cached, l.to)]

\* What becomes of the session after its commit.
AfterCommit(p) ==
    /\ \/ p \in Submitters /\ Return(p)
       \/ p \in Reconcilers /\ Proceed(p, [loc[p] EXCEPT !.expired = TRUE])
       \/ p \in Streams /\ Proceed(p, loc[p])
    /\ UNCHANGED wire

\* Mutant: the status is written, the clashing audit row is skipped.
CommitWithoutConstraint(p) ==
    /\ pc[p] = "commit"
    /\ LET o == loc[p].order
       IN /\ status' = [status EXCEPT ![o] = loc[p].to]
          /\ trail' = IF loc[p].seq = Len(trail[o]) + 1
                      THEN [trail EXCEPT ![o] =
                               add_transition(@, loc[p].cached, loc[p].to)]
                      ELSE trail
          /\ AfterCommit(p)
    /\ UNCHANGED <<flags, exch>>

Commit(p) ==
    /\ pc[p] = "commit"
    /\ \/ WriteTransition(loc[p].order, loc[p]) /\ AfterCommit(p)
       \/ /\ loc[p].seq # Len(trail[loc[p].order]) + 1   \* IntegrityError
          /\ Return(p)
          /\ IF p \in Streams THEN Hangup(p) ELSE UNCHANGED wire
          /\ UNCHANGED rows
    /\ UNCHANGED <<flags, exch>>
-----------------------------------------------------------------------------
(***************************************************************************)
(* reconcile_pending_testnet_orders                                        *)
(***************************************************************************)
\* The account must be in TESTNET mode with trading switched off.
reconcile_pending_testnet_orders(r) ==
    /\ pc[r] = "idle"
    /\ mode = "TESTNET" /\ ~enabled
    /\ Goto(r, "list")
    /\ UNCHANGED <<flags, rows, exch, wire, loc>>

\* Mutant: rows that were not listed have no remembered status.
ListPendingPartly(r) ==
    /\ pc[r] = "list"
    /\ LET open == {o \in Orders : status[o] \in PENDING_STATUSES}
       IN loc' = [loc EXCEPT ![r].listed = [o \in open |-> status[o]],
                             ![r].todo = open]
    /\ Goto(r, "pick")
    /\ UNCHANGED <<flags, rows, exch, wire>>

ListPending(r) ==
    /\ pc[r] = "list"
    /\ loc' = [loc EXCEPT ![r].listed = status,
                  ![r].todo = {o \in Orders : status[o] \in PENDING_STATUSES}]
    /\ Goto(r, "pick")
    /\ UNCHANGED <<flags, rows, exch, wire>>

\* The next execution: its status is the listed one, unless a commit of this
\* session expired it; the parameters of the lookup then load it again.
PickOrder(r, o) ==
    /\ pc[r] = "pick"
    /\ o \in loc[r].todo
    /\ loc' = [loc EXCEPT ![r].order = o, ![r].todo = @ \ {o},
                  ![r].cached = IF loc[r].expired THEN status[o]
                                ELSE loc[r].listed[o]]
    /\ Goto(r, "rest")
    /\ UNCHANGED <<flags, rows, exch, wire>>

\* The REST lookup fails (or knows no such order), or its answer is applied.
LookupFails(r) ==
    /\ pc[r] = "rest"
    /\ Proceed(r, loc[r])
    /\ UNCHANGED <<flags, rows, exch, wire>>

LookupOrder(r) ==
    /\ pc[r] = "rest"
    /\ ex[loc[r].order] # "NONE"
    /\ apply(r, loc[r], normalize(ex[loc[r].order]))
    /\ UNCHANGED <<flags, rows, exch, wire>>

\* The audit log is written.
FinishReconcile(r) ==
    /\ pc[r] = "pick"
    /\ loc[r].todo = {}
    /\ Return(r)
    /\ UNCHANGED <<flags, rows, exch, wire>>
-----------------------------------------------------------------------------
(***************************************************************************)
(* consume_bounded_testnet_user_stream                                     *)
(***************************************************************************)
consume_bounded_testnet_user_stream(c) ==
    /\ pc[c] = "idle"
    /\ mode = "TESTNET" /\ ~enabled
    /\ Goto(c, "connect")
    /\ UNCHANGED <<flags, rows, exch, wire, loc>>

\* Events the exchange sends between two connections are lost.
Reconnect(c) ==
    \/ /\ loc[c].reconnects < MaxReconnects
       /\ loc' = [loc EXCEPT ![c].reconnects = @ + 1]
       /\ Goto(c, "connect")
    \/ loc[c].reconnects >= MaxReconnects /\ Return(c)

Connect(c) ==
    /\ pc[c] = "connect"
    /\ \/ Goto(c, "listen") /\ UNCHANGED loc
       \/ Reconnect(c)
    /\ UNCHANGED <<flags, rows, exch, wire>>

\* The next event is taken off the socket and the row is read.
Receive(c) ==
    /\ pc[c] = "listen"
    /\ wire[c] # <<>>
    /\ loc[c].msgs < MaxMessages
    /\ LET o == Head(wire[c])[1]
       IN apply(c, [loc[c] EXCEPT !.order = o, !.cached = status[o],
                                  !.msgs = @ + 1],
                normalize(Head(wire[c])[2]))
    /\ wire' = [wire EXCEPT ![c] = Tail(@)]
    /\ UNCHANGED <<flags, rows, exch>>

\* An event that is not about an order (account state, a subscription answer)
\* counts as a message; one that cannot be parsed or stored ends the request.
OtherEvent(c) ==
    /\ pc[c] = "listen"
    /\ loc[c].msgs < MaxMessages
    /\ \/ /\ loc' = [loc EXCEPT ![c].msgs = @ + 1]
          /\ UNCHANGED <<pc, wire>>
       \/ Return(c) /\ Hangup(c)
    /\ UNCHANGED <<flags, rows, exch>>

MessageLimit(c) ==
    /\ pc[c] = "listen"
    /\ loc[c].msgs = MaxMessages
    /\ Return(c)
    /\ Hangup(c)
    /\ UNCHANGED <<flags, rows, exch>>

\* A receive timeout or a lost connection.
Disconnect(c) ==
    /\ pc[c] = "listen"
    /\ loc[c].msgs < MaxMessages
    /\ Reconnect(c)
    /\ Hangup(c)
    /\ UNCHANGED <<flags, rows, exch>>
-----------------------------------------------------------------------------
Crash(p) ==
    /\ CrashAllowed
    /\ pc[p] # "idle"
    /\ Return(p)
    /\ IF p \in Streams THEN Hangup(p) ELSE UNCHANGED wire
    /\ UNCHANGED <<flags, rows, exch>>

SubmitterStep(s) ==
    \/ assert_new_orders_allowed(s) \/ ReadAccount(s)
    \/ check_testnet_order_gate(s) \/ FindExisting(s) \/ CheckRisk(s)
    \/ InsertExecution(s) \/ Prepare(s) \/ Post(s) \/ Answer(s)

ReconcilerStep(r) ==
    \/ ListPending(r) \/ (\E o \in Orders : PickOrder(r, o))
    \/ LookupFails(r) \/ LookupOrder(r) \/ FinishReconcile(r)

StreamStep(c) ==
    \/ Connect(c) \/ Receive(c) \/ OtherEvent(c) \/ MessageLimit(c)
    \/ Disconnect(c)

CommitStep(p) == ReadSeq(p) \/ Commit(p)

OperatorStep ==
    \/ \E m \in Modes, e \in BOOLEAN : update_account(m, e)
    \/ \E e \in BOOLEAN : patch_risk_settings(e)
    \/ activate_emergency_stop
    \/ deactivate_emergency_stop

Next ==
    \/ OperatorStep
    \/ \E o \in Orders, st \in ExchangeStatus : ExchangeMove(o, st)
    \/ \E s \in Submitters, o \in Orders : submit_testnet_order(s, o)
    \/ \E s \in Submitters : SubmitterStep(s)
    \/ \E r \in Reconcilers :
          reconcile_pending_testnet_orders(r) \/ ReconcilerStep(r)
    \/ \E c \in Streams :
          consume_bounded_testnet_user_stream(c) \/ StreamStep(c)
    \/ \E p \in Sessions : CommitStep(p) \/ Crash(p)

Spec == Init /\ [][Next]_vars

\* A request that has started goes on; the operator keeps asking for
\* reconciliations, and the lookup does not fail for ever.
Fairness ==
    /\ \A s \in Submitters : WF_vars(SubmitterStep(s) \/ CommitStep(s))
    /\ \A r \in Reconcilers :
          /\ WF_vars(ReconcilerStep(r) \/ CommitStep(r))
          /\ SF_vars(reconcile_pending_testnet_orders(r))
          /\ \A o \in Orders :
                SF_vars(loc[r].order = o /\ LookupOrder(r))

FairSpec == Spec /\ Fairness
-----------------------------------------------------------------------------
(***************************************************************************)
(* Properties.                                                             *)
(***************************************************************************)
\* Concurrent and repeated submissions of one client_order_id, and requests
\* that die anywhere, send at most one order to the exchange.
AtMostOnePost == \A o \in Orders : posts[o] <= 1

\* An order is sent only after the SUBMITTED transition is committed, and
\* nothing removes that record.
PostIsRecorded ==
    \A o \in Orders :
        posts[o] > 0 =>
            /\ Len(trail[o]) >= 3
            /\ [i \in 1..3 |-> trail[o][i].to]
                  = <<"CREATED", "RISK_PASSED", "SUBMITTED">>

\* How the database stands to an order: refused when its row is terminal
\* without the order ever having been sent.
RecordOf(o) ==
    CASE status[o] = Absent -> "none"
      [] status[o] \in TERMINAL_ORDER_STATUSES /\ posts[o] = 0 -> "refused"
      [] OTHER -> "kept"

Once == INSTANCE OrderOnce WITH
            Orders <- Orders, sent <- posts, record <- [o \in Orders |-> RecordOf(o)]

\* Submission implements OrderOnce, whatever reconciliation writes to the row:
\* recorded, then sent at most once, and never after the row was refused.
ImplementsOrderOnce == Once!Spec

\* What the exchange must have answered for a status to be recorded.
Witnessed(to, raw) ==
    CASE to = "ACCEPTED" -> raw # "NONE"
      [] to = "PARTIALLY_FILLED" ->
            raw \in {"PARTIALLY_FILLED", "FILLED", "CANCELED", "EXPIRED"}
      [] to = "REJECTED" -> raw \in {"NONE", "REJECTED"}
      [] to \in {"FILLED", "CANCELLED", "TIMEOUT"} -> to = normalize(raw)
      [] OTHER -> TRUE

\* No writer records a status the exchange has not reached, neither as the
\* row's status nor in the trail, however stale the status it started from.
NeverAheadOfExchange ==
    \A o \in Orders : \A i \in DOMAIN trail[o] :
        Witnessed(trail[o][i].to, ex[o])

\* Whatever the three writers do to each other, every audit row is an edge of
\* the status graph and the last one names the row's status: the unique
\* sequence_number makes status and trail move together.
TrailMatchesStatus ==
    \A o \in Orders :
        status[o] # Absent =>
            /\ TrailFollowsGraph(trail[o])
            /\ trail[o][Len(trail[o])].to = status[o]

\* A submission that reads the risk settings after an emergency stop, with no
\* flag switched on again, never prepares a request to the exchange.
StopCutsOff ==
    \A s \in Submitters :
        pc[s] \in {"prepare", "post", "answer"} => ~loc[s].late

\* A terminal status is final (order_state_machine.py allows no transition
\* out of TERMINAL_ORDER_STATUSES).
TerminalIsFinal ==
    [][\A o \in Orders :
          status[o] \in TERMINAL_ORDER_STATUSES => status'[o] = status[o]]_vars

\* As long as the account is again and again open to reconciliation, an order
\* that has ended on the exchange does not stay pending in the database.
ReconcileConverges ==
    []<>(mode = "TESTNET" /\ ~enabled) =>
        \A o \in Orders :
            (ex[o] \notin {"NONE", "NEW", "PARTIALLY_FILLED"}
                /\ status[o] \notin TERMINAL_ORDER_STATUSES)
            ~> status[o] \in TERMINAL_ORDER_STATUSES
=============================================================================
