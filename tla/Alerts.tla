------------------------------- MODULE Alerts -------------------------------
(***************************************************************************)
(* Operational alerts.  Request threads of the API process report events   *)
(* through OperationalAlertRuntime, which throttles them with dictionaries *)
(* the threads share; the dependency health monitor is a process of its    *)
(* own with its own dictionary.  A dispatch checks the throttle, sends to  *)
(* every enabled channel, which takes time and may fail, and only then     *)
(* stores the time it began.                                               *)
(*                                                                         *)
(* The three dictionaries of the API process (orders, risk settings, admin *)
(* system control) never hold the same key, so one stands for all three.   *)
(*                                                                         *)
(* Times are kept as ages, capped at Throttle: that is all a comparison    *)
(* with the throttle can tell apart, and it leaves time unbounded.         *)
(* Abstracted: the text of an alert, its signature, the SMTP and HTTP      *)
(* requests (a channel works or does not).                                 *)
(***************************************************************************)
EXTENDS Integers, Sequences, FiniteSets

CONSTANTS
    Threads,         \* request threads of the API process
    Monitor,         \* the thread of the monitor
    Configs,         \* [calls : what requests report in a behaviour,
                     \*  enabled : Seq(Channels), valid, monitor : BOOLEAN]
    Channels,
    Throttle,        \* throttle_seconds
    Interval         \* interval_seconds of the monitor

ASSUME AlertsAssumption ==
    /\ Throttle \in Nat \ {0} /\ Interval \in Nat \ {0}
    /\ Monitor \notin Threads
    /\ \A c \in Configs : c.enabled \in Seq(Channels)

VARIABLES
    config,          \* the settings, fixed in a behaviour
    down,            \* dependencies that do not answer
    up,              \* channels that work
    state,           \* dispatch_state: per process, age of each key
    pc, job,         \* of each thread: control point, its dispatch
    wait,            \* seconds the monitor still sleeps
    got,             \* channels something was delivered to this second (history)
    begun,           \* like state, for dispatches that began (history)
    crowded          \* per process, keys with overlapping dispatches (history)

history == <<got, begun, crowded>>
vars == <<config, down, up, state, pc, job, wait, history>>

Actors == Threads \cup {Monitor}
Process(t) == IF t = Monitor THEN "monitor" ELSE "api"
Processes == {"api", "monitor"}
Dependencies == {"database", "redis"}
MonitorError == <<"last_monitor_error_at">>
-----------------------------------------------------------------------------
(***************************************************************************)
(* What is reported: the key of a call, <<>> when there is no alert.       *)
(***************************************************************************)
SAFE_ORDER_FAILURE_STATUSES == {"FAILED", "REJECTED", "TIMEOUT"}
SAFE_ORDER_FAILURE_TYPES ==
    {"exchange_failed", "exchange_rejected", "rate_limited", "risk_rejected",
     "timeout", "unknown"}
SAFE_EMERGENCY_STOP_SCOPES == {"account", "global"}
SAFE_EXCHANGE_NAMES == {"binance", "bybit", "mock", "okx"}
SAFE_RATE_LIMIT_SCOPES == {"account", "global", "ip"}
SAFE_RATE_LIMIT_REQUEST_CATEGORIES == {"market_data", "order", "private", "unknown"}

Safe(value, allowed) == IF value \in allowed THEN value ELSE "unknown"

order_failure_key(status, failure_type) ==
    IF status \notin SAFE_ORDER_FAILURE_STATUSES THEN <<>>
    ELSE <<"order_failure", status, Safe(failure_type, SAFE_ORDER_FAILURE_TYPES)>>

emergency_stop_key(scope) ==
    <<"emergency_stop", Safe(scope, SAFE_EMERGENCY_STOP_SCOPES)>>

rate_limit_key(exchange, scope, category) ==
    <<"rate_limit", Safe(exchange, SAFE_EXCHANGE_NAMES),
      Safe(scope, SAFE_RATE_LIMIT_SCOPES),
      Safe(category, SAFE_RATE_LIMIT_REQUEST_CATEGORIES)>>

reconciliation_drift_key(status, severity) ==
    IF status # "DRIFT_DETECTED" THEN <<>>
    ELSE <<"reconciliation_drift",
           IF severity \in {"WARNING", "CRITICAL"} THEN severity ELSE "WARNING">>

\* dependency_health_check answers "degraded" when anything is down.
dependency_health_key == IF down = {} THEN <<>> ELSE <<"dependency_health">>

AlertKey(call) ==
    CASE call[1] = "order_failure"  -> order_failure_key(call[2], call[3])
      [] call[1] = "emergency_stop" -> emergency_stop_key(call[2])
      [] call[1] = "rate_limit"     -> rate_limit_key(call[2], call[3], call[4])
      [] OTHER -> reconciliation_drift_key(call[2], call[3])

\* The keys a dictionary can ever hold.
SafeKeys ==
    {<<"order_failure", s, f>> :
        s \in SAFE_ORDER_FAILURE_STATUSES, f \in SAFE_ORDER_FAILURE_TYPES}
    \cup {<<"emergency_stop", s>> :
            s \in SAFE_EMERGENCY_STOP_SCOPES \cup {"unknown"}}
    \cup {<<"rate_limit", e, s, c>> :
            e \in SAFE_EXCHANGE_NAMES \cup {"unknown"},
            s \in SAFE_RATE_LIMIT_SCOPES \cup {"unknown"},
            c \in SAFE_RATE_LIMIT_REQUEST_CATEGORIES}
    \cup {<<"reconciliation_drift", s>> : s \in {"WARNING", "CRITICAL"}}
    \cup {<<"dependency_health">>, MonitorError}
-----------------------------------------------------------------------------
\* A dictionary: ages of some keys.
IsDictionary(d) ==
    DOMAIN d \subseteq SafeKeys /\ \A k \in DOMAIN d : d[k] \in 0..Throttle

Job == [key : SafeKeys \cup {<<>>}, age : 0..Throttle, todo : Seq(Channels)]
NoJob == [key |-> <<>>, age |-> 0, todo |-> <<>>]
Empty == [k \in {} |-> 0]
Put(d, k, age) == [x \in DOMAIN d \cup {k} |-> IF x = k THEN age ELSE d[x]]

TypeOK ==
    /\ config \in Configs
    /\ down \subseteq Dependencies
    /\ up \subseteq Channels /\ got \subseteq Channels
    /\ DOMAIN state = Processes /\ DOMAIN begun = Processes
    /\ \A p \in Processes : IsDictionary(state[p]) /\ IsDictionary(begun[p])
    /\ crowded \in [Processes -> SUBSET SafeKeys]
    /\ pc \in [Actors -> {"idle", "sending"}]
    /\ job \in [Actors -> Job]
    /\ \A t \in Actors : pc[t] = "sending" <=> job[t].key # <<>>
    /\ wait \in 0..Interval

Init ==
    /\ config \in Configs
    /\ down = {} /\ up = Channels /\ wait = 0
    /\ state = [p \in Processes |-> Empty]
    /\ pc = [t \in Actors |-> "idle"]
    /\ job = [t \in Actors |-> NoJob]
    /\ got = {} /\ begun = state /\ crowded = [p \in Processes |-> {}]
-----------------------------------------------------------------------------
(***************************************************************************)
(* One dispatch.                                                           *)
(***************************************************************************)
IsThrottled(p, key) == key \in DOMAIN state[p] /\ state[p][key] < Throttle

\* Mutant: a call that is no alert is not told apart.
QuietIfThrottled(p, key) == IsThrottled(p, key)

\* maybe_send_...: nothing is sent.
Quiet(p, key) == key = <<>> \/ IsThrottled(p, key)

Dispatch(t, key) ==
    LET p == Process(t)
    IN /\ pc' = [pc EXCEPT ![t] = "sending"]
       /\ job' = [job EXCEPT ![t] =
                     [key |-> key, age |-> 0, todo |-> config.enabled]]
       /\ begun' = [begun EXCEPT ![p] = Put(@, key, 0)]
       /\ crowded' = [crowded EXCEPT ![p] =
                        IF \E u \in Actors \ {t} :
                              Process(u) = p /\ job[u].key = key
                        THEN @ \cup {key} ELSE @]
       /\ UNCHANGED <<config, down, up, state, got>>

\* notify_order_failure, notify_emergency_stop_enabled, notify_rate_limit,
\* notify_reconciliation_drift, called by a request.  Quiet calls, and those
\* for which send_external_alert rejects the settings, which the runtime
\* swallows, change nothing.
Notify(t, call) ==
    /\ pc[t] = "idle"
    /\ ~Quiet("api", AlertKey(call)) /\ config.valid
    /\ Dispatch(t, AlertKey(call))
    /\ UNCHANGED wait

\* Mutant: the exception of a channel ends the loop.
SendChannelUnguarded(t) ==
    /\ pc[t] = "sending" /\ job[t].todo # <<>>
    /\ LET ch == Head(job[t].todo)
       IN /\ got' = IF ch \in up THEN got \cup {ch} ELSE got
          /\ job' = [job EXCEPT ![t].todo = IF ch \in up THEN Tail(@) ELSE <<>>]
    /\ UNCHANGED <<config, down, up, state, pc, wait, begun, crowded>>

\* The loop of send_external_alert: a channel that fails does not stop the next.
SendChannel(t) ==
    /\ pc[t] = "sending" /\ job[t].todo # <<>>
    /\ LET ch == Head(job[t].todo)
       IN got' = IF ch \in up THEN got \cup {ch} ELSE got
    /\ job' = [job EXCEPT ![t].todo = Tail(@)]
    /\ UNCHANGED <<config, down, up, state, pc, wait, begun, crowded>>

\* Mutant: the time is stored only after a delivery in this second.
FinishIfDelivered(t) ==
    /\ pc[t] = "sending" /\ job[t].todo = <<>>
    /\ state' = [state EXCEPT ![Process(t)] =
                    IF got # {} THEN Put(@, job[t].key, job[t].age) ELSE @]
    /\ pc' = [pc EXCEPT ![t] = "idle"]
    /\ job' = [job EXCEPT ![t] = NoJob]
    /\ wait' = IF t = Monitor THEN Interval ELSE wait
    /\ UNCHANGED <<config, down, up, history>>

\* state[key] = now_seconds, the time the dispatch began, delivered or not.
Finish(t) ==
    /\ pc[t] = "sending" /\ job[t].todo = <<>>
    /\ state' = [state EXCEPT ![Process(t)] = Put(@, job[t].key, job[t].age)]
    /\ pc' = [pc EXCEPT ![t] = "idle"]
    /\ job' = [job EXCEPT ![t] = NoJob]
    /\ wait' = IF t = Monitor THEN Interval ELSE wait
    /\ UNCHANGED <<config, down, up, history>>
-----------------------------------------------------------------------------
(***************************************************************************)
(* run_dependency_health_monitor_forever                                   *)
(***************************************************************************)
run_dependency_health_monitor_once ==
    /\ pc[Monitor] = "idle" /\ wait = 0
    /\ \/ /\ Quiet("monitor", dependency_health_key) \/ ~config.monitor
          /\ wait' = Interval
          /\ UNCHANGED <<config, down, up, state, pc, job, history>>
       \/ /\ ~Quiet("monitor", dependency_health_key) /\ config.monitor
          /\ IF config.valid
             THEN Dispatch(Monitor, dependency_health_key) /\ UNCHANGED wait
             ELSE /\ state' = [state EXCEPT !["monitor"] = Put(@, MonitorError, 0)]
                  /\ wait' = Interval
                  /\ UNCHANGED <<config, down, up, pc, job, history>>

\* Dependencies and channels come and go, where somebody looks at them.
DependencyChanges(d) ==
    /\ config.monitor
    /\ down' = IF d \in down THEN down \ {d} ELSE down \cup {d}
    /\ UNCHANGED <<config, up, state, pc, job, wait, history>>

ChannelChanges(ch) ==
    /\ \E i \in DOMAIN config.enabled : config.enabled[i] = ch
    /\ up' = IF ch \in up THEN up \ {ch} ELSE up \cup {ch}
    /\ UNCHANGED <<config, down, state, pc, job, wait, history>>

\* A process is restarted: its dictionary and its dispatches are gone.
Restart(p) ==
    LET mine == {t \in Actors : Process(t) = p}
    IN /\ state' = [state EXCEPT ![p] = Empty]
       /\ begun' = [begun EXCEPT ![p] = Empty]
       /\ crowded' = [crowded EXCEPT ![p] = {}]
       /\ pc' = [t \in Actors |-> IF t \in mine THEN "idle" ELSE pc[t]]
       /\ job' = [t \in Actors |-> IF t \in mine THEN NoJob ELSE job[t]]
       /\ wait' = IF p = "monitor" THEN 0 ELSE wait
       /\ UNCHANGED <<config, down, up, got>>

Older(age) == IF age = Throttle THEN Throttle ELSE age + 1
OlderDict(d) == [k \in DOMAIN d |-> Older(d[k])]

Tick ==
    /\ state' = [p \in Processes |-> OlderDict(state[p])]
    /\ begun' = [p \in Processes |-> OlderDict(begun[p])]
    /\ job' = [t \in Actors |->
                  IF pc[t] = "sending" THEN [job[t] EXCEPT !.age = Older(@)]
                                       ELSE job[t]]
    /\ wait' = IF wait = 0 THEN 0 ELSE wait - 1
    /\ got' = {}
    /\ UNCHANGED <<config, down, up, pc, crowded>>
-----------------------------------------------------------------------------
DispatchStep(t) == SendChannel(t) \/ Finish(t)

Next ==
    \/ \E t \in Threads, call \in config.calls : Notify(t, call)
    \/ \E t \in Actors : DispatchStep(t)
    \/ run_dependency_health_monitor_once
    \/ \E d \in Dependencies : DependencyChanges(d)
    \/ \E ch \in Channels : ChannelChanges(ch)
    \/ \E p \in Processes : Restart(p)
    \/ Tick

Spec == Init /\ [][Next]_vars

\* Time passes and the monitor's loop goes on; nothing is assumed of requests.
FairSpec ==
    /\ Spec
    /\ WF_vars(Tick)
    /\ WF_vars(run_dependency_health_monitor_once)
    /\ WF_vars(DispatchStep(Monitor))
-----------------------------------------------------------------------------
(***************************************************************************)
(* Properties.                                                             *)
(***************************************************************************)
\* Two alerts of one key from one process begin at least the throttle apart,
\* delivered or not, unless dispatches of that key overlapped (both had found
\* the key free) since the process started.
AlertsAreSpaced ==
    [][\A t \in Actors :
          LET p == Process(t)
              key == job'[t].key
          IN pc[t] = "idle" /\ pc'[t] = "sending" /\ key \in DOMAIN begun[p]
                => key \in crowded'[p] \/ begun[p][key] >= Throttle]_vars

\* A channel that works hears again and again while some dependency is down,
\* not always the same one, whichever other channels fail and however the first
\* alert was lost, unless the monitor is restarted for ever.
DownIsReported ==
    \A ch \in Channels :
        /\ <>[](/\ down # {} /\ ch \in up /\ config.valid /\ config.monitor
                /\ \E i \in DOMAIN config.enabled : config.enabled[i] = ch)
        /\ <>[][~Restart("monitor")]_vars
        => []<>(ch \in got)
=============================================================================
