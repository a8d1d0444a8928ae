---------------------------- MODULE AlertsProofs ----------------------------
(***************************************************************************)
(* AlertsAreSpaced for any number of request threads, channels and calls.  *)
(*                                                                         *)
(* The throttle reads the time a dispatch stored when it ended; the        *)
(* property is about when dispatches began.  Between the two the key is in *)
(* flight.  As long as dispatches of a key have not overlapped, the one in *)
(* flight is alone and the last that began (InFlight), and when none is in *)
(* flight, the stored time is the one of the last that began (Stored).     *)
(* That the monitor also notes its errors in the dictionary of its alerts  *)
(* does no harm, since no alert has that key (MonitorKeys).                *)
(***************************************************************************)
EXTENDS Alerts, TLAPS

\* t is sending the alert of key for process p.
Sends(t, p, key) == Process(t) = p /\ job[t].key = key

\* A dispatch that no other of its key overlapped is the last that began.
InFlight ==
    \A p \in Processes : \A t \in Actors : \A key \in SafeKeys \ crowded[p] :
        Sends(t, p, key) =>
            /\ key \in DOMAIN begun[p] /\ begun[p][key] = job[t].age
            /\ \A u \in Actors : Sends(u, p, key) => u = t

\* A key that is not in flight has the time of its last dispatch stored.
Stored ==
    \A p \in Processes : \A key \in DOMAIN begun[p] \ crowded[p] :
        \/ \E t \in Actors : Sends(t, p, key)
        \/ key \in DOMAIN state[p] /\ state[p][key] = begun[p][key]

\* All the monitor sends goes by one key.
MonitorKeys == DOMAIN begun["monitor"] \subseteq {<<"dependency_health">>}

IndInv == TypeOK /\ InFlight /\ Stored /\ MonitorKeys

\* The action of AlertsAreSpaced.
Spaced ==
    \A t \in Actors :
        LET p == Process(t)
            key == job'[t].key
        IN pc[t] = "idle" /\ pc'[t] = "sending" /\ key \in DOMAIN begun[p]
              => key \in crowded'[p] \/ begun[p][key] >= Throttle

-----------------------------------------------------------------------------
(***************************************************************************)
(* Keys and dictionaries.                                                  *)
(***************************************************************************)
\* No alert is not an alert, and the monitor's two keys differ.
LEMMA KeysDiffer ==
    /\ <<>> \notin SafeKeys
    /\ <<"dependency_health">> \in SafeKeys /\ MonitorError \in SafeKeys
    /\ MonitorError # <<"dependency_health">>
  BY DEF SafeKeys, MonitorError

\* Whatever a request reports, its key is one of the finitely many safe ones:
\* no value of a request gets into a dictionary.
LEMMA AlertKeyIsSafe ==
    ASSUME NEW call
    PROVE  AlertKey(call) \in SafeKeys \cup {<<>>}
  <1>1. \A a, b : order_failure_key(a, b) \in SafeKeys \cup {<<>>}
    BY DEF order_failure_key, Safe, SAFE_ORDER_FAILURE_STATUSES,
           SAFE_ORDER_FAILURE_TYPES, SafeKeys
  <1>2. \A a : emergency_stop_key(a) \in SafeKeys
    BY DEF emergency_stop_key, Safe, SAFE_EMERGENCY_STOP_SCOPES, SafeKeys
  <1>3. \A a, b, c : rate_limit_key(a, b, c) \in SafeKeys
    BY DEF rate_limit_key, Safe, SAFE_EXCHANGE_NAMES, SAFE_RATE_LIMIT_SCOPES,
           SAFE_RATE_LIMIT_REQUEST_CATEGORIES, SafeKeys
  <1>4. \A a, b : reconciliation_drift_key(a, b) \in SafeKeys \cup {<<>>}
    BY DEF reconciliation_drift_key, SafeKeys
  <1> QED BY <1>1, <1>2, <1>3, <1>4 DEF AlertKey

\* Storing an age under a key.
LEMMA PutDictionary ==
    ASSUME NEW d, IsDictionary(d), NEW k \in SafeKeys, NEW age \in 0..Throttle
    PROVE  /\ IsDictionary(Put(d, k, age))
           /\ DOMAIN Put(d, k, age) = DOMAIN d \cup {k}
           /\ Put(d, k, age)[k] = age
           /\ \A x \in DOMAIN d : x # k => Put(d, k, age)[x] = d[x]
  BY DEF IsDictionary, Put

\* An age stays one when time passes.
LEMMA OlderType ==
    ASSUME NEW age \in 0..Throttle
    PROVE  Older(age) \in 0..Throttle
  BY AlertsAssumption DEF Older

\* All ages of a dictionary grow when time passes.
LEMMA OlderDictionary ==
    ASSUME NEW d, IsDictionary(d)
    PROVE  /\ IsDictionary(OlderDict(d))
           /\ DOMAIN OlderDict(d) = DOMAIN d
           /\ \A k \in DOMAIN d : OlderDict(d)[k] = Older(d[k])
  BY OlderType DEF IsDictionary, OlderDict

\* A process that starts knows no alert, and a thread that starts sends none.
LEMMA Beginnings ==
    /\ IsDictionary(Empty) /\ DOMAIN Empty = {}
    /\ NoJob \in Job /\ NoJob.key = <<>> /\ NoJob.todo = <<>>
  BY AlertsAssumption DEF IsDictionary, Empty, NoJob, Job

\* Every thread belongs to a process, the monitor to its own.
LEMMA ProcessType ==
    /\ \A t \in Actors : Process(t) \in Processes
    /\ Monitor \in Actors /\ Process(Monitor) = "monitor"
    /\ \A t \in Threads : t \in Actors /\ Process(t) = "api"
  BY AlertsAssumption DEF Actors, Process, Processes

\* Only an idle thread sends nothing.
LEMMA IdleSendsNothing ==
    ASSUME TypeOK, NEW t \in Actors
    PROVE  /\ pc[t] = "idle" <=> job[t].key = <<>>
           /\ pc[t] = "sending" => job[t].key \in SafeKeys
  BY DEF TypeOK, Job
-----------------------------------------------------------------------------
(***************************************************************************)
(* The steps.                                                              *)
(***************************************************************************)
\* Nothing was sent yet.
LEMMA InitInv == Init => IndInv
  <1> SUFFICES ASSUME Init PROVE IndInv
    OBVIOUS
  <1>1. \A p \in Processes : state[p] = Empty /\ begun[p] = Empty
    BY DEF Init
  <1>2. \A t \in Actors : job[t] = NoJob /\ job[t].key = <<>>
    BY Beginnings DEF Init
  <1>3. job \in [Actors -> Job]
    BY Beginnings DEF Init
  <1>4. TypeOK
    BY <1>1, <1>2, <1>3, Beginnings, AlertsAssumption DEF Init, TypeOK
  <1>5. InFlight
    BY <1>2, KeysDiffer DEF InFlight, Sends
  <1>6. Stored /\ MonitorKeys
    BY <1>1, Beginnings DEF Stored, MonitorKeys, Processes
  <1> QED BY <1>4, <1>5, <1>6 DEF IndInv

\* A dispatch that begins.
LEMMA DispatchInv ==
    ASSUME IndInv, NEW t \in Actors, NEW key \in SafeKeys,
           Process(t) = "monitor" => key = <<"dependency_health">>,
           pc[t] = "idle", Dispatch(t, key), wait' = wait
    PROVE  IndInv'
  <1> DEFINE p == Process(t)
             j == [key |-> key, age |-> 0, todo |-> config.enabled]
             met == \E u \in Actors \ {t} : Process(u) = p /\ job[u].key = key
  <1>1. p \in Processes
    BY ProcessType
  <1>2. TypeOK /\ InFlight /\ Stored /\ MonitorKeys
    BY DEF IndInv
  <1>3. /\ pc' = [pc EXCEPT ![t] = "sending"]
        /\ job' = [job EXCEPT ![t] = j]
        /\ begun' = [begun EXCEPT ![p] = Put(begun[p], key, 0)]
        /\ crowded' = [crowded EXCEPT ![p] = IF met THEN crowded[p] \cup {key}
                                                    ELSE crowded[p]]
        /\ UNCHANGED <<config, down, up, state, got>>
    BY DEF Dispatch
  <1>4. 0 \in 0..Throttle
    BY AlertsAssumption
  <1>5. j \in Job /\ j.key = key /\ j.age = 0
    BY <1>2, <1>4, AlertsAssumption DEF TypeOK, Job
  <1>6. /\ IsDictionary(begun'[p]) /\ DOMAIN begun'[p] = DOMAIN begun[p] \cup {key}
        /\ begun'[p][key] = 0
        /\ \A x \in DOMAIN begun[p] : x # key => begun'[p][x] = begun[p][x]
    <2>1. begun'[p] = Put(begun[p], key, 0) /\ IsDictionary(begun[p])
      BY <1>1, <1>2, <1>3 DEF TypeOK
    <2> QED BY <2>1, <1>4, PutDictionary
  <1>7. \A q \in Processes : q # p => begun'[q] = begun[q] /\ crowded'[q] = crowded[q]
    BY <1>1, <1>2, <1>3 DEF TypeOK
  <1>8. /\ crowded'[p] \subseteq SafeKeys /\ crowded[p] \subseteq crowded'[p]
        /\ \A x : x # key => (x \in crowded'[p] <=> x \in crowded[p])
        /\ met => key \in crowded'[p]
    BY <1>1, <1>2, <1>3 DEF TypeOK
  <1>9. /\ job'[t].key = key /\ job'[t].age = 0
        /\ \A u \in Actors : u # t => job'[u] = job[u]
        /\ job[t].key = <<>>
    BY <1>2, <1>3, <1>5, IdleSendsNothing DEF TypeOK
  <1> HIDE DEF j
  <1>10. TypeOK'
    <2>1. job' \in [Actors -> Job] /\ pc' \in [Actors -> {"idle", "sending"}]
      BY <1>2, <1>3, <1>5 DEF TypeOK
    <2>2. crowded' \in [Processes -> SUBSET SafeKeys]
      <3>1. (IF met THEN crowded[p] \cup {key} ELSE crowded[p]) \in SUBSET SafeKeys
        BY <1>1, <1>2 DEF TypeOK
      <3> QED BY <3>1, <1>2, <1>3 DEF TypeOK
    <2>3. DOMAIN begun' = Processes
      BY <1>2, <1>3 DEF TypeOK
    <2>4. \A q \in Processes : IsDictionary(state'[q]) /\ IsDictionary(begun'[q])
      BY <1>2, <1>3, <1>6, <1>7 DEF TypeOK
    <2>5. \A u \in Actors : pc'[u] = "sending" <=> job'[u].key # <<>>
      BY <1>2, <1>3, <1>9, KeysDiffer DEF TypeOK
    <2> QED BY <2>1, <2>2, <2>3, <2>4, <2>5, <1>2, <1>3 DEF TypeOK
  <1>11. InFlight'
    <2> SUFFICES ASSUME NEW q \in Processes, NEW u \in Actors,
                        NEW k \in SafeKeys, k \notin crowded'[q],
                        Process(u) = q, job'[u].key = k
                 PROVE  /\ k \in DOMAIN begun'[q] /\ begun'[q][k] = job'[u].age
                        /\ \A v \in Actors :
                               Process(v) = q /\ job'[v].key = k => v = u
      BY DEF InFlight, Sends
    <2>1. CASE q # p
      BY <2>1, <1>2, <1>7, <1>9 DEF InFlight, Sends
    <2>2. CASE q = p /\ k # key
      BY <2>2, <1>2, <1>6, <1>8, <1>9 DEF InFlight, Sends
    <2>3. CASE q = p /\ k = key
      BY <2>3, <1>6, <1>8, <1>9
    <2> QED BY <2>1, <2>2, <2>3
  <1>12. Stored'
    <2> SUFFICES ASSUME NEW q \in Processes, NEW k \in DOMAIN begun'[q],
                        k \notin crowded'[q]
                 PROVE  \/ \E u \in Actors : Process(u) = q /\ job'[u].key = k
                        \/ k \in DOMAIN state'[q] /\ state'[q][k] = begun'[q][k]
      BY DEF Stored, Sends
    <2>1. CASE q = p /\ k = key
      BY <2>1, <1>9
    <2>2. CASE ~(q = p /\ k = key)
      <3>1. /\ k \in DOMAIN begun[q] /\ k \notin crowded[q]
            /\ begun'[q][k] = begun[q][k] /\ k \in SafeKeys
        BY <2>2, <1>2, <1>6, <1>7, <1>8 DEF TypeOK, IsDictionary
      <3>2. CASE \E u \in Actors : Process(u) = q /\ job[u].key = k
        BY <3>1, <3>2, <1>9, KeysDiffer
      <3> QED BY <3>1, <3>2, <1>2, <1>3 DEF Stored, Sends
    <2> QED BY <2>1, <2>2
  <1>13. MonitorKeys'
    BY <1>2, <1>6, <1>7 DEF MonitorKeys, Processes
  <1> QED BY <1>10, <1>11, <1>12, <1>13 DEF IndInv

\* A dispatch that begins was not throttled: either nobody is sending the key
\* and the stored time is the last one, or somebody is, and the key is crowded.
LEMMA DispatchSpaced ==
    ASSUME IndInv, NEW t \in Actors, NEW key \in SafeKeys,
           pc[t] = "idle", Dispatch(t, key), ~IsThrottled(Process(t), key)
    PROVE  Spaced
  <1> DEFINE p == Process(t)
  <1>1. p \in Processes /\ TypeOK /\ Stored
    BY ProcessType DEF IndInv
  <1>2. /\ job'[t].key = key
        /\ \A u \in Actors : u # t => pc'[u] = pc[u]
        /\ (\E u \in Actors \ {t} : Process(u) = p /\ job[u].key = key)
              => key \in crowded'[p]
        /\ crowded[p] \subseteq crowded'[p]
    BY <1>1 DEF Dispatch, TypeOK
  <1>3. ASSUME key \in DOMAIN begun[p], key \notin crowded'[p]
        PROVE  begun[p][key] >= Throttle
    <2>1. key \notin crowded[p]
      BY <1>2, <1>3
    <2>2. job[t].key # key
      BY <1>1, IdleSendsNothing, KeysDiffer
    <2>3. key \in DOMAIN state[p] /\ state[p][key] = begun[p][key]
      BY <1>1, <1>2, <1>3, <2>1, <2>2 DEF Stored, Sends
    <2>4. begun[p][key] \in 0..Throttle
      BY <1>1, <1>3 DEF TypeOK, IsDictionary
    <2> QED BY <2>3, <2>4, AlertsAssumption DEF IsThrottled
  <1>4. \A u \in Actors : pc[u] = "idle" /\ pc'[u] = "sending" => u = t
    BY <1>2
  <1> QED BY <1>2, <1>3, <1>4 DEF Spaced

\* A step in which no dispatch begins, ends or ages, and that leaves the keys
\* of alerts in the dictionaries alone.
LEMMA QuietStep ==
    ASSUME IndInv, TypeOK', begun' = begun, crowded' = crowded,
           \A t \in Actors : job'[t].key = job[t].key /\ job'[t].age = job[t].age,
           \A p \in Processes : \A k \in DOMAIN begun[p] \cap DOMAIN state[p] :
               k \in DOMAIN state'[p] /\ state'[p][k] = state[p][k]
    PROVE  IndInv'
  <1>1. InFlight'
    BY DEF IndInv, InFlight, Sends
  <1>2. Stored'
    <2> SUFFICES ASSUME NEW p \in Processes, NEW k \in DOMAIN begun[p],
                        k \notin crowded[p]
                 PROVE  \/ \E t \in Actors : Process(t) = p /\ job[t].key = k
                        \/ k \in DOMAIN state'[p] /\ state'[p][k] = begun[p][k]
      BY DEF Stored, Sends
    <2> QED BY DEF IndInv, Stored, Sends
  <1>3. MonitorKeys'
    BY DEF IndInv, MonitorKeys
  <1> QED BY <1>1, <1>2, <1>3 DEF IndInv

\* A request reports something.
LEMMA NotifyInv ==
    ASSUME IndInv, NEW t \in Threads, NEW call \in config.calls, Notify(t, call)
    PROVE  IndInv' /\ Spaced
  <1>1. t \in Actors /\ Process(t) = "api"
    BY ProcessType
  <1>2. PICK key : key = AlertKey(call)
    OBVIOUS
  <1>3. key \in SafeKeys /\ ~IsThrottled("api", key)
    BY <1>2, AlertKeyIsSafe DEF Notify, Quiet
  <1>4. pc[t] = "idle" /\ Dispatch(t, key) /\ wait' = wait
    BY <1>2 DEF Notify
  <1>5. IndInv'
    BY <1>1, <1>3, <1>4, DispatchInv
  <1>6. Spaced
    BY <1>1, <1>3, <1>4, DispatchSpaced
  <1> QED BY <1>5, <1>6

\* A channel is tried.
LEMMA SendChannelInv ==
    ASSUME IndInv, NEW t \in Actors, SendChannel(t)
    PROVE  IndInv' /\ Spaced
  <1>1. TypeOK
    BY DEF IndInv
  <1>2. job[t] \in Job /\ job[t].todo \in Seq(Channels) /\ job[t].todo # <<>>
    BY <1>1 DEF TypeOK, Job, SendChannel
  <1>3. Tail(job[t].todo) \in Seq(Channels) /\ Head(job[t].todo) \in Channels
    BY <1>2
  <1>4. job' = [job EXCEPT ![t] = [job[t] EXCEPT !.todo = Tail(job[t].todo)]]
    BY DEF SendChannel
  <1>5. [job[t] EXCEPT !.todo = Tail(job[t].todo)] \in Job
    BY <1>2, <1>3 DEF Job
  <1>6. job' \in [Actors -> Job]
    BY <1>1, <1>4, <1>5 DEF TypeOK
  <1>7. \A u \in Actors : job'[u].key = job[u].key /\ job'[u].age = job[u].age
    BY <1>1, <1>2, <1>4 DEF TypeOK, Job
  <1>8. got' \subseteq Channels
    BY <1>1, <1>3 DEF TypeOK, SendChannel
  <1>9. UNCHANGED <<config, down, up, state, pc, wait, begun, crowded>>
    BY DEF SendChannel
  <1>10. TypeOK'
    BY <1>1, <1>6, <1>7, <1>8, <1>9 DEF TypeOK
  <1>11. IndInv'
    BY <1>7, <1>9, <1>10, QuietStep
  <1>12. Spaced
    BY <1>9 DEF Spaced
  <1> QED BY <1>11, <1>12

\* A dispatch ends and stores when it began: the last that began, if it was
\* alone.
LEMMA FinishInv ==
    ASSUME IndInv, NEW t \in Actors, Finish(t)
    PROVE  IndInv' /\ Spaced
  <1> DEFINE p == Process(t)
             key == job[t].key
  <1>1. p \in Processes /\ TypeOK /\ InFlight /\ Stored /\ MonitorKeys
    BY ProcessType DEF IndInv
  <1>2. key \in SafeKeys /\ job[t].age \in 0..Throttle
    BY <1>1, IdleSendsNothing DEF Finish, TypeOK, Job
  <1>3. /\ state' = [state EXCEPT ![p] = Put(state[p], key, job[t].age)]
        /\ pc' = [pc EXCEPT ![t] = "idle"] /\ job' = [job EXCEPT ![t] = NoJob]
        /\ wait' = IF t = Monitor THEN Interval ELSE wait
        /\ UNCHANGED <<config, down, up, got, begun, crowded>>
    BY DEF Finish, history
  <1>4. state'[p] = Put(state[p], key, job[t].age) /\ IsDictionary(state[p])
    BY <1>1, <1>3 DEF TypeOK
  <1>5. /\ IsDictionary(state'[p]) /\ DOMAIN state'[p] = DOMAIN state[p] \cup {key}
        /\ state'[p][key] = job[t].age
        /\ \A x \in DOMAIN state[p] : x # key => state'[p][x] = state[p][x]
    <2>1. PICK d, k, a : d = state[p] /\ k = key /\ a = job[t].age
      OBVIOUS
    <2>2. IsDictionary(d) /\ k \in SafeKeys /\ a \in 0..Throttle
      BY <2>1, <1>2, <1>4
    <2>3. state'[p] = Put(d, k, a)
      BY <2>1, <1>4
    <2>4. /\ IsDictionary(state'[p]) /\ DOMAIN state'[p] = DOMAIN d \cup {k}
          /\ state'[p][k] = a
          /\ \A x \in DOMAIN d : x # k => state'[p][x] = d[x]
      BY <2>2, <2>3 DEF Put, IsDictionary
    <2> QED BY <2>1, <2>4
  <1>6. \A q \in Processes : q # p => state'[q] = state[q]
    BY <1>1, <1>3 DEF TypeOK
  <1>7. /\ job'[t].key = <<>> /\ pc'[t] = "idle"
        /\ \A u \in Actors : u # t => job'[u] = job[u] /\ pc'[u] = pc[u]
    BY <1>1, <1>3, Beginnings DEF TypeOK
  <1>8. TypeOK'
    <2>1. job' \in [Actors -> Job] /\ pc' \in [Actors -> {"idle", "sending"}]
      BY <1>1, <1>3, Beginnings DEF TypeOK
    <2>2. \A q \in Processes : IsDictionary(state'[q]) /\ IsDictionary(begun'[q])
      BY <1>1, <1>3, <1>5, <1>6 DEF TypeOK
    <2>3. \A u \in Actors : pc'[u] = "sending" <=> job'[u].key # <<>>
      BY <1>1, <1>7 DEF TypeOK
    <2>4. wait' \in 0..Interval /\ DOMAIN state' = Processes
      BY <1>1, <1>3, AlertsAssumption DEF TypeOK
    <2> QED BY <2>1, <2>2, <2>3, <2>4, <1>1, <1>3 DEF TypeOK
  <1>9. InFlight'
    <2> SUFFICES ASSUME NEW q \in Processes, NEW u \in Actors,
                        NEW k \in SafeKeys, k \notin crowded[q],
                        Process(u) = q, job'[u].key = k
                 PROVE  /\ k \in DOMAIN begun[q] /\ begun[q][k] = job'[u].age
                        /\ \A v \in Actors :
                               Process(v) = q /\ job'[v].key = k => v = u
      BY <1>3 DEF InFlight, Sends
    <2>1. u # t /\ job'[u] = job[u]
      BY <1>7, KeysDiffer
    <2> QED BY <2>1, <1>1, <1>7, KeysDiffer DEF InFlight, Sends
  <1>10. Stored'
    <2> SUFFICES ASSUME NEW q \in Processes, NEW k \in DOMAIN begun[q],
                        k \notin crowded[q]
                 PROVE  \/ \E u \in Actors : Process(u) = q /\ job'[u].key = k
                        \/ k \in DOMAIN state'[q] /\ state'[q][k] = begun[q][k]
      BY <1>3 DEF Stored, Sends
    <2>1. CASE q = p /\ k = key
      BY <2>1, <1>1, <1>2, <1>5 DEF InFlight, Sends
    <2>2. CASE ~(q = p /\ k = key)
      <3>1. CASE \E u \in Actors : Process(u) = q /\ job[u].key = k
        BY <2>2, <3>1, <1>7
      <3>2. CASE k \in DOMAIN state[q] /\ state[q][k] = begun[q][k]
        BY <2>2, <3>2, <1>5, <1>6
      <3> QED BY <3>1, <3>2, <1>1 DEF Stored, Sends
    <2> QED BY <2>1, <2>2
  <1>11. MonitorKeys'
    BY <1>1, <1>3 DEF MonitorKeys
  <1>12. Spaced
    BY <1>7 DEF Spaced
  <1> QED BY <1>8, <1>9, <1>10, <1>11, <1>12 DEF IndInv

\* A tick of the monitor: it finds nothing to report, begins a dispatch, or
\* notes that the settings were rejected.
LEMMA MonitorInv ==
    ASSUME IndInv, run_dependency_health_monitor_once
    PROVE  IndInv' /\ Spaced
  <1>1. TypeOK /\ Monitor \in Actors /\ Process(Monitor) = "monitor"
        /\ pc[Monitor] = "idle" /\ "monitor" \in Processes
    BY ProcessType DEF IndInv, run_dependency_health_monitor_once, Processes
  <1>2. Interval \in 0..Interval /\ 0 \in 0..Throttle
    BY AlertsAssumption
  <1>3. CASE /\ wait' = Interval
             /\ UNCHANGED <<config, down, up, state, pc, job, history>>
    <2>1. UNCHANGED <<config, down, up, state, pc, job, got, begun, crowded>>
      BY <1>3 DEF history
    <2>2. TypeOK'
      BY <2>1, <1>1, <1>2, <1>3 DEF TypeOK
    <2>3. IndInv'
      BY <2>1, <2>2, QuietStep
    <2> QED BY <2>1, <2>3 DEF Spaced
  <1>4. CASE /\ ~Quiet("monitor", dependency_health_key)
             /\ Dispatch(Monitor, dependency_health_key) /\ UNCHANGED wait
    <2>1. PICK key : key = dependency_health_key
      OBVIOUS
    <2>2. key = <<"dependency_health">> /\ key \in SafeKeys
      BY <2>1, <1>4, KeysDiffer DEF Quiet, dependency_health_key
    <2>3. Dispatch(Monitor, key) /\ wait' = wait /\ ~IsThrottled("monitor", key)
      BY <2>1, <1>4 DEF Quiet
    <2>4. IndInv'
      BY <2>2, <2>3, <1>1, DispatchInv
    <2>5. Spaced
      BY <2>2, <2>3, <1>1, DispatchSpaced
    <2> QED BY <2>4, <2>5
  <1>5. CASE /\ state' = [state EXCEPT !["monitor"] = Put(@, MonitorError, 0)]
             /\ wait' = Interval
             /\ UNCHANGED <<config, down, up, pc, job, history>>
    <2>1. UNCHANGED <<config, down, up, pc, job, got, begun, crowded>>
      BY <1>5 DEF history
    <2>2. /\ state'["monitor"] = Put(state["monitor"], MonitorError, 0)
          /\ \A q \in Processes : q # "monitor" => state'[q] = state[q]
          /\ IsDictionary(state["monitor"]) /\ DOMAIN state' = Processes
      BY <1>1, <1>5 DEF TypeOK
    <2>3. /\ IsDictionary(state'["monitor"])
          /\ DOMAIN state'["monitor"] = DOMAIN state["monitor"] \cup {MonitorError}
          /\ \A x \in DOMAIN state["monitor"] :
                x # MonitorError => state'["monitor"][x] = state["monitor"][x]
      <3>1. PICK d, k : d = state["monitor"] /\ k = MonitorError
        OBVIOUS
      <3>2. IsDictionary(d) /\ k \in SafeKeys /\ 0 \in 0..Throttle
        BY <3>1, <2>2, <1>2, KeysDiffer
      <3>3. state'["monitor"] = Put(d, k, 0)
        BY <3>1, <2>2
      <3>4. /\ IsDictionary(state'["monitor"])
            /\ DOMAIN state'["monitor"] = DOMAIN d \cup {k}
            /\ \A x \in DOMAIN d : x # k => state'["monitor"][x] = d[x]
        BY <3>2, <3>3, PutDictionary
      <3> QED BY <3>1, <3>4
    <2>4. TypeOK'
      BY <2>1, <2>2, <2>3, <1>1, <1>2, <1>5 DEF TypeOK
    <2>5. MonitorError \notin DOMAIN begun["monitor"]
      BY KeysDiffer DEF IndInv, MonitorKeys
    <2>6. \A q \in Processes : \A k \in DOMAIN begun[q] \cap DOMAIN state[q] :
              k \in DOMAIN state'[q] /\ state'[q][k] = state[q][k]
      BY <2>2, <2>3, <2>5
    <2>7. IndInv'
      BY <2>1, <2>4, <2>6, QuietStep
    <2> QED BY <2>1, <2>7 DEF Spaced
  <1> QED BY <1>3, <1>4, <1>5 DEF run_dependency_health_monitor_once

\* Dependencies and channels come and go.
LEMMA EnvironmentInv ==
    ASSUME IndInv,
           \/ \E d \in Dependencies : DependencyChanges(d)
           \/ \E ch \in Channels : ChannelChanges(ch)
    PROVE  IndInv' /\ Spaced
  <1>1. UNCHANGED <<config, state, pc, job, wait, got, begun, crowded>>
    BY DEF DependencyChanges, ChannelChanges, history
  <1>2. down' \subseteq Dependencies /\ up' \subseteq Channels
    BY DEF IndInv, TypeOK, DependencyChanges, ChannelChanges
  <1>3. TypeOK'
    BY <1>1, <1>2 DEF IndInv, TypeOK
  <1>4. IndInv'
    BY <1>1, <1>3, QuietStep
  <1> QED BY <1>1, <1>4 DEF Spaced

\* A process starts again: nothing of it is in flight, nothing is stored.
LEMMA RestartInv ==
    ASSUME IndInv, NEW p \in Processes, Restart(p)
    PROVE  IndInv' /\ Spaced
  <1>1. TypeOK /\ InFlight /\ Stored /\ MonitorKeys
    BY DEF IndInv
  <1>2. /\ state'[p] = Empty /\ begun'[p] = Empty /\ crowded'[p] = {}
        /\ \A q \in Processes : q # p => /\ state'[q] = state[q]
                                        /\ begun'[q] = begun[q]
                                        /\ crowded'[q] = crowded[q]
        /\ UNCHANGED <<config, down, up, got>>
        /\ wait' = IF p = "monitor" THEN 0 ELSE wait
    BY <1>1 DEF Restart, TypeOK
  <1>3. /\ pc' = [t \in Actors |-> IF Process(t) = p THEN "idle" ELSE pc[t]]
        /\ job' = [t \in Actors |-> IF Process(t) = p THEN NoJob ELSE job[t]]
    BY DEF Restart
  <1>4. \A t \in Actors :
            /\ Process(t) = p => job'[t].key = <<>> /\ pc'[t] = "idle"
            /\ Process(t) # p => job'[t] = job[t] /\ pc'[t] = pc[t]
    BY <1>3, Beginnings
  <1>5. TypeOK'
    <2>1. job' \in [Actors -> Job] /\ pc' \in [Actors -> {"idle", "sending"}]
      BY <1>1, <1>3, Beginnings DEF TypeOK
    <2>2. \A q \in Processes : IsDictionary(state'[q]) /\ IsDictionary(begun'[q])
      BY <1>1, <1>2, Beginnings DEF TypeOK
    <2>3. \A u \in Actors : pc'[u] = "sending" <=> job'[u].key # <<>>
      BY <1>1, <1>4 DEF TypeOK
    <2>4. DOMAIN state' = Processes /\ DOMAIN begun' = Processes
          /\ crowded' \in [Processes -> SUBSET SafeKeys]
      BY <1>1 DEF TypeOK, Restart
    <2>5. wait' \in 0..Interval
      BY <1>1, <1>2, AlertsAssumption DEF TypeOK
    <2> QED BY <2>1, <2>2, <2>3, <2>4, <2>5, <1>1, <1>2 DEF TypeOK
  <1>6. InFlight'
    BY <1>1, <1>2, <1>4, KeysDiffer DEF InFlight, Sends
  <1>7. Stored'
    <2> SUFFICES ASSUME NEW q \in Processes, NEW k \in DOMAIN begun'[q],
                        k \notin crowded'[q]
                 PROVE  \/ \E t \in Actors : Process(t) = q /\ job'[t].key = k
                        \/ k \in DOMAIN state'[q] /\ state'[q][k] = begun'[q][k]
      BY DEF Stored, Sends
    <2>1. q # p
      BY <1>2, Beginnings
    <2> QED BY <2>1, <1>1, <1>2, <1>4 DEF Stored, Sends
  <1>8. MonitorKeys'
    BY <1>1, <1>2, Beginnings DEF MonitorKeys, Processes
  <1>9. Spaced
    BY <1>4 DEF Spaced
  <1> QED BY <1>5, <1>6, <1>7, <1>8, <1>9 DEF IndInv

\* Time passes: all ages grow alike.
LEMMA TickInv ==
    ASSUME IndInv, Tick
    PROVE  IndInv' /\ Spaced
  <1>1. TypeOK /\ InFlight /\ Stored /\ MonitorKeys
    BY DEF IndInv
  <1>2. /\ got' = {} /\ UNCHANGED <<config, down, up, pc, crowded>>
        /\ DOMAIN state' = Processes /\ DOMAIN begun' = Processes
    BY DEF Tick
  <1>3. \A p \in Processes :
            /\ IsDictionary(state'[p]) /\ DOMAIN state'[p] = DOMAIN state[p]
            /\ \A k \in DOMAIN state[p] : state'[p][k] = Older(state[p][k])
    BY <1>1, OlderDictionary DEF Tick, TypeOK
  <1>4. \A p \in Processes :
            /\ IsDictionary(begun'[p]) /\ DOMAIN begun'[p] = DOMAIN begun[p]
            /\ \A k \in DOMAIN begun[p] : begun'[p][k] = Older(begun[p][k])
    BY <1>1, OlderDictionary DEF Tick, TypeOK
  <1>5. \A t \in Actors :
            /\ job'[t] \in Job /\ job'[t].key = job[t].key
            /\ job[t].key # <<>> => job'[t].age = Older(job[t].age)
    <2> SUFFICES ASSUME NEW t \in Actors
                 PROVE  /\ job'[t] \in Job /\ job'[t].key = job[t].key
                        /\ job[t].key # <<>> => job'[t].age = Older(job[t].age)
      OBVIOUS
    <2>1. job[t] \in Job /\ job[t].age \in 0..Throttle
      BY <1>1 DEF TypeOK, Job
    <2>2. Older(job[t].age) \in 0..Throttle
      BY <2>1, OlderType
    <2>3. CASE pc[t] = "sending"
      <3>1. job'[t] = [job[t] EXCEPT !.age = Older(job[t].age)]
        BY <2>3 DEF Tick
      <3> QED BY <3>1, <2>1, <2>2 DEF Job
    <2>4. CASE pc[t] # "sending"
      <3>1. job'[t] = job[t]
        BY <2>4 DEF Tick
      <3> QED BY <3>1, <2>1, <2>4, <1>1 DEF TypeOK
    <2> QED BY <2>3, <2>4
  <1>6. job' \in [Actors -> Job]
    <2>1. DOMAIN job' = Actors /\ job' = [t \in Actors |-> job'[t]]
      BY DEF Tick
    <2> QED BY <2>1, <1>5
  <1>7. wait' \in 0..Interval
    BY <1>1, AlertsAssumption DEF Tick, TypeOK
  <1>8. TypeOK'
    BY <1>1, <1>2, <1>3, <1>4, <1>5, <1>6, <1>7 DEF TypeOK
  <1>9. InFlight'
    <2> SUFFICES ASSUME NEW p \in Processes, NEW t \in Actors,
                        NEW k \in SafeKeys, k \notin crowded[p],
                        Process(t) = p, job[t].key = k
                 PROVE  /\ k \in DOMAIN begun'[p] /\ begun'[p][k] = job'[t].age
                        /\ \A u \in Actors :
                               Process(u) = p /\ job[u].key = k => u = t
      BY <1>2, <1>5 DEF InFlight, Sends
    <2>1. /\ k \in DOMAIN begun[p] /\ begun[p][k] = job[t].age /\ k # <<>>
          /\ \A u \in Actors : Process(u) = p /\ job[u].key = k => u = t
      BY <1>1, KeysDiffer DEF InFlight, Sends
    <2> QED BY <2>1, <1>4, <1>5
  <1>10. Stored'
    <2> SUFFICES ASSUME NEW p \in Processes, NEW k \in DOMAIN begun[p],
                        k \notin crowded[p]
                 PROVE  \/ \E t \in Actors : Process(t) = p /\ job[t].key = k
                        \/ k \in DOMAIN state'[p] /\ state'[p][k] = begun'[p][k]
      BY <1>2, <1>4, <1>5 DEF Stored, Sends
    <2> QED BY <1>1, <1>3, <1>4 DEF Stored, Sends
  <1>11. MonitorKeys'
    BY <1>1, <1>4 DEF MonitorKeys, Processes
  <1>12. Spaced
    BY <1>2 DEF Spaced
  <1> QED BY <1>8, <1>9, <1>10, <1>11, <1>12 DEF IndInv

\* Every step.
LEMMA StepInv ==
    ASSUME IndInv, [Next]_vars
    PROVE  IndInv' /\ (Next => Spaced)
  <1>1. CASE Next
    BY <1>1, NotifyInv, SendChannelInv, FinishInv, MonitorInv, EnvironmentInv,
       RestartInv, TickInv DEF Next, DispatchStep
  <1>2. CASE UNCHANGED vars
    BY <1>2, <1>1 DEF vars, history, IndInv, TypeOK, InFlight, Stored, Sends,
       MonitorKeys, IsDictionary
  <1> QED BY <1>1, <1>2
-----------------------------------------------------------------------------
(***************************************************************************)
(* Results.  FairSpec implies Spec, of which they are theorems.            *)
(***************************************************************************)
\* The inductive invariant: types, a dispatch in flight that was not overlapped
\* is the last of its key, and a key that is not in flight has its time stored.
THEOREM Invariance == Spec => []IndInv
  <1>1. Init => IndInv
    BY InitInv
  <1>2. IndInv /\ [Next]_vars => IndInv'
    BY StepInv
  <1> QED BY <1>1, <1>2, PTL DEF Spec

\* Every reachable state is well typed; in particular a dictionary only ever
\* holds safe keys, so it does not grow without bound.
THEOREM TypeCorrectness == FairSpec => []TypeOK
  <1>1. IndInv => TypeOK
    BY DEF IndInv
  <1>2. FairSpec => Spec
    BY PTL DEF FairSpec
  <1> QED BY <1>1, <1>2, Invariance, PTL

\* Alerts of one key begin at least throttle_seconds apart, delivered or not,
\* unless two threads had both found the key free.
THEOREM Spacing == FairSpec => AlertsAreSpaced
  <1>1. IndInv /\ [Next]_vars => [Spaced]_vars
    BY StepInv
  <1>2. FairSpec => Spec
    BY PTL DEF FairSpec
  <1> QED BY <1>1, <1>2, Invariance, PTL DEF Spec, AlertsAreSpaced, Spaced
=============================================================================
