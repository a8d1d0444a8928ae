----------------------- MODULE SignalExecutionProofs -----------------------
(***************************************************************************)
(* The safety properties of SignalExecution, proved for any number of      *)
(* threads, users, signals, accounts and symbols.  None of them is         *)
(* inductive: each speaks of rows, and holds because of where the thread   *)
(* that created a row is.  IndInv says that.                               *)
(***************************************************************************)
EXTENDS SignalExecution, TLAPS

-----------------------------------------------------------------------------
(***************************************************************************)
(* The inductive invariant.                                                *)
(***************************************************************************)
\* A request in progress has a job.
Busy == \A w \in Workers : pc[w] # "idle" => job[w] \in Job

Owns(w, k) == pc[w] \in OwningPC /\ KeyOf(job[w]) = k

\* A row is worked on by the thread that inserted it and by no other, and
\* by nobody once that thread is dead.
Ownership ==
    /\ \A v, w \in Workers, k \in Key : Owns(v, k) /\ Owns(w, k) => v = w
    /\ \A w \in Workers, k \in orphaned : ~Owns(w, k)
    /\ \A k \in orphaned : status[k] # Absent

\* Where the owner of a row is tells what the row and the exchange hold.
Progress(w) ==
    LET k == KeyOf(job[w])
    IN /\ pc[w] \in {"risk_settings", "new_risk", "risk_account"}
             => status[k] = "CREATED" /\ placed[k] = 0
       /\ pc[w] = "submit" => status[k] = "RISK_PASSED" /\ placed[k] = 0
       /\ pc[w] = "place"  => status[k] = "SUBMITTED" /\ placed[k] = 0
       /\ pc[w] \in {"fill_read", "new_fill_position", "fill_commit"}
             => status[k] \in {"SUBMITTED", "FILLED"} /\ placed[k] = 1

OwnerProgress == \A w \in Workers : Progress(w)

\* What holds of a row whoever owns it.
Rows ==
    \A k \in Key :
        /\ placed[k] <= 1
        /\ placed[k] > 0 => status[k] \in {"SUBMITTED", "FILLED"}
        /\ status[k] = "FILLED" => placed[k] > 0

\* While the stop is on and nothing was switched on again no flag is set, and
\* risk settings read in that time say so.
FlagsOff ==
    /\ quiet => \A a \in Accounts :
                    /\ ~accounts[a].trading_enabled
                    /\ risk[a] # NoRow => ~risk[a].trading_enabled
    /\ \A w \in Workers :
          pc[w] = "risk_account" =>
              /\ loc[w].risk \in RiskSetting
              /\ loc[w].late => ~loc[w].risk.trading_enabled

IndInv ==
    TypeOK /\ Busy /\ Ownership /\ OwnerProgress /\ Rows /\ TrailSound
           /\ FlagsOff /\ StopCutsOff
-----------------------------------------------------------------------------
\* There are no rows and no requests yet.
LEMMA InitInv == Init => IndInv
  <1> SUFFICES ASSUME Init PROVE IndInv
    OBVIOUS
  <1>1. TypeOK
    <2>1. accounts \in [Accounts -> ExchangeAccount]
      BY DEF Init, ExchangeAccount, AccountMode
    <2>2. trail \in [Key -> Seq(Transition)]
      BY DEF Init
    <2>3. loc \in [Workers -> Locals] /\ pc \in [Workers -> PCs]
      BY DEF Init, Locals, NoLocals, PCs
    <2>4. /\ risk \in [Accounts -> RiskSetting \cup {NoRow}]
          /\ positions \in [Accounts \X Symbols -> Int \cup {NoRow}]
          /\ job \in [Workers -> Job \cup {NoRow}]
      BY DEF Init
    <2>5. /\ status \in [Key -> OrderExecutionStatus \cup {Absent}]
          /\ order \in [Key -> Int]
          /\ placed \in [Key -> Nat]
      BY DEF Init
    <2> QED
      BY <2>1, <2>2, <2>3, <2>4, <2>5 DEF Init, TypeOK
  <1>2. Busy /\ Ownership /\ OwnerProgress /\ StopCutsOff
    BY DEF Init, Busy, Ownership, Owns, OwnerProgress, Progress, StopCutsOff,
           OwningPC, PastRiskPC
  <1>3. Rows /\ TrailSound /\ FlagsOff
    BY DEF Init, Rows, TrailSound, FlagsOff, Absent
  <1> QED
    BY <1>1, <1>2, <1>3 DEF IndInv

\* The risk settings get_or_create_risk_settings inserts are risk settings.
LEMMA DefaultInRange == DefaultRiskSetting \in RiskSetting
  BY DEF DefaultRiskSetting, RiskSetting, NoValue

\* activate_emergency_stop leaves risk settings with trading off.
LEMMA SwitchOffRow ==
    ASSUME NEW row \in RiskSetting \cup {NoRow}
    PROVE  /\ SwitchOff(row) \in RiskSetting \cup {NoRow}
           /\ SwitchOff(row) # NoRow => ~SwitchOff(row).trading_enabled
  BY DEF SwitchOff, RiskSetting

(***************************************************************************)
(* Requests of operators touch no request in progress.                     *)
(***************************************************************************)
LEMMA OperatorFrame ==
    ASSUME IndInv, UNCHANGED <<status, trail, placed, pc, job, loc, orphaned>>
    PROVE  Busy' /\ Ownership' /\ OwnerProgress' /\ Rows' /\ TrailSound'
           /\ StopCutsOff'
  BY DEF IndInv, Busy, Ownership, Owns, OwnerProgress, Progress, Rows,
         TrailSound, StopCutsOff

\* Every step of an operator keeps the invariant.
LEMMA OperatorInv == IndInv /\ OperatorStep => IndInv'
  <1> SUFFICES ASSUME IndInv, OperatorStep PROVE IndInv'
    OBVIOUS
  <1>1. TypeOK /\ FlagsOff
    BY DEF IndInv
  <1>2. ASSUME NEW s \in Signals, create_manual_signal(s) PROVE IndInv'
    <2>1. TypeOK' /\ FlagsOff'
      BY <1>1, <1>2 DEF create_manual_signal, TypeOK, FlagsOff
    <2> QED
      BY <1>2, <2>1, OperatorFrame DEF create_manual_signal, IndInv
  <1>3. ASSUME NEW a \in Accounts, NEW m \in AccountMode, NEW e \in BOOLEAN,
               update_account(a, m, e)
        PROVE  IndInv'
    <2>1. TypeOK'
      BY <1>1, <1>3 DEF update_account, TypeOK, ExchangeAccount
    <2>2. FlagsOff'
      BY <1>1, <1>3 DEF update_account, TypeOK, FlagsOff, ExchangeAccount
    <2> QED
      BY <1>3, <2>1, <2>2, OperatorFrame DEF update_account, IndInv
  <1>4. ASSUME NEW a \in Accounts, delete_account(a) PROVE IndInv'
    <2>1. TypeOK'
      BY <1>1, <1>4 DEF delete_account, TypeOK, ExchangeAccount
    <2>2. FlagsOff'
      BY <1>1, <1>4 DEF delete_account, TypeOK, FlagsOff, ExchangeAccount
    <2> QED
      BY <1>4, <2>1, <2>2, OperatorFrame DEF delete_account, IndInv
  <1>5. ASSUME NEW a \in Accounts, read_risk_settings(a) PROVE IndInv'
    <2>1. DefaultRiskSetting \in RiskSetting
      BY DefaultInRange
    <2>2. TypeOK'
      BY <1>1, <1>5, <2>1 DEF read_risk_settings, TypeOK
    <2>3. FlagsOff'
      BY <1>1, <1>5 DEF read_risk_settings, TypeOK, FlagsOff,
                        DefaultRiskSetting
    <2> QED
      BY <1>5, <2>2, <2>3, OperatorFrame DEF read_risk_settings, IndInv
  <1>6. ASSUME NEW a \in Accounts, NEW r \in RiskPatches,
               patch_risk_settings(a, r)
        PROVE  IndInv'
    <2>1. r \in RiskSetting /\ r.trading_enabled \in BOOLEAN
      BY DataAssumption DEF RiskSetting
    <2>2. TypeOK'
      BY <1>1, <1>6, <2>1 DEF patch_risk_settings, TypeOK
    <2>3. FlagsOff'
      BY <1>1, <1>6, <2>1 DEF patch_risk_settings, TypeOK, FlagsOff
    <2> QED
      BY <1>6, <2>2, <2>3, OperatorFrame DEF patch_risk_settings, IndInv
  <1>7. CASE activate_emergency_stop
    <2>1. \A a \in Accounts : SwitchOff(risk[a]) \in RiskSetting \cup {NoRow}
      BY <1>1, SwitchOffRow DEF TypeOK
    <2>2. TypeOK'
      BY <1>1, <1>7, <2>1 DEF activate_emergency_stop, TypeOK, ExchangeAccount
    <2>3. FlagsOff'
      BY <1>1, <1>7, SwitchOffRow
      DEF activate_emergency_stop, TypeOK, FlagsOff, ExchangeAccount
    <2> QED
      BY <1>7, <2>2, <2>3, OperatorFrame DEF activate_emergency_stop, IndInv
  <1>8. CASE deactivate_emergency_stop
    <2>1. TypeOK' /\ FlagsOff'
      BY <1>1, <1>8 DEF deactivate_emergency_stop, TypeOK, FlagsOff
    <2> QED
      BY <1>8, <2>1, OperatorFrame DEF deactivate_emergency_stop, IndInv
  <1> QED
    BY <1>2, <1>3, <1>4, <1>5, <1>6, <1>7, <1>8 DEF OperatorStep
-----------------------------------------------------------------------------
(***************************************************************************)
(* Steps of a request.  What another thread owns stays as it is.           *)
(***************************************************************************)
\* The control state of every thread but w is unchanged.
OnlyMoves(w) ==
    \A v \in Workers \ {w} :
        pc'[v] = pc[v] /\ job'[v] = job[v] /\ loc'[v] = loc[v]

\* The rows a busy thread works on exist in the model.
LEMMA BusyKey ==
    ASSUME TypeOK, Busy, NEW w \in Workers, pc[w] # "idle"
    PROVE  job[w] \in Job /\ KeyOf(job[w]) \in Key
                /\ PosKey(job[w]) \in Accounts \X Symbols
                /\ SignalSpec[job[w].signal] \in TradingSignal
  <1>1. job[w] \in Job
    BY DEF Busy
  <1>2. SignalSpec[job[w].signal] \in TradingSignal
    BY <1>1, DataAssumption DEF Job
  <1> QED
    BY <1>1, <1>2 DEF Job, KeyOf, Key, PosKey, TradingSignal

\* The execution a thread owns has a row.
LEMMA OwnerStatus ==
    ASSUME OwnerProgress, NEW w \in Workers, pc[w] \in OwningPC
    PROVE  status[KeyOf(job[w])] \in OrderExecutionStatus
                /\ status[KeyOf(job[w])] # Absent
  BY DEF OwnerProgress, Progress, OwningPC, OrderExecutionStatus, Absent

\* A step that writes nothing but the thread's own control state.
LEMMA MoveInv ==
    ASSUME IndInv, NEW w \in Workers,
           UNCHANGED <<dbvars, placed, orphaned, quiet>>, OnlyMoves(w),
           pc' \in [Workers -> PCs], loc' \in [Workers -> Locals],
           job' \in [Workers -> Job \cup {NoRow}],
           pc'[w] # "idle" => job'[w] \in Job,
           pc'[w] \in OwningPC => pc[w] \in OwningPC /\ job'[w] = job[w],
           Progress(w)',
           pc'[w] = "risk_account" =>
               /\ loc'[w].risk \in RiskSetting
               /\ loc'[w].late => ~loc'[w].risk.trading_enabled,
           pc'[w] \in PastRiskPC => ~loc'[w].late
    PROVE  IndInv'
  <1>1. TypeOK' /\ Busy'
    BY DEF IndInv, TypeOK, Busy, dbvars, OnlyMoves
  <1>2. Ownership'
    BY DEF IndInv, Ownership, Owns, OnlyMoves, dbvars
  <1>3. OwnerProgress'
    BY DEF IndInv, OwnerProgress, Progress, OnlyMoves, dbvars
  <1>4. Rows' /\ TrailSound'
    BY DEF IndInv, Rows, TrailSound, dbvars
  <1>5. FlagsOff' /\ StopCutsOff'
    BY DEF IndInv, FlagsOff, StopCutsOff, OnlyMoves, dbvars
  <1> QED
    BY <1>1, <1>2, <1>3, <1>4, <1>5 DEF IndInv

\* Return and Abort change the thread's own control state only.
LEMMA ReturnControl ==
    ASSUME TypeOK, NEW w \in Workers, Return(w)
    PROVE  /\ OnlyMoves(w)
           /\ pc'[w] = "idle"
           /\ pc' \in [Workers -> PCs]
           /\ loc' \in [Workers -> Locals]
           /\ job' \in [Workers -> Job \cup {NoRow}]
  BY DEF Return, Goto, OnlyMoves, TypeOK, PCs, Locals, NoLocals

\* A request ends and leaves the database alone.
LEMMA ReturnInv ==
    ASSUME IndInv, NEW w \in Workers, Return(w),
           UNCHANGED <<dbvars, placed, orphaned, quiet>>
    PROVE  IndInv'
  <1>1. TypeOK
    BY DEF IndInv
  <1>2. Progress(w)'
    BY <1>1, ReturnControl DEF Progress
  <1> QED
    BY <1>1, <1>2, MoveInv, ReturnControl DEF OwningPC, PastRiskPC

\* A request dies: its execution, if it has one, is orphaned as it is.
LEMMA AbortInv ==
    ASSUME IndInv, NEW w \in Workers, pc[w] # "idle", Abort(w),
           UNCHANGED <<dbvars, placed, quiet>>
    PROVE  IndInv'
  <1>1. TypeOK /\ Busy /\ OwnerProgress
    BY DEF IndInv
  <1>2. Return(w) /\ KeyOf(job[w]) \in Key
    BY <1>1, BusyKey DEF Abort
  <1>3. /\ OnlyMoves(w) /\ pc'[w] = "idle" /\ pc' \in [Workers -> PCs]
        /\ loc' \in [Workers -> Locals]
        /\ job' \in [Workers -> Job \cup {NoRow}]
    BY <1>1, <1>2, ReturnControl
  <1>4. orphaned' \subseteq Key
    BY <1>1, <1>2 DEF Abort, TypeOK
  <1>5. TypeOK' /\ Busy'
    BY <1>1, <1>3, <1>4 DEF TypeOK, Busy, OnlyMoves, dbvars
  <1>6. Ownership'
    BY <1>1, <1>2, <1>3, OwnerStatus
    DEF IndInv, Ownership, Owns, OnlyMoves, Abort, dbvars, OwningPC
  <1>7. OwnerProgress'
    BY <1>1, <1>3 DEF OwnerProgress, Progress, OnlyMoves, dbvars
  <1>8. Rows' /\ TrailSound'
    BY DEF IndInv, Rows, TrailSound, dbvars
  <1>9. FlagsOff' /\ StopCutsOff'
    BY <1>3 DEF IndInv, FlagsOff, StopCutsOff, OnlyMoves, dbvars, PastRiskPC
  <1> QED
    BY <1>5, <1>6, <1>7, <1>8, <1>9 DEF IndInv
-----------------------------------------------------------------------------
(***************************************************************************)
(* The steps before the row exists.                                        *)
(***************************************************************************)
LEMMA StartInv ==
    ASSUME IndInv, NEW w \in Workers, NEW j \in Job, execute_signal(w, j)
    PROVE  IndInv'
  <1>1. /\ OnlyMoves(w) /\ pc'[w] = "stop_check" /\ job'[w] = j
        /\ pc' \in [Workers -> PCs] /\ loc' \in [Workers -> Locals]
        /\ job' \in [Workers -> Job \cup {NoRow}]
    BY DEF IndInv, TypeOK, execute_signal, Goto, OnlyMoves, PCs
  <1>2. Progress(w)'
    BY <1>1 DEF Progress
  <1> QED
    BY <1>1, <1>2, MoveInv DEF execute_signal, OwningPC, PastRiskPC

\* A move to a control point at which the thread owns no row.
LEMMA EarlyMoveInv ==
    ASSUME IndInv, NEW w \in Workers, pc[w] # "idle",
           NEW label \in PCs \ OwningPC, Goto(w, label), UNCHANGED job,
           loc' \in [Workers -> Locals],
           \A v \in Workers \ {w} : loc'[v] = loc[v],
           UNCHANGED <<dbvars, placed, orphaned, quiet>>
    PROVE  IndInv'
  <1>1. /\ OnlyMoves(w) /\ pc'[w] = label /\ pc' \in [Workers -> PCs]
        /\ job' \in [Workers -> Job \cup {NoRow}] /\ job'[w] \in Job
    BY DEF IndInv, TypeOK, Busy, Goto, OnlyMoves
  <1>2. Progress(w)'
    BY <1>1 DEF Progress, OwningPC
  <1> QED
    BY <1>1, <1>2, MoveInv DEF OwningPC, PastRiskPC

\* assert_new_orders_allowed only reads.
LEMMA StopCheckInv ==
    ASSUME IndInv, NEW w \in Workers, assert_new_orders_allowed(w)
    PROVE  IndInv'
  <1>1. CASE Return(w)
    BY <1>1, ReturnInv DEF assert_new_orders_allowed
  <1>2. CASE Goto(w, "lookup") /\ UNCHANGED <<job, loc>>
    BY <1>2, EarlyMoveInv
    DEF assert_new_orders_allowed, IndInv, TypeOK, PCs, OwningPC
  <1> QED
    BY <1>1, <1>2 DEF assert_new_orders_allowed

\* Setting one field of a thread's locals.
LEMMA SetDelta ==
    ASSUME TypeOK, NEW w \in Workers, NEW d \in Int,
           loc' = [loc EXCEPT ![w].delta = d]
    PROVE  /\ loc' \in [Workers -> Locals]
           /\ \A v \in Workers \ {w} : loc'[v] = loc[v]
  BY DEF TypeOK, Locals

\* The idempotency lookup only reads.
LEMMA FindExistingInv ==
    ASSUME IndInv, NEW w \in Workers, FindExisting(w)
    PROVE  IndInv'
  <1> DEFINE spec == SignalSpec[job[w].signal]
  <1>1. /\ TypeOK /\ Busy
        /\ pc[w] = "lookup"
        /\ UNCHANGED <<dbvars, placed, orphaned, quiet>>
    BY DEF IndInv, FindExisting
  <1>2. spec \in TradingSignal
    BY <1>1, BusyKey
  <1>3. CASE Return(w)
    BY <1>1, <1>3, ReturnInv
  <1>4. CASE /\ loc' = [loc EXCEPT ![w].delta = spec.side * spec.quantity]
             /\ Goto(w, "insert") /\ UNCHANGED job
    <2>1. spec.side * spec.quantity \in Int
      BY <1>2 DEF TradingSignal
    <2> QED
      BY <1>1, <1>4, <2>1, SetDelta, EarlyMoveInv DEF PCs, OwningPC
  <1>5. CASE Goto(w, "position") /\ UNCHANGED <<job, loc>>
    BY <1>1, <1>5, EarlyMoveInv DEF TypeOK, PCs, OwningPC
  <1> QED
    BY <1>3, <1>4, <1>5 DEF FindExisting

\* Reading the position of a target order changes no execution.
LEMMA ReadPositionInv ==
    ASSUME IndInv, NEW w \in Workers, ReadPosition(w)
    PROVE  IndInv'
  <1> DEFINE p == positions[PosKey(job[w])]
             d == calculate_delta(p, SignalSpec[job[w].signal].target)
  <1>1. /\ TypeOK /\ Busy
        /\ pc[w] = "position"
        /\ UNCHANGED <<dbvars, placed, job, orphaned, quiet>>
    BY DEF IndInv, ReadPosition
  <1>2. CASE /\ p # NoRow
             /\ loc' = [loc EXCEPT ![w].delta = d] /\ Goto(w, "insert")
    <2>1. p \in Int
      BY <1>1, <1>2, BusyKey DEF TypeOK
    <2>2. d \in Int
      BY <1>1, <2>1, BusyKey DEF calculate_delta, TradingSignal, NoTarget
    <2> QED
      BY <1>1, <1>2, <2>2, SetDelta, EarlyMoveInv DEF PCs, OwningPC
  <1>3. CASE Goto(w, "new_position") /\ UNCHANGED loc
    BY <1>1, <1>3, EarlyMoveInv DEF TypeOK, PCs, OwningPC
  <1> QED
    BY <1>2, <1>3 DEF ReadPosition

\* Creating that position changes no execution.
LEMMA CreatePositionInv ==
    ASSUME IndInv, NEW w \in Workers, CreatePosition(w)
    PROVE  IndInv'
  <1> DEFINE p == PosKey(job[w])
  <1>1. TypeOK /\ Busy /\ pc[w] = "new_position"
    BY DEF IndInv, CreatePosition
  <1>2. CASE Abort(w) /\ UNCHANGED positions
    BY <1>1, <1>2, AbortInv DEF CreatePosition, dbvars
  <1>3. CASE /\ positions' = [positions EXCEPT ![p] = 0]
             /\ Goto(w, "position") /\ UNCHANGED <<job, loc, orphaned>>
    <2>1. /\ OnlyMoves(w) /\ pc'[w] = "position" /\ pc' \in [Workers -> PCs]
          /\ UNCHANGED <<stop, accounts, risk, signals, status, trail, order,
                         placed, quiet>>
      BY <1>1, <1>3 DEF CreatePosition, Goto, OnlyMoves, TypeOK, PCs
    <2>2. positions' \in [Accounts \X Symbols -> Int \cup {NoRow}]
      BY <1>1, <1>3, BusyKey DEF TypeOK
    <2>3. TypeOK' /\ Busy'
      BY <1>1, <1>3, <2>1, <2>2, BusyKey DEF TypeOK, Busy, OnlyMoves
    <2>4. Ownership' /\ OwnerProgress'
      BY <1>3, <2>1
      DEF IndInv, Ownership, Owns, OwnerProgress, Progress, OnlyMoves, OwningPC
    <2>5. Rows' /\ TrailSound' /\ FlagsOff' /\ StopCutsOff'
      BY <1>3, <2>1 DEF IndInv, Rows, TrailSound, FlagsOff, StopCutsOff,
                        OnlyMoves, PastRiskPC
    <2> QED
      BY <2>3, <2>4, <2>5 DEF IndInv
  <1> QED
    BY <1>2, <1>3 DEF CreatePosition

\* The INSERT makes the thread the owner of a row nobody owned.
LEMMA InsertInv ==
    ASSUME IndInv, NEW w \in Workers, InsertExecution(w)
    PROVE  IndInv'
  <1> DEFINE k == KeyOf(job[w])
  <1>1. /\ TypeOK /\ Busy /\ OwnerProgress /\ pc[w] = "insert"
        /\ UNCHANGED <<stop, accounts, risk, positions, signals, placed, quiet>>
    BY DEF IndInv, InsertExecution
  <1>2. k \in Key
    BY <1>1, BusyKey
  <1>3. CASE Abort(w) /\ UNCHANGED <<status, trail, order>>
    BY <1>1, <1>3, AbortInv DEF dbvars
  <1>4. CASE ~UniqueViolation(k) /\ StoreExecution(w, k)
    <2>1. status[k] = Absent
      BY <1>2, <1>4 DEF UniqueViolation
    <2>2. /\ OnlyMoves(w) /\ pc'[w] = "risk_settings"
          /\ pc' \in [Workers -> PCs] /\ UNCHANGED <<job, loc, orphaned>>
      BY <1>1, <1>4 DEF StoreExecution, Goto, OnlyMoves, TypeOK, PCs, OwningPC
    <2>3. /\ status' = [status EXCEPT ![k] = "CREATED"]
          /\ trail' = [trail EXCEPT ![k] = record_initial_order_state]
          /\ order' = [order EXCEPT ![k] = loc[w].delta]
      BY <1>4 DEF StoreExecution
    <2>4. record_initial_order_state \in Seq(Transition)
      BY DEF record_initial_order_state, Transition, OrderExecutionStatus
    <2>5. TypeOK' /\ Busy'
      <3>1. status' \in [Key -> OrderExecutionStatus \cup {Absent}]
        BY <1>1, <2>3 DEF TypeOK, OrderExecutionStatus
      <3>2. trail' \in [Key -> Seq(Transition)] /\ order' \in [Key -> Int]
        BY <1>1, <2>3, <2>4 DEF TypeOK, Locals
      <3> QED
        BY <1>1, <2>2, <3>1, <3>2 DEF TypeOK, Busy, OnlyMoves
    <2>6. \A v \in Workers : ~Owns(v, k)
      BY <1>1, <2>1, OwnerStatus DEF Owns
    <2>7. Ownership'
      BY <1>1, <1>2, <2>1, <2>2, <2>3, <2>6
      DEF IndInv, TypeOK, Ownership, Owns, OnlyMoves, Absent
    <2>8. placed[k] = 0
      <3>1. Rows
        BY DEF IndInv
      <3>2. placed[k] \in Nat /\ status[k] \notin {"SUBMITTED", "FILLED"}
        BY <1>1, <1>2, <2>1 DEF TypeOK, Absent
      <3> QED
        BY <1>2, <3>1, <3>2 DEF Rows
    <2>9. OwnerProgress'
      BY <1>1, <1>2, <2>2, <2>3, <2>6, <2>8
      DEF TypeOK, OwnerProgress, Progress, Owns, OnlyMoves, OwningPC
    <2>10. Rows'
      BY <1>1, <1>2, <2>3, <2>8 DEF IndInv, TypeOK, Rows
    <2>11. TrailSound'
      BY <1>1, <1>2, <2>3 DEF IndInv, TypeOK, TrailSound, TrailFollowsGraph,
         TrailIsChained, record_initial_order_state
    <2>12. FlagsOff' /\ StopCutsOff'
      BY <1>1, <2>2
      DEF IndInv, FlagsOff, StopCutsOff, OnlyMoves, PastRiskPC
    <2> QED
      BY <2>5, <2>7, <2>9, <2>10, <2>11, <2>12 DEF IndInv
  <1> QED
    BY <1>3, <1>4 DEF InsertExecution
-----------------------------------------------------------------------------
(***************************************************************************)
(* The risk settings.                                                      *)
(***************************************************************************)
LEMMA ReadRiskInv ==
    ASSUME IndInv, NEW w \in Workers, ReadRiskSettings(w)
    PROVE  IndInv'
  <1> DEFINE r == risk[job[w].account]
  <1>1. /\ TypeOK /\ Busy /\ OwnerProgress /\ FlagsOff
        /\ pc[w] = "risk_settings"
        /\ UNCHANGED <<dbvars, placed, job, orphaned, quiet>>
    BY DEF IndInv, ReadRiskSettings
  <1>2. job[w] \in Job /\ job[w].account \in Accounts
    BY <1>1, BusyKey DEF Job
  <1>3. CASE /\ r # NoRow
             /\ loc' = [loc EXCEPT ![w].risk = r, ![w].late = quiet]
             /\ Goto(w, "risk_account")
    <2>1. r \in RiskSetting
      BY <1>1, <1>2, <1>3 DEF TypeOK
    <2>2. loc[w] \in Locals /\ quiet \in BOOLEAN
      BY <1>1 DEF TypeOK
    <2>3. loc'[w] \in Locals /\ loc'[w].risk = r /\ loc'[w].late = quiet
      BY <1>1, <1>3, <2>1, <2>2 DEF TypeOK, Locals
    <2>4. /\ loc' \in [Workers -> Locals] /\ OnlyMoves(w)
          /\ pc'[w] = "risk_account" /\ pc' \in [Workers -> PCs]
          /\ job' \in [Workers -> Job \cup {NoRow}] /\ job'[w] = job[w]
      BY <1>1, <1>3, <2>3 DEF TypeOK, Goto, OnlyMoves, PCs, OwningPC
    <2>5. Progress(w)'
      BY <1>1, <2>4 DEF OwnerProgress, Progress, dbvars
    <2>6. quiet => ~r.trading_enabled
      BY <1>1, <1>2, <1>3 DEF FlagsOff
    <2> QED
      BY <1>1, <1>2, <2>1, <2>3, <2>4, <2>5, <2>6, MoveInv
      DEF OwningPC, PastRiskPC
  <1>4. CASE Goto(w, "new_risk") /\ UNCHANGED loc
    <2>1. /\ loc' \in [Workers -> Locals] /\ OnlyMoves(w)
          /\ pc'[w] = "new_risk" /\ pc' \in [Workers -> PCs]
          /\ job' \in [Workers -> Job \cup {NoRow}] /\ job'[w] = job[w]
      BY <1>1, <1>4 DEF TypeOK, Goto, OnlyMoves, PCs, OwningPC
    <2>2. Progress(w)'
      BY <1>1, <2>1 DEF OwnerProgress, Progress, dbvars
    <2> QED
      BY <1>1, <1>2, <2>1, <2>2, MoveInv DEF OwningPC, PastRiskPC
  <1> QED
    BY <1>3, <1>4 DEF ReadRiskSettings

\* Creating risk settings commits them with trading off.
LEMMA CreateRiskInv ==
    ASSUME IndInv, NEW w \in Workers, CreateRiskSettings(w)
    PROVE  IndInv'
  <1> DEFINE a == job[w].account
  <1>1. /\ TypeOK /\ Busy /\ OwnerProgress /\ pc[w] = "new_risk"
        /\ UNCHANGED <<stop, accounts, positions, signals, status, trail,
                       order, placed, quiet>>
    BY DEF IndInv, CreateRiskSettings
  <1>2. CASE Abort(w) /\ UNCHANGED risk
    BY <1>1, <1>2, AbortInv DEF dbvars
  <1>3. CASE /\ risk' = [risk EXCEPT ![a] = DefaultRiskSetting]
             /\ Goto(w, "risk_settings") /\ UNCHANGED <<job, loc, orphaned>>
    <2>1. /\ OnlyMoves(w) /\ pc'[w] = "risk_settings"
          /\ pc' \in [Workers -> PCs]
      BY <1>1, <1>3 DEF Goto, OnlyMoves, TypeOK, PCs, OwningPC
    <2>2. TypeOK' /\ Busy'
      BY <1>1, <1>3, <2>1, DefaultInRange DEF TypeOK, Busy, OnlyMoves
    <2>3. Ownership' /\ OwnerProgress'
      BY <1>1, <1>3, <2>1
      DEF IndInv, Ownership, Owns, OwnerProgress, Progress, OnlyMoves, OwningPC
    <2>4. Rows' /\ TrailSound' /\ StopCutsOff'
      BY <1>1, <1>3, <2>1
      DEF IndInv, Rows, TrailSound, StopCutsOff, OnlyMoves, PastRiskPC
    <2>5. FlagsOff'
      BY <1>1, <1>3, <2>1
      DEF IndInv, TypeOK, FlagsOff, OnlyMoves, DefaultRiskSetting
    <2> QED
      BY <2>2, <2>3, <2>4, <2>5 DEF IndInv
  <1> QED
    BY <1>2, <1>3 DEF CreateRiskSettings
-----------------------------------------------------------------------------
(***************************************************************************)
(* The steps that move a row.  Only its owner takes them, so the rows of   *)
(* the other threads, and the dead rows, stay as they are.                 *)
(***************************************************************************)
LEMMA TransitionSound ==
    ASSUME TypeOK, TrailSound, NEW k \in Key, NEW to \in OrderExecutionStatus,
           status[k] # Absent, transition_order_execution(k, to)
    PROVE  /\ status' \in [Key -> OrderExecutionStatus \cup {Absent}]
           /\ trail' \in [Key -> Seq(Transition)]
           /\ status'[k] = to
           /\ \A l \in Key \ {k} : status'[l] = status[l]
           /\ TrailSound'
  <1> DEFINE row == [from |-> status[k], to |-> to]
  <1>1. /\ status' = [status EXCEPT ![k] = to]
        /\ trail' = [trail EXCEPT ![k] = Append(trail[k], row)]
        /\ CanTransition(status[k], to)
    BY DEF transition_order_execution, add_transition
  <1>2. row \in Transition /\ trail[k] \in Seq(Transition)
    BY DEF TypeOK, Transition
  <1>3. Append(trail[k], row) \in Seq(Transition)
    BY <1>2
  <1>4. /\ status' \in [Key -> OrderExecutionStatus \cup {Absent}]
        /\ trail' \in [Key -> Seq(Transition)]
        /\ status'[k] = to
        /\ \A l \in Key \ {k} : status'[l] = status[l] /\ trail'[l] = trail[l]
        /\ trail'[k] = Append(trail[k], row)
    BY <1>1, <1>3 DEF TypeOK
  <1>5. /\ TrailFollowsGraph(trail[k]) /\ TrailIsChained(trail[k])
        /\ trail[k][Len(trail[k])].to = status[k]
    BY DEF TrailSound
  <1>6. Len(trail[k]) > 0
    BY <1>5 DEF TrailFollowsGraph
  <1>7. TrailFollowsGraph(trail'[k])
    BY <1>1, <1>2, <1>4, <1>5, <1>6 DEF TrailFollowsGraph
  <1>8. TrailIsChained(trail'[k])
    BY <1>2, <1>4, <1>5, <1>6 DEF TrailIsChained
  <1>9. trail'[k][Len(trail'[k])].to = status'[k]
    BY <1>2, <1>4
  <1>10. TrailSound'
    BY <1>4, <1>7, <1>8, <1>9 DEF TrailSound
  <1> QED
    BY <1>4, <1>10

\* The frame of a step in which the owner of a row changes that row.
LEMMA OwnerFrame ==
    ASSUME IndInv, NEW w \in Workers, pc[w] \in OwningPC, OnlyMoves(w),
           pc'[w] \in OwningPC => job'[w] = job[w],
           UNCHANGED orphaned,
           \A l \in Key \ {KeyOf(job[w])} :
               status'[l] = status[l] /\ placed'[l] = placed[l],
           status'[KeyOf(job[w])] # Absent, Progress(w)'
    PROVE  Ownership' /\ OwnerProgress'
  <1> DEFINE k == KeyOf(job[w])
  <1>1. TypeOK /\ Busy /\ Ownership /\ OwnerProgress
    BY DEF IndInv
  <1>2. k \in Key /\ Owns(w, k)
    BY <1>1, BusyKey DEF OwningPC, Owns
  <1>3. Ownership'
    <2>1. \A v \in Workers, l \in Key : Owns(v, l)' => Owns(v, l)
      BY <1>2 DEF Owns, OnlyMoves
    <2>2. \A l \in orphaned : status'[l] # Absent
      BY <1>1 DEF Ownership, TypeOK
    <2> QED
      BY <1>1, <2>1, <2>2 DEF Ownership, TypeOK
  <1>4. ASSUME NEW v \in Workers \ {w}, pc[v] \in OwningPC PROVE Progress(v)'
    <2>1. KeyOf(job[v]) \in Key /\ KeyOf(job[v]) # k
      BY <1>1, <1>2, <1>4, BusyKey DEF Ownership, Owns, OwningPC
    <2> QED
      BY <1>1, <2>1 DEF OwnerProgress, Progress, OnlyMoves
  <1>5. ASSUME NEW v \in Workers \ {w}, pc[v] \notin OwningPC PROVE Progress(v)'
    BY <1>5 DEF Progress, OnlyMoves, OwningPC
  <1> QED
    BY <1>3, <1>4, <1>5 DEF OwnerProgress

\* The risk check moves its own execution to RISK_PASSED or FAILED; one that read
\* after a quiet stop fails.
LEMMA CheckRiskInv ==
    ASSUME IndInv, NEW w \in Workers, CheckRisk(w)
    PROVE  IndInv'
  <1> DEFINE k == KeyOf(job[w])
             q == AbsInt(loc[w].delta)
             ok == check_order_risk(accounts[job[w].account], loc[w].risk,
                                    SignalSpec[job[w].signal], q)
  <1>1. /\ TypeOK /\ Busy /\ OwnerProgress /\ TrailSound /\ Rows
        /\ FlagsOff /\ StopCutsOff /\ pc[w] = "risk_account"
        /\ UNCHANGED <<stop, accounts, risk, positions, signals, order,
                       placed, orphaned, quiet>>
    BY DEF IndInv, CheckRisk
  <1>2. k \in Key /\ job[w].account \in Accounts
    BY <1>1, BusyKey DEF Job
  <1>3. status[k] = "CREATED" /\ placed[k] = 0
    BY <1>1 DEF OwnerProgress, Progress
  <1>4. CASE /\ ok /\ transition_order_execution(k, "RISK_PASSED")
             /\ Goto(w, "submit")
             /\ loc' = [loc EXCEPT ![w].late = @ \/ quiet]
             /\ UNCHANGED job
    <2>1. /\ status' \in [Key -> OrderExecutionStatus \cup {Absent}]
          /\ trail' \in [Key -> Seq(Transition)]
          /\ status'[k] = "RISK_PASSED"
          /\ \A l \in Key \ {k} : status'[l] = status[l]
          /\ TrailSound'
      BY <1>1, <1>2, <1>3, <1>4, TransitionSound
      DEF OrderExecutionStatus, Absent
    <2>2. ~quiet /\ ~loc[w].late
      BY <1>1, <1>2, <1>4 DEF FlagsOff, check_order_risk
    <2>3. /\ loc' \in [Workers -> Locals] /\ ~loc'[w].late
          /\ \A v \in Workers \ {w} : loc'[v] = loc[v]
      BY <1>1, <1>4, <2>2 DEF TypeOK, Locals
    <2>4. /\ OnlyMoves(w) /\ pc'[w] = "submit" /\ pc' \in [Workers -> PCs]
          /\ job' = job
      BY <1>1, <1>4, <2>3 DEF TypeOK, Goto, OnlyMoves, PCs, OwningPC
    <2>5. TypeOK' /\ Busy'
      BY <1>1, <2>1, <2>3, <2>4 DEF TypeOK, Busy, OnlyMoves
    <2>6. Progress(w)'
      BY <1>1, <1>3, <2>1, <2>4 DEF Progress
    <2>7. Ownership' /\ OwnerProgress'
      BY <1>1, <2>1, <2>4, <2>6, OwnerFrame DEF OwningPC, Absent
    <2>8. Rows'
      BY <1>1, <1>3, <2>1 DEF Rows
    <2>9. FlagsOff' /\ StopCutsOff'
      BY <1>1, <2>3, <2>4 DEF FlagsOff, StopCutsOff, OnlyMoves
    <2> QED
      BY <2>1, <2>5, <2>7, <2>8, <2>9 DEF IndInv
  <1>5. CASE transition_order_execution(k, "FAILED") /\ Return(w)
    <2>1. /\ status' \in [Key -> OrderExecutionStatus \cup {Absent}]
          /\ trail' \in [Key -> Seq(Transition)]
          /\ status'[k] = "FAILED"
          /\ \A l \in Key \ {k} : status'[l] = status[l]
          /\ TrailSound'
      BY <1>1, <1>2, <1>3, <1>5, TransitionSound
      DEF OrderExecutionStatus, Absent
    <2>2. /\ OnlyMoves(w) /\ pc'[w] = "idle" /\ pc' \in [Workers -> PCs]
          /\ loc' \in [Workers -> Locals]
          /\ job' \in [Workers -> Job \cup {NoRow}]
      BY <1>1, <1>5, ReturnControl
    <2>3. TypeOK' /\ Busy'
      BY <1>1, <2>1, <2>2 DEF TypeOK, Busy, OnlyMoves
    <2>4. Progress(w)'
      BY <2>2 DEF Progress
    <2>5. Ownership' /\ OwnerProgress'
      BY <1>1, <2>1, <2>2, <2>4, OwnerFrame DEF OwningPC, Absent
    <2>6. Rows'
      BY <1>1, <1>3, <2>1 DEF Rows
    <2>7. FlagsOff' /\ StopCutsOff'
      BY <1>1, <2>2 DEF FlagsOff, StopCutsOff, OnlyMoves, PastRiskPC
    <2> QED
      BY <2>1, <2>3, <2>5, <2>6, <2>7 DEF IndInv
  <1> QED
    BY <1>4, <1>5 DEF CheckRisk

\* SUBMITTED is committed before the order is placed.
LEMMA SubmitInv ==
    ASSUME IndInv, NEW w \in Workers, SubmitOrder(w)
    PROVE  IndInv'
  <1> DEFINE k == KeyOf(job[w])
  <1>1. /\ TypeOK /\ Busy /\ OwnerProgress /\ TrailSound /\ Rows
        /\ FlagsOff /\ StopCutsOff /\ pc[w] = "submit"
        /\ transition_order_execution(k, "SUBMITTED") /\ Goto(w, "place")
        /\ UNCHANGED <<stop, accounts, risk, positions, signals, order,
                       placed, job, loc, orphaned, quiet>>
    BY DEF IndInv, SubmitOrder
  <1>2. k \in Key
    BY <1>1, BusyKey
  <1>3. status[k] = "RISK_PASSED" /\ placed[k] = 0
    BY <1>1 DEF OwnerProgress, Progress
  <1>4. /\ status' \in [Key -> OrderExecutionStatus \cup {Absent}]
        /\ trail' \in [Key -> Seq(Transition)]
        /\ status'[k] = "SUBMITTED"
        /\ \A l \in Key \ {k} : status'[l] = status[l]
        /\ TrailSound'
    BY <1>1, <1>2, <1>3, TransitionSound DEF OrderExecutionStatus, Absent
  <1>5. OnlyMoves(w) /\ pc'[w] = "place" /\ pc' \in [Workers -> PCs]
    BY <1>1 DEF TypeOK, Goto, OnlyMoves, PCs, OwningPC
  <1>6. TypeOK' /\ Busy'
    BY <1>1, <1>4, <1>5 DEF TypeOK, Busy, OnlyMoves
  <1>7. Progress(w)'
    BY <1>1, <1>3, <1>4, <1>5 DEF Progress
  <1>8. Ownership' /\ OwnerProgress'
    BY <1>1, <1>4, <1>5, <1>7, OwnerFrame DEF OwningPC, Absent
  <1>9. Rows'
    BY <1>1, <1>3, <1>4 DEF Rows
  <1>10. FlagsOff' /\ StopCutsOff'
    BY <1>1, <1>5 DEF FlagsOff, StopCutsOff, OnlyMoves, PastRiskPC
  <1> QED
    BY <1>4, <1>6, <1>8, <1>9, <1>10 DEF IndInv

\* The owner of a SUBMITTED execution places it, once.
LEMMA PlaceInv ==
    ASSUME IndInv, NEW w \in Workers, place_order(w)
    PROVE  IndInv'
  <1> DEFINE k == KeyOf(job[w])
  <1>1. /\ TypeOK /\ Busy /\ OwnerProgress /\ TrailSound /\ Rows
        /\ FlagsOff /\ StopCutsOff /\ pc[w] = "place"
        /\ placed' = [placed EXCEPT ![k] = @ + 1] /\ Goto(w, "fill_read")
        /\ UNCHANGED <<dbvars, job, loc, orphaned, quiet>>
    BY DEF IndInv, place_order
  <1>2. k \in Key
    BY <1>1, BusyKey
  <1>3. status[k] = "SUBMITTED" /\ placed[k] = 0
    BY <1>1 DEF OwnerProgress, Progress
  <1>4. /\ placed' \in [Key -> Nat] /\ placed'[k] = 1
        /\ \A l \in Key \ {k} : placed'[l] = placed[l]
    BY <1>1, <1>2, <1>3 DEF TypeOK
  <1>5. OnlyMoves(w) /\ pc'[w] = "fill_read" /\ pc' \in [Workers -> PCs]
    BY <1>1 DEF TypeOK, Goto, OnlyMoves, PCs, OwningPC
  <1>6. TypeOK' /\ Busy'
    BY <1>1, <1>4, <1>5 DEF TypeOK, Busy, OnlyMoves, dbvars
  <1>7. Progress(w)'
    BY <1>1, <1>3, <1>4, <1>5 DEF Progress, dbvars
  <1>8. Ownership' /\ OwnerProgress'
    BY <1>1, <1>3, <1>4, <1>5, <1>7, OwnerFrame DEF OwningPC, Absent, dbvars
  <1>9. Rows' /\ TrailSound'
    BY <1>1, <1>3, <1>4 DEF Rows, TrailSound, dbvars
  <1>10. FlagsOff' /\ StopCutsOff'
    BY <1>1, <1>5 DEF FlagsOff, StopCutsOff, OnlyMoves, PastRiskPC, dbvars
  <1> QED
    BY <1>6, <1>8, <1>9, <1>10 DEF IndInv

\* Reading the position before the fill changes no execution.
LEMMA ReadFillInv ==
    ASSUME IndInv, NEW w \in Workers, ReadFillPosition(w)
    PROVE  IndInv'
  <1> DEFINE p == positions[PosKey(job[w])]
  <1>1. /\ TypeOK /\ Busy /\ OwnerProgress /\ StopCutsOff
        /\ pc[w] = "fill_read"
        /\ UNCHANGED <<dbvars, placed, job, orphaned, quiet>>
    BY DEF IndInv, ReadFillPosition
  <1>2. job[w] \in Job /\ ~loc[w].late
    BY <1>1, BusyKey DEF StopCutsOff, PastRiskPC
  <1>3. CASE /\ p # NoRow /\ loc' = [loc EXCEPT ![w].posn = p]
             /\ Goto(w, "fill_commit")
    <2>1. p \in Int
      BY <1>1, <1>3, BusyKey DEF TypeOK
    <2>2. loc' \in [Workers -> Locals] /\ loc'[w].late = loc[w].late
      BY <1>1, <1>3, <2>1 DEF TypeOK, Locals
    <2>3. /\ OnlyMoves(w) /\ pc'[w] = "fill_commit"
          /\ pc' \in [Workers -> PCs]
          /\ job' \in [Workers -> Job \cup {NoRow}] /\ job'[w] = job[w]
      BY <1>1, <1>3 DEF TypeOK, Goto, OnlyMoves, PCs, OwningPC
    <2>4. Progress(w)'
      BY <1>1, <2>3 DEF OwnerProgress, Progress, dbvars
    <2> QED
      BY <1>1, <1>2, <2>2, <2>3, <2>4, MoveInv DEF OwningPC
  <1>4. CASE p = NoRow /\ Goto(w, "new_fill_position") /\ UNCHANGED loc
    <2>1. /\ loc' \in [Workers -> Locals] /\ OnlyMoves(w)
          /\ pc'[w] = "new_fill_position" /\ pc' \in [Workers -> PCs]
          /\ job' \in [Workers -> Job \cup {NoRow}] /\ job'[w] = job[w]
      BY <1>1, <1>4 DEF TypeOK, Goto, OnlyMoves, PCs, OwningPC
    <2>2. Progress(w)'
      BY <1>1, <2>1 DEF OwnerProgress, Progress, dbvars
    <2> QED
      BY <1>1, <1>2, <1>4, <2>1, <2>2, MoveInv DEF OwningPC
  <1> QED
    BY <1>3, <1>4 DEF ReadFillPosition

\* Both commits of a fill move the row to FILLED at most once.
LEMMA CreateFillInv ==
    ASSUME IndInv, NEW w \in Workers, CreateFillPosition(w)
    PROVE  IndInv'
  <1> DEFINE k == KeyOf(job[w])
             p == PosKey(job[w])
  <1>1. /\ TypeOK /\ Busy /\ OwnerProgress /\ TrailSound /\ Rows
        /\ FlagsOff /\ StopCutsOff /\ pc[w] = "new_fill_position"
        /\ UNCHANGED <<stop, accounts, risk, signals, order, placed, quiet>>
    BY DEF IndInv, CreateFillPosition
  <1>2. k \in Key /\ p \in Accounts \X Symbols
    BY <1>1, BusyKey
  <1>3. status[k] \in {"SUBMITTED", "FILLED"} /\ placed[k] = 1
    BY <1>1 DEF OwnerProgress, Progress
  <1>4. CASE Abort(w) /\ UNCHANGED <<positions, status, trail>>
    BY <1>1, <1>4, AbortInv DEF dbvars
  <1>5. CASE /\ positions' = [positions EXCEPT ![p] = 0]
             /\ transition_order_execution(k, "FILLED")
             /\ Goto(w, "fill_read") /\ UNCHANGED <<job, loc, orphaned>>
    <2>1. /\ status' \in [Key -> OrderExecutionStatus \cup {Absent}]
          /\ trail' \in [Key -> Seq(Transition)]
          /\ status'[k] = "FILLED"
          /\ \A l \in Key \ {k} : status'[l] = status[l]
          /\ TrailSound'
      BY <1>1, <1>2, <1>3, <1>5, TransitionSound
      DEF OrderExecutionStatus, Absent
    <2>2. positions' \in [Accounts \X Symbols -> Int \cup {NoRow}]
      BY <1>1, <1>2, <1>5 DEF TypeOK
    <2>3. OnlyMoves(w) /\ pc'[w] = "fill_read" /\ pc' \in [Workers -> PCs]
      BY <1>1, <1>5 DEF TypeOK, Goto, OnlyMoves, PCs, OwningPC
    <2>4. TypeOK' /\ Busy'
      BY <1>1, <1>5, <2>1, <2>2, <2>3 DEF TypeOK, Busy, OnlyMoves
    <2>5. Progress(w)'
      BY <1>1, <1>3, <1>5, <2>1, <2>3 DEF Progress
    <2>6. Ownership' /\ OwnerProgress'
      BY <1>1, <1>5, <2>1, <2>3, <2>5, OwnerFrame DEF OwningPC, Absent
    <2>7. Rows'
      BY <1>1, <1>3, <2>1 DEF Rows
    <2>8. FlagsOff' /\ StopCutsOff'
      BY <1>1, <1>5, <2>3 DEF FlagsOff, StopCutsOff, OnlyMoves, PastRiskPC
    <2> QED
      BY <2>1, <2>4, <2>6, <2>7, <2>8 DEF IndInv
  <1> QED
    BY <1>4, <1>5 DEF CreateFillPosition

\* The fill commits FILLED together with the quantity.
LEMMA ApplyFillInv ==
    ASSUME IndInv, NEW w \in Workers, apply_fill(w)
    PROVE  IndInv'
  <1> DEFINE k == KeyOf(job[w])
             p == PosKey(job[w])
  <1>1. /\ TypeOK /\ Busy /\ OwnerProgress /\ TrailSound /\ Rows
        /\ FlagsOff /\ StopCutsOff /\ pc[w] = "fill_commit" /\ Return(w)
        /\ positions' = [positions EXCEPT ![p] = loc[w].posn + loc[w].delta]
        /\ UNCHANGED <<stop, accounts, risk, signals, order, placed, orphaned,
                       quiet>>
    BY DEF IndInv, apply_fill
  <1>2. k \in Key /\ p \in Accounts \X Symbols
    BY <1>1, BusyKey
  <1>3. status[k] \in {"SUBMITTED", "FILLED"} /\ placed[k] = 1
    BY <1>1 DEF OwnerProgress, Progress
  <1>4. /\ status' \in [Key -> OrderExecutionStatus \cup {Absent}]
        /\ trail' \in [Key -> Seq(Transition)]
        /\ status'[k] = "FILLED"
        /\ \A l \in Key \ {k} : status'[l] = status[l]
        /\ TrailSound'
    <2>1. CASE status[k] = "FILLED" /\ UNCHANGED <<status, trail>>
      BY <1>1, <2>1 DEF TypeOK, TrailSound
    <2>2. CASE transition_order_execution(k, "FILLED")
      BY <1>1, <1>2, <1>3, <2>2, TransitionSound
      DEF OrderExecutionStatus, Absent
    <2> QED
      BY <2>1, <2>2 DEF apply_fill
  <1>5. positions' \in [Accounts \X Symbols -> Int \cup {NoRow}]
    <2>1. loc[w].posn + loc[w].delta \in Int
      BY <1>1 DEF TypeOK, Locals
    <2> QED
      BY <1>1, <1>2, <2>1 DEF TypeOK
  <1>6. /\ OnlyMoves(w) /\ pc'[w] = "idle" /\ pc' \in [Workers -> PCs]
        /\ loc' \in [Workers -> Locals]
        /\ job' \in [Workers -> Job \cup {NoRow}]
    BY <1>1, ReturnControl
  <1>7. TypeOK' /\ Busy'
    BY <1>1, <1>4, <1>5, <1>6 DEF TypeOK, Busy, OnlyMoves
  <1>8. Progress(w)'
    BY <1>6 DEF Progress
  <1>9. Ownership' /\ OwnerProgress'
    BY <1>1, <1>4, <1>6, <1>8, OwnerFrame DEF OwningPC, Absent
  <1>10. Rows'
    BY <1>1, <1>3, <1>4 DEF Rows
  <1>11. FlagsOff' /\ StopCutsOff'
    BY <1>1, <1>6 DEF FlagsOff, StopCutsOff, OnlyMoves, PastRiskPC
  <1> QED
    BY <1>4, <1>7, <1>9, <1>10, <1>11 DEF IndInv
-----------------------------------------------------------------------------
\* Every step keeps the invariant.
LEMMA NextInv == IndInv /\ [Next]_vars => IndInv'
  <1> SUFFICES ASSUME IndInv, [Next]_vars PROVE IndInv'
    OBVIOUS
  <1>1. CASE OperatorStep
    BY <1>1, OperatorInv
  <1>2. ASSUME NEW w \in Workers, NEW j \in Job, execute_signal(w, j)
        PROVE  IndInv'
    BY <1>2, StartInv
  <1>3. ASSUME NEW w \in Workers, WorkerStep(w) PROVE IndInv'
    BY <1>3, StopCheckInv, FindExistingInv, ReadPositionInv, CreatePositionInv,
       InsertInv, ReadRiskInv, CreateRiskInv, CheckRiskInv, SubmitInv, PlaceInv,
       ReadFillInv, CreateFillInv, ApplyFillInv DEF WorkerStep
  <1>4. ASSUME NEW w \in Workers, Crash(w) PROVE IndInv'
    BY <1>4, AbortInv DEF Crash
  <1>5. CASE UNCHANGED vars
    <2>1. UNCHANGED <<dbvars, placed, pc, job, loc, orphaned, quiet>>
      BY <1>5 DEF vars
    <2>2. TypeOK' /\ FlagsOff'
      BY <2>1 DEF IndInv, TypeOK, FlagsOff, dbvars
    <2> QED
      BY <2>1, <2>2, OperatorFrame DEF IndInv, dbvars
  <1> QED
    BY <1>1, <1>2, <1>3, <1>4, <1>5 DEF Next

\* Every reachable state satisfies the inductive invariant: a row of
\* order_executions is moved by the request that inserted it and no other.
THEOREM Invariance == Spec => []IndInv
  BY InitInv, NextInv, PTL DEF Spec

\* No reachable state leaves the types of the rows and of the requests'
\* local values (services/order_engine.py, services/position_engine.py).
THEOREM TypeCorrectness == Spec => []TypeOK
  <1>1. IndInv => TypeOK
    BY DEF IndInv
  <1> QED
    BY <1>1, Invariance, PTL

\* MockExchange.place_order is called at most once per signal and account,
\* for any number of concurrent and dying requests.
THEOREM Idempotence == Spec => []AtMostOnePlacement
  <1>1. IndInv => AtMostOnePlacement
    BY DEF IndInv, Rows, AtMostOnePlacement
  <1> QED
    BY <1>1, Invariance, PTL

\* The database is at SUBMITTED or FILLED once the order is placed, and at
\* FILLED only if it was.
THEOREM RecordedBeforePlaced == Spec => []PlacementIsRecorded
  <1>1. IndInv => PlacementIsRecorded
    BY DEF IndInv, Rows, PlacementIsRecorded
  <1> QED
    BY <1>1, Invariance, PTL

\* The audit trail of every execution is a path of the status graph that
\* ends at the row's status.
THEOREM TrailCorrectness == Spec => []TrailSound
  <1>1. IndInv => TrailSound
    BY DEF IndInv
  <1> QED
    BY <1>1, Invariance, PTL

\* A risk check that reads after an emergency stop rejects the order.
THEOREM EmergencyStop == Spec => []StopCutsOff
  <1>1. IndInv => StopCutsOff
    BY DEF IndInv
  <1> QED
    BY <1>1, Invariance, PTL
-----------------------------------------------------------------------------
\* No step moves an execution whose request died: only an owner moves one.
LEMMA OrphanStep ==
    ASSUME IndInv, [Next]_vars, NEW k \in orphaned
    PROVE  status'[k] = status[k] /\ placed'[k] = placed[k]
  <1>1. TypeOK /\ Busy /\ Ownership /\ k \in Key /\ status[k] # Absent
    BY DEF IndInv, Ownership, TypeOK
  <1>2. CASE OperatorStep
    BY <1>2 DEF OperatorStep, create_manual_signal, update_account,
       delete_account, read_risk_settings, patch_risk_settings,
       activate_emergency_stop, deactivate_emergency_stop
  <1>3. ASSUME NEW w \in Workers, NEW j \in Job, execute_signal(w, j)
        PROVE  status' = status /\ placed' = placed
    BY <1>3 DEF execute_signal, dbvars
  <1>4. ASSUME NEW w \in Workers, Crash(w)
        PROVE  status' = status /\ placed' = placed
    BY <1>4 DEF Crash, dbvars
  <1>5. ASSUME NEW w \in Workers, WorkerStep(w), pc[w] \in OwningPC
        PROVE  status'[k] = status[k] /\ placed'[k] = placed[k]
    <2>1. k # KeyOf(job[w])
      BY <1>1, <1>5 DEF Ownership, Owns
    <2> QED
      BY <1>1, <1>5, <2>1 DEF WorkerStep, assert_new_orders_allowed,
         FindExisting, ReadPosition, CreatePosition, InsertExecution,
         ReadRiskSettings, CreateRiskSettings, CheckRisk, SubmitOrder,
         place_order, ReadFillPosition, CreateFillPosition, apply_fill,
         transition_order_execution, dbvars, OwningPC, TypeOK
  <1>6. ASSUME NEW w \in Workers, WorkerStep(w), pc[w] \notin OwningPC
        PROVE  status'[k] = status[k] /\ placed'[k] = placed[k]
    <2>1. CASE InsertExecution(w)
      <3>1. UniqueViolation(KeyOf(job[w])) \/ k # KeyOf(job[w])
        BY <1>1 DEF UniqueViolation
      <3> QED
        BY <1>1, <2>1, <3>1 DEF InsertExecution, StoreExecution, TypeOK
    <2>2. CASE UNCHANGED <<status, placed>>
      BY <2>2
    <2> QED
      BY <1>6, <2>1, <2>2 DEF WorkerStep, assert_new_orders_allowed,
         FindExisting, ReadPosition, CreatePosition, ReadRiskSettings,
         CreateRiskSettings, CheckRisk, SubmitOrder, place_order,
         ReadFillPosition, CreateFillPosition, apply_fill, dbvars, OwningPC
  <1>7. CASE UNCHANGED vars
    BY <1>7 DEF vars, dbvars
  <1> QED
    BY <1>2, <1>3, <1>4, <1>5, <1>6, <1>7 DEF Next

\* A row whose request died keeps its status and is never placed again.
THEOREM DeadRowsStay == Spec => OrphansStayPut
  <1>1. IndInv /\ [Next]_vars =>
          [\A k \in orphaned : status'[k] = status[k] /\ placed'[k] = placed[k]]_vars
    BY OrphanStep
  <1> QED
    BY <1>1, Invariance, PTL DEF Spec, OrphansStayPut
-----------------------------------------------------------------------------
(***************************************************************************)
(* SignalExecution implements OrderOnce.  A step changes the record of at  *)
(* most the order its thread owns, and what IndInv says of the owner tells *)
(* which abstract step that is.                                            *)
(***************************************************************************)
\* The state of OrderOnce, as Once maps it.
onceVars == <<[k \in Key |-> RecordOf(k)], placed>>

\* What a step that touches order k alone must do to be a step of OrderOnce.
OnceMove(k) ==
    \/ RecordOf(k) = "none" /\ RecordOf(k)' = "kept" /\ placed'[k] = placed[k]
    \/ /\ RecordOf(k) \in {"none", "kept"} /\ placed[k] = 0
       /\ RecordOf(k)' = "refused" /\ placed'[k] = placed[k]
    \/ /\ RecordOf(k) = "kept" /\ RecordOf(k)' = "kept"
       /\ placed[k] = 0 /\ placed'[k] = 1
    \/ RecordOf(k)' = RecordOf(k) /\ placed'[k] = placed[k]

\* The orders other than k keep their rows.
OnlyOrder(k) ==
    /\ placed' \in [Key -> Nat]
    /\ \A l \in Key \ {k} : status'[l] = status[l] /\ placed'[l] = placed[l]

\* What the abstract record of an execution is.
LEMMA RecordCases ==
    ASSUME NEW k \in Key
    PROVE  /\ status[k] = Absent => RecordOf(k) = "none"
           /\ status[k] \in TERMINAL_ORDER_STATUSES /\ placed[k] = 0
                => RecordOf(k) = "refused"
           /\ status[k] \notin TERMINAL_ORDER_STATUSES \cup {Absent}
                => RecordOf(k) = "kept"
           /\ status[k] # Absent /\ placed[k] # 0 => RecordOf(k) = "kept"
  BY DEF RecordOf, TERMINAL_ORDER_STATUSES, Absent

\* The same after a step.
LEMMA RecordCasesNext ==
    ASSUME NEW k \in Key
    PROVE  /\ status'[k] = Absent => RecordOf(k)' = "none"
           /\ status'[k] \in TERMINAL_ORDER_STATUSES /\ placed'[k] = 0
                => RecordOf(k)' = "refused"
           /\ status'[k] \notin TERMINAL_ORDER_STATUSES \cup {Absent}
                => RecordOf(k)' = "kept"
           /\ status'[k] # Absent /\ placed'[k] # 0 => RecordOf(k)' = "kept"
  BY DEF RecordOf, TERMINAL_ORDER_STATUSES, Absent

\* Where neither status nor placements change, the abstract state does not.
LEMMA OnceStutter ==
    ASSUME UNCHANGED <<status, placed>>
    PROVE  UNCHANGED onceVars
  BY DEF RecordOf, onceVars

\* A step that moves one execution as an abstract step would is that step.
LEMMA OnceAbstraction ==
    ASSUME TypeOK, NEW k \in Key, OnlyOrder(k), OnceMove(k)
    PROVE  [Once!Next]_onceVars
  <1> DEFINE rec == [l \in Key |-> RecordOf(l)]
             rec2 == [l \in Key |-> RecordOf(l)']
  <1>1. placed \in [Key -> Nat] /\ placed' \in [Key -> Nat]
    BY DEF TypeOK, OnlyOrder
  <1>2. \A l \in Key \ {k} : RecordOf(l)' = RecordOf(l) /\ placed'[l] = placed[l]
    BY DEF OnlyOrder, RecordOf
  <1>3. rec2 = [rec EXCEPT ![k] = RecordOf(k)']
    BY <1>2
  <1>4. placed' = [placed EXCEPT ![k] = placed'[k]]
    BY <1>1, <1>2
  <1>5. rec' = rec2
    BY DEF RecordOf
  <1>6. rec[k] = RecordOf(k)
    OBVIOUS
  <1>7. CASE RecordOf(k) = "none" /\ RecordOf(k)' = "kept"
             /\ placed'[k] = placed[k]
    <2>1. placed' = placed
      BY <1>1, <1>4, <1>7
    <2>2. Once!Keep(k)
      BY <1>3, <1>5, <1>6, <1>7, <2>1 DEF Once!Keep
    <2> QED
      BY <2>2 DEF Once!Next, onceVars
  <1>8. CASE /\ RecordOf(k) \in {"none", "kept"} /\ placed[k] = 0
             /\ RecordOf(k)' = "refused" /\ placed'[k] = placed[k]
    <2>1. placed' = placed
      BY <1>1, <1>4, <1>8
    <2>2. Once!Refuse(k)
      BY <1>3, <1>5, <1>6, <1>8, <2>1 DEF Once!Refuse
    <2> QED
      BY <2>2 DEF Once!Next, onceVars
  <1>9. CASE /\ RecordOf(k) = "kept" /\ RecordOf(k)' = "kept"
             /\ placed[k] = 0 /\ placed'[k] = 1
    <2>1. rec2 = rec
      BY <1>2, <1>9
    <2>2. Once!Send(k)
      BY <1>4, <1>5, <1>6, <1>9, <2>1 DEF Once!Send
    <2> QED
      BY <2>2 DEF Once!Next, onceVars
  <1>10. CASE RecordOf(k)' = RecordOf(k) /\ placed'[k] = placed[k]
    <2>1. rec2 = rec /\ placed' = placed
      BY <1>1, <1>2, <1>4, <1>10
    <2> QED
      BY <1>5, <2>1 DEF onceVars
  <1> QED
    BY <1>7, <1>8, <1>9, <1>10 DEF OnceMove

\* Initially nothing is recorded and nothing sent.
LEMMA OnceInit == Init => Once!Init
  <1>1. Init => \A k \in Key : RecordOf(k) = "none"
    BY RecordCases DEF Init
  <1> QED
    BY <1>1 DEF Init, Once!Init

\* The row a request has just inserted: the order was in no row before.
LEMMA OnceInsert ==
    ASSUME IndInv, NEW w \in Workers, InsertExecution(w)
    PROVE  [Once!Next]_onceVars
  <1>1. TypeOK /\ KeyOf(job[w]) \in Key
    BY BusyKey DEF InsertExecution, IndInv
  <1> PICK k \in Key : k = KeyOf(job[w])
    BY <1>1
  <1>2. CASE UNCHANGED <<status, placed>>
    BY <1>2, OnceStutter
  <1>3. CASE ~UniqueViolation(k) /\ StoreExecution(w, k)
    <2>1. status[k] = Absent /\ status'[k] = "CREATED" /\ placed' = placed
      BY <1>1, <1>3 DEF UniqueViolation, StoreExecution, InsertExecution, TypeOK
    <2>2. OnlyOrder(k)
      BY <1>1, <1>3, <2>1 DEF OnlyOrder, StoreExecution, TypeOK
    <2>3. OnceMove(k)
      BY <2>1, RecordCases, RecordCasesNext
      DEF OnceMove, TERMINAL_ORDER_STATUSES, Absent
    <2> QED
      BY <1>1, <2>2, <2>3, OnceAbstraction
  <1> QED
    BY <1>2, <1>3 DEF InsertExecution

\* The steps of the owner of a row.
LEMMA OnceOwner ==
    ASSUME IndInv, NEW w \in Workers, pc[w] \in OwningPC,
           \/ CheckRisk(w) \/ SubmitOrder(w) \/ place_order(w)
           \/ CreateFillPosition(w) \/ apply_fill(w)
    PROVE  [Once!Next]_onceVars
  <1>1. TypeOK /\ KeyOf(job[w]) \in Key /\ Progress(w)
    BY BusyKey DEF IndInv, OwnerProgress, OwningPC
  <1> PICK k \in Key : k = KeyOf(job[w])
    BY <1>1
  <1>2. placed[k] \in Nat
    BY <1>1 DEF TypeOK
  <1>3. OnlyOrder(k)
    BY <1>1 DEF OnlyOrder, CheckRisk, SubmitOrder, place_order, dbvars,
       CreateFillPosition, apply_fill, transition_order_execution, TypeOK
  <1>4. CASE CheckRisk(w)
    <2>1. status[k] = "CREATED" /\ placed[k] = 0 /\ placed' = placed
          /\ status'[k] \in {"RISK_PASSED", "FAILED"}
      BY <1>1, <1>4 DEF CheckRisk, Progress, transition_order_execution, TypeOK
    <2>2. OnceMove(k)
      BY <2>1, RecordCases, RecordCasesNext
      DEF OnceMove, TERMINAL_ORDER_STATUSES, Absent
    <2> QED
      BY <1>1, <1>3, <2>2, OnceAbstraction
  <1>5. CASE SubmitOrder(w)
    <2>1. status[k] = "RISK_PASSED" /\ placed' = placed
          /\ status'[k] = "SUBMITTED"
      BY <1>1, <1>5 DEF SubmitOrder, Progress, transition_order_execution, TypeOK
    <2>2. OnceMove(k)
      BY <2>1, RecordCases, RecordCasesNext
      DEF OnceMove, TERMINAL_ORDER_STATUSES, Absent
    <2> QED
      BY <1>1, <1>3, <2>2, OnceAbstraction
  <1>6. CASE place_order(w)
    <2>1. status[k] = "SUBMITTED" /\ status' = status
          /\ placed[k] = 0 /\ placed'[k] = 1
      BY <1>1, <1>6 DEF place_order, Progress, dbvars, TypeOK
    <2>2. OnceMove(k)
      BY <2>1, RecordCases, RecordCasesNext
      DEF OnceMove, TERMINAL_ORDER_STATUSES, Absent
    <2> QED
      BY <1>1, <1>3, <2>2, OnceAbstraction
  <1>7. CASE CreateFillPosition(w) \/ apply_fill(w)
    <2>1. /\ status[k] \in {"SUBMITTED", "FILLED"} /\ placed[k] = 1
          /\ placed' = placed
          /\ status'[k] \in {status[k], "FILLED"}
      BY <1>1, <1>7 DEF CreateFillPosition, apply_fill, Progress, TypeOK,
         transition_order_execution
    <2>2. OnceMove(k)
      BY <2>1, RecordCases, RecordCasesNext
      DEF OnceMove, TERMINAL_ORDER_STATUSES, Absent
    <2> QED
      BY <1>1, <1>3, <2>2, OnceAbstraction
  <1> QED
    BY <1>4, <1>5, <1>6, <1>7

\* Every step is a step of OrderOnce or changes nothing there.
LEMMA OnceStep ==
    IndInv /\ [Next]_vars => [Once!Next]_onceVars
  <1> SUFFICES ASSUME IndInv, [Next]_vars
               PROVE  [Once!Next]_onceVars
    OBVIOUS
  <1>1. CASE OperatorStep
    <2>1. UNCHANGED <<status, placed>>
      BY <1>1 DEF OperatorStep, create_manual_signal, update_account,
         delete_account, read_risk_settings, patch_risk_settings,
         activate_emergency_stop, deactivate_emergency_stop
    <2> QED
      BY <2>1, OnceStutter
  <1>2. ASSUME NEW w \in Workers,
               \/ \E j \in Job : execute_signal(w, j)
               \/ Crash(w) \/ assert_new_orders_allowed(w) \/ FindExisting(w)
               \/ ReadPosition(w) \/ CreatePosition(w) \/ ReadRiskSettings(w)
               \/ CreateRiskSettings(w) \/ ReadFillPosition(w)
        PROVE  [Once!Next]_onceVars
    <2>1. UNCHANGED <<status, placed>>
      BY <1>2 DEF execute_signal, Crash, assert_new_orders_allowed,
         FindExisting, ReadPosition, CreatePosition, ReadRiskSettings,
         CreateRiskSettings, ReadFillPosition, dbvars
    <2> QED
      BY <2>1, OnceStutter
  <1>3. ASSUME NEW w \in Workers, InsertExecution(w)
        PROVE  [Once!Next]_onceVars
    BY <1>3, OnceInsert
  <1>4. ASSUME NEW w \in Workers,
               \/ CheckRisk(w) \/ SubmitOrder(w) \/ place_order(w)
               \/ CreateFillPosition(w) \/ apply_fill(w)
        PROVE  [Once!Next]_onceVars
    <2>1. pc[w] \in OwningPC
      BY <1>4 DEF OwningPC, CheckRisk, SubmitOrder, place_order,
         CreateFillPosition, apply_fill
    <2> QED
      BY <1>4, <2>1, OnceOwner
  <1>5. CASE UNCHANGED vars
    <2>1. UNCHANGED <<status, placed>>
      BY <1>5 DEF vars, dbvars
    <2> QED
      BY <2>1, OnceStutter
  <1> QED
    BY <1>1, <1>2, <1>3, <1>4, <1>5 DEF Next, WorkerStep

\* Whatever threads race and wherever they die, executing signals does what
\* OrderOnce promises: a row first, one call of place_order at most, and none
\* once the row ended FAILED (execute_signal_for_account).
THEOREM ExecutesOnce == Spec => ImplementsOrderOnce
  BY OnceInit, OnceStep, Invariance, PTL
  DEF Spec, ImplementsOrderOnce, Once!Spec, onceVars
=============================================================================
