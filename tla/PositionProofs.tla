--------------------------- MODULE PositionProofs ---------------------------
(***************************************************************************)
(* PositionExplained, for any number of threads, signals, accounts and     *)
(* symbols: a position is the sum of some of its FILLED executions.        *)
(***************************************************************************)
EXTENDS SignalExecutionProofs, FiniteSetTheorems

-----------------------------------------------------------------------------
(***************************************************************************)
(* Sums over finite sets.  What holds of every proper subset of a finite   *)
(* set, whenever it holds of all proper subsets of that, holds of all.     *)
(***************************************************************************)
\* A set of finite sets has a member no other member is part of.
LEMMA SmallestSet ==
    ASSUME NEW S, IsFiniteSet(S), NEW B \in SUBSET (SUBSET S), B # {}
    PROVE  \E m \in B : \A u \in SUBSET m : u # m => u \notin B
  <1>1. IsWellFoundedOn(StrictSubsetOrdering(S), FiniteSubsetsOf(S))
    BY FS_StrictSubsetOrderingWellFounded
  <1>2. B \subseteq FiniteSubsetsOf(S)
    BY FS_FiniteSubsetsOfFinite
  <1>3. PICK m \in B : \A u \in B : ~(<<u, m>> \in StrictSubsetOrdering(S))
    BY <1>1, <1>2, WFMin
  <1>4. ASSUME NEW u \in SUBSET m, u # m, u \in B PROVE FALSE
    <2>1. u \in SUBSET S /\ m \in SUBSET S
      OBVIOUS
    <2>2. <<u, m>> \in StrictSubsetOrdering(S)
      BY <2>1, <1>4 DEF StrictSubsetOrdering
    <2> QED BY <2>2, <1>3, <1>4
  <1> QED BY <1>4

\* Total and its equation, as the library defines them.
Total(f, S) == SumFunctionOnSet(f, S)

Picked(s) == CHOOSE x \in s : TRUE

IsSum(f, S, g) ==
    g = [s \in SUBSET S |-> IF s = {} THEN 0
                            ELSE f[Picked(s)] + g[s \ {Picked(s)}]]

\* The library's recursive function is some function that satisfies its
\* equation, if there is one at all.
LEMMA TotalUnfolds ==
    ASSUME NEW f, NEW S, NEW g, IsSum(f, S, g)
    PROVE  \E h : IsSum(f, S, h) /\ Total(f, S) = h[S]
  <1>1. Total(f, S) = (CHOOSE h : IsSum(f, S, h))[S]
    BY DEF Total, SumFunctionOnSet, FoldFunctionOnSet, MapThenFoldSet, IsSum, Picked
  <1>2. IsSum(f, S, CHOOSE h : IsSum(f, S, h))
    OBVIOUS
  <1> QED BY <1>1, <1>2

\* Solutions of the equation for functions that agree on a finite set agree.
LEMMA SumAgrees ==
    ASSUME NEW f, NEW e, NEW S, NEW U \in SUBSET S, IsFiniteSet(U),
           NEW g, NEW h, IsSum(f, S, g), IsSum(e, U, h),
           \A x \in U : f[x] = e[x]
    PROVE  g[U] = h[U]
  <1> DEFINE B == {v \in SUBSET U : g[v] # h[v]}
  <1>0. SUFFICES ASSUME g[U] # h[U] PROVE FALSE
    OBVIOUS
  <1>1. U \in B
    BY <1>0
  <1>2. PICK m \in B : \A u \in SUBSET m : u # m => u \notin B
    <2>1. B \in SUBSET (SUBSET U) /\ B # {}
      BY <1>1
    <2> HIDE DEF B
    <2> QED BY <2>1, SmallestSet
  <1>3. m \in SUBSET U /\ m \in SUBSET S /\ g[m] # h[m]
    OBVIOUS
  <1>4. CASE m = {}
    BY <1>3, <1>4 DEF IsSum
  <1>5. CASE m # {}
    <2>1. PICK x : x = Picked(m)
      OBVIOUS
    <2>2. x \in m
      BY <2>1, <1>5 DEF Picked
    <2>3. g[m] = f[x] + g[m \ {x}] /\ h[m] = e[x] + h[m \ {x}]
      BY <2>1, <1>3, <1>5 DEF IsSum
    <2>4. m \ {x} \in SUBSET m /\ m \ {x} # m /\ m \ {x} \in SUBSET U
      BY <2>2, <1>3
    <2>5. g[m \ {x}] = h[m \ {x}]
      BY <2>4, <1>2
    <2> QED BY <2>2, <2>3, <2>5, <1>3
  <1> QED BY <1>4, <1>5

\* Over a finite set the equation has a solution.
LEMMA SumExists ==
    ASSUME NEW f, NEW S, IsFiniteSet(S)
    PROVE  \E g : IsSum(f, S, g)
  <1> DEFINE B == {T \in SUBSET S : \A g : ~IsSum(f, T, g)}
  <1>0. SUFFICES ASSUME \A g : ~IsSum(f, S, g) PROVE FALSE
    OBVIOUS
  <1>1. S \in B
    BY <1>0
  <1>2. PICK m \in B : \A u \in SUBSET m : u # m => u \notin B
    <2>1. B \in SUBSET (SUBSET S) /\ B # {}
      BY <1>1
    <2> HIDE DEF B
    <2> QED BY <2>1, SmallestSet
  <1> DEFINE g == [s \in SUBSET m |-> IF s = {} THEN 0
                        ELSE f[Picked(s)] + Total(f, s \ {Picked(s)})]
  <1>3. \A u \in SUBSET m : u # m => \E h : IsSum(f, u, h) /\ Total(f, u) = h[u]
    <2> SUFFICES ASSUME NEW u \in SUBSET m, u # m
                 PROVE  \E h : IsSum(f, u, h) /\ Total(f, u) = h[u]
      OBVIOUS
    <2>1. PICK h : IsSum(f, u, h)
      BY <1>2
    <2> QED BY <2>1, TotalUnfolds
  <1>4. ASSUME NEW u \in SUBSET m, u # m
        PROVE  g[u] = Total(f, u)
    <2>1. PICK h : IsSum(f, u, h) /\ Total(f, u) = h[u]
      BY <1>3, <1>4
    <2>2. CASE u = {}
      BY <2>1, <2>2 DEF IsSum
    <2>3. CASE u # {}
      <3>1. PICK x : x = Picked(u)
        OBVIOUS
      <3>2. x \in u
        BY <3>1, <2>3 DEF Picked
      <3>3. /\ u \ {x} \in SUBSET u /\ u \ {x} \in SUBSET m /\ u \ {x} # m
            /\ u \in SUBSET u
        BY <3>2
      <3>4. PICK i : IsSum(f, u \ {x}, i) /\ Total(f, u \ {x}) = i[u \ {x}]
        BY <3>3, <1>3
      <3>5. IsFiniteSet(u \ {x})
        BY <3>3, FS_Subset
      <3>6. h[u \ {x}] = i[u \ {x}]
        BY <3>3, <3>4, <3>5, <2>1, SumAgrees
      <3>7. h[u] = f[x] + h[u \ {x}]
        BY <3>1, <3>3, <2>1, <2>3 DEF IsSum
      <3>8. g[u] = f[x] + Total(f, u \ {x})
        BY <3>1, <2>3
      <3> QED BY <3>4, <3>6, <3>7, <3>8, <2>1
    <2> QED BY <2>2, <2>3
  <1>5. ASSUME NEW s \in SUBSET m, s # {}
        PROVE  g[s] = f[Picked(s)] + g[s \ {Picked(s)}]
    <2>1. PICK x : x = Picked(s)
      OBVIOUS
    <2>2. x \in s
      BY <2>1, <1>5 DEF Picked
    <2>3. s \ {x} \in SUBSET m /\ s \ {x} # m
      BY <2>2
    <2>4. g[s \ {x}] = Total(f, s \ {x})
      BY <2>3, <1>4
    <2>5. g[s] = f[x] + Total(f, s \ {x})
      BY <2>1, <1>5
    <2> QED BY <2>1, <2>4, <2>5
  <1>6. g[{}] = 0
    OBVIOUS
  <1>7. g = [s \in SUBSET m |-> g[s]]
    OBVIOUS
  <1> HIDE DEF g
  <1>8. IsSum(f, m, g)
    BY <1>5, <1>6, <1>7 DEF IsSum
  <1> QED BY <1>8

\* The sum of nothing is 0.
LEMMA TotalEmpty ==
    ASSUME NEW f
    PROVE  Total(f, {}) = 0
  <1>1. PICK g : IsSum(f, {}, g)
    BY SumExists, FS_EmptySet
  <1>2. PICK h : IsSum(f, {}, h) /\ Total(f, {}) = h[{}]
    BY <1>1, TotalUnfolds
  <1> QED BY <1>2 DEF IsSum

\* Other values do not matter.
LEMMA TotalSame ==
    ASSUME NEW f, NEW e, NEW S, IsFiniteSet(S), \A x \in S : f[x] = e[x]
    PROVE  Total(f, S) = Total(e, S)
  <1>1. PICK g : IsSum(f, S, g) /\ Total(f, S) = g[S]
    BY SumExists, TotalUnfolds
  <1>2. PICK h : IsSum(e, S, h) /\ Total(e, S) = h[S]
    BY SumExists, TotalUnfolds
  <1>3. g[S] = h[S]
    BY <1>1, <1>2, SumAgrees
  <1> QED BY <1>1, <1>2, <1>3

\* The element the library takes first.
LEMMA TotalPicked ==
    ASSUME NEW f, NEW S, IsFiniteSet(S), S # {}
    PROVE  /\ Picked(S) \in S
           /\ Total(f, S) = f[Picked(S)] + Total(f, S \ {Picked(S)})
  <1>1. PICK x : x = Picked(S)
    OBVIOUS
  <1>2. x \in S
    BY <1>1 DEF Picked
  <1>3. S \ {x} \in SUBSET S /\ IsFiniteSet(S \ {x})
    BY FS_Subset
  <1>4. PICK g : IsSum(f, S, g) /\ Total(f, S) = g[S]
    BY SumExists, TotalUnfolds
  <1>5. PICK h : IsSum(f, S \ {x}, h) /\ Total(f, S \ {x}) = h[S \ {x}]
    BY <1>3, SumExists, TotalUnfolds
  <1>6. g[S \ {x}] = h[S \ {x}]
    BY <1>3, <1>4, <1>5, SumAgrees
  <1>7. g[S] = f[x] + g[S \ {x}]
    BY <1>1, <1>4 DEF IsSum
  <1> QED BY <1>1, <1>2, <1>4, <1>5, <1>6, <1>7

\* Integers add up to an integer.
LEMMA TotalInt ==
    ASSUME NEW f, NEW S, IsFiniteSet(S), \A x \in S : f[x] \in Int
    PROVE  Total(f, S) \in Int
  <1> DEFINE B == {T \in SUBSET S : Total(f, T) \notin Int}
  <1>0. SUFFICES ASSUME Total(f, S) \notin Int PROVE FALSE
    OBVIOUS
  <1>1. S \in B
    BY <1>0
  <1>2. PICK m \in B : \A u \in SUBSET m : u # m => u \notin B
    <2>1. B \in SUBSET (SUBSET S) /\ B # {}
      BY <1>1
    <2> HIDE DEF B
    <2> QED BY <2>1, SmallestSet
  <1>3. IsFiniteSet(m) /\ m \in SUBSET S
    BY FS_Subset
  <1>4. CASE m = {}
    BY <1>4, TotalEmpty
  <1>5. CASE m # {}
    <2>1. PICK x \in m : Total(f, m) = f[x] + Total(f, m \ {x})
      BY <1>3, <1>5, TotalPicked
    <2>2. m \ {x} \in SUBSET m /\ m \ {x} # m /\ m \ {x} \in SUBSET S
      BY <1>3, <2>1
    <2>3. Total(f, m \ {x}) \in Int
      BY <2>2, <1>2
    <2> QED BY <2>1, <2>3, <1>3
  <1> QED BY <1>4, <1>5

\* The order in which elements are added does not matter.
LEMMA TotalRemove ==
    ASSUME NEW f, NEW S, IsFiniteSet(S), \A x \in S : f[x] \in Int
    PROVE  \A k \in S : Total(f, S) = f[k] + Total(f, S \ {k})
  <1> DEFINE B == {T \in SUBSET S :
                     \E k \in T : Total(f, T) # f[k] + Total(f, T \ {k})}
  <1>0. SUFFICES ASSUME NEW c \in S, Total(f, S) # f[c] + Total(f, S \ {c})
        PROVE  FALSE
    OBVIOUS
  <1>1. S \in B
    BY <1>0
  <1>2. PICK m \in B : \A u \in SUBSET m : u # m => u \notin B
    <2>1. B \in SUBSET (SUBSET S) /\ B # {}
      BY <1>1
    <2> HIDE DEF B
    <2> QED BY <2>1, SmallestSet
  <1>3. IsFiniteSet(m) /\ m \in SUBSET S
    BY FS_Subset
  <1>4. PICK k \in m : Total(f, m) # f[k] + Total(f, m \ {k})
    OBVIOUS
  <1>5. PICK x \in m : Total(f, m) = f[x] + Total(f, m \ {x})
    BY <1>3, <1>4, TotalPicked
  <1>6. k # x
    BY <1>4, <1>5
  <1>7. m \ {x} \in SUBSET m /\ m \ {x} # m /\ k \in m \ {x} /\ m \ {x} \in SUBSET S
    BY <1>3, <1>6
  <1>8. m \ {k} \in SUBSET m /\ m \ {k} # m /\ x \in m \ {k} /\ m \ {k} \in SUBSET S
    BY <1>3, <1>6
  <1>9. Total(f, m \ {x}) = f[k] + Total(f, (m \ {x}) \ {k})
    BY <1>2, <1>7
  <1>10. Total(f, m \ {k}) = f[x] + Total(f, (m \ {k}) \ {x})
    BY <1>2, <1>8
  <1>11. PICK r : r = (m \ {x}) \ {k}
    OBVIOUS
  <1>12. (m \ {k}) \ {x} = r /\ r \in SUBSET m
    BY <1>11
  <1>13. Total(f, r) \in Int
    <2>1. IsFiniteSet(r) /\ \A y \in r : f[y] \in Int
      BY <1>3, <1>12, FS_Subset
    <2> QED BY <2>1, TotalInt
  <1>14. f[k] \in Int /\ f[x] \in Int
    BY <1>3
  <1>15. Total(f, m) = f[x] + (f[k] + Total(f, r))
    BY <1>5, <1>9, <1>11
  <1>16. Total(f, m \ {k}) = f[x] + Total(f, r)
    BY <1>10, <1>12
  <1>17. Total(f, m) = f[k] + Total(f, m \ {k})
    BY <1>13, <1>14, <1>15, <1>16
  <1> QED BY <1>4, <1>17

\* One element more.
LEMMA TotalAdd ==
    ASSUME NEW f, NEW S, IsFiniteSet(S), NEW k, k \notin S, f[k] \in Int,
           \A x \in S : f[x] \in Int
    PROVE  IsFiniteSet(S \cup {k}) /\ Total(f, S \cup {k}) = Total(f, S) + f[k]
  <1>1. PICK T : T = S \cup {k}
    OBVIOUS
  <1>2. IsFiniteSet(T) /\ k \in T /\ T \ {k} = S /\ \A x \in T : f[x] \in Int
    BY <1>1, FS_AddElement
  <1>3. Total(f, T) = f[k] + Total(f, S)
    BY <1>2, TotalRemove
  <1>4. Total(f, S) \in Int
    BY TotalInt
  <1> QED BY <1>1, <1>2, <1>3, <1>4
-----------------------------------------------------------------------------
(***************************************************************************)
(* The inductive invariant.                                                *)
(***************************************************************************)
\* FILLED executions of p, an account and a symbol, nobody works on any more.
Done(p) == {k \in Filled(p[1], p[2]) : \A w \in Workers : ~Owns(w, k)}

\* Such executions add up to q.
Explains(q, p) ==
    \E F \in SUBSET Done(p) : IsFiniteSet(F) /\ q = Total(order, F)

\* Every position is explained, so is every quantity a request has read and
\* is about to add to, and what it will add is what its execution records.
PositionInv ==
    /\ \A p \in Accounts \X Symbols :
          positions[p] # NoRow => Explains(positions[p], p)
    /\ \A w \in Workers :
          pc[w] = "fill_commit" => Explains(loc[w].posn, PosKey(job[w]))
    /\ \A w \in Workers :
          pc[w] \in OwningPC => loc[w].delta = order[KeyOf(job[w])]
-----------------------------------------------------------------------------
(***************************************************************************)
(* What a step does to the executions and to the threads.                  *)
(***************************************************************************)
\* Steps of a request.
RequestStep(w) ==
    (\E j \in Job : execute_signal(w, j)) \/ WorkerStep(w) \/ Crash(w)

\* Operators touch neither executions, nor positions, nor requests.
LEMMA StepFrame ==
    ASSUME [Next]_vars
    PROVE  \/ UNCHANGED <<status, order, positions, pc, job, loc>>
           \/ \E w \in Workers : RequestStep(w)
  BY DEF Next, OperatorStep, create_manual_signal, update_account,
     delete_account, read_risk_settings, patch_risk_settings,
     activate_emergency_stop, deactivate_emergency_stop, vars, dbvars,
     RequestStep

\* A request moves no other request.
LEMMA MovesAlone ==
    ASSUME TypeOK, NEW w \in Workers, RequestStep(w)
    PROVE  OnlyMoves(w)
  BY DEF RequestStep, OnlyMoves, TypeOK, Goto, Return, Abort, execute_signal,
     Crash, WorkerStep, assert_new_orders_allowed, FindExisting, ReadPosition,
     CreatePosition, InsertExecution, StoreExecution, ReadRiskSettings,
     CreateRiskSettings, CheckRisk, SubmitOrder, place_order,
     ReadFillPosition, CreateFillPosition, apply_fill

\* A row that exists is changed by its owner only, and its quantity by nobody.
LEMMA RowsStay ==
    ASSUME IndInv, NEW w \in Workers, RequestStep(w),
           NEW k \in Key, status[k] # Absent
    PROVE  order'[k] = order[k] /\ (~Owns(w, k) => status'[k] = status[k])
  <1>1. TypeOK
    BY DEF IndInv
  <1>2. CASE InsertExecution(w)
    <2>1. UniqueViolation(KeyOf(job[w])) \/ k # KeyOf(job[w])
      BY DEF UniqueViolation
    <2> QED
      BY <1>1, <1>2, <2>1 DEF InsertExecution, StoreExecution, TypeOK
  <1>3. CASE \/ CheckRisk(w) \/ SubmitOrder(w)
             \/ CreateFillPosition(w) \/ apply_fill(w)
    <2>1. pc[w] \in OwningPC
      BY <1>3 DEF OwningPC, CheckRisk, SubmitOrder, CreateFillPosition,
         apply_fill
    <2>2. order' = order
      BY <1>3 DEF CheckRisk, SubmitOrder, CreateFillPosition, apply_fill
    <2>3. ASSUME ~Owns(w, k) PROVE status'[k] = status[k]
      <3>1. k # KeyOf(job[w])
        BY <2>1, <2>3 DEF Owns
      <3> QED
        BY <1>1, <1>3, <3>1 DEF CheckRisk, SubmitOrder, CreateFillPosition,
           apply_fill, transition_order_execution, TypeOK
    <2> QED BY <2>2, <2>3
  <1>4. CASE UNCHANGED <<status, order>>
    BY <1>4
  <1> QED
    BY <1>2, <1>3, <1>4 DEF RequestStep, execute_signal, Crash, WorkerStep,
       assert_new_orders_allowed, FindExisting, ReadPosition, CreatePosition,
       ReadRiskSettings, CreateRiskSettings, place_order, ReadFillPosition,
       dbvars

\* A request comes to own a row by inserting it, with the quantity it
\* computed, and keeps both.
LEMMA OwnersStep ==
    ASSUME IndInv, NEW w \in Workers, RequestStep(w), pc'[w] \in OwningPC
    PROVE  /\ job'[w] = job[w] /\ pc[w] # "idle"
           /\ loc'[w].delta = loc[w].delta
           /\ \/ pc[w] \in OwningPC
              \/ /\ status[KeyOf(job[w])] = Absent
                 /\ order'[KeyOf(job[w])] = loc[w].delta
  <1>1. TypeOK
    BY DEF IndInv
  <1>2. CASE InsertExecution(w)
    <2>1. KeyOf(job[w]) \in Key
      BY <1>1, <1>2, BusyKey DEF IndInv, InsertExecution
    <2>2. ~UniqueViolation(KeyOf(job[w])) /\ StoreExecution(w, KeyOf(job[w]))
      BY <1>1, <1>2 DEF InsertExecution, Abort, Return, Goto, OwningPC, TypeOK
    <2>3. status[KeyOf(job[w])] = Absent
      BY <2>1, <2>2 DEF UniqueViolation
    <2> QED
      BY <1>1, <1>2, <2>1, <2>2, <2>3 DEF InsertExecution, StoreExecution,
         TypeOK
  <1>3. CASE pc[w] \in OwningPC
    BY <1>1, <1>3 DEF RequestStep, TypeOK, Goto, Return, Abort, OwningPC,
       execute_signal, Crash, WorkerStep, assert_new_orders_allowed,
       FindExisting, ReadPosition, CreatePosition, InsertExecution,
       ReadRiskSettings, CreateRiskSettings, CheckRisk, SubmitOrder,
       place_order, ReadFillPosition, CreateFillPosition, apply_fill, Locals
  <1>4. CASE pc[w] \notin OwningPC /\ ~InsertExecution(w)
    BY <1>1, <1>4 DEF RequestStep, TypeOK, Goto, Return, Abort, OwningPC,
       execute_signal, Crash, WorkerStep, assert_new_orders_allowed,
       FindExisting, ReadPosition, CreatePosition,
       ReadRiskSettings, CreateRiskSettings, CheckRisk, SubmitOrder,
       place_order, ReadFillPosition, CreateFillPosition, apply_fill
  <1> QED
    BY <1>2, <1>3, <1>4
-----------------------------------------------------------------------------
\* A FILLED execution nobody works on stays what it is, with its quantity.
LEMMA DoneStays ==
    ASSUME IndInv, [Next]_vars, NEW p \in Accounts \X Symbols, NEW k \in Done(p)
    PROVE  k \in Done(p)' /\ order'[k] = order[k]
  <1>1. /\ k \in Key /\ status[k] = "FILLED" /\ \A v \in Workers : ~Owns(v, k)
        /\ k[2] = p[1] /\ SignalSpec[k[1]].symbol = p[2]
    BY DEF Done, Filled
  <1>2. CASE UNCHANGED <<status, order, positions, pc, job, loc>>
    BY <1>1, <1>2 DEF Done, Filled, Owns
  <1>3. ASSUME NEW w \in Workers, RequestStep(w)
        PROVE  k \in Done(p)' /\ order'[k] = order[k]
    <2>1. status[k] # Absent
      BY <1>1 DEF Absent
    <2>2. order'[k] = order[k] /\ status'[k] = "FILLED"
      BY <1>1, <1>3, <2>1, RowsStay
    <2>3. OnlyMoves(w)
      BY <1>3, MovesAlone DEF IndInv
    <2>4. ASSUME NEW v \in Workers, pc'[v] \in OwningPC, KeyOf(job'[v]) = k
          PROVE  FALSE
      <3>1. CASE v # w
        BY <1>1, <2>3, <2>4, <3>1 DEF OnlyMoves, Owns
      <3>2. CASE v = w
        BY <1>1, <1>3, <2>1, <2>4, <3>2, OwnersStep DEF Owns
      <3> QED BY <3>1, <3>2
    <2> QED BY <1>1, <2>2, <2>4 DEF Done, Filled, Owns
  <1> QED BY <1>2, <1>3, StepFrame

\* So the sum that explains a quantity still does after any step.
LEMMA ExplainsStays ==
    ASSUME IndInv, [Next]_vars, NEW p \in Accounts \X Symbols, NEW q,
           Explains(q, p)
    PROVE  \E F \in SUBSET Done(p)' : IsFiniteSet(F) /\ q = Total(order', F)
  <1>1. PICK F \in SUBSET Done(p) : IsFiniteSet(F) /\ q = Total(order, F)
    BY DEF Explains
  <1>2. F \in SUBSET Done(p)' /\ \A x \in F : order[x] = order'[x]
    BY DoneStays
  <1>3. Total(order, F) = Total(order', F)
    BY <1>1, <1>2, TotalSame
  <1> QED BY <1>1, <1>2, <1>3

\* A new position is the sum of no executions.
LEMMA ZeroExplained ==
    ASSUME NEW p
    PROVE  \E F \in SUBSET Done(p)' : IsFiniteSet(F) /\ 0 = Total(order', F)
  BY TotalEmpty, FS_EmptySet

\* apply_fill adds its execution, FILLED and left alone from now on, to the
\* sum that explains the quantity it read.
LEMMA FillExplained ==
    ASSUME IndInv, PositionInv, NEW w \in Workers, apply_fill(w),
           NEW p \in Accounts \X Symbols, p = PosKey(job[w])
    PROVE  \E F \in SUBSET Done(p)' :
              IsFiniteSet(F) /\ loc[w].posn + loc[w].delta = Total(order', F)
  <1>1. TypeOK /\ Ownership /\ KeyOf(job[w]) \in Key /\ job[w] \in Job
        /\ pc[w] = "fill_commit"
    BY BusyKey DEF apply_fill, IndInv
  <1> PICK k \in Key : k = KeyOf(job[w])
    BY <1>1
  <1>2. Owns(w, k) /\ loc[w].delta = order[k] /\ order' = order
    BY <1>1 DEF Owns, OwningPC, PositionInv, apply_fill
  <1>3. PICK F \in SUBSET Done(p) : IsFiniteSet(F) /\ loc[w].posn = Total(order, F)
    BY <1>1 DEF PositionInv, Explains
  <1>4. [Next]_vars
    BY DEF Next, WorkerStep
  <1>5. F \in SUBSET Done(p)'
    BY <1>4, DoneStays
  <1>6. k \notin F
    BY <1>2 DEF Done
  <1>7. \A x \in F : order[x] \in Int
    BY <1>1 DEF Done, Filled, TypeOK
  <1>8. order[k] \in Int
    BY <1>1 DEF TypeOK
  <1>9. /\ IsFiniteSet(F \cup {k})
        /\ Total(order, F \cup {k}) = Total(order, F) + order[k]
    BY <1>3, <1>6, <1>7, <1>8, TotalAdd
  <1>10. k \in Done(p)'
    <2>1. status'[k] = "FILLED"
      BY <1>1 DEF apply_fill, transition_order_execution, TypeOK
    <2>2. k[2] = p[1] /\ SignalSpec[k[1]].symbol = p[2]
      BY <1>1 DEF KeyOf, PosKey
    <2>3. OnlyMoves(w) /\ pc'[w] = "idle"
      BY <1>1, ReturnControl DEF apply_fill
    <2>4. ASSUME NEW v \in Workers, pc'[v] \in OwningPC, KeyOf(job'[v]) = k
          PROVE  FALSE
      <3>1. v # w
        BY <2>3, <2>4 DEF OwningPC
      <3>2. Owns(v, k)
        BY <2>3, <2>4, <3>1 DEF OnlyMoves, Owns
      <3> QED BY <1>1, <1>2, <3>1, <3>2 DEF Ownership
    <2> QED BY <2>1, <2>2, <2>4 DEF Done, Filled, Owns
  <1>11. F \cup {k} \in SUBSET Done(p)'
    BY <1>5, <1>10
  <1> QED BY <1>2, <1>3, <1>9, <1>11
-----------------------------------------------------------------------------
\* There are no positions and no requests yet.
LEMMA PositionInit == Init => PositionInv
  BY DEF Init, PositionInv, OwningPC

\* Positions: a step leaves one alone, creates it, or applies a fill to it.
LEMMA PositionsStep ==
    ASSUME IndInv, PositionInv, [Next]_vars,
           NEW p \in Accounts \X Symbols, positions'[p] # NoRow
    PROVE  \E F \in SUBSET Done(p)' :
              IsFiniteSet(F) /\ positions'[p] = Total(order', F)
  <1>1. CASE positions'[p] = positions[p]
    <2>1. PICK q : q = positions[p]
      OBVIOUS
    <2>2. Explains(q, p)
      BY <1>1, <2>1 DEF PositionInv
    <2> QED BY <1>1, <2>1, <2>2, ExplainsStays
  <1>2. CASE positions'[p] = 0
    BY <1>2, ZeroExplained
  <1>3. ASSUME NEW w \in Workers, apply_fill(w)
        PROVE  \E F \in SUBSET Done(p)' :
                  IsFiniteSet(F) /\ positions'[p] = Total(order', F)
    <2>1. TypeOK /\ PosKey(job[w]) \in Accounts \X Symbols
      BY <1>3, BusyKey DEF apply_fill, IndInv
    <2>2. CASE p = PosKey(job[w])
      <3>1. positions'[p] = loc[w].posn + loc[w].delta
        BY <1>3, <2>1, <2>2 DEF apply_fill, TypeOK
      <3> QED BY <1>3, <2>2, <3>1, FillExplained
    <2>3. CASE p # PosKey(job[w])
      <3>1. positions'[p] = positions[p]
        BY <1>3, <2>1, <2>3 DEF apply_fill, TypeOK
      <3> QED BY <3>1, <1>1
    <2> QED BY <2>2, <2>3
  <1>4. ASSUME NEW w \in Workers, CreatePosition(w) \/ CreateFillPosition(w)
        PROVE  positions'[p] \in {positions[p], 0}
    BY <1>4 DEF CreatePosition, CreateFillPosition, IndInv, TypeOK
  <1>5. ASSUME NEW w \in Workers, RequestStep(w), ~apply_fill(w),
               ~CreatePosition(w), ~CreateFillPosition(w)
        PROVE  positions' = positions
    BY <1>5 DEF RequestStep, execute_signal, Crash, WorkerStep, dbvars,
       assert_new_orders_allowed, FindExisting, ReadPosition, InsertExecution,
       ReadRiskSettings, CreateRiskSettings, CheckRisk, SubmitOrder,
       place_order, ReadFillPosition
  <1>6. CASE \E w \in Workers : RequestStep(w)
    BY <1>1, <1>2, <1>3, <1>4, <1>5, <1>6
  <1>7. CASE positions' = positions
    BY <1>1, <1>7
  <1> QED BY <1>6, <1>7, StepFrame

\* A quantity about to be written was read from the position, and what
\* explained it then does so still, whatever others wrote since.
LEMMA ReadStep ==
    ASSUME IndInv, PositionInv, [Next]_vars,
           NEW v \in Workers, pc'[v] = "fill_commit",
           NEW p \in Accounts \X Symbols, p = PosKey(job'[v])
    PROVE  \E F \in SUBSET Done(p)' :
              IsFiniteSet(F) /\ loc'[v].posn = Total(order', F)
  <1>1. CASE pc[v] = "fill_commit" /\ job'[v] = job[v] /\ loc'[v] = loc[v]
    <2>1. PICK q : q = loc[v].posn
      OBVIOUS
    <2>2. Explains(q, p)
      <3>1. Explains(loc[v].posn, PosKey(job[v]))
        BY <1>1 DEF PositionInv
      <3> QED BY <1>1, <2>1, <3>1
    <2> QED BY <1>1, <2>1, <2>2, ExplainsStays
  <1>2. CASE ReadFillPosition(v)
    <2>1. /\ job'[v] = job[v] /\ positions[p] # NoRow
          /\ loc'[v].posn = positions[p] /\ positions' = positions
      BY <1>2 DEF ReadFillPosition, Goto, IndInv, TypeOK, Locals, dbvars
    <2> QED BY <2>1, PositionsStep
  <1>3. CASE UNCHANGED <<status, order, positions, pc, job, loc>>
    BY <1>1, <1>3
  <1>4. ASSUME NEW w \in Workers, RequestStep(w), w # v
        PROVE  pc[v] = "fill_commit" /\ job'[v] = job[v] /\ loc'[v] = loc[v]
    BY <1>4, MovesAlone DEF OnlyMoves, IndInv
  <1>5. ASSUME RequestStep(v) PROVE ReadFillPosition(v)
    BY <1>5 DEF RequestStep, IndInv, TypeOK, Goto, Return, Abort,
       execute_signal, Crash, WorkerStep, assert_new_orders_allowed,
       FindExisting, ReadPosition, CreatePosition, InsertExecution,
       StoreExecution, ReadRiskSettings, CreateRiskSettings, CheckRisk,
       SubmitOrder, place_order, CreateFillPosition, apply_fill
  <1> QED BY <1>1, <1>2, <1>3, <1>4, <1>5, StepFrame

\* The quantity a request applies is the one its execution records.
LEMMA DeltaStep ==
    ASSUME IndInv, PositionInv, [Next]_vars,
           NEW v \in Workers, pc'[v] \in OwningPC
    PROVE  loc'[v].delta = order'[KeyOf(job'[v])]
  <1>1. TypeOK /\ Busy /\ OwnerProgress
    BY DEF IndInv
  <1>2. CASE UNCHANGED <<status, order, positions, pc, job, loc>>
    BY <1>2 DEF PositionInv
  <1>3. ASSUME NEW w \in Workers, RequestStep(w)
        PROVE  loc'[v].delta = order'[KeyOf(job'[v])]
    <2>1. CASE pc[v] \in OwningPC /\ job'[v] = job[v]
               /\ loc'[v].delta = loc[v].delta
      <3>1. KeyOf(job[v]) \in Key /\ status[KeyOf(job[v])] # Absent
        BY <1>1, <2>1, BusyKey, OwnerStatus DEF OwningPC
      <3>2. order'[KeyOf(job[v])] = order[KeyOf(job[v])]
        BY <1>3, <3>1, RowsStay
      <3> QED BY <2>1, <3>2 DEF PositionInv
    <2>2. CASE v # w
      BY <1>1, <1>3, <2>1, <2>2, MovesAlone DEF OnlyMoves
    <2>3. CASE v = w
      BY <1>3, <2>1, <2>3, OwnersStep
    <2> QED BY <2>2, <2>3
  <1> QED BY <1>2, <1>3, StepFrame

\* Every step keeps the inductive invariant.
LEMMA PositionNext == IndInv /\ PositionInv /\ [Next]_vars => PositionInv'
  <1> SUFFICES ASSUME IndInv, PositionInv, [Next]_vars PROVE PositionInv'
    OBVIOUS
  <1>1. IndInv'
    BY NextInv
  <1>2. ASSUME NEW p \in Accounts \X Symbols, positions'[p] # NoRow
        PROVE  Explains(positions[p], p)'
    BY <1>2, PositionsStep DEF Explains
  <1>3. ASSUME NEW v \in Workers, pc'[v] = "fill_commit"
        PROVE  Explains(loc[v].posn, PosKey(job[v]))'
    <2>1. PosKey(job'[v]) \in Accounts \X Symbols
      <3>1. job'[v] \in Job
        BY <1>1, <1>3 DEF IndInv, Busy
      <3>2. SignalSpec[job'[v].signal] \in TradingSignal
        BY <3>1, DataAssumption DEF Job
      <3> QED BY <3>1, <3>2 DEF Job, PosKey, TradingSignal
    <2>2. PICK p \in Accounts \X Symbols : p = PosKey(job'[v])
      BY <2>1
    <2> QED BY <1>3, <2>2, ReadStep DEF Explains, Done
  <1>4. ASSUME NEW v \in Workers, pc'[v] \in OwningPC
        PROVE  loc'[v].delta = order'[KeyOf(job'[v])]
    BY <1>4, DeltaStep
  <1> QED BY <1>2, <1>3, <1>4 DEF PositionInv

\* Whatever requests race and wherever they die, each position is the sum of
\* some of its FILLED executions (apply_fill in services/position_engine.py).
THEOREM PositionsAreExplained == Spec => []PositionExplained
  <1>1. PositionInv => PositionExplained
    <2> SUFFICES ASSUME PositionInv, NEW a \in Accounts, NEW y \in Symbols,
                        positions[<<a, y>>] # NoRow
                 PROVE  \E F \in SUBSET Filled(a, y) :
                           positions[<<a, y>>] = SumFunctionOnSet(order, F)
      BY DEF PositionExplained
    <2>1. PICK p \in Accounts \X Symbols : p = <<a, y>>
      OBVIOUS
    <2>2. Explains(positions[p], p)
      BY <2>1 DEF PositionInv
    <2> QED BY <2>1, <2>2 DEF Explains, Done, Total
  <1> QED
    BY <1>1, PositionInit, PositionNext, Invariance, PTL DEF Spec
=============================================================================
