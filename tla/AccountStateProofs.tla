------------------------- MODULE AccountStateProofs -------------------------
(***************************************************************************)
(* The safety properties of AccountState, proved for any number of         *)
(* consumers, symbols and events, any position sizes and figures, any      *)
(* tolerance and any threshold.                                            *)
(*                                                                         *)
(* Two arguments carry them.  The database catches up with the exchange    *)
(* because a row that is behind always has a consumer that will still      *)
(* write it: the last event each consumer holds for a symbol is the        *)
(* exchange's present quantity, and a consumer that finds that value in    *)
(* the row already, and so will not write it, found the row right.  And a  *)
(* report is about the quantities its snapshots were taken of, which are   *)
(* the present ones if nothing moved.                                      *)
(***************************************************************************)
EXTENDS AccountState, TLAPS

-----------------------------------------------------------------------------
(***************************************************************************)
(* The inductive invariant.                                                *)
(***************************************************************************)
IsMove(e, x) == e.type = "POSITION" /\ e.symbol = x

Rows == Int \cup {None} \cup Balance

\* A consumer that has loaded a row has a valid event for it at hand.
LoadedOK ==
    /\ loaded \in [Streams -> {<<>>} \cup {<<row>> : row \in Rows}]
    /\ \A c \in Streams :
          /\ wire[c] # <<>> => link[c]
          /\ loaded[c] # <<>> =>
                /\ wire[c] # <<>> /\ wire[c][1].type # "UNKNOWN"
                /\ wire[c][1].type = "BALANCE" => BalanceUpdate(wire[c][1]) # <<>>

\* The last move of a symbol a consumer holds is the exchange's last.
LastMoveOK ==
    \A c \in Streams : \A i \in DOMAIN wire[c] : \A x \in Symbols :
        /\ IsMove(wire[c][i], x)
        /\ \A j \in DOMAIN wire[c] : j > i => ~IsMove(wire[c][j], x)
        => wire[c][i].quantity = venue[x]

\* Consumer c will still write the row of x: it holds a move of x, other than
\* one whose quantity it found in the row when it loaded it.
WillWrite(c, x) ==
    \E i \in DOMAIN wire[c] :
        /\ IsMove(wire[c][i], x)
        /\ i = 1 /\ loaded[c] # <<>> => loaded[c][1] # wire[c][i].quantity

CatchingUp ==
    \A x \in Symbols \ gap :
        Held(x) = venue[x] \/ \E c \in Streams : WillWrite(c, x)

\* Quantities as the worker compares them.
Amounts == [Symbols -> Int]
Entries(q) == {[symbol |-> x, leg |-> 1, quantity |-> q[x]] : x \in Symbols}
RowEntries(q) ==
    {[symbol |-> x, leg |-> 1, quantity |-> q[x]] :
        x \in {y \in Symbols : q[y] # None}}
OrZero(q) == [x \in Symbols |-> IF q[x] = None THEN 0 ELSE q[x]]

\* r is the report about the quantities ex, db and tg.
ReportOn(r, ex, db, tg) ==
    LET severity(x) == DifferenceSeverity(ex[x], db[x], tg[x])
        drifted == {x \in Symbols : severity(x) # "OK"}
    IN /\ r \in Report
       /\ r.differences = {[symbol |-> x, exchange |-> ex[x], database |-> db[x],
                            target |-> tg[x]] : x \in drifted}
       /\ r.status = "DRIFT_DETECTED" <=> drifted # {}
       /\ r.severity = "CRITICAL" <=> \E x \in drifted : severity(x) = "CRITICAL"

\* What the worker has seen so far, and that it is still so if nothing moved.
WorkerOK ==
    /\ worker = "database" =>
          /\ Len(snaps) = 1
          /\ \E v \in Amounts : snaps[1] \in Listings(v) /\ (steady => v = venue)
    /\ worker = "target" =>
          /\ Len(snaps) = 2
          /\ \E v \in Amounts : snaps[1] \in Listings(v) /\ (steady => v = venue)
          /\ \E h \in [Symbols -> Int \cup {None}] :
                snaps[2] = RowEntries(h) /\ (steady => h = positions)
    /\ worker = "persist" =>
          \E v \in Amounts, h \in [Symbols -> Int \cup {None}], t \in Amounts :
             /\ ReportOn(report, v, OrZero(h), t)
             /\ steady => v = venue /\ h = positions /\ t = target

IndInv ==
    /\ TypeOK /\ LoadedOK /\ BalanceAddsUp /\ LastMoveOK /\ CatchingUp
    /\ WorkerOK
-----------------------------------------------------------------------------
(***************************************************************************)
(* Sums of the entries of a symbol.                                        *)
(***************************************************************************)
\* A sum over a set of entries, as the library computes it: one entry at a time,
\* in some order.
Picked(s) == CHOOSE x \in s : TRUE

IsSum(S, g) ==
    g = [s \in SUBSET S |-> IF s = {} THEN 0
                            ELSE Picked(s).quantity + g[s \ {Picked(s)}]]

Total(S) == MapThenSumSet(LAMBDA e : e.quantity, S)

\* The library's recursive function is some function that satisfies its
\* equation, if there is one at all.
LEMMA SumUnfolds ==
    ASSUME NEW S, NEW g, IsSum(S, g)
    PROVE \E h : IsSum(S, h) /\ Total(S) = h[S]
  <1>1. Total(S) = (CHOOSE h : IsSum(S, h))[S]
    BY DEF Total, MapThenSumSet, MapThenFoldSet, IsSum, Picked
  <1>2. IsSum(S, CHOOSE h : IsSum(S, h)) OBVIOUS
  <1>3. QED BY <1>1, <1>2

\* An exchange lists a symbol once or as two legs, the database at most once:
\* for each of these the equation has a solution, and determines the sum.
LEMMA SumOfNone == Total({}) = 0
  <1> DEFINE g == [s \in SUBSET {} |-> 0]
  <1>1. IsSum({}, g)
    <2>1. \A s \in SUBSET {} : s = {} OBVIOUS
    <2>2. QED BY <2>1 DEF IsSum
  <1>2. PICK h : IsSum({}, h) /\ Total({}) = h[{}] BY <1>1, SumUnfolds
  <1>3. h[{}] = 0 BY <1>2 DEF IsSum
  <1>4. QED BY <1>2, <1>3

\* The sum of one entry is its quantity.
LEMMA SumOfOne ==
    ASSUME NEW a, a.quantity \in Int
    PROVE  Total({a}) = a.quantity
  <1> DEFINE S == {a}
             g == [s \in SUBSET S |-> IF s = {} THEN 0 ELSE a.quantity]
  <1>1. Picked(S) = a BY DEF Picked
  <1>2. S \ {a} = {} OBVIOUS
  <1>3. \A s \in SUBSET S : s = {} \/ s = S OBVIOUS
  <1>4. IsSum(S, g)
    <2>1. {} \in SUBSET S /\ S \in SUBSET S OBVIOUS
    <2>2. g[{}] = 0 /\ g[S] = a.quantity BY <2>1
    <2>3. ASSUME NEW s \in SUBSET S
          PROVE  g[s] = IF s = {} THEN 0 ELSE Picked(s).quantity + g[s \ {Picked(s)}]
      <3>1. CASE s = {} BY <3>1
      <3>2. CASE s = S
        <4> HIDE DEF g, S
        <4>1. S # {} BY DEF S
        <4>2. Picked(s) = a /\ s \ {a} = {} /\ s # {} /\ g[s] = a.quantity
          BY <1>1, <1>2, <2>2, <3>2, <4>1
        <4>3. g[s \ {Picked(s)}] = 0 BY <2>2, <4>2
        <4>4. QED BY <4>2, <4>3
      <3>3. QED BY <1>3, <3>1, <3>2
    <2>4. QED BY <2>3 DEF IsSum
  <1>5. PICK h : IsSum(S, h) /\ Total(S) = h[S] BY <1>4, SumUnfolds
  <1> HIDE DEF S, g
  <1>6. h[{}] = 0 BY <1>5 DEF IsSum
  <1>7. S # {} BY DEF S
  <1>8. h[S] = a.quantity + h[{}] BY <1>1, <1>2, <1>5, <1>7 DEF IsSum
  <1>9. QED BY <1>5, <1>6, <1>8 DEF S

\* The sum of two entries is theirs, whichever is added first.
LEMMA SumOfTwo ==
    ASSUME NEW a, NEW b, a # b, a.quantity \in Int, b.quantity \in Int
    PROVE  Total({a, b}) = a.quantity + b.quantity
  <1> DEFINE S == {a, b}
             g == [s \in SUBSET S |->
                     IF s = {} THEN 0
                     ELSE IF s = {a} THEN a.quantity
                     ELSE IF s = {b} THEN b.quantity
                     ELSE a.quantity + b.quantity]
  <1>1. /\ Picked({a}) = a /\ Picked({b}) = b
        /\ Picked(S) = a \/ Picked(S) = b
    BY DEF Picked
  <1>2. /\ {a} \ {a} = {} /\ {b} \ {b} = {} /\ S \ {a} = {b} /\ S \ {b} = {a}
        /\ {a} # {} /\ {b} # {} /\ S # {} /\ {a} # {b} /\ S # {a} /\ S # {b}
    OBVIOUS
  <1>3. /\ \A s \in SUBSET S : s = {} \/ s = {a} \/ s = {b} \/ s = S
        /\ {} \in SUBSET S /\ {a} \in SUBSET S /\ {b} \in SUBSET S
        /\ S \in SUBSET S
    OBVIOUS
  <1>4. IsSum(S, g)
    <2>1. /\ g[{}] = 0 /\ g[{a}] = a.quantity /\ g[{b}] = b.quantity
          /\ g[S] = a.quantity + b.quantity
      <3> HIDE DEF S
      <3>1. QED BY <1>2, <1>3
    <2>2. ASSUME NEW s \in SUBSET S
          PROVE  g[s] = IF s = {} THEN 0 ELSE Picked(s).quantity + g[s \ {Picked(s)}]
      <3> HIDE DEF g, S
      <3>1. CASE s = {} BY <2>1, <3>1
      <3>2. CASE s = {a}
        <4>1. Picked(s) = a /\ s \ {a} = {} /\ s # {} /\ g[s] = a.quantity
          BY <1>1, <1>2, <2>1, <3>2
        <4>2. g[s \ {Picked(s)}] = 0 BY <2>1, <4>1
        <4>3. QED BY <4>1, <4>2
      <3>3. CASE s = {b}
        <4>1. Picked(s) = b /\ s \ {b} = {} /\ s # {} /\ g[s] = b.quantity
          BY <1>1, <1>2, <2>1, <3>3
        <4>2. g[s \ {Picked(s)}] = 0 BY <2>1, <4>1
        <4>3. QED BY <4>1, <4>2
      <3>4. CASE s = S
        <4>1. /\ s # {} /\ g[s] = a.quantity + b.quantity
              /\ s \ {a} = {b} /\ s \ {b} = {a}
              /\ Picked(s) = a \/ Picked(s) = b
          BY <1>1, <1>2, <2>1, <3>4
        <4>2. CASE Picked(s) = a
          <5>1. g[s \ {Picked(s)}] = b.quantity BY <2>1, <4>1, <4>2
          <5>2. QED BY <4>1, <4>2, <5>1
        <4>3. CASE Picked(s) = b
          <5>1. g[s \ {Picked(s)}] = a.quantity BY <2>1, <4>1, <4>3
          <5>2. QED BY <4>1, <4>3, <5>1
        <4>4. QED BY <4>1, <4>2, <4>3
      <3>5. QED BY <1>3, <3>1, <3>2, <3>3, <3>4
    <2>3. QED BY <2>2 DEF IsSum
  <1>5. PICK h : IsSum(S, h) /\ Total(S) = h[S] BY <1>4, SumUnfolds
  <1> HIDE DEF S, g
  <1>6. h[{}] = 0 BY <1>3, <1>5 DEF IsSum
  <1>7. \A s \in SUBSET S : s # {} =>
            h[s] = Picked(s).quantity + h[s \ {Picked(s)}]
    BY <1>5 DEF IsSum
  <1>8. h[{a}] = a.quantity /\ h[{b}] = b.quantity
    <2>1. PICK s \in SUBSET S : s = {a} BY <1>3
    <2>2. Picked(s) = a /\ s \ {a} = {} /\ s # {} BY <1>1, <1>2, <2>1
    <2>3. h[s] = a.quantity + h[s \ {Picked(s)}] BY <1>7, <2>2
    <2>4. h[s] = a.quantity
      <3>1. h[s \ {Picked(s)}] = 0 BY <1>6, <2>2
      <3>2. QED BY <2>3, <3>1
    <2>5. PICK t \in SUBSET S : t = {b} BY <1>3
    <2>6. Picked(t) = b /\ t \ {b} = {} /\ t # {} BY <1>1, <1>2, <2>5
    <2>7. h[t] = b.quantity + h[t \ {Picked(t)}] BY <1>7, <2>6
    <2>8. h[t] = b.quantity
      <3>1. h[t \ {Picked(t)}] = 0 BY <1>6, <2>6
      <3>2. QED BY <2>7, <3>1
    <2>9. QED BY <2>1, <2>4, <2>5, <2>8
  <1>9. h[S] = a.quantity + b.quantity
    <2>1. h[S] = Picked(S).quantity + h[S \ {Picked(S)}] BY <1>2, <1>3, <1>7
    <2>2. CASE Picked(S) = a
      <3>1. h[S \ {Picked(S)}] = b.quantity BY <1>2, <1>8, <2>2
      <3>2. QED BY <2>1, <2>2, <3>1
    <2>3. CASE Picked(S) = b
      <3>1. h[S \ {Picked(S)}] = a.quantity BY <1>2, <1>8, <2>3
      <3>2. QED BY <2>1, <2>3, <3>1
    <2>4. QED BY <1>1, <2>2, <2>3
  <1>10. QED BY <1>5, <1>9 DEF S

\* _normalize_snapshots adds up the entries of each symbol.
LEMMA Normalized ==
    ASSUME NEW s
    PROVE  NormalizeSnapshots(s) =
               [x \in Symbols |-> Total({e \in s : e.symbol = x})]
  BY DEF NormalizeSnapshots, Total, MapThenSumSet, MapThenFoldSet

\* However the exchange lists its positions, the worker sees them.
LEMMA ListingNormalized ==
    ASSUME NEW v \in Amounts, NEW s \in Listings(v)
    PROVE  NormalizeSnapshots(s) = v /\ s \in Snapshot
  <1> DEFINE one(x) == [symbol |-> x, leg |-> 1, quantity |-> v[x]]
             leg1(x) == [symbol |-> x, leg |-> 1, quantity |-> v[x] + 1]
             leg2(x) == [symbol |-> x, leg |-> 2, quantity |-> -1]
             singles == {one(x) : x \in Symbols}
             pairs == {leg1(x) : x \in Symbols} \cup {leg2(x) : x \in Symbols}
  <1>1. v \in [Symbols -> Int] BY DEF Amounts
  <1>2. s = singles \/ s = pairs
    <2>1. {[symbol |-> x, leg |-> n,
            quantity |-> IF n = 1 THEN v[x] + 1 ELSE -1] :
               x \in Symbols, n \in {1, 2}} = pairs
      OBVIOUS
    <2>2. QED BY <2>1 DEF Listings
  <1>3. ASSUME NEW x \in Symbols PROVE Total({e \in s : e.symbol = x}) = v[x]
    <2>1. v[x] \in Int BY <1>1
    <2>2. CASE s = singles
      <3>1. {e \in s : e.symbol = x} = {one(x)} BY <2>2
      <3>2. one(x).quantity = v[x] OBVIOUS
      <3> HIDE DEF one
      <3>3. Total({one(x)}) = one(x).quantity BY <2>1, <3>2, SumOfOne
      <3>4. QED BY <3>1, <3>2, <3>3
    <2>3. CASE s = pairs
      <3>1. {e \in s : e.symbol = x} = {leg1(x), leg2(x)} BY <2>3
      <3>2. /\ leg1(x).quantity = v[x] + 1 /\ leg2(x).quantity = -1
            /\ leg1(x).leg = 1 /\ leg2(x).leg = 2
        OBVIOUS
      <3> HIDE DEF leg1, leg2
      <3>3. leg1(x) # leg2(x) BY <3>2
      <3>4. leg1(x).quantity \in Int /\ leg2(x).quantity \in Int BY <2>1, <3>2
      <3>5. Total({leg1(x), leg2(x)}) = leg1(x).quantity + leg2(x).quantity
        BY <3>3, <3>4, SumOfTwo
      <3>6. Total({leg1(x), leg2(x)}) = v[x] BY <2>1, <3>2, <3>5
      <3>7. QED BY <3>1, <3>6
    <2>4. QED BY <1>2, <2>2, <2>3
  <1>4. NormalizeSnapshots(s) = v BY <1>1, <1>3, Normalized
  <1>5. s \in Snapshot BY <1>1, <1>2 DEF Snapshot
  <1>6. QED BY <1>4, <1>5

\* A missing row counts as zero.
LEMMA RowsNormalized ==
    ASSUME NEW h \in [Symbols -> Int \cup {None}]
    PROVE  /\ NormalizeSnapshots(RowEntries(h)) = OrZero(h)
           /\ RowEntries(h) \in Snapshot /\ OrZero(h) \in Amounts
  <1> DEFINE one(x) == [symbol |-> x, leg |-> 1, quantity |-> h[x]]
             s == RowEntries(h)
  <1>1. \A x \in Symbols : h[x] # None => h[x] \in Int OBVIOUS
  <1>2. ASSUME NEW x \in Symbols
        PROVE  Total({e \in s : e.symbol = x}) = OrZero(h)[x]
    <2>1. CASE h[x] = None
      <3>1. {e \in s : e.symbol = x} = {} BY <2>1 DEF RowEntries
      <3>2. QED BY <2>1, <3>1, SumOfNone DEF OrZero
    <2>2. CASE h[x] # None
      <3>1. {e \in s : e.symbol = x} = {one(x)} BY <2>2 DEF RowEntries
      <3>2. one(x).quantity = h[x] OBVIOUS
      <3> HIDE DEF one
      <3>3. Total({one(x)}) = one(x).quantity BY <1>1, <2>2, <3>2, SumOfOne
      <3>4. OrZero(h)[x] = h[x] BY <2>2 DEF OrZero
      <3>5. QED BY <3>1, <3>2, <3>3, <3>4
    <2>3. QED BY <2>1, <2>2
  <1>3. NormalizeSnapshots(s) = OrZero(h)
    <2>1. NormalizeSnapshots(s) = [x \in Symbols |-> OrZero(h)[x]]
      BY <1>2, Normalized
    <2>2. OrZero(h) = [x \in Symbols |-> OrZero(h)[x]] BY DEF OrZero
    <2>3. QED BY <2>1, <2>2
  <1>4. s \in Snapshot BY <1>1 DEF Snapshot, RowEntries
  <1>5. OrZero(h) \in Amounts BY <1>1 DEF OrZero, Amounts
  <1>6. QED BY <1>3, <1>4, <1>5

\* A target snapshot has one entry a symbol, and normalizes to itself.
LEMMA TargetNormalized ==
    ASSUME NEW t \in Amounts
    PROVE  NormalizeSnapshots(Entries(t)) = t
  <1>1. Entries(t) \in Listings(t) BY DEF Entries, Listings
  <1>2. QED BY <1>1, ListingNormalized
-----------------------------------------------------------------------------
(***************************************************************************)
(* What a report and its repair plan say.                                  *)
(***************************************************************************)
LEMMA SeverityFacts ==
    ASSUME NEW a \in Int, NEW b \in Int, NEW c \in Int
    PROVE  LET far == \E d \in Deltas(a, b, c) : Abs(d) > QuantityTolerance
               critical == \E d \in Deltas(a, b, c) : Abs(d) >= CriticalThreshold
           IN /\ DifferenceSeverity(a, b, c) \in Severity
              /\ DifferenceSeverity(a, b, c) # "OK" <=> far
              /\ DifferenceSeverity(a, b, c) = "CRITICAL" <=> far /\ critical
  BY ReconciliationAssumption DEF DifferenceSeverity, Deltas, Abs, Severity

\* reconcile_position_snapshots reports about the quantities its three snapshots
\* add up to.
LEMMA ReconcileReport ==
    ASSUME NEW e, NEW d, NEW g, NEW ex \in Amounts, NEW db \in Amounts,
           NEW tg \in Amounts, NormalizeSnapshots(e) = ex,
           NormalizeSnapshots(d) = db, NormalizeSnapshots(g) = tg
    PROVE  ReportOn(reconcile_position_snapshots(e, d, g), ex, db, tg)
  <1> DEFINE severity(x) == DifferenceSeverity(ex[x], db[x], tg[x])
             drifted == {x \in Symbols : severity(x) # "OK"}
             diff(x) == [symbol |-> x, exchange |-> ex[x], database |-> db[x],
                         target |-> tg[x]]
             status == IF drifted = {} THEN "MATCHED" ELSE "DRIFT_DETECTED"
             worst == CASE \E x \in drifted : severity(x) = "CRITICAL" -> "CRITICAL"
                        [] drifted = {} -> "OK"
                        [] OTHER -> "WARNING"
             r == [status |-> status, severity |-> worst,
                   differences |-> {diff(x) : x \in drifted}]
  <1>1. reconcile_position_snapshots(e, d, g) = r
    BY DEF reconcile_position_snapshots
  <1>2. \A x \in Symbols : diff(x) \in [symbol : Symbols, exchange : Int,
                                        database : Int, target : Int]
    BY DEF Amounts
  <1>3. /\ status \in {"MATCHED", "DRIFT_DETECTED"}
        /\ status = "DRIFT_DETECTED" <=> drifted # {}
    OBVIOUS
  <1>4. /\ worst \in Severity
        /\ worst = "CRITICAL" <=> \E x \in drifted : severity(x) = "CRITICAL"
    <2> HIDE DEF drifted, severity
    <2>1. CASE \E x \in drifted : severity(x) = "CRITICAL"
      BY <2>1 DEF Severity
    <2>2. CASE drifted = {} BY <2>2 DEF Severity
    <2>3. CASE drifted # {} /\ ~ \E x \in drifted : severity(x) = "CRITICAL"
      BY <2>3 DEF Severity
    <2>4. QED BY <2>1, <2>2, <2>3
  <1>5. {diff(x) : x \in drifted} \in SUBSET
            [symbol : Symbols, exchange : Int, database : Int, target : Int]
    BY <1>2
  <1>6. r \in Report
    <2> HIDE DEF drifted, status, worst, diff
    <2>1. QED BY <1>3, <1>4, <1>5 DEF Report
  <1>7. /\ r.status = status /\ r.severity = worst
        /\ r.differences = {diff(x) : x \in drifted}
    OBVIOUS
  <1> HIDE DEF r, status, worst
  <1>8. ReportOn(r, ex, db, tg) BY <1>3, <1>4, <1>6, <1>7 DEF ReportOn
  <1>9. QED BY <1>1, <1>8

\* The library's maximum and minimum of three quantities.
LEMMA ThreeValues ==
    ASSUME NEW a \in Int, NEW b \in Int, NEW c \in Int
    PROVE  /\ Max({a, b, c}) \in {a, b, c}
           /\ Max({a, b, c}) >= a /\ Max({a, b, c}) >= b /\ Max({a, b, c}) >= c
           /\ Min({a, b, c}) \in {a, b, c}
           /\ Min({a, b, c}) <= a /\ Min({a, b, c}) <= b /\ Min({a, b, c}) <= c
  <1>1. \E x \in {a, b, c} : \A y \in {a, b, c} : x >= y OBVIOUS
  <1>2. \E x \in {a, b, c} : \A y \in {a, b, c} : x <= y OBVIOUS
  <1>3. /\ Max({a, b, c}) \in {a, b, c}
        /\ \A y \in {a, b, c} : Max({a, b, c}) >= y
    BY <1>1 DEF Max
  <1>4. /\ Min({a, b, c}) \in {a, b, c}
        /\ \A y \in {a, b, c} : Min({a, b, c}) <= y
    BY <1>2 DEF Min
  <1>5. QED BY <1>3, <1>4

\* Comparing every two of three quantities is comparing their spread.
LEMMA SpreadDecides ==
    ASSUME NEW a \in Int, NEW b \in Int, NEW c \in Int
    PROVE  LET spread == Max({a, b, c}) - Min({a, b, c})
           IN /\ DifferenceSeverity(a, b, c) # "OK" <=> spread > QuantityTolerance
              /\ DifferenceSeverity(a, b, c) = "CRITICAL" <=>
                    spread > QuantityTolerance /\ spread >= CriticalThreshold
  <1> DEFINE hi == Max({a, b, c})
             lo == Min({a, b, c})
  <1>1. /\ hi \in {a, b, c} /\ hi >= a /\ hi >= b /\ hi >= c
        /\ lo \in {a, b, c} /\ lo <= a /\ lo <= b /\ lo <= c
    BY ThreeValues
  <1> HIDE DEF hi, lo
  <1>2. \A T \in Nat :
            (\E d \in Deltas(a, b, c) : Abs(d) > T) <=> hi - lo > T
    BY <1>1 DEF Deltas, Abs
  <1>3. \A T \in Nat :
            (\E d \in Deltas(a, b, c) : Abs(d) >= T) <=> hi - lo >= T
    BY <1>1 DEF Deltas, Abs
  <1>4. QED
    BY <1>2, <1>3, SeverityFacts, ReconciliationAssumption DEF hi, lo

Spread(v, h, t, x) == Max({v[x], h[x], t[x]}) - Min({v[x], h[x], t[x]})

SaysSpread(r, v, h, t) ==
    LET drifted == {x \in Symbols : Spread(v, h, t, x) > QuantityTolerance}
    IN /\ {d.symbol : d \in r.differences} = drifted
       /\ r.status = "DRIFT_DETECTED" <=> drifted # {}
       /\ r.severity = "CRITICAL"
             <=> \E x \in drifted : Spread(v, h, t, x) >= CriticalThreshold

\* A report about three quantities a symbol says which of them spread.
LEMMA ReportIsRight ==
    ASSUME NEW v \in Amounts, NEW h \in Amounts, NEW t \in Amounts,
           NEW r, ReportOn(r, v, h, t)
    PROVE  SaysSpread(r, v, h, t)
  <1> DEFINE severity(x) == DifferenceSeverity(v[x], h[x], t[x])
             spread(x) == Spread(v, h, t, x)
             found == {x \in Symbols : severity(x) # "OK"}
             drifted == {x \in Symbols : spread(x) > QuantityTolerance}
             diff(x) == [symbol |-> x, exchange |-> v[x], database |-> h[x],
                         target |-> t[x]]
  <1>1. \A x \in Symbols :
            /\ severity(x) # "OK" <=> spread(x) > QuantityTolerance
            /\ severity(x) = "CRITICAL" <=>
                  spread(x) > QuantityTolerance /\ spread(x) >= CriticalThreshold
    <2> SUFFICES ASSUME NEW x \in Symbols
                 PROVE
            /\ severity(x) # "OK" <=> spread(x) > QuantityTolerance
            /\ severity(x) = "CRITICAL" <=>
                  spread(x) > QuantityTolerance /\ spread(x) >= CriticalThreshold
      OBVIOUS
    <2>1. v[x] \in Int /\ h[x] \in Int /\ t[x] \in Int BY DEF Amounts
    <2>2. QED BY <2>1, SpreadDecides DEF Spread
  <1>2. /\ r.differences = {diff(x) : x \in found}
        /\ r.status = "DRIFT_DETECTED" <=> found # {}
        /\ r.severity = "CRITICAL" <=> \E x \in found : severity(x) = "CRITICAL"
    BY DEF ReportOn
  <1>3. \A x \in Symbols : diff(x).symbol = x OBVIOUS
  <1> HIDE DEF severity, spread, diff
  <1>4. found = drifted BY <1>1
  <1>5. {d.symbol : d \in r.differences} = found BY <1>2, <1>3
  <1>6. (\E x \in found : severity(x) = "CRITICAL")
            <=> \E x \in drifted : spread(x) >= CriticalThreshold
    BY <1>1
  <1>7. QED BY <1>2, <1>4, <1>5, <1>6 DEF spread, SaysSpread

\* What the plan proposes for a difference of a report takes the exchange to the
\* target, or corrects the database by what it is off.
LEMMA RepairIsRight ==
    ASSUME NEW v \in Amounts, NEW h \in Amounts, NEW t \in Amounts,
           NEW r, ReportOn(r, v, h, t), NEW d \in r.differences
    PROVE  LET p == ProposalForDifference(d)
           IN /\ p.symbol = d.symbol /\ p.quantity > 0
              /\ CASE p.action = "BUY_TO_TARGET" ->
                         d.exchange + p.quantity = d.target
                   [] p.action = "SELL_TO_TARGET" ->
                         d.exchange - p.quantity = d.target
                   [] OTHER -> /\ d.exchange = d.target
                               /\ Abs(d.database - d.target) = p.quantity
  <1> DEFINE severity(x) == DifferenceSeverity(v[x], h[x], t[x])
             diff(x) == [symbol |-> x, exchange |-> v[x], database |-> h[x],
                         target |-> t[x]]
  <1>1. PICK x \in Symbols : severity(x) # "OK" /\ d = diff(x) BY DEF ReportOn
  <1>2. /\ d.symbol = x /\ d.exchange = v[x] /\ d.database = h[x]
        /\ d.target = t[x]
    BY <1>1
  <1> DEFINE a == v[x]
             b == h[x]
             c == t[x]
  <1>3. a \in Int /\ b \in Int /\ c \in Int BY DEF Amounts
  <1>4. a # c \/ b # c
    <2>1. \E n \in Deltas(a, b, c) : Abs(n) > QuantityTolerance
      BY <1>1, <1>3, SeverityFacts
    <2> HIDE DEF a, b, c
    <2>2. QED BY <1>3, <2>1, ReconciliationAssumption DEF Deltas, Abs
  <1> HIDE DEF a, b, c
  <1> DEFINE p == ProposalForDifference(d)
  <1>5. /\ p.symbol = d.symbol
        /\ p.action = CASE c - a > 0 -> "BUY_TO_TARGET"
                        [] c - a < 0 -> "SELL_TO_TARGET"
                        [] OTHER     -> "REVIEW_DATABASE_POSITION"
        /\ p.quantity = IF c - a # 0 THEN Abs(c - a) ELSE Abs(b - c)
    BY <1>2 DEF ProposalForDifference, a, b, c
  <1>6. d.exchange = a /\ d.database = b /\ d.target = c BY <1>2 DEF a, b, c
  <1> HIDE DEF p
  <1>7. CASE c > a
    <2>1. p.action = "BUY_TO_TARGET" /\ p.quantity = c - a
      BY <1>3, <1>5, <1>7 DEF Abs
    <2>2. QED BY <1>3, <1>5, <1>6, <1>7, <2>1 DEF p
  <1>8. CASE c < a
    <2>1. p.action = "SELL_TO_TARGET" /\ p.quantity = a - c
      BY <1>3, <1>5, <1>8 DEF Abs
    <2>2. QED BY <1>3, <1>5, <1>6, <1>8, <2>1 DEF p
  <1>9. CASE c = a
    <2>1. p.action = "REVIEW_DATABASE_POSITION" /\ p.quantity = Abs(b - c)
      BY <1>3, <1>5, <1>9
    <2>2. p.quantity > 0 BY <1>3, <1>4, <1>9, <2>1 DEF Abs
    <2>3. QED BY <1>3, <1>5, <1>6, <1>9, <2>1, <2>2 DEF p
  <1>10. QED BY <1>3, <1>7, <1>8, <1>9
-----------------------------------------------------------------------------
(***************************************************************************)
(* TypeOK by the parts that change together.                               *)
(***************************************************************************)
StreamTyped ==
    /\ link \in [Streams -> BOOLEAN] /\ wire \in [Streams -> Seq(Event)]
    /\ \A c \in Streams :
          loaded[c] # <<>> =>
             /\ wire[c] # <<>>
             /\ IF wire[c][1].type = "POSITION"
                THEN loaded[c][1] \in Int \cup {None}
                ELSE loaded[c][1] \in Balance \cup {None}

RowTyped ==
    /\ positions \in [Symbols -> Int \cup {None}]
    /\ balance \in Balance \cup {None}

VenueTyped ==
    /\ exchange \in Exchanges /\ open \in BOOLEAN /\ steady \in BOOLEAN
    /\ venue \in Amounts /\ target \in Amounts /\ sent \in Nat
    /\ gap \subseteq Symbols

WorkTyped ==
    /\ audits \in Nat /\ notes \in Nat
    /\ worker \in {"idle", "database", "target", "persist"}
    /\ snaps \in Seq(Snapshot) /\ Len(snaps) <= 2
    /\ report \in Report \cup {None}

PrefTyped ==
    /\ preferences \in Preferences \cup {None}
    /\ promised \in Preferences \cup {None}
    /\ draft \in {"nothing", "preferences", "read"}

\* What is known of the first event a consumer holds and of the rest.
LEMMA SequenceFacts ==
    ASSUME NEW S, NEW s \in Seq(S), s # <<>>
    PROVE  /\ Head(s) = s[1] /\ Len(s) >= 1 /\ 1 \in DOMAIN s
           /\ Tail(s) \in Seq(S) /\ Len(Tail(s)) = Len(s) - 1
           /\ \A i \in 1..(Len(s) - 1) : Tail(s)[i] = s[i + 1]
  OBVIOUS

\* The type invariant, by the parts a step can disturb.
LEMMA TypeParts ==
    TypeOK <=> StreamTyped /\ RowTyped /\ VenueTyped /\ WorkTyped /\ PrefTyped
  <1>1. ASSUME wire \in [Streams -> Seq(Event)], NEW c \in Streams,
               wire[c] # <<>>
        PROVE  Head(wire[c]) = wire[c][1]
    BY <1>1, SequenceFacts
  <1>2. QED
    BY <1>1 DEF TypeOK, StreamTyped, RowTyped, VenueTyped, WorkTyped, PrefTyped,
                Amounts

\* The same after a step.
LEMMA TypePartsNext ==
    StreamTyped' /\ RowTyped' /\ VenueTyped' /\ WorkTyped' /\ PrefTyped' => TypeOK'
  <1>1. ASSUME wire' \in [Streams -> Seq(Event)], NEW c \in Streams,
               wire'[c] # <<>>
        PROVE  Head(wire'[c]) = wire'[c][1]
    BY <1>1, SequenceFacts
  <1>2. QED
    BY <1>1 DEF TypeOK, StreamTyped, RowTyped, VenueTyped, WorkTyped, PrefTyped,
                Amounts

\* The fields of an event.
LEMMA EventFacts ==
    ASSUME NEW e \in Event
    PROVE  /\ e.type \in {"POSITION", "BALANCE", "UNKNOWN"}
           /\ e.type = "POSITION" => e.symbol \in Symbols /\ e.quantity \in Int
           /\ e.type = "BALANCE" =>
                 e.available \in Nat /\ e.locked \in Nat /\ e.total \in Nat
  BY DEF Event, PositionEvent, BalanceEvent, OtherEvent

\* An update that is not refused adds up.
LEMMA BalanceUpdateFacts ==
    ASSUME VenueTyped, NEW e, e.available \in Nat, e.locked \in Nat,
           e.total \in Nat, BalanceUpdate(e) # <<>>
    PROVE  LET b == BalanceUpdate(e)[1]
           IN /\ b \in Balance
              /\ b.available >= 0 /\ b.locked >= 0
              /\ b.available + b.locked <= b.total
              /\ exchange # "OKX" => b.available + b.locked = b.total
  <1> DEFINE binance == [available |-> e.available, locked |-> e.locked,
                         total |-> e.available + e.locked]
             bybit == [available |-> e.total - e.locked, locked |-> e.locked,
                       total |-> e.total]
             okx == [available |-> e.available, locked |-> e.locked,
                     total |-> e.total]
  <1>1. exchange = "BINANCE" \/ exchange = "BYBIT" \/ exchange = "OKX"
    BY AccountStateAssumption DEF VenueTyped
  <1>2. CASE exchange = "BINANCE"
    <2>1. BalanceUpdate(e) = <<binance>> BY <1>2 DEF BalanceUpdate
    <2>2. BalanceUpdate(e)[1] = binance BY <2>1
    <2>3. QED BY <2>2 DEF Balance
  <1>3. CASE exchange = "BYBIT"
    <2>1. BalanceUpdate(e) = <<bybit>> /\ e.locked <= e.total
      BY <1>3 DEF BalanceUpdate
    <2>2. BalanceUpdate(e)[1] = bybit BY <2>1
    <2>3. QED BY <2>1, <2>2 DEF Balance
  <1>4. CASE exchange = "OKX"
    <2>1. BalanceUpdate(e) = <<okx>> /\ e.available + e.locked <= e.total
      BY <1>4 DEF BalanceUpdate
    <2>2. BalanceUpdate(e)[1] = okx BY <2>1
    <2>3. QED BY <1>4, <2>1, <2>2 DEF Balance
  <1>5. QED BY <1>1, <1>2, <1>3, <1>4

\* An event means the same after a step, since an account keeps its exchange.
LEMMA BalanceUpdateStays ==
    ASSUME UNCHANGED exchange, NEW e
    PROVE  BalanceUpdate(e)' = BalanceUpdate(e)
  BY DEF BalanceUpdate

\* Nothing was sent, stored or reported yet.
LEMMA InitInv == Init => IndInv
  <1> SUFFICES ASSUME Init PROVE IndInv OBVIOUS
  <1> USE DEF Init
  <1>1. StreamTyped
    <2>1. <<>> \in Seq(Event) OBVIOUS
    <2>2. QED BY <2>1 DEF StreamTyped
  <1>2. RowTyped BY DEF RowTyped
  <1>3. VenueTyped BY DEF VenueTyped, Amounts
  <1>4. WorkTyped BY DEF WorkTyped
  <1>5. PrefTyped BY DEF PrefTyped
  <1>6. TypeOK BY <1>1, <1>2, <1>3, <1>4, <1>5, TypeParts
  <1>7. LoadedOK BY DEF LoadedOK
  <1>8. BalanceAddsUp BY DEF BalanceAddsUp
  <1>9. LastMoveOK
    <2>1. \A c \in Streams : DOMAIN wire[c] = {} OBVIOUS
    <2>2. QED BY <2>1 DEF LastMoveOK
  <1>10. CatchingUp BY DEF CatchingUp, Held
  <1>11. WorkerOK BY DEF WorkerOK
  <1>12. QED
    BY <1>6, <1>7, <1>8, <1>9, <1>10, <1>11 DEF IndInv
-----------------------------------------------------------------------------
(***************************************************************************)
(* What a step leaves alone stays true.                                    *)
(***************************************************************************)
\* The consumers and their rows.
StreamsOK ==
    StreamTyped /\ RowTyped /\ LoadedOK /\ BalanceAddsUp /\ LastMoveOK /\ CatchingUp

\* The invariant, by the parts of consumers, worker and user.
LEMMA InvParts ==
    IndInv => /\ StreamsOK /\ VenueTyped /\ WorkTyped /\ PrefTyped
              /\ WorkerOK
  BY TypeParts DEF IndInv, StreamsOK

\* The same after a step.
LEMMA InvPartsNext ==
    StreamsOK' /\ VenueTyped' /\ WorkTyped' /\ PrefTyped' /\ WorkerOK'
        => IndInv'
  BY TypePartsNext DEF IndInv, StreamsOK

\* A step of worker or user leaves what holds of the consumers.
LEMMA StreamsStay ==
    ASSUME StreamsOK, UNCHANGED <<exchange, venue, streamvars, dbvars, gap>>
    PROVE  StreamsOK'
  <1> USE DEF StreamsOK, streamvars, dbvars
  <1>1. StreamTyped' BY DEF StreamTyped
  <1>2. RowTyped' BY DEF RowTyped
  <1>3. LoadedOK' BY DEF LoadedOK, BalanceUpdate
  <1>4. BalanceAddsUp' BY DEF BalanceAddsUp
  <1>5. LastMoveOK' BY DEF LastMoveOK
  <1>6. CatchingUp'
    <2>1. \A x \in Symbols : Held(x)' = Held(x) BY DEF Held
    <2>2. \A x \in Symbols, c \in Streams : WillWrite(c, x)' <=> WillWrite(c, x)
      BY DEF WillWrite
    <2>3. QED BY <2>1, <2>2 DEF CatchingUp
  <1>7. QED BY <1>1, <1>2, <1>3, <1>4, <1>5, <1>6

\* The worker and the preferences.
LEMMA OthersStay ==
    ASSUME WorkTyped, PrefTyped, WorkerOK, UNCHANGED workvars,
           UNCHANGED prefvars,
           steady' => steady /\ UNCHANGED <<venue, positions, target>>
    PROVE  WorkTyped' /\ PrefTyped' /\ WorkerOK'
  <1> USE DEF workvars, counts, prefvars
  <1>1. WorkTyped' BY DEF WorkTyped
  <1>2. PrefTyped' BY DEF PrefTyped
  <1>3. WorkerOK' BY DEF WorkerOK
  <1>4. QED BY <1>1, <1>2, <1>3
-----------------------------------------------------------------------------
(***************************************************************************)
(* The exchange sends an event.                                            *)
(***************************************************************************)
LEMMA SentFacts ==
    ASSUME StreamsOK, NEW e \in Event, SendEvent(e), NEW c \in Streams
    PROVE  /\ wire'[c] \in Seq(Event)
           /\ \A i \in DOMAIN wire[c] :
                 i \in DOMAIN wire'[c] /\ wire'[c][i] = wire[c][i]
           /\ ~link[c] => wire'[c] = wire[c] /\ wire[c] = <<>>
           /\ link[c] => /\ DOMAIN wire'[c] = 1..(Len(wire[c]) + 1)
                         /\ wire'[c][Len(wire[c]) + 1] = e
           /\ wire[c] # <<>> => wire'[c] # <<>> /\ wire'[c][1] = wire[c][1]
  <1>1. wire[c] \in Seq(Event) BY DEF StreamsOK, StreamTyped
  <1>2. wire'[c] = IF link[c] THEN Append(wire[c], e) ELSE wire[c]
    BY DEF SendEvent
  <1>3. wire[c] # <<>> => link[c] BY DEF StreamsOK, LoadedOK
  <1>4. QED BY <1>1, <1>2, <1>3

\* An event that is sent keeps the types, the loaded rows and the balance.
LEMMA SentTyped ==
    ASSUME StreamsOK, VenueTyped, NEW e \in Event, SendEvent(e)
    PROVE  StreamTyped' /\ RowTyped' /\ LoadedOK' /\ BalanceAddsUp'
  <1>1. /\ UNCHANGED <<link, loaded, exchange, positions, balance>>
        /\ wire' = [c \in Streams |-> wire'[c]]
    BY DEF SendEvent, dbvars
  <1>2. StreamTyped'
    BY <1>1, SentFacts DEF StreamsOK, StreamTyped
  <1>3. RowTyped' BY <1>1 DEF StreamsOK, RowTyped
  <1>4. LoadedOK'
    <2>1. loaded' \in [Streams -> {<<>>} \cup {<<row>> : row \in Rows}]
      BY <1>1 DEF StreamsOK, LoadedOK
    <2>2. ASSUME NEW c \in Streams
          PROVE  (/\ wire[c] # <<>> => link[c]
                  /\ loaded[c] # <<>> =>
                       /\ wire[c] # <<>> /\ wire[c][1].type # "UNKNOWN"
                       /\ wire[c][1].type = "BALANCE" =>
                             BalanceUpdate(wire[c][1]) # <<>>)'
      <3>1. wire'[c] # <<>> => link'[c]
        <4>1. ~link[c] => wire'[c] = <<>> BY <2>2, SentFacts
        <4>2. QED BY <1>1, <4>1
      <3>2. ASSUME loaded'[c] # <<>>
            PROVE  /\ wire'[c] # <<>> /\ wire'[c][1].type # "UNKNOWN"
                   /\ wire'[c][1].type = "BALANCE" =>
                         BalanceUpdate(wire[c][1])' # <<>>
        <4>1. /\ wire[c] # <<>> /\ wire[c][1].type # "UNKNOWN"
              /\ wire[c][1].type = "BALANCE" => BalanceUpdate(wire[c][1]) # <<>>
          BY <1>1, <3>2 DEF StreamsOK, LoadedOK
        <4>2. PICK f : f = wire[c][1] OBVIOUS
        <4>3. f = wire'[c][1] /\ wire'[c] # <<>>
          BY <2>2, <4>1, <4>2, SentFacts
        <4>4. BalanceUpdate(f)' = BalanceUpdate(f) BY <1>1, BalanceUpdateStays
        <4>5. QED BY <4>1, <4>2, <4>3, <4>4
      <3>3. QED BY <3>1, <3>2
    <2>3. QED BY <2>1, <2>2 DEF LoadedOK
  <1>5. BalanceAddsUp' BY <1>1 DEF StreamsOK, BalanceAddsUp
  <1>6. QED BY <1>2, <1>3, <1>4, <1>5

\* A consumer goes on to write what it would have written.
LEMMA SentWillWrite ==
    ASSUME StreamsOK, NEW e \in Event, SendEvent(e), NEW c \in Streams,
           NEW x \in Symbols, WillWrite(c, x)
    PROVE  WillWrite(c, x)'
  <1>1. PICK i \in DOMAIN wire[c] :
            /\ IsMove(wire[c][i], x)
            /\ i = 1 /\ loaded[c] # <<>> => loaded[c][1] # wire[c][i].quantity
    BY DEF WillWrite
  <1>2. i \in DOMAIN wire'[c] /\ wire'[c][i] = wire[c][i] BY SentFacts
  <1>3. loaded' = loaded BY DEF SendEvent
  <1>4. QED BY <1>1, <1>2, <1>3 DEF WillWrite

\* A position moves at the exchange: who is connected holds the move, and if
\* nobody is, the symbol has a gap.
LEMMA PositionMovesStep ==
    ASSUME IndInv, NEW x \in Symbols, NEW q \in Quantities,
           NEW wellformed \in BOOLEAN, PositionMoves(x, q, wellformed)
    PROVE  IndInv'
  <1> DEFINE e == [type |-> "POSITION", wellformed |-> wellformed, symbol |-> x,
                   quantity |-> q]
  <1>1. q \in Int BY AccountStateAssumption
  <1>2. e \in Event /\ IsMove(e, x) /\ e.quantity = q
        /\ \A y \in Symbols : IsMove(e, y) => y = x
    BY <1>1 DEF Event, PositionEvent, IsMove
  <1>3. /\ StreamsOK /\ VenueTyped /\ WorkTyped /\ PrefTyped
        /\ WorkerOK
    BY InvParts
  <1>4. /\ SendEvent(e) /\ venue' = [venue EXCEPT ![x] = q] /\ steady' = FALSE
        /\ UNCHANGED <<exchange, open, loaded, link, positions, target>>
        /\ UNCHANGED workvars /\ UNCHANGED prefvars /\ sent' = sent + 1
    BY DEF PositionMoves, SendEvent, dbvars
  <1> HIDE DEF e
  <1>5. gap \ {x} \subseteq gap' /\ gap' \subseteq gap \cup {x}
    BY DEF PositionMoves
  <1>6. VenueTyped'
    <2>1. venue' \in Amounts BY <1>1, <1>3, <1>4 DEF VenueTyped, Amounts
    <2>2. gap' \subseteq Symbols BY <1>3, <1>5 DEF VenueTyped
    <2>3. sent' \in Nat BY <1>3, <1>4 DEF VenueTyped
    <2>4. steady' \in BOOLEAN
      <3>1. steady' = FALSE BY <1>4
      <3>2. QED BY <3>1
    <2>5. QED BY <1>3, <1>4, <2>1, <2>2, <2>3, <2>4 DEF VenueTyped
  <1>7. StreamTyped' /\ RowTyped' /\ LoadedOK' /\ BalanceAddsUp'
    BY <1>2, <1>3, <1>4, SentTyped
  <1>8. venue \in [Symbols -> Int] BY <1>3 DEF VenueTyped, Amounts
  <1>9. LastMoveOK'
    <2> SUFFICES ASSUME NEW c \in Streams, NEW i \in DOMAIN wire'[c],
                        NEW y \in Symbols, IsMove(wire'[c][i], y),
                        \A j \in DOMAIN wire'[c] :
                            j > i => ~IsMove(wire'[c][j], y)
                 PROVE  wire'[c][i].quantity = venue'[y]
      BY DEF LastMoveOK, IsMove
    <2>1. CASE ~link[c]
      <3>1. wire'[c] = <<>> BY <1>2, <1>3, <1>4, <2>1, SentFacts
      <3>2. QED BY <3>1
    <2>2. CASE link[c]
      <3> DEFINE n == Len(wire[c]) + 1
      <3>1. /\ DOMAIN wire'[c] = 1..n /\ wire'[c][n] = e
            /\ \A j \in DOMAIN wire[c] : wire'[c][j] = wire[c][j]
        BY <1>2, <1>3, <1>4, <2>2, SentFacts
      <3>2. wire[c] \in Seq(Event) BY <1>3 DEF StreamsOK, StreamTyped
      <3>3. CASE i = n
        <4>1. wire'[c][i] = e /\ y = x BY <1>2, <3>1, <3>3
        <4>2. QED BY <1>2, <1>4, <1>8, <4>1
      <3>4. CASE i # n
        <4>1. i \in DOMAIN wire[c] /\ n > i /\ n \in DOMAIN wire'[c]
          BY <3>1, <3>2, <3>4
        <4>2. ~IsMove(e, y) BY <3>1, <4>1
        <4>3. y # x BY <1>2, <4>2
        <4>4. \A j \in DOMAIN wire[c] : j > i => ~IsMove(wire[c][j], y)
          <5> SUFFICES ASSUME NEW j \in DOMAIN wire[c], j > i
                       PROVE  ~IsMove(wire[c][j], y)
            OBVIOUS
          <5>1. j \in DOMAIN wire'[c] BY <3>1, <3>2
          <5>2. QED BY <3>1, <5>1
        <4>5. IsMove(wire[c][i], y) BY <3>1, <4>1
        <4>6. wire[c][i].quantity = venue[y]
          BY <1>3, <4>1, <4>4, <4>5 DEF StreamsOK, LastMoveOK
        <4>7. QED BY <1>4, <1>8, <3>1, <4>1, <4>3, <4>6
      <3>5. QED BY <3>3, <3>4
    <2>3. QED BY <2>1, <2>2
  <1>10. CatchingUp'
    <2> SUFFICES ASSUME NEW y \in Symbols \ gap'
                 PROVE  Held(y)' = venue'[y] \/ \E c \in Streams : WillWrite(c, y)'
      BY DEF CatchingUp
    <2>1. CASE y = x
      <3>1. PICK c \in Streams : link[c]
        <4> SUFFICES ASSUME \A c \in Streams : ~link[c] PROVE FALSE OBVIOUS
        <4>1. \A c \in Streams : DOMAIN wire[c] = {}
          BY <1>3 DEF StreamsOK, LoadedOK
        <4>2. ~OnTheWay(x) BY <4>1 DEF OnTheWay
        <4>3. gap' = gap \cup {x} BY <4>2 DEF PositionMoves
        <4>4. QED BY <2>1, <4>3
      <3> DEFINE n == Len(wire[c]) + 1
      <3>2. wire[c] \in Seq(Event) BY <1>3 DEF StreamsOK, StreamTyped
      <3>3. DOMAIN wire'[c] = 1..n /\ wire'[c][n] = e
        BY <1>2, <1>3, <1>4, <3>1, SentFacts
      <3>4. n \in DOMAIN wire'[c] BY <3>2, <3>3
      <3>5. n = 1 => loaded'[c] = <<>>
        <4>1. n = 1 => wire[c] = <<>> BY <3>2
        <4>2. QED BY <1>3, <1>4, <4>1 DEF StreamsOK, LoadedOK
      <3> HIDE DEF n
      <3>6. WillWrite(c, y)' BY <1>2, <2>1, <3>3, <3>4, <3>5 DEF WillWrite
      <3>7. QED BY <3>6
    <2>2. CASE y # x
      <3>1. y \notin gap BY <1>5, <2>2
      <3>2. Held(y)' = Held(y) /\ venue'[y] = venue[y]
        BY <1>4, <1>8, <2>2 DEF Held
      <3>3. Held(y) = venue[y] \/ \E c \in Streams : WillWrite(c, y)
        BY <1>3, <3>1 DEF StreamsOK, CatchingUp
      <3>4. QED BY <1>2, <1>3, <1>4, <3>2, <3>3, SentWillWrite
    <2>3. QED BY <2>1, <2>2
  <1>11. WorkTyped' /\ PrefTyped' /\ WorkerOK'
    BY <1>3, <1>4, OthersStay
  <1>12. QED
    BY <1>6, <1>7, <1>9, <1>10, <1>11, InvPartsNext DEF StreamsOK

\* An event that is no move.
LEMMA OtherEventStep ==
    ASSUME IndInv, NEW e \in Event, e.type # "POSITION", SendEvent(e),
           UNCHANGED <<venue, steady, gap>>
    PROVE  IndInv'
  <1>1. /\ StreamsOK /\ VenueTyped /\ WorkTyped /\ PrefTyped
        /\ WorkerOK
    BY InvParts
  <1>2. /\ UNCHANGED <<exchange, open, loaded, link, positions, target>>
        /\ UNCHANGED workvars /\ UNCHANGED prefvars /\ sent' = sent + 1
    BY DEF SendEvent, dbvars
  <1>3. VenueTyped' BY <1>1, <1>2 DEF VenueTyped
  <1>4. StreamTyped' /\ RowTyped' /\ LoadedOK' /\ BalanceAddsUp'
    BY <1>1, SentTyped
  <1>5. LastMoveOK'
    <2> SUFFICES ASSUME NEW c \in Streams, NEW i \in DOMAIN wire'[c],
                        NEW y \in Symbols, IsMove(wire'[c][i], y),
                        \A j \in DOMAIN wire'[c] :
                            j > i => ~IsMove(wire'[c][j], y)
                 PROVE  wire'[c][i].quantity = venue'[y]
      BY DEF LastMoveOK, IsMove
    <2>1. i \in DOMAIN wire[c]
      <3>1. CASE ~link[c] BY <1>1, <3>1, SentFacts
      <3>2. CASE link[c]
        <4>1. /\ DOMAIN wire'[c] = 1..(Len(wire[c]) + 1)
              /\ wire'[c][Len(wire[c]) + 1] = e
          BY <1>1, <3>2, SentFacts
        <4>2. i # Len(wire[c]) + 1 BY <4>1 DEF IsMove
        <4>3. wire[c] \in Seq(Event) BY <1>1 DEF StreamsOK, StreamTyped
        <4>4. QED BY <4>1, <4>2, <4>3
      <3>3. QED BY <3>1, <3>2
    <2>2. \A j \in DOMAIN wire[c] :
              j \in DOMAIN wire'[c] /\ wire'[c][j] = wire[c][j]
      BY <1>1, SentFacts
    <2>3. wire[c][i].quantity = venue[y]
      BY <1>1, <2>1, <2>2 DEF StreamsOK, LastMoveOK
    <2>4. QED BY <2>1, <2>2, <2>3
  <1>6. CatchingUp'
    <2>1. \A x \in Symbols : Held(x)' = Held(x) BY <1>2 DEF Held
    <2>2. QED BY <1>1, <2>1, SentWillWrite DEF StreamsOK, CatchingUp
  <1>7. WorkTyped' /\ PrefTyped' /\ WorkerOK'
    BY <1>1, <1>2, OthersStay
  <1>8. QED BY <1>3, <1>4, <1>5, <1>6, <1>7, InvPartsNext DEF StreamsOK
-----------------------------------------------------------------------------
(***************************************************************************)
(* A consumer hangs up, drops the event at hand, or loads a row.           *)
(***************************************************************************)
LEMMA HangUpKeeps ==
    ASSUME StreamsOK, VenueTyped, NEW c \in Streams, HangUp(c),
           UNCHANGED <<exchange, venue, dbvars>>
    PROVE  StreamsOK' /\ gap' \subseteq Symbols
  <1> USE DEF dbvars
  <1>1. /\ wire \in [Streams -> Seq(Event)] /\ link \in [Streams -> BOOLEAN]
        /\ loaded \in [Streams -> {<<>>} \cup {<<row>> : row \in Rows}]
    BY DEF StreamsOK, StreamTyped, LoadedOK
  <1>2. /\ link' = [link EXCEPT ![c] = FALSE]
        /\ wire' = [wire EXCEPT ![c] = <<>>]
        /\ loaded' = [loaded EXCEPT ![c] = <<>>]
    BY DEF HangUp
  <1>3. \A i \in DOMAIN wire[c], x \in Symbols :
            IsMove(wire[c][i], x) => x \in gap'
    BY DEF HangUp, IsMove
  <1>4. gap \subseteq gap' /\ gap' \subseteq Symbols
    <2>1. \A i \in DOMAIN wire[c] :
              wire[c][i].type = "POSITION" => wire[c][i].symbol \in Symbols
      BY <1>1, EventFacts
    <2>2. QED BY <2>1 DEF HangUp, VenueTyped
  <1>5. \A d \in Streams :
            /\ d # c => /\ wire'[d] = wire[d] /\ loaded'[d] = loaded[d]
                        /\ link'[d] = link[d]
            /\ d = c => wire'[d] = <<>> /\ loaded'[d] = <<>>
    BY <1>1, <1>2
  <1>6. StreamTyped'
    <2>1. link' \in [Streams -> BOOLEAN] BY <1>1, <1>2
    <2>2. wire' \in [Streams -> Seq(Event)]
      <3>1. <<>> \in Seq(Event) OBVIOUS
      <3>2. QED BY <1>1, <1>2, <3>1
    <2>3. QED BY <1>5, <2>1, <2>2 DEF StreamsOK, StreamTyped
  <1>7. RowTyped' /\ BalanceAddsUp'
    BY DEF StreamsOK, RowTyped, BalanceAddsUp
  <1>8. LoadedOK'
    <2>1. loaded' \in [Streams -> {<<>>} \cup {<<row>> : row \in Rows}]
      BY <1>1, <1>2
    <2>2. \A e : BalanceUpdate(e)' = BalanceUpdate(e) BY BalanceUpdateStays
    <2>3. QED BY <1>5, <2>1, <2>2 DEF StreamsOK, LoadedOK, BalanceUpdate
  <1>9. LastMoveOK' BY <1>5 DEF StreamsOK, LastMoveOK
  <1>10. CatchingUp'
    <2> SUFFICES ASSUME NEW x \in Symbols \ gap'
                 PROVE  Held(x)' = venue'[x] \/ \E d \in Streams : WillWrite(d, x)'
      BY DEF CatchingUp
    <2>1. Held(x)' = Held(x) BY DEF Held
    <2>2. ~WillWrite(c, x) BY <1>3 DEF WillWrite
    <2>3. \A d \in Streams : WillWrite(d, x) => WillWrite(d, x)'
      BY <1>5, <2>2 DEF WillWrite
    <2>4. x \notin gap BY <1>4
    <2>5. QED BY <2>1, <2>3, <2>4 DEF StreamsOK, CatchingUp
  <1>11. QED
    BY <1>4, <1>6, <1>7, <1>8, <1>9, <1>10 DEF StreamsOK

\* The first event of c is done with.
Advances(c) ==
    /\ wire[c] # <<>> /\ wire' = [wire EXCEPT ![c] = Tail(@)]
    /\ loaded' = [loaded EXCEPT ![c] = <<>>]
    /\ UNCHANGED <<link, exchange, venue>>

\* A consumer that is done with an event holds the others, one place earlier.
LEMMA AdvanceFacts ==
    ASSUME StreamsOK, NEW c \in Streams, Advances(c)
    PROVE  /\ wire'[c] \in Seq(Event) /\ Len(wire[c]) \in Nat
           /\ DOMAIN wire'[c] = 1..(Len(wire[c]) - 1)
           /\ DOMAIN wire[c] = 1..Len(wire[c]) /\ Len(wire[c]) >= 1
           /\ \A i \in 1..(Len(wire[c]) - 1) : wire'[c][i] = wire[c][i + 1]
           /\ loaded'[c] = <<>>
           /\ \A d \in Streams \ {c} :
                 wire'[d] = wire[d] /\ loaded'[d] = loaded[d]
  <1>1. wire \in [Streams -> Seq(Event)] /\ wire[c] \in Seq(Event)
    BY DEF StreamsOK, StreamTyped
  <1>2. loaded \in [Streams -> {<<>>} \cup {<<row>> : row \in Rows}]
    BY DEF StreamsOK, LoadedOK
  <1>3. wire'[c] = Tail(wire[c]) BY <1>1 DEF Advances
  <1>4. \A d \in Streams \ {c} : wire'[d] = wire[d] /\ loaded'[d] = loaded[d]
    BY <1>1, <1>2 DEF Advances
  <1>5. loaded'[c] = <<>> BY <1>2 DEF Advances
  <1>6. /\ Tail(wire[c]) \in Seq(Event) /\ Len(Tail(wire[c])) = Len(wire[c]) - 1
        /\ Len(wire[c]) >= 1
        /\ \A i \in 1..(Len(wire[c]) - 1) : Tail(wire[c])[i] = wire[c][i + 1]
    BY <1>1, SequenceFacts DEF Advances
  <1>7. QED BY <1>1, <1>3, <1>4, <1>5, <1>6

\* That keeps the types, the loaded rows and the last moves.
LEMMA AdvanceKeeps ==
    ASSUME StreamsOK, NEW c \in Streams, Advances(c)
    PROVE  StreamTyped' /\ LoadedOK' /\ LastMoveOK'
  <1>1. /\ wire \in [Streams -> Seq(Event)] /\ link \in [Streams -> BOOLEAN]
        /\ loaded \in [Streams -> {<<>>} \cup {<<row>> : row \in Rows}]
    BY DEF StreamsOK, StreamTyped, LoadedOK
  <1>2. /\ wire'[c] \in Seq(Event) /\ Len(wire[c]) \in Nat
        /\ DOMAIN wire'[c] = 1..(Len(wire[c]) - 1)
        /\ DOMAIN wire[c] = 1..Len(wire[c]) /\ Len(wire[c]) >= 1
        /\ \A i \in 1..(Len(wire[c]) - 1) : wire'[c][i] = wire[c][i + 1]
        /\ loaded'[c] = <<>>
        /\ \A d \in Streams \ {c} : wire'[d] = wire[d] /\ loaded'[d] = loaded[d]
    BY AdvanceFacts
  <1>3. StreamTyped'
    <2>1. wire' \in [Streams -> Seq(Event)]
      <3>1. wire' = [wire EXCEPT ![c] = wire'[c]] BY <1>1 DEF Advances
      <3>2. QED BY <1>1, <1>2, <3>1
    <2>2. link' = link BY DEF Advances
    <2>3. QED BY <1>2, <2>1, <2>2 DEF StreamsOK, StreamTyped
  <1>4. LoadedOK'
    <2>1. loaded' \in [Streams -> {<<>>} \cup {<<row>> : row \in Rows}]
      BY <1>1 DEF Advances
    <2>2. link' = link /\ \A e : BalanceUpdate(e)' = BalanceUpdate(e)
      BY BalanceUpdateStays DEF Advances
    <2>3. link[c] BY DEF StreamsOK, LoadedOK, Advances
    <2>4. UNCHANGED exchange BY DEF Advances
    <2>5. QED
      BY <1>2, <2>1, <2>2, <2>3, <2>4 DEF StreamsOK, LoadedOK, BalanceUpdate
  <1>5. LastMoveOK'
    <2> SUFFICES ASSUME NEW d \in Streams, NEW i \in DOMAIN wire'[d],
                        NEW y \in Symbols, IsMove(wire'[d][i], y),
                        \A j \in DOMAIN wire'[d] :
                            j > i => ~IsMove(wire'[d][j], y)
                 PROVE  wire'[d][i].quantity = venue'[y]
      BY DEF LastMoveOK, IsMove
    <2>1. venue' = venue BY DEF Advances
    <2>2. CASE d # c BY <1>2, <2>1, <2>2 DEF StreamsOK, LastMoveOK
    <2>3. CASE d = c
      <3>1. i + 1 \in DOMAIN wire[c] /\ wire'[c][i] = wire[c][i + 1]
        BY <1>2, <2>3
      <3>2. \A j \in DOMAIN wire[c] : j > i + 1 => ~IsMove(wire[c][j], y)
        <4> SUFFICES ASSUME NEW j \in DOMAIN wire[c], j > i + 1
                     PROVE  ~IsMove(wire[c][j], y)
          OBVIOUS
        <4>1. PICK k \in DOMAIN wire'[c] : k + 1 = j /\ k > i
          <5>1. j - 1 \in DOMAIN wire'[c] /\ j - 1 > i /\ (j - 1) + 1 = j
            BY <1>2, <2>3
          <5>2. QED BY <5>1
        <4>2. wire'[c][k] = wire[c][j] BY <1>2, <4>1
        <4>3. QED BY <2>3, <4>1, <4>2
      <3>3. wire[c][i + 1].quantity = venue[y]
        BY <2>3, <3>1, <3>2 DEF StreamsOK, LastMoveOK
      <3>4. QED BY <2>1, <2>3, <3>1, <3>3
    <2>4. QED BY <2>2, <2>3
  <1>6. QED BY <1>3, <1>4, <1>5

\* A move behind the first event will still be written, and the other consumers
\* are where they were.
LEMMA AdvanceWillWrite ==
    ASSUME StreamsOK, NEW c \in Streams, Advances(c), NEW x \in Symbols
    PROVE  /\ \A i \in DOMAIN wire[c] :
                 i > 1 /\ IsMove(wire[c][i], x) => WillWrite(c, x)'
           /\ \A d \in Streams \ {c} : WillWrite(d, x) => WillWrite(d, x)'
  <1>1. ASSUME NEW i \in DOMAIN wire[c], i > 1, IsMove(wire[c][i], x)
        PROVE  WillWrite(c, x)'
    <2>1. PICK k \in DOMAIN wire'[c] : k + 1 = i
      <3>1. i - 1 \in DOMAIN wire'[c] /\ (i - 1) + 1 = i
        BY <1>1, AdvanceFacts
      <3>2. QED BY <3>1
    <2>2. wire'[c][k] = wire[c][i] BY <2>1, AdvanceFacts
    <2>3. loaded'[c] = <<>> BY AdvanceFacts
    <2>4. QED BY <1>1, <2>2, <2>3 DEF WillWrite
  <1>2. ASSUME NEW d \in Streams \ {c}, WillWrite(d, x)
        PROVE  WillWrite(d, x)'
    BY <1>2, AdvanceFacts DEF WillWrite
  <1>3. QED BY <1>1, <1>2

\* A consumer connects, or is cut off and leaves a gap where it held a move.
LEMMA DisconnectStep ==
    ASSUME IndInv, NEW c \in Streams, Connect(c) \/ Disconnect(c)
    PROVE  IndInv'
  <1>1. /\ StreamsOK /\ VenueTyped /\ WorkTyped /\ PrefTyped
        /\ WorkerOK
    BY InvParts
  <1>2. /\ UNCHANGED <<exchange, open, venue, sent, target, positions, balance,
                       steady>>
        /\ UNCHANGED workvars /\ UNCHANGED prefvars
    BY DEF Connect, Disconnect, envvars, dbvars
  <1>3. WorkTyped' /\ PrefTyped' /\ WorkerOK'
    BY <1>1, <1>2, OthersStay
  <1>4. StreamsOK' /\ gap' \subseteq Symbols
    <2>1. CASE Disconnect(c)
      BY <1>1, <1>2, <2>1, HangUpKeeps DEF Disconnect, dbvars
    <2>2. CASE Connect(c)
      <3>1. /\ UNCHANGED <<wire, loaded, gap>>
            /\ link' = [link EXCEPT ![c] = TRUE]
        BY <2>2 DEF Connect
      <3>2. link \in [Streams -> BOOLEAN] BY <1>1 DEF StreamsOK, StreamTyped
      <3>3. \A d \in Streams : link[d] => link'[d] BY <3>1, <3>2
      <3>4. StreamTyped'
        <4>1. link' \in [Streams -> BOOLEAN] BY <3>1, <3>2
        <4>2. QED BY <1>1, <3>1, <4>1 DEF StreamsOK, StreamTyped
      <3>5. RowTyped' /\ BalanceAddsUp'
        BY <1>1, <1>2 DEF StreamsOK, RowTyped, BalanceAddsUp
      <3>6. LoadedOK'
        BY <1>1, <1>2, <3>1, <3>3 DEF StreamsOK, LoadedOK, BalanceUpdate
      <3>7. LastMoveOK' BY <1>1, <1>2, <3>1 DEF StreamsOK, LastMoveOK
      <3>8. CatchingUp'
        BY <1>1, <1>2, <3>1 DEF StreamsOK, CatchingUp, WillWrite, Held
      <3>9. gap' \subseteq Symbols BY <1>1, <3>1 DEF VenueTyped
      <3>10. QED BY <3>4, <3>5, <3>6, <3>7, <3>8, <3>9 DEF StreamsOK
    <2>3. QED BY <2>1, <2>2
  <1>5. VenueTyped' BY <1>1, <1>2, <1>4 DEF VenueTyped
  <1>6. QED BY <1>3, <1>4, <1>5, InvPartsNext

\* A consumer that has found the last quantity in the row found the row right.
LEMMA LoadRowStreams ==
    ASSUME StreamsOK, VenueTyped, NEW c \in Streams, NEW e \in Event,
           wire[c] # <<>>, e = wire[c][1], e.type # "UNKNOWN",
           e.type = "BALANCE" => BalanceUpdate(e) # <<>>,
           NEW row, row = IF e.type = "POSITION" THEN positions[e.symbol]
                                                 ELSE balance,
           loaded' = [loaded EXCEPT ![c] = <<row>>],
           UNCHANGED <<exchange, venue, link, wire, gap, positions, balance>>
    PROVE  StreamsOK'
  <1>1. /\ wire \in [Streams -> Seq(Event)] /\ wire[c] \in Seq(Event)
        /\ loaded \in [Streams -> {<<>>} \cup {<<r>> : r \in Rows}]
        /\ positions \in [Symbols -> Int \cup {None}]
        /\ balance \in Balance \cup {None}
    BY DEF StreamsOK, StreamTyped, LoadedOK, RowTyped
  <1>2. e.type \in {"POSITION", "BALANCE"} BY EventFacts
  <1>3. /\ e.type = "POSITION" => row \in Int \cup {None}
        /\ e.type # "POSITION" => row \in Balance \cup {None}
    BY <1>1, <1>2, EventFacts
  <1>4. row \in Rows BY <1>3 DEF Rows
  <1>5. /\ loaded'[c] = <<row>> /\ <<row>>[1] = row /\ <<row>> # <<>>
        /\ \A d \in Streams \ {c} : loaded'[d] = loaded[d]
    BY <1>1
  <1>6. loaded'[c][1] = row /\ loaded'[c] # <<>> BY <1>5
  <1>7. StreamTyped' BY <1>3, <1>5, <1>6 DEF StreamsOK, StreamTyped
  <1>8. RowTyped' /\ BalanceAddsUp' /\ LastMoveOK'
    BY DEF StreamsOK, RowTyped, BalanceAddsUp, LastMoveOK
  <1>9. LoadedOK'
    <2>1. loaded' \in [Streams -> {<<>>} \cup {<<r>> : r \in Rows}]
      BY <1>1, <1>4
    <2>2. BalanceUpdate(e)' = BalanceUpdate(e) BY BalanceUpdateStays
    <2>3. QED
      BY <1>5, <2>1, <2>2 DEF StreamsOK, LoadedOK, BalanceUpdate
  <1>10. CatchingUp'
    <2> SUFFICES ASSUME NEW x \in Symbols \ gap
                 PROVE  Held(x)' = venue[x] \/ \E d \in Streams : WillWrite(d, x)'
      BY DEF CatchingUp
    <2>1. Held(x)' = Held(x) BY DEF Held
    <2>2. CASE Held(x) = venue[x] BY <2>1, <2>2
    <2>3. ASSUME NEW d \in Streams, WillWrite(d, x), d # c
          PROVE  WillWrite(d, x)'
      BY <1>5, <2>3 DEF WillWrite
    <2>4. ASSUME NEW i \in DOMAIN wire[c], IsMove(wire[c][i], x), i # 1
          PROVE  WillWrite(c, x)'
      BY <2>4 DEF WillWrite
    <2>5. CASE /\ WillWrite(c, x)
               /\ \A i \in DOMAIN wire[c] : i # 1 => ~IsMove(wire[c][i], x)
      <3>1. 1 \in DOMAIN wire[c] /\ IsMove(wire[c][1], x)
        BY <2>5 DEF WillWrite
      <3>2. \A j \in DOMAIN wire[c] : j > 1 => ~IsMove(wire[c][j], x)
        BY <1>1, <2>5
      <3>3. e.quantity = venue[x] BY <3>1, <3>2 DEF StreamsOK, LastMoveOK
      <3>4. row = positions[x] /\ e.quantity \in Int
        BY <3>1, EventFacts DEF IsMove
      <3>5. CASE row = e.quantity
        BY <2>1, <3>3, <3>4, <3>5, AccountStateAssumption DEF Held
      <3>6. CASE row # e.quantity
        BY <1>6, <3>1, <3>6 DEF WillWrite
      <3>7. QED BY <3>5, <3>6
    <2>6. Held(x) = venue[x] \/ \E d \in Streams : WillWrite(d, x)
      BY DEF StreamsOK, CatchingUp
    <2>7. QED BY <2>2, <2>3, <2>4, <2>5, <2>6
  <1>11. QED BY <1>7, <1>8, <1>9, <1>10 DEF StreamsOK

\* A consumer takes up an event and loads its row, drops the event, or gives up.
LEMMA LoadRowStep ==
    ASSUME IndInv, NEW c \in Streams, LoadRow(c)
    PROVE  IndInv'
  <1>1. /\ StreamsOK /\ VenueTyped /\ WorkTyped /\ PrefTyped
        /\ WorkerOK
    BY InvParts
  <1>2. /\ UNCHANGED <<exchange, open, venue, sent, target, positions, balance,
                       steady>>
        /\ UNCHANGED workvars /\ UNCHANGED prefvars
        /\ wire[c] # <<>> /\ loaded[c] = <<>>
    BY DEF LoadRow, envvars, dbvars
  <1>3. WorkTyped' /\ PrefTyped' /\ WorkerOK'
    BY <1>1, <1>2, OthersStay
  <1>4. wire[c] \in Seq(Event) BY <1>1 DEF StreamsOK, StreamTyped
  <1>5. PICK e \in Event : e = wire[c][1] /\ e = Head(wire[c])
    <2>1. wire[c][1] \in Event /\ Head(wire[c]) = wire[c][1]
      BY <1>2, <1>4, SequenceFacts
    <2>2. QED BY <2>1
  <1> DEFINE valid == /\ open
                      /\ e.type # "UNKNOWN" => e.wellformed
                      /\ e.type = "BALANCE" => BalanceUpdate(e) # <<>>
             row == IF e.type = "POSITION" THEN positions[e.symbol] ELSE balance
  <1>6. \/ HangUp(c)
        \/ /\ e.type = "UNKNOWN" /\ wire' = [wire EXCEPT ![c] = Tail(@)]
           /\ UNCHANGED <<link, loaded, gap>>
        \/ /\ valid /\ e.type # "UNKNOWN"
           /\ loaded' = [loaded EXCEPT ![c] = <<row>>]
           /\ UNCHANGED <<link, wire, gap>>
    BY <1>5 DEF LoadRow
  <1>7. StreamsOK' /\ gap' \subseteq Symbols
    <2>1. CASE HangUp(c) BY <1>1, <1>2, <2>1, HangUpKeeps DEF dbvars
    <2>2. CASE /\ e.type = "UNKNOWN" /\ wire' = [wire EXCEPT ![c] = Tail(@)]
               /\ UNCHANGED <<link, loaded, gap>>
      <3>1. loaded \in [Streams -> {<<>>} \cup {<<r>> : r \in Rows}]
        BY <1>1 DEF StreamsOK, LoadedOK
      <3>2. loaded' = [loaded EXCEPT ![c] = <<>>] BY <1>2, <2>2, <3>1
      <3>3. Advances(c) BY <1>2, <2>2, <3>2 DEF Advances
      <3>4. StreamTyped' /\ LoadedOK' /\ LastMoveOK'
        BY <1>1, <3>3, AdvanceKeeps
      <3>5. RowTyped' /\ BalanceAddsUp'
        BY <1>1, <1>2 DEF StreamsOK, RowTyped, BalanceAddsUp
      <3>6. CatchingUp'
        <4> SUFFICES ASSUME NEW x \in Symbols \ gap
                     PROVE  \/ Held(x)' = venue[x]
                            \/ \E d \in Streams : WillWrite(d, x)'
          BY <1>2, <2>2 DEF CatchingUp
        <4>1. Held(x)' = Held(x) BY <1>2 DEF Held
        <4>2. ASSUME WillWrite(c, x) PROVE WillWrite(c, x)'
          <5>1. PICK i \in DOMAIN wire[c] : IsMove(wire[c][i], x)
            BY <4>2 DEF WillWrite
          <5>2. i # 1 BY <1>5, <2>2, <5>1 DEF IsMove
          <5>3. i > 1 BY <1>4, <5>2
          <5>4. QED BY <1>1, <3>3, <5>1, <5>3, AdvanceWillWrite
        <4>3. \A d \in Streams : WillWrite(d, x) => WillWrite(d, x)'
          BY <1>1, <3>3, <4>2, AdvanceWillWrite
        <4>4. QED BY <1>1, <4>1, <4>3 DEF StreamsOK, CatchingUp
      <3>7. gap' \subseteq Symbols BY <1>1, <2>2 DEF VenueTyped
      <3>8. QED BY <3>4, <3>5, <3>6, <3>7 DEF StreamsOK
    <2>3. CASE /\ valid /\ e.type # "UNKNOWN"
               /\ loaded' = [loaded EXCEPT ![c] = <<row>>]
               /\ UNCHANGED <<link, wire, gap>>
      <3>1. StreamsOK' BY <1>1, <1>2, <1>5, <2>3, LoadRowStreams
      <3>2. gap' \subseteq Symbols BY <1>1, <2>3 DEF VenueTyped
      <3>3. QED BY <3>1, <3>2
    <2>4. QED BY <1>6, <2>1, <2>2, <2>3
  <1>8. VenueTyped' BY <1>1, <1>2, <1>7 DEF VenueTyped
  <1>9. QED BY <1>3, <1>7, <1>8, InvPartsNext
-----------------------------------------------------------------------------
(***************************************************************************)
(* A consumer commits the row of the event at hand.                        *)
(***************************************************************************)
LEMMA CommitPosition ==
    ASSUME StreamsOK, VenueTyped, NEW c \in Streams, NEW e \in Event,
           loaded[c] # <<>>, e = wire[c][1], e.type = "POSITION", Advances(c),
           UNCHANGED <<gap, balance>>,
           positions' = [positions EXCEPT ![e.symbol] =
                            Flush(@, loaded[c][1], PositionWritten(e))]
    PROVE  StreamsOK'
  <1> DEFINE s == e.symbol
             before == loaded[c][1]
  <1>1. s \in Symbols /\ e.quantity \in Int BY EventFacts
  <1>2. positions \in [Symbols -> Int \cup {None}] /\ wire[c] \in Seq(Event)
    BY DEF StreamsOK, RowTyped, StreamTyped
  <1>3. /\ before = e.quantity => positions'[s] = positions[s]
        /\ before # e.quantity => positions'[s] = e.quantity
        /\ \A x \in Symbols : x # s => positions'[x] = positions[x]
    BY <1>1, <1>2 DEF Flush, PositionWritten
  <1>4. RowTyped'
    <2>1. Flush(positions[s], before, e.quantity) \in Int \cup {None}
      BY <1>1, <1>2 DEF Flush
    <2>2. positions' \in [Symbols -> Int \cup {None}]
      BY <1>2, <2>1 DEF PositionWritten
    <2>3. QED BY <2>2 DEF StreamsOK, RowTyped
  <1>5. StreamTyped' /\ LoadedOK' /\ LastMoveOK' BY AdvanceKeeps
  <1>6. BalanceAddsUp'
    BY DEF StreamsOK, BalanceAddsUp, Advances
  <1>7. CatchingUp'
    <2> SUFFICES ASSUME NEW x \in Symbols \ gap
                 PROVE  Held(x)' = venue[x] \/ \E d \in Streams : WillWrite(d, x)'
      BY DEF CatchingUp, Advances
    <2>1. ASSUME NEW i \in DOMAIN wire[c], i # 1, IsMove(wire[c][i], x)
          PROVE  WillWrite(c, x)'
      <3>1. i > 1 BY <1>2, <2>1
      <3>2. QED BY <2>1, <3>1, AdvanceWillWrite
    <2>2. CASE \E i \in DOMAIN wire[c] : i # 1 /\ IsMove(wire[c][i], x)
      BY <2>1, <2>2
    <2>3. CASE ~ \E i \in DOMAIN wire[c] : i # 1 /\ IsMove(wire[c][i], x)
      <3>1. Held(x) = venue[x] \/ \E d \in Streams : WillWrite(d, x)
        BY DEF StreamsOK, CatchingUp
      <3>2. \A d \in Streams \ {c} : WillWrite(d, x) => WillWrite(d, x)'
        BY AdvanceWillWrite
      <3>3. CASE x = s /\ before # e.quantity
        <4>1. 1 \in DOMAIN wire[c] /\ IsMove(wire[c][1], x)
          BY <1>2, <3>3 DEF IsMove, Advances
        <4>2. \A j \in DOMAIN wire[c] : j > 1 => ~IsMove(wire[c][j], x)
          BY <1>2, <2>3
        <4>3. e.quantity = venue[x]
          BY <4>1, <4>2 DEF StreamsOK, LastMoveOK
        <4>4. positions'[x] = venue[x] /\ venue[x] # None
          BY <1>1, <1>3, <3>3, <4>3, AccountStateAssumption
        <4>5. QED BY <4>4 DEF Held
      <3>4. CASE x # s \/ before = e.quantity
        <4>1. Held(x)' = Held(x) BY <1>3, <3>4 DEF Held
        <4>2. ~WillWrite(c, x)
          BY <2>3, <3>4 DEF WillWrite, IsMove
        <4>3. QED BY <3>1, <3>2, <4>1, <4>2
      <3>5. QED BY <3>3, <3>4
    <2>4. QED BY <2>2, <2>3
  <1>8. QED BY <1>4, <1>5, <1>6, <1>7 DEF StreamsOK

\* Committing a balance event stores figures that add up.
LEMMA CommitBalance ==
    ASSUME StreamsOK, VenueTyped, NEW c \in Streams, NEW e \in Event,
           loaded[c] # <<>>, e = wire[c][1], e.type = "BALANCE", Advances(c),
           UNCHANGED <<gap, positions>>,
           balance' = Flush(balance, loaded[c][1], BalanceUpdate(e)[1])
    PROVE  StreamsOK'
  <1>1. e.available \in Nat /\ e.locked \in Nat /\ e.total \in Nat
    BY EventFacts
  <1>2. BalanceUpdate(e) # <<>> BY DEF StreamsOK, LoadedOK
  <1>3. PICK b : b = BalanceUpdate(e)[1] OBVIOUS
  <1>4. /\ b \in Balance
        /\ b.available >= 0 /\ b.locked >= 0
        /\ b.available + b.locked <= b.total
        /\ exchange # "OKX" => b.available + b.locked = b.total
    BY <1>1, <1>2, <1>3, BalanceUpdateFacts
  <1>5. balance' = balance \/ balance' = b BY <1>3 DEF Flush
  <1>6. exchange' = exchange BY DEF Advances
  <1>7. RowTyped' BY <1>4, <1>5 DEF StreamsOK, RowTyped
  <1>8. BalanceAddsUp' BY <1>4, <1>5, <1>6 DEF StreamsOK, BalanceAddsUp
  <1>9. StreamTyped' /\ LoadedOK' /\ LastMoveOK' BY AdvanceKeeps
  <1>10. CatchingUp'
    <2> SUFFICES ASSUME NEW x \in Symbols \ gap
                 PROVE  Held(x)' = venue[x] \/ \E d \in Streams : WillWrite(d, x)'
      BY DEF CatchingUp, Advances
    <2>1. Held(x)' = Held(x) BY DEF Held
    <2>2. ASSUME WillWrite(c, x) PROVE WillWrite(c, x)'
      <3>1. PICK i \in DOMAIN wire[c] : IsMove(wire[c][i], x)
        BY <2>2 DEF WillWrite
      <3>2. i # 1 BY <3>1 DEF IsMove
      <3>3. wire[c] \in Seq(Event) BY DEF StreamsOK, StreamTyped
      <3>4. i > 1 BY <3>2, <3>3
      <3>5. QED BY <3>1, <3>4, AdvanceWillWrite
    <2>3. \A d \in Streams : WillWrite(d, x) => WillWrite(d, x)'
      BY <2>2, AdvanceWillWrite
    <2>4. QED BY <2>1, <2>3 DEF StreamsOK, CatchingUp
  <1>11. QED BY <1>7, <1>8, <1>9, <1>10 DEF StreamsOK

\* A consumer writes its row or loses against another's INSERT.
LEMMA CommitRowStep ==
    ASSUME IndInv, NEW c \in Streams, CommitRow(c)
    PROVE  IndInv'
  <1>1. /\ StreamsOK /\ VenueTyped /\ WorkTyped /\ PrefTyped
        /\ WorkerOK
    BY InvParts
  <1>2. /\ UNCHANGED <<exchange, open, venue, sent, target>>
        /\ UNCHANGED workvars /\ UNCHANGED prefvars
        /\ loaded[c] # <<>> /\ steady' = (steady /\ positions' = positions)
    BY DEF CommitRow, envvars
  <1>3. WorkTyped' /\ PrefTyped' /\ WorkerOK'
    BY <1>1, <1>2, OthersStay
  <1>4. wire[c] \in Seq(Event) /\ wire[c] # <<>>
    BY <1>1, <1>2 DEF StreamsOK, StreamTyped
  <1>5. PICK e \in Event : e = wire[c][1] /\ e = Head(wire[c])
    <2>1. wire[c][1] \in Event /\ Head(wire[c]) = wire[c][1]
      BY <1>4, SequenceFacts
    <2>2. QED BY <2>1
  <1> DEFINE before == loaded[c][1]
  <1>6. \/ HangUp(c) /\ UNCHANGED dbvars
        \/ /\ \/ /\ e.type = "POSITION"
                 /\ positions' = [positions EXCEPT ![e.symbol] =
                                     Flush(@, before, PositionWritten(e))]
                 /\ UNCHANGED balance
              \/ /\ e.type = "BALANCE"
                 /\ balance' = Flush(balance, before, BalanceUpdate(e)[1])
                 /\ UNCHANGED positions
           /\ wire' = [wire EXCEPT ![c] = Tail(@)]
           /\ loaded' = [loaded EXCEPT ![c] = <<>>]
           /\ UNCHANGED <<link, gap>>
    BY <1>5 DEF CommitRow
  <1>7. StreamsOK' /\ gap' \subseteq Symbols
    <2>1. CASE HangUp(c) /\ UNCHANGED dbvars
      BY <1>1, <1>2, <2>1, HangUpKeeps
    <2>2. CASE ~(HangUp(c) /\ UNCHANGED dbvars)
      <3>1. Advances(c) /\ UNCHANGED gap
        BY <1>2, <1>4, <1>6, <2>2 DEF Advances
      <3>2. StreamsOK'
        BY <1>1, <1>2, <1>5, <1>6, <2>2, <3>1, CommitPosition, CommitBalance
      <3>3. QED BY <1>1, <3>1, <3>2 DEF VenueTyped
    <2>3. QED BY <2>1, <2>2
  <1>8. VenueTyped'
    <2>1. steady' \in BOOLEAN BY <1>2
    <2>2. QED BY <1>1, <1>2, <1>7, <2>1 DEF VenueTyped
  <1>9. QED BY <1>3, <1>7, <1>8, InvPartsNext
-----------------------------------------------------------------------------
(***************************************************************************)
(* The worker.                                                             *)
(***************************************************************************)
LEMMA LoadExchangeStep == IndInv /\ LoadExchange => IndInv'
  <1> SUFFICES ASSUME IndInv, LoadExchange PROVE IndInv' OBVIOUS
  <1>1. /\ StreamsOK /\ VenueTyped /\ WorkTyped /\ PrefTyped
        /\ WorkerOK
    BY InvParts
  <1>2. /\ UNCHANGED <<exchange, open, venue, sent, target, streamvars, dbvars,
                       gap, preferences, draft, promised, audits, notes>>
        /\ worker' = "database" /\ steady' = TRUE /\ report' = None
    BY DEF LoadExchange, runenv, envvars, prefvars, counts
  <1>3. PICK s \in Listings(venue) : snaps' = <<s>> BY DEF LoadExchange
  <1>4. venue \in Amounts BY <1>1 DEF VenueTyped
  <1>5. s \in Snapshot BY <1>3, <1>4, ListingNormalized
  <1>6. snaps' \in Seq(Snapshot) /\ Len(snaps') = 1 /\ snaps'[1] = s
    BY <1>3, <1>5
  <1>7. WorkTyped' BY <1>1, <1>2, <1>6 DEF WorkTyped
  <1>8. WorkerOK' BY <1>2, <1>4, <1>6 DEF WorkerOK
  <1>9. PrefTyped' BY <1>1, <1>2 DEF PrefTyped
  <1>10. VenueTyped'
    <2>1. steady' \in BOOLEAN
      <3>1. steady' = TRUE BY <1>2
      <3>2. QED BY <3>1
    <2>2. QED BY <1>1, <1>2, <2>1 DEF VenueTyped
  <1>11. StreamsOK' BY <1>1, <1>2, StreamsStay
  <1>12. QED
    BY <1>7, <1>8, <1>9, <1>10, <1>11, InvPartsNext

\* The worker takes the snapshot of the database.
LEMMA LoadDatabaseStep == IndInv /\ LoadDatabase => IndInv'
  <1> SUFFICES ASSUME IndInv, LoadDatabase PROVE IndInv' OBVIOUS
  <1>1. /\ StreamsOK /\ VenueTyped /\ WorkTyped /\ PrefTyped
        /\ WorkerOK
    BY InvParts
  <1>2. /\ UNCHANGED <<exchange, open, venue, sent, target, streamvars, dbvars,
                       gap, preferences, draft, promised, audits, notes,
                       report, steady>>
        /\ worker = "database" /\ worker' = "target"
        /\ snaps' = Append(snaps, RowEntries(positions))
    BY DEF LoadDatabase, runenv, envvars, prefvars, counts, RowEntries
  <1>3. positions \in [Symbols -> Int \cup {None}]
    BY <1>1 DEF StreamsOK, RowTyped
  <1>4. RowEntries(positions) \in Snapshot BY <1>3, RowsNormalized
  <1>5. snaps \in Seq(Snapshot) BY <1>1 DEF WorkTyped
  <1>6. /\ snaps' \in Seq(Snapshot) /\ Len(snaps') = 2 /\ snaps'[1] = snaps[1]
        /\ snaps'[2] = RowEntries(positions)
    <2>1. /\ Len(snaps') = Len(snaps) + 1
          /\ snaps'[Len(snaps) + 1] = RowEntries(positions)
          /\ \A i \in 1..Len(snaps) : snaps'[i] = snaps[i]
          /\ snaps' \in Seq(Snapshot)
      BY <1>2, <1>4, <1>5
    <2>2. Len(snaps) = 1 BY <1>1, <1>2 DEF WorkerOK
    <2>3. QED BY <2>1, <2>2
  <1>7. WorkTyped' BY <1>1, <1>2, <1>6 DEF WorkTyped
  <1>8. WorkerOK'
    <2>1. PICK v \in Amounts : snaps[1] \in Listings(v) /\ (steady => v = venue)
      BY <1>1, <1>2 DEF WorkerOK
    <2>2. positions' = positions BY <1>2 DEF dbvars
    <2>3. QED BY <1>2, <1>3, <1>6, <2>1, <2>2 DEF WorkerOK
  <1>9. PrefTyped' BY <1>1, <1>2 DEF PrefTyped
  <1>10. VenueTyped' BY <1>1, <1>2 DEF VenueTyped
  <1>11. StreamsOK' BY <1>1, <1>2, StreamsStay
  <1>12. QED
    BY <1>7, <1>8, <1>9, <1>10, <1>11, InvPartsNext

\* The worker takes the target's snapshot, and reports.
LEMMA LoadTargetStep == IndInv /\ LoadTarget => IndInv'
  <1> SUFFICES ASSUME IndInv, LoadTarget PROVE IndInv' OBVIOUS
  <1>1. /\ StreamsOK /\ VenueTyped /\ WorkTyped /\ PrefTyped
        /\ WorkerOK
    BY InvParts
  <1>2. /\ UNCHANGED <<exchange, open, venue, sent, target, streamvars, dbvars,
                       gap, preferences, draft, promised, audits, notes, steady>>
        /\ worker = "target" /\ worker' = "persist" /\ snaps' = <<>>
        /\ report' = reconcile_position_snapshots(snaps[1], snaps[2],
                                                  Entries(target))
    BY DEF LoadTarget, runenv, envvars, prefvars, counts, Entries
  <1>3. PICK v \in Amounts : snaps[1] \in Listings(v) /\ (steady => v = venue)
    BY <1>1, <1>2 DEF WorkerOK
  <1>4. PICK h \in [Symbols -> Int \cup {None}] :
            snaps[2] = RowEntries(h) /\ (steady => h = positions)
    BY <1>1, <1>2 DEF WorkerOK
  <1>5. target \in Amounts BY <1>1 DEF VenueTyped
  <1>6. /\ NormalizeSnapshots(snaps[1]) = v
        /\ NormalizeSnapshots(snaps[2]) = OrZero(h) /\ OrZero(h) \in Amounts
        /\ NormalizeSnapshots(Entries(target)) = target
    BY <1>3, <1>4, <1>5, ListingNormalized, RowsNormalized, TargetNormalized
  <1>7. PICK r : r = report' OBVIOUS
  <1>8. ReportOn(r, v, OrZero(h), target)
    BY <1>2, <1>5, <1>6, <1>7, ReconcileReport
  <1>9. r \in Report BY <1>8 DEF ReportOn
  <1>10. WorkTyped'
    <2>1. snaps' \in Seq(Snapshot) /\ Len(snaps') <= 2 BY <1>2
    <2>2. QED BY <1>1, <1>2, <1>7, <1>9, <2>1 DEF WorkTyped
  <1>11. WorkerOK'
    <2>1. PICK g \in Amounts : g = target BY <1>5
    <2>2. /\ ReportOn(report, v, OrZero(h), g)'
          /\ steady' => v = venue' /\ h = positions' /\ g = target'
      BY <1>2, <1>3, <1>4, <1>7, <1>8, <2>1 DEF dbvars, ReportOn, OrZero
    <2>3. QED BY <1>2, <2>2 DEF WorkerOK
  <1>12. PrefTyped' BY <1>1, <1>2 DEF PrefTyped
  <1>13. VenueTyped' BY <1>1, <1>2 DEF VenueTyped
  <1>14. StreamsOK' BY <1>1, <1>2, StreamsStay
  <1>15. QED
    BY <1>10, <1>11, <1>12, <1>13, <1>14, InvPartsNext

\* The worker's caller commits audit row and notification.
LEMMA PersistStep == IndInv /\ persist_reconciliation_hook_plan => IndInv'
  <1> SUFFICES ASSUME IndInv, persist_reconciliation_hook_plan PROVE IndInv'
    OBVIOUS
  <1>1. /\ StreamsOK /\ VenueTyped /\ WorkTyped /\ PrefTyped
        /\ WorkerOK
    BY InvParts
  <1> DEFINE drift == report.status = "DRIFT_DETECTED"
             wanted == IF preferences = None THEN DefaultPreferences
                                             ELSE preferences
  <1>2. /\ UNCHANGED <<exchange, open, venue, sent, target, streamvars, dbvars,
                       gap, draft, promised, snaps, steady>>
        /\ worker = "persist" /\ worker' = "idle" /\ report' = None
        /\ audits' = audits + (IF drift THEN 1 ELSE 0)
        /\ notes' = notes + (IF drift /\ Allows(wanted) THEN 1 ELSE 0)
        /\ preferences' = IF drift THEN wanted ELSE preferences
    BY DEF persist_reconciliation_hook_plan, envvars
  <1>3. wanted \in Preferences
    BY <1>1 DEF PrefTyped, Preferences, DefaultPreferences
  <1>4. WorkTyped' BY <1>1, <1>2 DEF WorkTyped
  <1>5. WorkerOK' BY <1>2 DEF WorkerOK
  <1>6. PrefTyped' BY <1>1, <1>2, <1>3 DEF PrefTyped
  <1>7. VenueTyped' BY <1>1, <1>2 DEF VenueTyped
  <1>8. StreamsOK' BY <1>1, <1>2, StreamsStay
  <1>9. QED BY <1>4, <1>5, <1>6, <1>7, <1>8, InvPartsNext

\* The worker dies: what it had seen is gone.
LEMMA WorkerFailsStep == IndInv /\ WorkerFails => IndInv'
  <1> SUFFICES ASSUME IndInv, WorkerFails PROVE IndInv' OBVIOUS
  <1>1. /\ StreamsOK /\ VenueTyped /\ WorkTyped /\ PrefTyped
        /\ WorkerOK
    BY InvParts
  <1>2. /\ UNCHANGED <<exchange, open, venue, sent, target, streamvars, dbvars,
                       gap, preferences, draft, promised, audits, notes,
                       steady>>
        /\ worker' = "idle" /\ report' = None /\ snaps' = <<>>
    BY DEF WorkerFails, runenv, envvars, prefvars, counts
  <1>3. WorkTyped'
    <2>1. snaps' \in Seq(Snapshot) /\ Len(snaps') <= 2 BY <1>2
    <2>2. QED BY <1>1, <1>2, <2>1 DEF WorkTyped
  <1>4. WorkerOK' BY <1>2 DEF WorkerOK
  <1>5. PrefTyped' BY <1>1, <1>2 DEF PrefTyped
  <1>6. VenueTyped' BY <1>1, <1>2 DEF VenueTyped
  <1>7. StreamsOK' BY <1>1, <1>2, StreamsStay
  <1>8. QED BY <1>3, <1>4, <1>5, <1>6, <1>7, InvPartsNext
-----------------------------------------------------------------------------
(***************************************************************************)
(* The operator, the target and the user.                                  *)
(***************************************************************************)
LEMMA TargetStep ==
    ASSUME IndInv,
           \/ SwitchAccount
           \/ \E x \in Symbols, q \in Quantities : TargetMoves(x, q)
    PROVE  IndInv'
  <1>1. /\ StreamsOK /\ VenueTyped /\ WorkTyped /\ PrefTyped
        /\ WorkerOK
    BY InvParts
  <1>2. /\ UNCHANGED <<exchange, venue, sent, streamvars, dbvars, gap>>
        /\ UNCHANGED workvars /\ UNCHANGED prefvars
    BY DEF SwitchAccount, TargetMoves
  <1>3. /\ VenueTyped'
        /\ steady' => steady /\ UNCHANGED <<venue, positions, target>>
    <2>1. CASE SwitchAccount
      BY <1>1, <2>1 DEF SwitchAccount, VenueTyped, dbvars
    <2>2. ASSUME NEW x \in Symbols, NEW q \in Quantities, TargetMoves(x, q)
          PROVE  VenueTyped' /\ steady' = FALSE
      <3>1. q \in Int BY AccountStateAssumption
      <3>2. target' = [target EXCEPT ![x] = q] /\ steady' = FALSE /\ open' = open
        BY <2>2 DEF TargetMoves
      <3>3. target' \in Amounts BY <1>1, <3>1, <3>2 DEF VenueTyped, Amounts
      <3>4. steady' \in BOOLEAN
        <4>1. steady' = FALSE BY <3>2
        <4>2. QED BY <4>1
      <3>5. VenueTyped' BY <1>1, <1>2, <3>2, <3>3, <3>4 DEF VenueTyped
      <3>6. QED BY <3>2, <3>5
    <2>3. QED BY <2>1, <2>2
  <1>4. WorkTyped' /\ PrefTyped' /\ WorkerOK'
    BY <1>1, <1>2, <1>3, OthersStay
  <1>5. StreamsOK' BY <1>1, <1>2, StreamsStay
  <1>6. QED BY <1>3, <1>4, <1>5, InvPartsNext

\* What the user does to preferences and notifications touches nothing else.
LEMMA PreferenceStep ==
    ASSUME IndInv,
           \/ \E p \in PreferenceChoices : update_preferences(p)
           \/ mark_internal_notification_read
           \/ CloseSession
           \/ UNCHANGED vars
    PROVE  IndInv'
  <1>1. /\ StreamsOK /\ VenueTyped /\ WorkTyped /\ PrefTyped
        /\ WorkerOK
    BY InvParts
  <1>2. UNCHANGED <<exchange, open, venue, sent, target, streamvars, dbvars,
                    worker, snaps, report, audits, notes, steady, gap,
                    preferences>>
    BY DEF update_preferences, mark_internal_notification_read, CloseSession,
           requestenv, vars, envvars, workvars, counts, prefvars
  <1>3. PrefTyped'
    <2>1. \A p \in PreferenceChoices : p \in Preferences
      BY AccountStateAssumption
    <2>2. QED
      BY <1>1, <1>2, <2>1 DEF PrefTyped, update_preferences,
         mark_internal_notification_read, CloseSession, vars, prefvars
  <1>4. WorkTyped' BY <1>1, <1>2 DEF WorkTyped
  <1>5. WorkerOK' BY <1>1, <1>2 DEF WorkerOK, dbvars
  <1>6. VenueTyped' BY <1>1, <1>2 DEF VenueTyped
  <1>7. StreamsOK' BY <1>1, <1>2, StreamsStay
  <1>8. QED BY <1>3, <1>4, <1>5, <1>6, <1>7, InvPartsNext

\* Every step of the exchange keeps the invariant.
LEMMA ExchangeInv == IndInv /\ ExchangeStep => IndInv'
  <1> SUFFICES ASSUME IndInv, ExchangeStep PROVE IndInv' OBVIOUS
  <1>1. ASSUME NEW x \in Symbols, NEW q \in Quantities,
               NEW wellformed \in BOOLEAN, PositionMoves(x, q, wellformed)
        PROVE  IndInv'
    BY <1>1, PositionMovesStep
  <1>2. ASSUME NEW f \in Figures, NEW wellformed \in BOOLEAN,
               BalanceMoves(f, wellformed)
        PROVE  IndInv'
    <2> DEFINE e == [type |-> "BALANCE", wellformed |-> wellformed,
                     available |-> f[1], locked |-> f[2],
                     total |-> f[3]]
    <2>1. f[1] \in Nat /\ f[2] \in Nat /\ f[3] \in Nat
      BY AccountStateAssumption
    <2>2. e \in Event /\ e.type # "POSITION"
      BY <2>1 DEF Event, BalanceEvent
    <2>3. SendEvent(e) /\ UNCHANGED <<venue, steady, gap>>
      BY <1>2 DEF BalanceMoves
    <2> HIDE DEF e
    <2>4. QED BY <2>2, <2>3, OtherEventStep
  <1>3. CASE SomethingElse
    <2> DEFINE e == [type |-> "UNKNOWN"]
    <2>1. e \in Event /\ e.type # "POSITION" BY DEF Event, OtherEvent
    <2>2. SendEvent(e) /\ UNCHANGED <<venue, steady, gap>>
      BY <1>3 DEF SomethingElse
    <2> HIDE DEF e
    <2>3. QED BY <2>1, <2>2, OtherEventStep
  <1>4. QED BY <1>1, <1>2, <1>3 DEF ExchangeStep

\* Every step keeps the invariant.
LEMMA NextInv == IndInv /\ [Next]_vars => IndInv'
  <1> SUFFICES ASSUME IndInv, [Next]_vars PROVE IndInv' OBVIOUS
  <1>1. CASE ExchangeStep BY <1>1, ExchangeInv
  <1>2. ASSUME NEW c \in Streams,
               Connect(c) \/ Disconnect(c) \/ LoadRow(c) \/ CommitRow(c)
        PROVE  IndInv'
    BY <1>2, DisconnectStep, LoadRowStep, CommitRowStep
  <1>3. CASE WorkerStep
    BY <1>3, LoadExchangeStep, LoadDatabaseStep, LoadTargetStep, PersistStep,
       WorkerFailsStep DEF WorkerStep
  <1>4. CASE \/ SwitchAccount
             \/ \E x \in Symbols, q \in Quantities : TargetMoves(x, q)
    BY <1>4, TargetStep
  <1>5. CASE \/ \E p \in PreferenceChoices : update_preferences(p)
             \/ mark_internal_notification_read
             \/ CloseSession
             \/ UNCHANGED vars
    BY <1>5, PreferenceStep
  <1>6. QED BY <1>1, <1>2, <1>3, <1>4, <1>5 DEF Next
-----------------------------------------------------------------------------
(***************************************************************************)
(* The theorems.                                                           *)
(***************************************************************************)
\* The invariant holds however consumers, the exchange, the worker and the user
\* interleave.
THEOREM Invariance == Spec => []IndInv
  BY InitInv, NextInv, PTL DEF Spec

\* Rows, events, snapshots and reports keep their shape; in particular the
\* sums of a report are numbers.
THEOREM TypeCorrectness == Spec => []TypeOK
  <1>1. IndInv => TypeOK BY DEF IndInv
  <1>2. QED BY <1>1, Invariance, PTL

\* No sequence of events of any exchange leaves a stored balance whose parts
\* exceed its total or are negative.
THEOREM BalancesAddUp == Spec => []BalanceAddsUp
  <1>1. IndInv => BalanceAddsUp BY DEF IndInv
  <1>2. QED BY <1>1, Invariance, PTL

\* Once no move of a symbol is on its way, the stored position is the
\* exchange's, unless a move reached no consumer.
THEOREM CatchesUp == Spec => []PositionsCatchUp
  <1>1. IndInv => PositionsCatchUp
    BY DEF IndInv, CatchingUp, WillWrite, IsMove, PositionsCatchUp, OnTheWay
  <1>2. QED BY <1>1, Invariance, PTL

\* reconcile_position_snapshots reports exactly the symbols whose quantities
\* spread by more than the tolerance, when nothing moved meanwhile.
THEOREM ReportsAreRight == Spec => []SteadyReportIsRight
  <1>1. IndInv => SteadyReportIsRight
    <2> SUFFICES ASSUME IndInv, worker = "persist", steady
                 PROVE  SteadyReportIsRight
      BY DEF SteadyReportIsRight
    <2>1. PICK v \in Amounts, h \in [Symbols -> Int \cup {None}], t \in Amounts :
              /\ ReportOn(report, v, OrZero(h), t)
              /\ steady => v = venue /\ h = positions /\ t = target
      BY DEF IndInv, WorkerOK
    <2>2. OrZero(h) \in Amounts BY RowsNormalized
    <2>3. \A x \in Symbols : OrZero(h)[x] = Held(x)
      BY <2>1 DEF OrZero, Held
    <2>4. SaysSpread(report, v, OrZero(h), t) BY <2>1, <2>2, ReportIsRight
    <2> DEFINE spread(x) == Spread(v, OrZero(h), t, x)
               drifted == {x \in Symbols : spread(x) > QuantityTolerance}
               actual(x) == Max({venue[x], Held(x), target[x]})
                            - Min({venue[x], Held(x), target[x]})
    <2>5. \A x \in Symbols : spread(x) = actual(x) BY <2>1, <2>3 DEF Spread
    <2>6. /\ {d.symbol : d \in report.differences} = drifted
          /\ report.status = "DRIFT_DETECTED" <=> drifted # {}
          /\ report.severity = "CRITICAL"
                <=> \E x \in drifted : spread(x) >= CriticalThreshold
      BY <2>4 DEF SaysSpread
    <2> HIDE DEF spread, actual
    <2>7. drifted = {x \in Symbols : actual(x) > QuantityTolerance} BY <2>5
    <2>8. (\E x \in drifted : spread(x) >= CriticalThreshold)
              <=> \E x \in drifted : actual(x) >= CriticalThreshold
      BY <2>5
    <2> HIDE DEF drifted
    <2>9. QED BY <2>6, <2>7, <2>8 DEF SteadyReportIsRight, actual
  <1>2. QED BY <1>1, Invariance, PTL

\* A report of a steady run never blames a row that all events have reached:
\* where exchange and database differ, reconcile_position_snapshots has found a
\* row that a consumer has yet to write, or whose event was lost.
THEOREM DatabaseDriftHasACause == Spec => []DatabaseDriftIsExplained
  <1>1. IndInv => DatabaseDriftIsExplained
    <2> SUFFICES ASSUME IndInv, worker = "persist", steady,
                        NEW d \in report.differences, d.exchange # d.database
                 PROVE  d.symbol \in gap \/ OnTheWay(d.symbol)
      BY DEF DatabaseDriftIsExplained
    <2>1. PICK v \in Amounts, h \in [Symbols -> Int \cup {None}], t \in Amounts :
              /\ ReportOn(report, v, OrZero(h), t)
              /\ steady => v = venue /\ h = positions /\ t = target
      BY DEF IndInv, WorkerOK
    <2>2. PICK x \in Symbols :
              d = [symbol |-> x, exchange |-> v[x], database |-> OrZero(h)[x],
                   target |-> t[x]]
      BY <2>1 DEF ReportOn
    <2>3. d.symbol = x /\ d.exchange = v[x] /\ d.database = OrZero(h)[x]
      BY <2>2
    <2>4. OrZero(h)[x] = Held(x) BY <2>1 DEF OrZero, Held
    <2>5. Held(x) # venue[x] BY <2>1, <2>3, <2>4
    <2>6. x \in gap \/ \E c \in Streams : WillWrite(c, x)
      BY <2>5 DEF IndInv, CatchingUp
    <2>7. x \in gap \/ OnTheWay(x)
      BY <2>6 DEF WillWrite, IsMove, OnTheWay
    <2>8. QED BY <2>3, <2>7
  <1>2. QED BY <1>1, Invariance, PTL

\* build_reconciliation_repair_plan proposes, for each symbol of a report, what
\* brings the exchange to the target.
THEOREM RepairsAreRight == Spec => []RepairReachesTarget
  <1>1. IndInv => RepairReachesTarget
    <2> SUFFICES ASSUME IndInv, worker = "persist" PROVE RepairReachesTarget
      BY DEF RepairReachesTarget
    <2>1. PICK v \in Amounts, h \in [Symbols -> Int \cup {None}], t \in Amounts :
              ReportOn(report, v, OrZero(h), t)
      BY DEF IndInv, WorkerOK
    <2>2. OrZero(h) \in Amounts BY RowsNormalized
    <2> DEFINE plan == build_reconciliation_repair_plan(report, TRUE, FALSE)
    <2>3. plan.proposals =
              {ProposalForDifference(d) : d \in report.differences}
      BY DEF build_reconciliation_repair_plan
    <2> HIDE DEF plan
    <2>4. ASSUME NEW d \in report.differences
          PROVE  \E p \in plan.proposals :
                 /\ p.symbol = d.symbol /\ p.quantity > 0
                 /\ CASE p.action = "BUY_TO_TARGET" ->
                            d.exchange + p.quantity = d.target
                      [] p.action = "SELL_TO_TARGET" ->
                            d.exchange - p.quantity = d.target
                      [] OTHER -> /\ d.exchange = d.target
                                  /\ Abs(d.database - d.target) = p.quantity
      <3>1. PICK p : p = ProposalForDifference(d) OBVIOUS
      <3>2. p \in plan.proposals BY <2>3, <2>4, <3>1
      <3>3. QED BY <2>1, <2>2, <2>4, <3>1, <3>2, RepairIsRight
    <2>5. QED BY <2>4 DEF RepairReachesTarget, plan
  <1>2. QED BY <1>1, Invariance, PTL
=============================================================================
