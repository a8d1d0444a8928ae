----------------------- MODULE PositionReconciliation -----------------------
(***************************************************************************)
(* The pure part of position reconciliation: the comparison of three       *)
(* snapshots of an account's positions and the repair plan made of it.     *)
(* A snapshot is a set of [symbol, leg, quantity]: a provider may list a   *)
(* symbol several times (hedged legs, or spellings that differ in case),   *)
(* and a symbol it does not list counts as zero.                           *)
(***************************************************************************)
EXTENDS Integers, FiniteSetsExt

CONSTANTS
    Symbols,
    QuantityTolerance, CriticalThreshold

ASSUME ReconciliationAssumption ==
    QuantityTolerance \in Nat /\ CriticalThreshold \in Nat

Abs(n) == IF n < 0 THEN -n ELSE n

\* Mutant: a later entry of a symbol replaces the earlier ones.
NormalizeSnapshotsLastEntry(snapshot) ==
    [x \in Symbols |->
        LET legs == {e.leg : e \in {f \in snapshot : f.symbol = x}}
        IN MapThenSumSet(LAMBDA e : e.quantity,
                         {e \in snapshot : e.symbol = x /\ e.leg = Max(legs)})]

\* _normalize_snapshots, with 0 for the symbols that are not listed.
NormalizeSnapshots(snapshot) ==
    [x \in Symbols |->
        MapThenSumSet(LAMBDA e : e.quantity, {e \in snapshot : e.symbol = x})]

Severity == {"OK", "WARNING", "CRITICAL"}

Deltas(ex, db, tg) == {ex - db, ex - tg, db - tg}

\* Mutant: the target is compared with the database only.
DifferenceSeverityTwoWay(ex, db, tg) ==
    IF \A d \in {ex - db, db - tg} : Abs(d) <= QuantityTolerance THEN "OK"
    ELSE IF \E d \in {ex - db, db - tg} : Abs(d) >= CriticalThreshold
         THEN "CRITICAL" ELSE "WARNING"

\* _difference_reasons, _difference_severity
DifferenceSeverity(ex, db, tg) ==
    IF \A d \in Deltas(ex, db, tg) : Abs(d) <= QuantityTolerance THEN "OK"
    ELSE IF \E d \in Deltas(ex, db, tg) : Abs(d) >= CriticalThreshold
         THEN "CRITICAL" ELSE "WARNING"

\* The report: the symbols that drifted, each with its three quantities.
reconcile_position_snapshots(exchange, database, targets) ==
    LET ex == NormalizeSnapshots(exchange)
        db == NormalizeSnapshots(database)
        tg == NormalizeSnapshots(targets)
        severity(x) == DifferenceSeverity(ex[x], db[x], tg[x])
        drifted == {x \in Symbols : severity(x) # "OK"}
    IN [status |-> IF drifted = {} THEN "MATCHED" ELSE "DRIFT_DETECTED",
        severity |-> CASE \E x \in drifted : severity(x) = "CRITICAL" -> "CRITICAL"
                       [] drifted = {} -> "OK"
                       [] OTHER -> "WARNING",
        differences |-> {[symbol |-> x, exchange |-> ex[x], database |-> db[x],
                          target |-> tg[x]] : x \in drifted}]

Report ==
    [status : {"MATCHED", "DRIFT_DETECTED"}, severity : Severity,
     differences : SUBSET [symbol : Symbols, exchange : Int, database : Int,
                           target : Int]]

\* _proposal_for_difference.  A difference that was reported has a quantity
\* that is not its target's, so there is always a proposal.
\* Mutant: the exchange is moved to the database's quantity.
ProposalToDatabase(d) ==
    LET delta == d.database - d.exchange
    IN [symbol |-> d.symbol,
        action |-> CASE delta > 0 -> "BUY_TO_TARGET"
                     [] delta < 0 -> "SELL_TO_TARGET"
                     [] OTHER     -> "REVIEW_DATABASE_POSITION",
        quantity |-> Abs(delta)]

ProposalForDifference(d) ==
    LET delta == d.target - d.exchange
    IN [symbol |-> d.symbol,
        action |-> CASE delta > 0 -> "BUY_TO_TARGET"
                     [] delta < 0 -> "SELL_TO_TARGET"
                     [] OTHER     -> "REVIEW_DATABASE_POSITION",
        quantity |-> IF delta # 0 THEN Abs(delta)
                                  ELSE Abs(d.database - d.target)]

\* The settings that generate proposals; DISABLED is the default.
build_reconciliation_repair_plan(report, generate, execute) ==
    [status |-> CASE ~generate -> "DISABLED"
                  [] report.status = "MATCHED" -> "NO_DRIFT"
                  [] execute -> "EXECUTION_BLOCKED"
                  [] OTHER -> "PROPOSAL_CREATED",
     proposals |-> IF generate
                   THEN {ProposalForDifference(d) : d \in report.differences}
                   ELSE {}]
=============================================================================
