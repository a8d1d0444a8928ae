------------------------- MODULE OrderStateMachine -------------------------
(***************************************************************************)
(* The order status graph of backend/app/services/order_state_machine.py   *)
(* and the audit trail that transition_order_execution appends to.         *)
(*                                                                         *)
(* A trail is a sequence: its index is sequence_number.  The code takes    *)
(* max(sequence_number) + 1 and the table has a unique constraint on       *)
(* (order_execution_id, sequence_number), so the numbers of one execution  *)
(* are 1..n without holes and a sequence loses nothing.                    *)
(***************************************************************************)
EXTENDS Naturals, Sequences

OrderExecutionStatus ==
    {"CREATED", "RISK_PASSED", "SUBMITTED", "ACCEPTED", "PARTIALLY_FILLED",
     "FILLED", "CANCELLED", "REJECTED", "FAILED", "TIMEOUT"}

TERMINAL_ORDER_STATUSES ==
    {"FILLED", "CANCELLED", "REJECTED", "FAILED", "TIMEOUT"}

ALLOWED_ORDER_TRANSITIONS ==
    [from \in OrderExecutionStatus |->
        CASE from = "CREATED"          -> {"RISK_PASSED", "REJECTED", "FAILED"}
          [] from = "RISK_PASSED"      -> {"SUBMITTED", "FAILED"}
          [] from = "SUBMITTED"        -> {"ACCEPTED", "PARTIALLY_FILLED"}
                                          \cup TERMINAL_ORDER_STATUSES
          [] from = "ACCEPTED"         -> {"PARTIALLY_FILLED"}
                                          \cup TERMINAL_ORDER_STATUSES
          [] from = "PARTIALLY_FILLED" -> {"PARTIALLY_FILLED"}
                                          \cup (TERMINAL_ORDER_STATUSES
                                                \ {"REJECTED"})
          [] OTHER                     -> {}]

\* No execution row: the value of a status before the INSERT commits.
Absent == "ABSENT"

\* One row of order_execution_transitions; the first has from_status NULL.
Transition ==
    [from : OrderExecutionStatus \cup {Absent}, to : OrderExecutionStatus]

record_initial_order_state == <<[from |-> Absent, to |-> "CREATED"]>>

\* The row transition_order_execution adds, given the status it read.
add_transition(trail, from, to) == Append(trail, [from |-> from, to |-> to])

\* The guard of transition_order_execution on the status it read.
CanTransition(from, to) == to \in ALLOWED_ORDER_TRANSITIONS[from]

(***************************************************************************)
(* What a reader of the trail relies on.                                   *)
(***************************************************************************)
\* The trail starts at CREATED and every recorded step is an edge.
TrailFollowsGraph(trail) ==
    /\ Len(trail) > 0
    /\ trail[1] = [from |-> Absent, to |-> "CREATED"]
    /\ \A i \in 2..Len(trail) : CanTransition(trail[i].from, trail[i].to)

\* Every recorded step starts where the one before it ended.
TrailIsChained(trail) ==
    \A i \in 2..Len(trail) : trail[i].from = trail[i - 1].to
=============================================================================
