----------------------------- MODULE OrderOnce -----------------------------
(***************************************************************************)
(* What the execution paths promise for every order, whichever requests    *)
(* race or die: it is recorded before it is sent, sent at most once, and   *)
(* never sent once the record says it was refused.  SignalExecution and    *)
(* TestnetOrders implement this.                                           *)
(***************************************************************************)
EXTENDS Naturals

CONSTANT Orders

VARIABLES
    record,  \* what the database promises of each order
    sent     \* how often each order reached the exchange

Init ==
    /\ record = [o \in Orders |-> "none"]
    /\ sent = [o \in Orders |-> 0]

Keep(o) ==
    /\ record[o] = "none"
    /\ record' = [record EXCEPT ![o] = "kept"]
    /\ UNCHANGED sent

\* Refused for good: by the risk check at once, or before it was sent.
Refuse(o) ==
    /\ record[o] \in {"none", "kept"} /\ sent[o] = 0
    /\ record' = [record EXCEPT ![o] = "refused"]
    /\ UNCHANGED sent

Send(o) ==
    /\ record[o] = "kept" /\ sent[o] = 0
    /\ sent' = [sent EXCEPT ![o] = 1]
    /\ UNCHANGED record

Next == \E o \in Orders : Keep(o) \/ Refuse(o) \/ Send(o)

Spec == Init /\ [][Next]_<<record, sent>>
=============================================================================
