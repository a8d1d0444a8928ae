------------------------ MODULE TestnetOrdersProofs ------------------------
(***************************************************************************)
(* The safety properties of TestnetOrders, proved for any number of        *)
(* orders, submissions, reconciliations and streams, and any limits.       *)
(*                                                                         *)
(* Three kinds of request write one row without a lock, so what holds of a *)
(* row has to be argued from where every request is.  Until an order is    *)
(* sent the exchange does not know it, so reconciler and stream have       *)
(* nothing to write and the row is as its submitter inserted it; the       *)
(* unique client_order_id makes that submitter the only one.  Afterwards   *)
(* whatever is about to be written is backed by what the exchange has      *)
(* reached, and stays backed while it waits for its commit, because the    *)
(* exchange only moves forward.                                            *)
(***************************************************************************)
EXTENDS TestnetOrders, TLAPS

-----------------------------------------------------------------------------
(***************************************************************************)
(* The inductive invariant.                                                *)
(***************************************************************************)
SubmitterPC == {"stop_check", "account", "gate", "lookup", "risk", "insert",
                "prepare", "post", "answer"}

\* The row is inserted and the order not yet sent.
UnsentPC == {"prepare", "post"}

\* The request works on a row.
RowPC == {"rest", "prepare", "post", "answer", "seq", "commit"}

WritePC == {"seq", "commit"}

\* The exchange has reached what a pending status says.  FAILED is the
\* submitter's own verdict.
Backed(to, raw) ==
    \/ to = "FAILED"
    \/ to = "ACCEPTED" /\ raw # "NONE"
    \/ /\ to = "PARTIALLY_FILLED"
       /\ raw \in {"PARTIALLY_FILLED", "FILLED", "CANCELED", "EXPIRED"}
    \/ to \in {"FILLED", "CANCELLED", "TIMEOUT", "REJECTED"}
       /\ to = normalize(raw)

\* The first three audit rows of an order that may be sent.
Recorded(o) ==
    /\ Len(trail[o]) >= 3
    /\ trail[o][1].to = "CREATED"
    /\ trail[o][2].to = "RISK_PASSED"
    /\ trail[o][3].to = "SUBMITTED"

OrderOK(o) ==
    /\ posts[o] <= 1
    /\ ex[o] # "NONE" => posts[o] = 1
    /\ posts[o] > 0 => Recorded(o)
    /\ status[o] = Absent => trail[o] = <<>> /\ posts[o] = 0
    /\ status[o] # Absent =>
          TrailFollowsGraph(trail[o]) /\ trail[o][Len(trail[o])].to = status[o]
    /\ \A i \in DOMAIN trail[o] : Witnessed(trail[o][i].to, ex[o])

OrdersOK == \A o \in Orders : OrderOK(o)

\* The row a submitter has inserted and not yet sent an order for.
Unsent(o) ==
    status[o] = "SUBMITTED" /\ trail[o] = SubmittedTrail /\ posts[o] = 0

\* The transition a request is about to write.
PendingOK(p) ==
    /\ loc[p].cached \in OrderExecutionStatus
    /\ loc[p].to \in OrderExecutionStatus
    /\ CanTransition(loc[p].cached, loc[p].to)
    /\ Backed(loc[p].to, ex[loc[p].order])
    /\ p \notin Submitters => loc[p].to # "FAILED"

SessionOK(p) ==
    /\ pc[p] = "idle" => loc[p] = NoLocals
    /\ pc[p] \in SubmitterPC => p \in Submitters /\ loc[p].order \in Orders
    /\ pc[p] \in RowPC =>
          loc[p].order \in Orders /\ status[loc[p].order] # Absent
    /\ \A o \in loc[p].todo : status[o] # Absent
    /\ pc[p] \in UnsentPC => Unsent(loc[p].order)
    /\ p \in Submitters /\ loc[p].acked =>
          loc[p].order \in Orders /\ ex[loc[p].order] # "NONE"
    /\ pc[p] \in WritePC => PendingOK(p)
    /\ pc[p] = "insert" /\ loc[p].late => ~loc[p].flag
    /\ pc[p] \in {"prepare", "post", "answer"} => ~loc[p].late

SessionsOK == \A p \in Sessions : SessionOK(p)

Owns(s, o) ==
    pc[s] \in UnsentPC \cup {"answer"} \cup WritePC /\ loc[s].order = o

\* At most one submitter works on a row.
Ownership ==
    \A s, t \in Submitters, o \in Orders : Owns(s, o) /\ Owns(t, o) => s = t

\* The exchange reached what a stream has yet to read.
WireOK ==
    \A c \in Streams : \A i \in 1..Len(wire[c]) :
        Backed(normalize(wire[c][i][2]), ex[wire[c][i][1]])

FlagsOff == quiet => ~riskOn

IndInv ==
    TypeOK /\ OrdersOK /\ SessionsOK /\ Ownership /\ WireOK /\ FlagsOff
-----------------------------------------------------------------------------
(***************************************************************************)
(* The exchange moves forward, and what is backed stays so.                *)
(***************************************************************************)
LEMMA MoveKeeps ==
    ASSUME NEW raw \in ExchangeStatus, NEW st \in ExchangeGraph[raw], NEW to
    PROVE  /\ raw # "NONE" /\ st # "NONE" /\ st \in ExchangeStatus
           /\ Backed(to, raw) => Backed(to, st)
           /\ Witnessed(to, raw) => Witnessed(to, st)
           /\ Backed(normalize(st), st)
  <1>1. \/ raw = "NEW" /\ st \in {"PARTIALLY_FILLED", "FILLED", "CANCELED",
                                  "REJECTED", "EXPIRED"}
        \/ raw = "PARTIALLY_FILLED" /\ st \in {"FILLED", "CANCELED", "EXPIRED"}
    BY BoundsAssumption DEF ExchangeGraph, ExchangeStatus
  <1>2. raw # "NONE" /\ st # "NONE" /\ st \in ExchangeStatus
    BY <1>1 DEF ExchangeStatus
  <1>3. Backed(to, raw) => Backed(to, st)
    BY <1>1 DEF Backed, normalize
  <1>4. Witnessed(to, raw) => Witnessed(to, st)
    BY <1>1 DEF Witnessed, normalize
  <1>5. Backed(normalize(st), st)
    BY <1>1 DEF Backed, normalize
  <1> QED
    BY <1>2, <1>3, <1>4, <1>5

\* Nothing but a failure can be written of an order the exchange has not seen.
LEMMA BackedNone ==
    ASSUME NEW to, Backed(to, "NONE")
    PROVE  to = "FAILED"
  BY DEF Backed, normalize

\* What a pending write may say is what the audit trail may say.
LEMMA BackedWitnessed ==
    ASSUME NEW to, NEW raw \in ExchangeStatus, Backed(to, raw)
    PROVE  Witnessed(to, raw)
  BY DEF Backed, Witnessed, ExchangeStatus, normalize

\* What reconciler and stream hand to apply.
LEMMA NormalizeBacked ==
    ASSUME NEW raw \in ExchangeStatus
    PROVE  /\ normalize(raw) # "FAILED" /\ normalize(raw) # Absent
           /\ raw # "NONE" => Backed(normalize(raw), raw)
           /\ raw # "NONE" => normalize(raw) \in OrderExecutionStatus
           /\ raw = "NONE" => \A st : ~Backed(normalize(raw), st)
  BY DEF Backed, normalize, ExchangeStatus, OrderExecutionStatus, Absent

\* A trail with one more row.
LEMMA AppendRow ==
    ASSUME NEW t \in Seq(Transition), NEW row \in Transition
    PROVE  /\ Append(t, row) \in Seq(Transition)
           /\ Len(Append(t, row)) = Len(t) + 1
           /\ Append(t, row)[Len(t) + 1] = row
           /\ \A i \in 1..Len(t) : Append(t, row)[i] = t[i]
  OBVIOUS

\* The rows of the two trails an execution is inserted with.
LEMMA FirstTrails ==
    /\ SubmittedTrail \in Seq(Transition) /\ RejectedTrail \in Seq(Transition)
    /\ Len(SubmittedTrail) = 3 /\ Len(RejectedTrail) = 2
    /\ SubmittedTrail[1] = [from |-> Absent, to |-> "CREATED"]
    /\ SubmittedTrail[2] = [from |-> "CREATED", to |-> "RISK_PASSED"]
    /\ SubmittedTrail[3] = [from |-> "RISK_PASSED", to |-> "SUBMITTED"]
    /\ RejectedTrail[1] = [from |-> Absent, to |-> "CREATED"]
    /\ RejectedTrail[2] = [from |-> "CREATED", to |-> "REJECTED"]
  <1>1. record_initial_order_state \in Seq(Transition)
        /\ Len(record_initial_order_state) = 1
        /\ record_initial_order_state[1] = [from |-> Absent, to |-> "CREATED"]
    BY DEF record_initial_order_state, Transition, OrderExecutionStatus, Absent
  <1>2. PICK passed \in Transition :
            passed = [from |-> "CREATED", to |-> "RISK_PASSED"]
    BY DEF Transition, OrderExecutionStatus
  <1>3. PICK submitted \in Transition :
            submitted = [from |-> "RISK_PASSED", to |-> "SUBMITTED"]
    BY DEF Transition, OrderExecutionStatus
  <1>4. PICK rejected \in Transition :
            rejected = [from |-> "CREATED", to |-> "REJECTED"]
    BY DEF Transition, OrderExecutionStatus
  <1>5. PICK t \in Seq(Transition) :
            t = record_initial_order_state /\ Len(t) = 1
    BY <1>1
  <1>6. SubmittedTrail = Append(Append(t, passed), submitted)
        /\ RejectedTrail = Append(t, rejected)
    BY <1>2, <1>3, <1>4, <1>5
    DEF SubmittedTrail, RejectedTrail, add_transition
  <1>7. PICK u \in Seq(Transition) :
            u = Append(t, passed) /\ Len(u) = 2 /\ u[1] = t[1] /\ u[2] = passed
    <2>1. /\ Append(t, passed) \in Seq(Transition)
          /\ Len(Append(t, passed)) = Len(t) + 1
          /\ Append(t, passed)[Len(t) + 1] = passed
          /\ \A i \in 1..Len(t) : Append(t, passed)[i] = t[i]
      BY AppendRow
    <2>2. /\ Len(Append(t, passed)) = 2
          /\ Append(t, passed)[1] = t[1] /\ Append(t, passed)[2] = passed
      BY <1>5, <2>1
    <2> QED
      BY <2>1, <2>2
  <1>8. /\ Append(u, submitted) \in Seq(Transition)
        /\ Len(Append(u, submitted)) = 3
        /\ Append(u, submitted)[1] = t[1]
        /\ Append(u, submitted)[2] = passed
        /\ Append(u, submitted)[3] = submitted
    <2>1. /\ Append(u, submitted) \in Seq(Transition)
          /\ Len(Append(u, submitted)) = Len(u) + 1
          /\ Append(u, submitted)[Len(u) + 1] = submitted
          /\ \A i \in 1..Len(u) : Append(u, submitted)[i] = u[i]
      BY AppendRow
    <2> QED
      BY <1>7, <2>1
  <1>9. /\ Append(t, rejected) \in Seq(Transition)
        /\ Len(Append(t, rejected)) = 2
        /\ Append(t, rejected)[1] = t[1]
        /\ Append(t, rejected)[2] = rejected
    <2>1. /\ Append(t, rejected) \in Seq(Transition)
          /\ Len(Append(t, rejected)) = Len(t) + 1
          /\ Append(t, rejected)[Len(t) + 1] = rejected
          /\ \A i \in 1..Len(t) : Append(t, rejected)[i] = t[i]
      BY AppendRow
    <2> QED
      BY <1>5, <2>1
  <1> QED
    BY <1>1, <1>2, <1>3, <1>4, <1>5, <1>6, <1>7, <1>8, <1>9

\* The edges of the status graph a submission takes.
LEMMA Edges ==
    /\ CanTransition("CREATED", "RISK_PASSED")
    /\ CanTransition("RISK_PASSED", "SUBMITTED")
    /\ CanTransition("CREATED", "REJECTED")
    /\ CanTransition("SUBMITTED", "ACCEPTED")
    /\ CanTransition("SUBMITTED", "FAILED")
  BY DEF CanTransition, ALLOWED_ORDER_TRANSITIONS, OrderExecutionStatus,
         TERMINAL_ORDER_STATUSES

\* There are no rows, no requests and no orders yet.
LEMMA InitInv == Init => IndInv
  <1> SUFFICES ASSUME Init PROVE IndInv
    OBVIOUS
  <1>1. NoLocals \in Locals
    BY DEF NoLocals, Locals, StatusOrAbsent
  <1>2. TypeOK
    <2>1. mode \in AccountMode /\ status \in [Orders -> StatusOrAbsent]
      BY BoundsAssumption DEF Init, StatusOrAbsent
    <2>2. trail \in [Orders -> Seq(Transition)]
      BY DEF Init
    <2>3. wire \in [Streams -> Seq(Orders \X ExchangeStatus)]
      BY DEF Init
    <2>4. ex \in [Orders -> ExchangeStatus] /\ posts \in [Orders -> Nat]
      BY DEF Init, ExchangeStatus
    <2>5. pc \in [Sessions -> PCs] /\ loc \in [Sessions -> Locals]
      BY <1>1 DEF Init, PCs
    <2> QED
      BY <2>1, <2>2, <2>3, <2>4, <2>5 DEF Init, TypeOK
  <1>3. OrdersOK
    BY DEF Init, OrdersOK, OrderOK, Absent
  <1>4. SessionsOK
    BY DEF Init, SessionsOK, SessionOK, SubmitterPC, RowPC, UnsentPC, WritePC,
           NoLocals
  <1>5. Ownership /\ WireOK /\ FlagsOff
    BY DEF Init, Ownership, Owns, UnsentPC, WritePC, WireOK, FlagsOff, Sessions
  <1> QED
    BY <1>2, <1>3, <1>4, <1>5 DEF IndInv
-----------------------------------------------------------------------------
(***************************************************************************)
(* What a step does to the requests that do not take it.                   *)
(***************************************************************************)
OnlySession(p) ==
    \A q \in Sessions \ {p} : pc'[q] = pc[q] /\ loc'[q] = loc[q]

\* Rows stay and the exchange moves forward.
Forward ==
    \A o \in Orders :
        /\ status[o] # Absent => status'[o] # Absent
        /\ ex[o] # "NONE" => ex'[o] # "NONE"
        /\ \A to \in OrderExecutionStatus :
              Backed(to, ex[o]) => Backed(to, ex'[o])

\* A request that does nothing stays right while rows and exchange move forward.
LEMMA SessionFrame ==
    ASSUME TypeOK, Forward, NEW q \in Sessions, SessionOK(q),
           pc'[q] = pc[q], loc'[q] = loc[q],
           pc[q] \in UnsentPC => Unsent(loc[q].order)'
    PROVE  SessionOK(q)'
  <1>1. loc[q] \in Locals /\ loc[q].todo \subseteq Orders
    BY DEF TypeOK, Locals
  <1>2. (pc[q] \in WritePC => PendingOK(q))'
    BY <1>1 DEF SessionOK, PendingOK, Forward, RowPC, WritePC
  <1> QED
    BY <1>1, <1>2 DEF SessionOK, Forward, Unsent

\* A step of p that leaves rows, exchange and flags alone.
LEMMA LocalStep ==
    ASSUME IndInv, NEW p \in Sessions, UNCHANGED <<flags, rows, exch>>,
           OnlySession(p), SessionOK(p)', WireOK',
           pc' \in [Sessions -> PCs], loc' \in [Sessions -> Locals],
           wire' \in [Streams -> Seq(Orders \X ExchangeStatus)],
           \A o \in Orders : p \in Submitters /\ Owns(p, o)' => Owns(p, o)
    PROVE  IndInv'
  <1>1. TypeOK'
    BY DEF IndInv, TypeOK, flags, rows, exch
  <1>2. OrdersOK' /\ FlagsOff'
    BY DEF IndInv, OrdersOK, OrderOK, Recorded, FlagsOff, flags, rows, exch
  <1>3. SessionsOK'
    <2> SUFFICES ASSUME NEW q \in Sessions, q # p PROVE SessionOK(q)'
      BY DEF SessionsOK
    <2>1. Forward /\ (pc[q] \in UnsentPC => Unsent(loc[q].order)')
      BY DEF Forward, IndInv, SessionsOK, SessionOK, Unsent, rows, exch,
             OnlySession
    <2> QED
      BY <2>1, SessionFrame DEF IndInv, SessionsOK, OnlySession
  <1>4. Ownership'
    BY DEF IndInv, Ownership, Owns, OnlySession, Sessions
  <1> QED
    BY <1>1, <1>2, <1>3, <1>4 DEF IndInv

\* What Goto and an assignment to the locals of one request come to.
LEMMA MoveFacts ==
    ASSUME TypeOK, NEW p \in Sessions, NEW label \in PCs, NEW l \in Locals,
           Goto(p, label), loc' = [loc EXCEPT ![p] = l]
    PROVE  /\ OnlySession(p) /\ pc'[p] = label /\ loc'[p] = l
           /\ pc' \in [Sessions -> PCs] /\ loc' \in [Sessions -> Locals]
  BY DEF TypeOK, Goto, OnlySession

\* The local values of an idle session have their types.
LEMMA NoLocalsType == NoLocals \in Locals
  BY DEF NoLocals, Locals, StatusOrAbsent

\* A step of one request that writes nothing keeps the invariant if the request
\* itself stays right.
LEMMA MoveInv ==
    ASSUME IndInv, NEW p \in Sessions, NEW label \in PCs, NEW l \in Locals,
           Goto(p, label), loc' = [loc EXCEPT ![p] = l],
           UNCHANGED <<flags, rows, exch, wire>>,
           pc'[p] = label /\ loc'[p] = l => SessionOK(p)',
           \A o \in Orders : p \in Submitters /\ Owns(p, o)' => Owns(p, o)
    PROVE  IndInv'
  <1>1. /\ OnlySession(p) /\ SessionOK(p)'
        /\ pc' \in [Sessions -> PCs] /\ loc' \in [Sessions -> Locals]
    BY MoveFacts DEF IndInv
  <1>2. WireOK' /\ wire' \in [Streams -> Seq(Orders \X ExchangeStatus)]
    BY DEF IndInv, TypeOK, WireOK, exch
  <1> QED
    BY <1>1, <1>2, LocalStep

\* The session closes; a stream loses what it has not read.
LEMMA ReturnInv ==
    ASSUME IndInv, NEW p \in Sessions, Return(p), UNCHANGED <<flags, rows, exch>>,
           UNCHANGED wire \/ (p \in Streams /\ Hangup(p))
    PROVE  IndInv'
  <1>1. "idle" \in PCs /\ NoLocals \in Locals
    BY NoLocalsType DEF PCs
  <1>2. /\ OnlySession(p) /\ pc'[p] = "idle" /\ loc'[p] = NoLocals
        /\ pc' \in [Sessions -> PCs] /\ loc' \in [Sessions -> Locals]
    BY <1>1, MoveFacts DEF Return, IndInv
  <1>3. SessionOK(p)'
    BY <1>2 DEF SessionOK, NoLocals, SubmitterPC, RowPC, UnsentPC, WritePC
  <1>4. WireOK' /\ wire' \in [Streams -> Seq(Orders \X ExchangeStatus)]
    <2>1. CASE UNCHANGED wire
      BY <2>1 DEF IndInv, TypeOK, WireOK, exch
    <2>2. CASE p \in Streams /\ Hangup(p)
      <3>1. /\ wire' \in [Streams -> Seq(Orders \X ExchangeStatus)]
            /\ wire'[p] = <<>>
            /\ \A c \in Streams \ {p} : wire'[c] = wire[c]
        BY <2>2 DEF IndInv, TypeOK, Hangup
      <3> QED
        BY <3>1 DEF IndInv, WireOK, exch
    <2> QED
      BY <2>1, <2>2
  <1>5. \A o \in Orders : ~Owns(p, o)'
    BY <1>2 DEF Owns, UnsentPC, WritePC
  <1> QED
    BY <1>2, <1>3, <1>4, <1>5, LocalStep
-----------------------------------------------------------------------------
(***************************************************************************)
(* Operators and the exchange.                                             *)
(***************************************************************************)
LEMMA OperatorInv == IndInv /\ OperatorStep => IndInv'
  <1> SUFFICES ASSUME IndInv, OperatorStep PROVE IndInv'
    OBVIOUS
  <1>1. UNCHANGED <<rows, exch, wire, pc, loc>>
    BY DEF OperatorStep, update_account, patch_risk_settings,
           activate_emergency_stop, deactivate_emergency_stop
  <1>2. TypeOK'
    BY <1>1, BoundsAssumption
    DEF IndInv, TypeOK, OperatorStep, update_account, patch_risk_settings,
        activate_emergency_stop, deactivate_emergency_stop, rows, exch
  <1>3. FlagsOff'
    BY DEF IndInv, FlagsOff, OperatorStep, update_account, patch_risk_settings,
           activate_emergency_stop, deactivate_emergency_stop
  <1>4. OrdersOK' /\ WireOK' /\ Ownership'
    BY <1>1 DEF IndInv, OrdersOK, OrderOK, Recorded, WireOK, Ownership, Owns,
                rows, exch
  <1>5. SessionsOK'
    BY <1>1 DEF IndInv, SessionsOK, SessionOK, PendingOK, Unsent, rows, exch
  <1> QED
    BY <1>2, <1>3, <1>4, <1>5 DEF IndInv

\* An event that reaches the open sockets.
LEMMA BroadcastInv ==
    ASSUME TypeOK, WireOK, NEW o \in Orders, NEW st \in ExchangeStatus,
           Broadcast(o, st), ex' \in [Orders -> ExchangeStatus], Forward,
           st # "NONE", ex'[o] = st
    PROVE  WireOK' /\ wire' \in [Streams -> Seq(Orders \X ExchangeStatus)]
  <1>1. \A c \in Streams : wire[c] \in Seq(Orders \X ExchangeStatus)
    BY DEF TypeOK
  <1>2. <<o, st>> \in Orders \X ExchangeStatus
    OBVIOUS
  <1>3. \A c \in Streams : wire'[c] \in {wire[c], Append(wire[c], <<o, st>>)}
    BY DEF Broadcast
  <1>4. wire' \in [Streams -> Seq(Orders \X ExchangeStatus)]
    BY <1>1, <1>2 DEF Broadcast
  <1>5. WireOK'
    <2> SUFFICES ASSUME NEW c \in Streams, NEW i \in 1..Len(wire'[c])
                 PROVE  Backed(normalize(wire'[c][i][2]), ex'[wire'[c][i][1]])
      BY DEF WireOK
    <2>1. CASE i \in 1..Len(wire[c]) /\ wire'[c][i] = wire[c][i]
      <3>1. PICK n \in Orders, old \in ExchangeStatus : wire[c][i] = <<n, old>>
        BY <1>1, <2>1
      <3>2. Backed(normalize(old), ex[n])
        BY <2>1, <3>1 DEF WireOK
      <3>3. normalize(old) \in OrderExecutionStatus
        BY <3>2, NormalizeBacked
      <3> QED
        BY <2>1, <3>1, <3>2, <3>3 DEF Forward
    <2>2. CASE wire'[c][i] = <<o, st>>
      BY <2>2, NormalizeBacked
    <2> QED
      BY <1>1, <1>2, <1>3, <2>1, <2>2
  <1> QED
    BY <1>4, <1>5

\* A move of the exchange is a move forward of a known order.
LEMMA MoveForward ==
    ASSUME TypeOK, NEW o \in Orders, NEW st \in ExchangeGraph[ex[o]],
           ex' = [ex EXCEPT ![o] = st], UNCHANGED status
    PROVE  /\ Forward /\ ex' \in [Orders -> ExchangeStatus] /\ ex'[o] = st
           /\ ex[o] # "NONE" /\ st # "NONE" /\ st \in ExchangeStatus
  <1>1. ex[o] \in ExchangeStatus
    BY DEF TypeOK
  <1>2. /\ ex[o] # "NONE" /\ st # "NONE" /\ st \in ExchangeStatus
        /\ \A to : Backed(to, ex[o]) => Backed(to, st)
    BY <1>1, MoveKeeps
  <1> QED
    BY <1>2 DEF TypeOK, Forward

\* The exchange moves an order and tells the open streams.
LEMMA ExchangeInv ==
    ASSUME IndInv, NEW o \in Orders, NEW st \in ExchangeStatus,
           ExchangeMove(o, st)
    PROVE  IndInv'
  <1>1. /\ TypeOK /\ st \in ExchangeGraph[ex[o]] /\ ex' = [ex EXCEPT ![o] = st]
        /\ UNCHANGED <<flags, rows, posts, pc, loc>>
    BY DEF IndInv, ExchangeMove
  <1>2. /\ Forward /\ ex' \in [Orders -> ExchangeStatus] /\ ex'[o] = st
        /\ ex[o] # "NONE" /\ st # "NONE"
    BY <1>1, MoveForward DEF rows
  <1>3. WireOK' /\ wire' \in [Streams -> Seq(Orders \X ExchangeStatus)]
    BY <1>1, <1>2, BroadcastInv DEF IndInv, ExchangeMove
  <1>4. TypeOK' /\ FlagsOff' /\ Ownership'
    BY <1>1, <1>2, <1>3 DEF IndInv, TypeOK, FlagsOff, Ownership, Owns, flags,
                            rows
  <1>5. SessionsOK'
    <2> SUFFICES ASSUME NEW q \in Sessions PROVE SessionOK(q)'
      BY DEF SessionsOK
    <2>1. pc[q] \in UnsentPC => Unsent(loc[q].order)'
      BY <1>1 DEF IndInv, SessionsOK, SessionOK, Unsent, rows
    <2> QED
      BY <1>1, <1>2, <2>1, SessionFrame DEF IndInv, SessionsOK
  <1>6. OrdersOK'
    <2> SUFFICES ASSUME NEW n \in Orders PROVE OrderOK(n)'
      BY DEF OrdersOK
    <2>1. OrderOK(n) /\ ex[n] \in ExchangeStatus
      BY <1>1 DEF IndInv, OrdersOK, TypeOK
    <2>2. \A i \in DOMAIN trail[n] : Witnessed(trail[n][i].to, ex'[n])
      <3>1. CASE n = o
        BY <1>1, <1>2, <2>1, <3>1, MoveKeeps DEF OrderOK
      <3>2. CASE n # o
        BY <1>1, <2>1, <3>2 DEF OrderOK, TypeOK
      <3> QED
        BY <3>1, <3>2
    <2>3. ex'[n] # "NONE" => posts[n] = 1
      BY <1>1, <1>2, <2>1 DEF OrderOK, TypeOK
    <2> QED
      BY <1>1, <2>1, <2>2, <2>3 DEF OrderOK, Recorded, rows
  <1> QED
    BY <1>3, <1>4, <1>5, <1>6 DEF IndInv
-----------------------------------------------------------------------------
(***************************************************************************)
(* submit_testnet_order                                                    *)
(***************************************************************************)
\* A submission before its risk check.
LEMMA EarlyInv ==
    ASSUME IndInv, NEW s \in Submitters, NEW o \in Orders, NEW flag \in BOOLEAN,
           NEW label \in {"stop_check", "account", "gate", "lookup", "risk"},
           \/ pc[s] = "idle"
           \/ pc[s] \in {"stop_check", "account", "gate", "lookup", "risk"}
                /\ o = loc[s].order,
           Goto(s, label), UNCHANGED <<flags, rows, exch, wire>>,
           loc' = [loc EXCEPT ![s] = [loc[s] EXCEPT !.order = o, !.flag = flag]]
    PROVE  IndInv'
  <1> DEFINE l == [loc[s] EXCEPT !.order = o, !.flag = flag]
  <1>1. s \in Sessions /\ label \in PCs /\ loc[s] \in Locals /\ SessionOK(s)
    BY DEF Sessions, PCs, IndInv, TypeOK, SessionsOK
  <1>2. l \in Locals
    BY <1>1 DEF Locals
  <1>3. /\ l.order = o /\ l.todo = loc[s].todo /\ l.acked = loc[s].acked
        /\ l.order \in Orders
    BY <1>1 DEF Locals
  <1>4. \A n \in loc[s].todo : status[n] # Absent
    BY <1>1 DEF SessionOK
  <1>5. loc[s].acked => ex[o] # "NONE"
    BY <1>1 DEF SessionOK, NoLocals
  <1> HIDE DEF l
  <1>6. pc'[s] = label /\ loc'[s] = l => SessionOK(s)'
    BY <1>3, <1>4, <1>5 DEF SessionOK, SubmitterPC, RowPC, UnsentPC, WritePC,
                            rows, exch
  <1>7. pc'[s] = label
    BY <1>1 DEF Goto, IndInv, TypeOK
  <1>8. \A n \in Orders : ~Owns(s, n)'
    BY <1>7 DEF Owns, UnsentPC, WritePC
  <1> QED
    BY <1>1, <1>2, <1>6, <1>8, MoveInv DEF l

\* A submission begins.
LEMMA SubmitInv ==
    ASSUME IndInv, NEW s \in Submitters, NEW o \in Orders,
           submit_testnet_order(s, o)
    PROVE  IndInv'
  <1>1. loc[s] \in Locals /\ loc \in [Sessions -> Locals] /\ s \in Sessions
    BY DEF IndInv, TypeOK, Sessions
  <1>2. loc[s].flag \in BOOLEAN
    BY <1>1 DEF Locals
  <1>3. loc' = [loc EXCEPT ![s] =
                   [loc[s] EXCEPT !.order = o, !.flag = loc[s].flag]]
    BY <1>1 DEF submit_testnet_order, Locals
  <1> QED
    BY <1>2, <1>3, EarlyInv DEF submit_testnet_order

\* The checks before the risk engine only read.
LEMMA BeforeRiskInv ==
    ASSUME IndInv, NEW s \in Submitters,
           \/ assert_new_orders_allowed(s) \/ ReadAccount(s)
           \/ check_testnet_order_gate(s) \/ FindExisting(s)
    PROVE  IndInv'
  <1> DEFINE early == {"stop_check", "account", "gate", "lookup", "risk"}
  <1>1. /\ s \in Sessions /\ pc[s] \in early
        /\ UNCHANGED <<flags, rows, exch, wire>>
    BY DEF Sessions, assert_new_orders_allowed, ReadAccount,
           check_testnet_order_gate, FindExisting
  <1>2. /\ loc \in [Sessions -> Locals] /\ loc[s] \in Locals
        /\ loc[s].order \in Orders /\ loc[s].flag \in BOOLEAN
    BY <1>1 DEF IndInv, TypeOK, Locals, SessionsOK, SessionOK, SubmitterPC
  <1>3. CASE Return(s)
    BY <1>1, <1>3, ReturnInv
  <1>4. CASE \E label \in early : Goto(s, label) /\ UNCHANGED loc
    <2>1. loc' = [loc EXCEPT ![s] = [loc[s] EXCEPT !.order = loc[s].order,
                                                   !.flag = loc[s].flag]]
      BY <1>2, <1>4 DEF Locals
    <2> QED
      BY <1>1, <1>2, <1>4, <2>1, EarlyInv
  <1>5. CASE ReadAccount(s)
    <2>1. (mode = "TESTNET" /\ enabled) \in BOOLEAN
      OBVIOUS
    <2>2. loc' = [loc EXCEPT ![s] = [loc[s] EXCEPT !.order = loc[s].order,
                                       !.flag = (mode = "TESTNET" /\ enabled)]]
      BY <1>2, <1>5 DEF ReadAccount, Locals
    <2> QED
      BY <1>1, <1>2, <1>5, <2>1, <2>2, EarlyInv DEF ReadAccount
  <1> QED
    BY <1>3, <1>4, <1>5 DEF assert_new_orders_allowed,
       check_testnet_order_gate, FindExisting

\* A risk check that read after a quiet stop found a flag off.
LEMMA CheckRiskInv ==
    ASSUME IndInv, NEW s \in Submitters, CheckRisk(s)
    PROVE  IndInv'
  <1> DEFINE passed == riskOn /\ LimitsPass[loc[s].order]
             l == [loc[s] EXCEPT !.flag = passed, !.late = quiet]
  <1>1. s \in Sessions /\ "insert" \in PCs /\ loc[s] \in Locals /\ SessionOK(s)
    BY DEF Sessions, PCs, IndInv, TypeOK, SessionsOK
  <1>2. loc[s].order \in Orders
    BY <1>1 DEF SessionOK, SubmitterPC, CheckRisk
  <1>3. l \in Locals
    BY <1>1, <1>2, BoundsAssumption DEF Locals, IndInv, TypeOK
  <1>4. /\ l.order = loc[s].order /\ l.todo = loc[s].todo
        /\ l.acked = loc[s].acked /\ l.flag = passed /\ l.late = quiet
    BY <1>1 DEF Locals
  <1>5. passed => ~quiet
    BY DEF IndInv, FlagsOff
  <1>6. loc' = [loc EXCEPT ![s] = l]
    BY <1>1 DEF CheckRisk, IndInv, TypeOK
  <1> HIDE DEF l, passed
  <1>7. pc'[s] = "insert" /\ loc'[s] = l => SessionOK(s)'
    BY <1>1, <1>2, <1>4, <1>5 DEF SessionOK, SubmitterPC, RowPC, UnsentPC,
       WritePC, rows, exch, CheckRisk
  <1>8. pc'[s] = "insert"
    BY <1>1 DEF CheckRisk, Goto, IndInv, TypeOK
  <1>9. \A n \in Orders : ~Owns(s, n)'
    BY <1>8 DEF Owns, UnsentPC, WritePC
  <1> QED
    BY <1>1, <1>3, <1>6, <1>7, <1>9, MoveInv DEF CheckRisk

\* The trails an execution is inserted with follow the graph and need nothing of
\* the exchange.
LEMMA FirstTrailsOK ==
    /\ TrailFollowsGraph(SubmittedTrail)
    /\ SubmittedTrail[Len(SubmittedTrail)].to = "SUBMITTED"
    /\ \A i \in DOMAIN SubmittedTrail :
          \A raw : Witnessed(SubmittedTrail[i].to, raw)
    /\ TrailFollowsGraph(RejectedTrail)
    /\ RejectedTrail[Len(RejectedTrail)].to = "REJECTED"
    /\ \A i \in DOMAIN RejectedTrail : Witnessed(RejectedTrail[i].to, "NONE")
  <1>1. /\ SubmittedTrail \in Seq(Transition) /\ RejectedTrail \in Seq(Transition)
        /\ DOMAIN SubmittedTrail = 1..3 /\ DOMAIN RejectedTrail = 1..2
    BY FirstTrails
  <1>2. /\ SubmittedTrail[1].to = "CREATED" /\ SubmittedTrail[2].to = "RISK_PASSED"
        /\ SubmittedTrail[3].to = "SUBMITTED"
        /\ RejectedTrail[1].to = "CREATED" /\ RejectedTrail[2].to = "REJECTED"
    BY FirstTrails
  <1>3. /\ SubmittedTrail[2].from = "CREATED"
        /\ SubmittedTrail[3].from = "RISK_PASSED"
        /\ RejectedTrail[2].from = "CREATED"
    BY FirstTrails
  <1>4. TrailFollowsGraph(SubmittedTrail) /\ TrailFollowsGraph(RejectedTrail)
    BY <1>1, <1>2, <1>3, FirstTrails, Edges DEF TrailFollowsGraph
  <1>5. /\ \A raw : Witnessed("CREATED", raw) /\ Witnessed("RISK_PASSED", raw)
                                              /\ Witnessed("SUBMITTED", raw)
        /\ Witnessed("REJECTED", "NONE")
    BY DEF Witnessed
  <1>6. \A i \in 1..3 : \A raw : Witnessed(SubmittedTrail[i].to, raw)
    BY <1>2, <1>5
  <1>7. \A i \in 1..2 : Witnessed(RejectedTrail[i].to, "NONE")
    BY <1>2, <1>5
  <1> QED
    BY <1>1, <1>2, <1>4, <1>6, <1>7, FirstTrails

\* The commit that stores a row nobody has stored before.
LEMMA InsertFrame ==
    ASSUME IndInv, NEW s \in Submitters, NEW o \in Orders, NEW new, NEW t,
           \/ new = "SUBMITTED" /\ t = SubmittedTrail
           \/ new = "REJECTED" /\ t = RejectedTrail,
           status[o] = Absent,
           status' = [status EXCEPT ![o] = new],
           trail' = [trail EXCEPT ![o] = t],
           UNCHANGED <<flags, exch, wire>>, OnlySession(s),
           pc' \in [Sessions -> PCs], loc' \in [Sessions -> Locals],
           SessionOK(s)', \A n \in Orders : Owns(s, n)' => n = o
    PROVE  IndInv'
  <1>1. TypeOK /\ OrderOK(o) /\ posts[o] = 0 /\ ex[o] = "NONE"
    BY DEF IndInv, OrdersOK, OrderOK, TypeOK
  <1>2. /\ status'[o] = new /\ trail'[o] = t
        /\ \A n \in Orders \ {o} : status'[n] = status[n] /\ trail'[n] = trail[n]
        /\ new \in OrderExecutionStatus /\ new # Absent
    BY <1>1 DEF TypeOK, OrderExecutionStatus, Absent
  <1>3. TypeOK'
    <2>1. status' \in [Orders -> StatusOrAbsent]
      BY <1>1, <1>2 DEF TypeOK, StatusOrAbsent
    <2>2. trail' \in [Orders -> Seq(Transition)]
      BY <1>1, <1>2, FirstTrails DEF TypeOK
    <2> QED
      BY <1>1, <2>1, <2>2 DEF TypeOK, flags, exch
  <1>4. OrdersOK'
    <2> SUFFICES ASSUME NEW n \in Orders PROVE OrderOK(n)'
      BY DEF OrdersOK
    <2>1. CASE n = o
      <3>1. TrailFollowsGraph(t) /\ t[Len(t)].to = new
            /\ \A i \in DOMAIN t : Witnessed(t[i].to, "NONE")
        BY FirstTrailsOK
      <3> QED
        BY <1>1, <1>2, <2>1, <3>1 DEF OrderOK, exch
    <2>2. CASE n # o
      BY <1>2, <2>2 DEF IndInv, OrdersOK, OrderOK, Recorded, exch
    <2> QED
      BY <2>1, <2>2
  <1>5. Forward
    BY <1>2 DEF Forward, exch
  <1>6. ASSUME NEW q \in Sessions, pc[q] \in RowPC
        PROVE  loc[q].order \in Orders \ {o}
    BY <1>6 DEF IndInv, SessionsOK, SessionOK
  <1>7. SessionsOK'
    <2> SUFFICES ASSUME NEW q \in Sessions, q # s PROVE SessionOK(q)'
      BY DEF SessionsOK
    <2>1. pc'[q] = pc[q] /\ loc'[q] = loc[q] /\ SessionOK(q)
      BY DEF OnlySession, IndInv, SessionsOK
    <2>2. pc[q] \in UnsentPC => Unsent(loc[q].order)'
      BY <1>2, <1>6, <2>1 DEF SessionOK, Unsent, UnsentPC, RowPC, exch
    <2> QED
      BY <1>1, <1>5, <2>1, <2>2, SessionFrame
  <1>8. Ownership'
    <2>1. \A q \in Submitters \ {s}, n \in Orders :
              (Owns(q, n)' <=> Owns(q, n)) /\ (Owns(q, n) => n # o)
      BY <1>6 DEF Owns, OnlySession, Sessions, RowPC, UnsentPC, WritePC
    <2> QED
      BY <2>1 DEF IndInv, Ownership
  <1>9. WireOK' /\ FlagsOff'
    BY DEF IndInv, WireOK, FlagsOff, exch, flags
  <1> QED
    BY <1>3, <1>4, <1>7, <1>8, <1>9 DEF IndInv

\* The INSERT makes the submitter the only owner, or fails on the unique id.
LEMMA InsertInv ==
    ASSUME IndInv, NEW s \in Submitters, InsertExecution(s)
    PROVE  IndInv'
  <1>1. s \in Sessions /\ TypeOK /\ SessionOK(s) /\ loc[s] \in Locals
    BY DEF IndInv, SessionsOK, Sessions, TypeOK
  <1>2. PICK o \in Orders : o = loc[s].order
    BY <1>1 DEF SessionOK, SubmitterPC, InsertExecution
  <1>3. pc[s] = "insert" /\ UNCHANGED <<flags, exch, wire>>
    BY DEF InsertExecution
  <1>4. CASE status[o] # Absent /\ Return(s) /\ UNCHANGED rows
    BY <1>1, <1>3, <1>4, ReturnInv
  <1>5. CASE /\ status[o] = Absent /\ loc[s].flag
             /\ status' = [status EXCEPT ![o] = "SUBMITTED"]
             /\ trail' = [trail EXCEPT ![o] = SubmittedTrail]
             /\ Goto(s, "prepare") /\ UNCHANGED loc
    <2>1. loc' = [loc EXCEPT ![s] = loc[s]] /\ "prepare" \in PCs
      BY <1>1, <1>5 DEF TypeOK, PCs
    <2>2. /\ OnlySession(s) /\ pc'[s] = "prepare" /\ loc'[s] = loc[s]
          /\ pc' \in [Sessions -> PCs] /\ loc' \in [Sessions -> Locals]
      BY <1>1, <1>5, <2>1, MoveFacts
    <2>3. posts[o] = 0
      BY <1>5 DEF IndInv, OrdersOK, OrderOK
    <2>4. Unsent(o)' /\ status'[o] # Absent
      BY <1>1, <1>3, <1>5, <2>3 DEF Unsent, TypeOK, exch, Absent
    <2>5. \A n \in loc[s].todo : status'[n] # Absent
      BY <1>1, <1>5 DEF SessionOK, TypeOK, Locals, Absent
    <2>6. SessionOK(s)'
      BY <1>1, <1>2, <1>3, <1>5, <2>2, <2>4, <2>5
      DEF SessionOK, SubmitterPC, RowPC, UnsentPC, WritePC, exch, Unsent
    <2>7. \A n \in Orders : Owns(s, n)' => n = o
      BY <1>2, <2>2 DEF Owns
    <2> QED
      BY <1>3, <1>5, <2>2, <2>6, <2>7, InsertFrame
  <1>6. CASE /\ status[o] = Absent /\ ~loc[s].flag
             /\ status' = [status EXCEPT ![o] = "REJECTED"]
             /\ trail' = [trail EXCEPT ![o] = RejectedTrail]
             /\ Return(s)
    <2>1. "idle" \in PCs /\ NoLocals \in Locals
      BY NoLocalsType DEF PCs
    <2>2. /\ OnlySession(s) /\ pc'[s] = "idle" /\ loc'[s] = NoLocals
          /\ pc' \in [Sessions -> PCs] /\ loc' \in [Sessions -> Locals]
      BY <1>1, <1>6, <2>1, MoveFacts DEF Return
    <2>3. SessionOK(s)' /\ \A n \in Orders : ~Owns(s, n)'
      BY <2>2 DEF SessionOK, NoLocals, SubmitterPC, RowPC, UnsentPC, WritePC,
                  Owns
    <2> QED
      BY <1>3, <1>6, <2>2, <2>3, InsertFrame
  <1> QED
    BY <1>2, <1>4, <1>5, <1>6 DEF InsertExecution

\* A submitter that goes on with its row.
LEMMA RowMoveInv ==
    ASSUME IndInv, NEW s \in Submitters, pc[s] \in {"prepare", "post", "answer"},
           NEW label \in {"post", "seq"}, NEW l \in Locals,
           Goto(s, label), loc' = [loc EXCEPT ![s] = l],
           UNCHANGED <<flags, rows, exch, wire>>,
           l.order = loc[s].order, l.todo = loc[s].todo,
           l.acked = loc[s].acked, l.late = loc[s].late,
           label = "post" => pc[s] = "prepare",
           label = "seq" =>
               /\ l.cached \in OrderExecutionStatus
               /\ l.to \in OrderExecutionStatus
               /\ CanTransition(l.cached, l.to) /\ Backed(l.to, ex[l.order])
    PROVE  IndInv'
  <1>1. s \in Sessions /\ label \in PCs /\ TypeOK /\ SessionOK(s)
    BY DEF Sessions, PCs, IndInv, SessionsOK
  <1>2. pc'[s] = label /\ loc'[s] = l
    BY <1>1, MoveFacts
  <1>3. (pc[s] \in WritePC => PendingOK(s))'
    BY <1>2 DEF PendingOK, WritePC, exch
  <1>4. SessionOK(s)'
    BY <1>1, <1>2, <1>3 DEF SessionOK, SubmitterPC, RowPC, UnsentPC, WritePC,
                            Unsent, rows, exch
  <1>5. \A n \in Orders : Owns(s, n)' => Owns(s, n)
    BY <1>2 DEF Owns, UnsentPC, WritePC
  <1> QED
    BY <1>1, <1>4, <1>5, MoveInv

\* The submitter sets out to write ACCEPTED or FAILED.
LEMMA RecordInv ==
    ASSUME IndInv, NEW s \in Submitters, pc[s] \in {"prepare", "post", "answer"},
           NEW cached, NEW to \in {"ACCEPTED", "FAILED"}, Record(s, cached, to),
           to = "ACCEPTED" => loc[s].acked,
           UNCHANGED <<flags, rows, exch, wire>>
    PROVE  IndInv'
  <1>1. s \in Sessions /\ TypeOK /\ SessionOK(s) /\ loc[s] \in Locals
    BY DEF IndInv, SessionsOK, Sessions, TypeOK
  <1>2. CASE Return(s)
    BY <1>1, <1>2, ReturnInv
  <1>3. CASE /\ cached = "SUBMITTED"
             /\ loc' = [loc EXCEPT ![s].cached = cached, ![s].to = to]
             /\ Goto(s, "seq")
    <2> DEFINE l == [loc[s] EXCEPT !.cached = cached, !.to = to]
    <2>1. loc' = [loc EXCEPT ![s] = l]
      BY <1>1, <1>3 DEF TypeOK
    <2>2. l \in Locals
      BY <1>1, <1>3 DEF Locals, StatusOrAbsent, OrderExecutionStatus
    <2>3. /\ l.order = loc[s].order /\ l.todo = loc[s].todo
          /\ l.acked = loc[s].acked /\ l.late = loc[s].late
          /\ l.cached = "SUBMITTED" /\ l.to = to
      BY <1>1, <1>3 DEF Locals
    <2>4. Backed(to, ex[loc[s].order])
      BY <1>1 DEF SessionOK, Backed
    <2>5. /\ CanTransition("SUBMITTED", to) /\ to \in OrderExecutionStatus
          /\ "SUBMITTED" \in OrderExecutionStatus
      BY Edges DEF OrderExecutionStatus
    <2> HIDE DEF l
    <2> QED
      BY <1>3, <2>1, <2>2, <2>3, <2>4, <2>5, RowMoveInv
  <1> QED
    BY <1>2, <1>3 DEF Record

\* Preparing the request ends it, sets out to write FAILED, or goes on to send.
LEMMA PrepareInv ==
    ASSUME IndInv, NEW s \in Submitters, Prepare(s)
    PROVE  IndInv'
  <1>1. /\ s \in Sessions /\ TypeOK /\ SessionOK(s) /\ loc[s] \in Locals
        /\ pc[s] = "prepare" /\ UNCHANGED <<flags, rows, exch, wire>>
    BY DEF IndInv, SessionsOK, Sessions, TypeOK, Prepare
  <1>2. PICK cached \in StatusOrAbsent : cached = status[loc[s].order]
    BY <1>1 DEF SessionOK, SubmitterPC, TypeOK
  <1>3. CASE Return(s)
    BY <1>1, <1>3, ReturnInv
  <1>4. CASE Record(s, cached, "FAILED")
    BY <1>1, <1>4, RecordInv
  <1>5. CASE loc' = [loc EXCEPT ![s].cached = cached] /\ Goto(s, "post")
    <2> DEFINE l == [loc[s] EXCEPT !.cached = cached]
    <2>1. loc' = [loc EXCEPT ![s] = l]
      BY <1>1, <1>5 DEF TypeOK
    <2>2. l \in Locals
      BY <1>1 DEF Locals
    <2>3. /\ l.order = loc[s].order /\ l.todo = loc[s].todo
          /\ l.acked = loc[s].acked /\ l.late = loc[s].late
      BY <1>1 DEF Locals
    <2> HIDE DEF l
    <2> QED
      BY <1>1, <1>5, <2>1, <2>2, <2>3, RowMoveInv
  <1> QED
    BY <1>2, <1>3, <1>4, <1>5 DEF Prepare

\* The submitter reads the answer of the exchange.
LEMMA AnswerInv ==
    ASSUME IndInv, NEW s \in Submitters, Answer(s)
    PROVE  IndInv'
  <1>1. /\ s \in Sessions /\ pc[s] = "answer"
        /\ UNCHANGED <<flags, rows, exch, wire>>
    BY DEF Sessions, Answer
  <1>2. PICK cached : cached = loc[s].cached
    OBVIOUS
  <1>3. CASE Return(s)
    BY <1>1, <1>3, ReturnInv
  <1>4. CASE Record(s, cached, "FAILED")
    BY <1>1, <1>4, RecordInv
  <1>5. CASE loc[s].acked /\ Record(s, cached, "ACCEPTED")
    BY <1>1, <1>5, RecordInv
  <1> QED
    BY <1>2, <1>3, <1>4, <1>5 DEF Answer

\* The request leaves.  Its row is as it was inserted, and no other request is
\* about to send the order.
LEMMA PostInv ==
    ASSUME IndInv, NEW s \in Submitters, Post(s)
    PROVE  IndInv'
  <1>1. /\ s \in Sessions /\ TypeOK /\ SessionOK(s) /\ loc[s] \in Locals
        /\ pc[s] = "post" /\ Goto(s, "answer") /\ UNCHANGED <<flags, rows>>
    BY DEF IndInv, SessionsOK, Sessions, TypeOK, Post
  <1>2. PICK o \in Orders : o = loc[s].order
    BY <1>1 DEF SessionOK, SubmitterPC
  <1>3. Unsent(o) /\ ~loc[s].late /\ OrderOK(o) /\ ex[o] = "NONE"
    BY <1>1, <1>2 DEF SessionOK, UnsentPC, IndInv, OrdersOK, OrderOK, Unsent
  <1>4. /\ posts' = [posts EXCEPT ![o] = posts[o] + 1]
        /\ \/ /\ ex' = [ex EXCEPT ![o] = "NEW"] /\ Broadcast(o, "NEW")
              /\ loc' = [loc EXCEPT ![s].acked = TRUE]
           \/ UNCHANGED <<ex, wire, loc>>
    BY <1>2 DEF Post
  <1>5. /\ posts' \in [Orders -> Nat] /\ posts'[o] = 1
        /\ \A n \in Orders \ {o} : posts'[n] = posts[n] /\ ex'[n] = ex[n]
        /\ ex' \in [Orders -> ExchangeStatus] /\ ex'[o] \in {"NONE", "NEW"}
    <2>1. /\ posts' \in [Orders -> Nat] /\ posts'[o] = 1
          /\ \A n \in Orders \ {o} : posts'[n] = posts[n]
      BY <1>1, <1>3, <1>4 DEF TypeOK, Unsent
    <2>2. "NEW" \in ExchangeStatus /\ ex \in [Orders -> ExchangeStatus]
      BY <1>1 DEF TypeOK, ExchangeStatus
    <2>3. /\ ex' \in [Orders -> ExchangeStatus] /\ ex'[o] \in {"NONE", "NEW"}
          /\ \A n \in Orders \ {o} : ex'[n] = ex[n]
      <3>1. CASE ex' = [ex EXCEPT ![o] = "NEW"]
        BY <2>2, <3>1
      <3>2. CASE UNCHANGED ex
        BY <1>3, <2>2, <3>2
      <3> QED
        BY <1>4, <3>1, <3>2
    <2> QED
      BY <2>1, <2>3
  <1>6. Forward
    <2>1. \A to : Backed(to, "NONE") => Backed(to, ex'[o])
      BY BackedNone DEF Backed
    <2> QED
      BY <1>1, <1>3, <1>5, <2>1 DEF Forward, rows
  <1>7. WireOK' /\ wire' \in [Streams -> Seq(Orders \X ExchangeStatus)]
    <2>1. CASE ex' = [ex EXCEPT ![o] = "NEW"] /\ Broadcast(o, "NEW")
      <3>1. "NEW" \in ExchangeStatus /\ ex'[o] = "NEW"
        BY <1>1, <2>1 DEF ExchangeStatus, TypeOK
      <3> QED
        BY <1>1, <1>5, <1>6, <2>1, <3>1, BroadcastInv DEF IndInv
    <2>2. CASE UNCHANGED <<ex, wire>>
      BY <1>1, <2>2 DEF IndInv, WireOK, TypeOK
    <2> QED
      BY <1>4, <2>1, <2>2
  <1>8. PICK l \in Locals :
          /\ loc' = [loc EXCEPT ![s] = l]
          /\ l.order = o /\ l.todo = loc[s].todo /\ l.late = loc[s].late
          /\ l.acked => loc[s].acked \/ ex'[o] = "NEW"
    <2>1. CASE UNCHANGED <<ex, wire, loc>>
      BY <1>1, <1>2, <2>1 DEF TypeOK
    <2>2. CASE /\ ex' = [ex EXCEPT ![o] = "NEW"]
               /\ loc' = [loc EXCEPT ![s].acked = TRUE]
      <3> DEFINE l == [loc[s] EXCEPT !.acked = TRUE]
      <3>1. l \in Locals /\ loc' = [loc EXCEPT ![s] = l] /\ ex'[o] = "NEW"
        BY <1>1, <2>2 DEF Locals, TypeOK
      <3>2. l.order = o /\ l.todo = loc[s].todo /\ l.late = loc[s].late
        BY <1>1, <1>2 DEF Locals
      <3> HIDE DEF l
      <3> QED
        BY <3>1, <3>2
    <2> QED
      BY <1>4, <2>1, <2>2
  <1>9. /\ OnlySession(s) /\ pc'[s] = "answer" /\ loc'[s] = l
        /\ pc' \in [Sessions -> PCs] /\ loc' \in [Sessions -> Locals]
    <2>1. "answer" \in PCs
      BY DEF PCs
    <2> QED
      BY <1>1, <1>8, <2>1, MoveFacts
  <1>10. TypeOK'
    BY <1>1, <1>5, <1>7, <1>9 DEF TypeOK, flags, rows
  <1>11. OrdersOK'
    <2> SUFFICES ASSUME NEW n \in Orders PROVE OrderOK(n)'
      BY DEF OrdersOK
    <2>1. CASE n = o
      <3>1. Recorded(o)
        BY <1>3, FirstTrails DEF Unsent, Recorded
      <3>2. \A i \in DOMAIN trail[o] : Witnessed(trail[o][i].to, ex'[o])
        BY <1>3, FirstTrailsOK DEF Unsent
      <3>3. status[o] # Absent
        BY <1>3 DEF Unsent, Absent
      <3> QED
        BY <1>1, <1>3, <1>5, <2>1, <3>1, <3>2, <3>3 DEF OrderOK, Recorded, rows
    <2>2. CASE n # o
      BY <1>1, <1>5, <2>2 DEF IndInv, OrdersOK, OrderOK, Recorded, rows
    <2> QED
      BY <2>1, <2>2
  <1>12. SessionOK(s)'
    <2>1. l.acked => ex'[o] # "NONE"
      BY <1>1, <1>2, <1>3, <1>8 DEF SessionOK
    <2>2. \A n \in l.todo : status'[n] # Absent
      BY <1>1, <1>8 DEF SessionOK, rows
    <2>3. status'[o] # Absent /\ ~l.late
      BY <1>1, <1>3, <1>8 DEF Unsent, rows, Absent
    <2> QED
      BY <1>8, <1>9, <2>1, <2>2, <2>3
      DEF SessionOK, SubmitterPC, RowPC, UnsentPC, WritePC
  <1>13. SessionsOK'
    <2> SUFFICES ASSUME NEW q \in Sessions, q # s PROVE SessionOK(q)'
      BY <1>12 DEF SessionsOK
    <2>1. pc'[q] = pc[q] /\ loc'[q] = loc[q] /\ SessionOK(q)
      BY <1>9 DEF OnlySession, IndInv, SessionsOK
    <2>2. pc[q] \in UnsentPC => Unsent(loc[q].order)'
      <3> SUFFICES ASSUME pc[q] \in UnsentPC PROVE Unsent(loc[q].order)'
        OBVIOUS
      <3>1. q \in Submitters /\ loc[q].order \in Orders /\ Unsent(loc[q].order)
        BY <2>1 DEF SessionOK, SubmitterPC, UnsentPC
      <3>2. loc[q].order # o
        BY <1>1, <1>2, <3>1 DEF IndInv, Ownership, Owns, UnsentPC
      <3> QED
        BY <1>1, <1>5, <2>1, <3>1, <3>2 DEF Unsent, rows
    <2> QED
      BY <1>1, <1>6, <2>1, <2>2, SessionFrame
  <1>14. Ownership'
    <2>1. \A n \in Orders : Owns(s, n)' => Owns(s, n)
      BY <1>1, <1>2, <1>8, <1>9 DEF Owns, UnsentPC
    <2>2. \A q \in Submitters \ {s}, n \in Orders : Owns(q, n)' => Owns(q, n)
      BY <1>9 DEF Owns, OnlySession, Sessions
    <2> QED
      BY <2>1, <2>2 DEF IndInv, Ownership
  <1>15. FlagsOff'
    BY <1>1 DEF IndInv, FlagsOff, flags
  <1> QED
    BY <1>7, <1>10, <1>11, <1>13, <1>14, <1>15 DEF IndInv
-----------------------------------------------------------------------------
(***************************************************************************)
(* _next_sequence_number and the commit, shared by the three writers.      *)
(***************************************************************************)
LEMMA ReadSeqInv ==
    ASSUME IndInv, NEW p \in Sessions, ReadSeq(p)
    PROVE  IndInv'
  <1> DEFINE l == [loc[p] EXCEPT !.seq = Len(trail[loc[p].order]) + 1]
  <1>1. /\ TypeOK /\ SessionOK(p) /\ loc[p] \in Locals /\ pc[p] = "seq"
        /\ Goto(p, "commit") /\ UNCHANGED <<flags, rows, exch, wire>>
        /\ "commit" \in PCs
    BY DEF IndInv, SessionsOK, TypeOK, ReadSeq, PCs
  <1>2. loc[p].order \in Orders /\ PendingOK(p)
    BY <1>1 DEF SessionOK, RowPC, WritePC
  <1>3. Len(trail[loc[p].order]) + 1 \in Nat
    BY <1>1, <1>2 DEF TypeOK
  <1>4. loc' = [loc EXCEPT ![p] = l]
    BY <1>1 DEF TypeOK, ReadSeq
  <1>5. l \in Locals
    BY <1>1, <1>3 DEF Locals
  <1>6. /\ l.order = loc[p].order /\ l.todo = loc[p].todo
        /\ l.acked = loc[p].acked /\ l.cached = loc[p].cached
        /\ l.to = loc[p].to
    BY <1>1 DEF Locals
  <1> HIDE DEF l
  <1>7. pc'[p] = "commit" /\ loc'[p] = l
    BY <1>1, <1>4, <1>5, MoveFacts
  <1>8. PendingOK(p)'
    BY <1>1, <1>2, <1>6, <1>7 DEF PendingOK, exch
  <1>9. SessionOK(p)'
    BY <1>1, <1>6, <1>7, <1>8
    DEF SessionOK, SubmitterPC, RowPC, UnsentPC, WritePC, rows, exch
  <1>10. \A n \in Orders : Owns(p, n)' => Owns(p, n)
    BY <1>1, <1>6, <1>7 DEF Owns, WritePC
  <1> QED
    BY <1>1, <1>4, <1>5, <1>9, <1>10, MoveInv

\* One more audit row, whatever status it was checked against.
LEMMA AppendOK ==
    ASSUME NEW t \in Seq(Transition), NEW from \in OrderExecutionStatus,
           NEW to \in OrderExecutionStatus, CanTransition(from, to),
           TrailFollowsGraph(t), NEW u, u = add_transition(t, from, to)
    PROVE  /\ u \in Seq(Transition) /\ Len(u) = Len(t) + 1
           /\ TrailFollowsGraph(u) /\ u[Len(u)].to = to
           /\ \A i \in 1..Len(t) : u[i] = t[i]
  <1>1. PICK row \in Transition : row = [from |-> from, to |-> to]
    BY DEF Transition
  <1>2. u = Append(t, row)
    BY <1>1 DEF add_transition
  <1>3. /\ u \in Seq(Transition) /\ Len(u) = Len(t) + 1 /\ u[Len(t) + 1] = row
        /\ \A i \in 1..Len(t) : u[i] = t[i]
    BY <1>2, AppendRow
  <1>4. Len(t) \in Nat /\ Len(t) > 0
    BY DEF TrailFollowsGraph
  <1>5. ASSUME NEW i \in 2..Len(u) PROVE CanTransition(u[i].from, u[i].to)
    <2>1. CASE i = Len(t) + 1
      BY <1>1, <1>3, <2>1
    <2>2. CASE i \in 2..Len(t)
      BY <1>3, <2>2 DEF TrailFollowsGraph
    <2> QED
      BY <1>3, <1>4, <2>1, <2>2
  <1>6. TrailFollowsGraph(u)
    BY <1>3, <1>4, <1>5 DEF TrailFollowsGraph
  <1> QED
    BY <1>1, <1>3, <1>6

\* The status and the audit row are stored.  A writer that has anything but a
\* failure to store knows it from the exchange, so the order was sent, and a
\* failure is stored by the submitter itself: no request that is yet to send
\* the order sees its row change.
LEMMA CommitFrame ==
    ASSUME IndInv, NEW p \in Sessions, pc[p] = "commit",
           WriteTransition(loc[p].order, loc[p]),
           UNCHANGED <<flags, exch, wire>>, OnlySession(p),
           pc' \in [Sessions -> PCs], loc' \in [Sessions -> Locals],
           SessionOK(p)', \A n \in Orders : ~(p \in Submitters /\ Owns(p, n)')
    PROVE  IndInv'
  <1>1. TypeOK /\ SessionOK(p) /\ loc[p] \in Locals
    BY DEF IndInv, SessionsOK, TypeOK
  <1>2. PICK o \in Orders : o = loc[p].order
    BY <1>1 DEF SessionOK, RowPC
  <1>3. PICK from \in OrderExecutionStatus, to \in OrderExecutionStatus :
            from = loc[p].cached /\ to = loc[p].to
    BY <1>1 DEF SessionOK, WritePC, PendingOK
  <1>4. /\ status[o] # Absent /\ CanTransition(from, to) /\ Backed(to, ex[o])
        /\ p \notin Submitters => to # "FAILED"
    BY <1>1, <1>2, <1>3 DEF SessionOK, WritePC, RowPC, PendingOK
  <1>5. PICK u : u = add_transition(trail[o], from, to)
    OBVIOUS
  <1>6. /\ status' = [status EXCEPT ![o] = to] /\ trail' = [trail EXCEPT ![o] = u]
    BY <1>2, <1>3, <1>5 DEF WriteTransition
  <1>7. /\ status'[o] = to /\ trail'[o] = u /\ to # Absent
        /\ \A n \in Orders \ {o} : status'[n] = status[n] /\ trail'[n] = trail[n]
    BY <1>1, <1>6 DEF TypeOK, OrderExecutionStatus, Absent
  <1>8. OrderOK(o) /\ trail[o] \in Seq(Transition) /\ ex[o] \in ExchangeStatus
    BY <1>1 DEF IndInv, OrdersOK, TypeOK
  <1>9. /\ u \in Seq(Transition) /\ Len(u) = Len(trail[o]) + 1
        /\ TrailFollowsGraph(u) /\ u[Len(u)].to = to
        /\ \A i \in 1..Len(trail[o]) : u[i] = trail[o][i]
    BY <1>4, <1>5, <1>8, AppendOK DEF OrderOK
  <1>10. TypeOK'
    <2>1. status' \in [Orders -> StatusOrAbsent]
      BY <1>1, <1>6 DEF TypeOK, StatusOrAbsent
    <2>2. trail' \in [Orders -> Seq(Transition)]
      BY <1>1, <1>6, <1>9 DEF TypeOK
    <2> QED
      BY <1>1, <2>1, <2>2 DEF TypeOK, flags, exch
  <1>11. OrdersOK'
    <2> SUFFICES ASSUME NEW n \in Orders PROVE OrderOK(n)'
      BY DEF OrdersOK
    <2>1. CASE n = o
      <3>1. \A i \in DOMAIN u : Witnessed(u[i].to, ex[o])
        <4> SUFFICES ASSUME NEW i \in 1..Len(u) PROVE Witnessed(u[i].to, ex[o])
          BY <1>9
        <4>1. CASE i = Len(u)
          BY <1>4, <1>8, <1>9, <4>1, BackedWitnessed
        <4>2. CASE i \in 1..Len(trail[o])
          BY <1>8, <1>9, <4>2 DEF OrderOK
        <4> QED
          BY <1>8, <1>9, <4>1, <4>2
      <3>2. Recorded(o) => Recorded(o)'
        <4> SUFFICES ASSUME Recorded(o) PROVE Recorded(o)'
          OBVIOUS
        <4>1. {1, 2, 3} \subseteq 1..Len(trail[o]) /\ Len(u) >= 3
          BY <1>8, <1>9 DEF Recorded
        <4>2. u[1] = trail[o][1] /\ u[2] = trail[o][2] /\ u[3] = trail[o][3]
          BY <1>9, <4>1
        <4> QED
          BY <1>7, <4>1, <4>2 DEF Recorded
      <3> QED
        BY <1>7, <1>8, <1>9, <2>1, <3>1, <3>2 DEF OrderOK, exch
    <2>2. CASE n # o
      BY <1>7, <2>2 DEF IndInv, OrdersOK, OrderOK, Recorded, exch
    <2> QED
      BY <2>1, <2>2
  <1>12. Forward
    BY <1>7 DEF Forward, exch
  <1>13. SessionsOK'
    <2> SUFFICES ASSUME NEW q \in Sessions, q # p PROVE SessionOK(q)'
      BY DEF SessionsOK
    <2>1. pc'[q] = pc[q] /\ loc'[q] = loc[q] /\ SessionOK(q)
      BY DEF OnlySession, IndInv, SessionsOK
    <2>2. pc[q] \in UnsentPC => Unsent(loc[q].order)'
      <3> SUFFICES ASSUME pc[q] \in UnsentPC PROVE Unsent(loc[q].order)'
        OBVIOUS
      <3>1. q \in Submitters /\ loc[q].order \in Orders /\ Unsent(loc[q].order)
        BY <2>1 DEF SessionOK, SubmitterPC, UnsentPC
      <3>2. loc[q].order # o
        <4> SUFFICES ASSUME loc[q].order = o PROVE FALSE
          OBVIOUS
        <4>1. ex[o] = "NONE"
          BY <1>8, <3>1 DEF OrderOK, Unsent
        <4>2. p \in Submitters
          BY <1>4, <4>1, BackedNone
        <4> QED
          BY <1>2, <3>1, <4>2 DEF IndInv, Ownership, Owns, UnsentPC, WritePC
      <3> QED
        BY <1>7, <2>1, <3>1, <3>2 DEF Unsent, exch
    <2> QED
      BY <1>1, <1>12, <2>1, <2>2, SessionFrame
  <1>14. Ownership'
    <2>1. \A q \in Submitters \ {p}, n \in Orders : Owns(q, n)' => Owns(q, n)
      BY DEF Owns, OnlySession, Sessions
    <2> QED
      BY <2>1 DEF IndInv, Ownership
  <1>15. WireOK' /\ FlagsOff'
    BY DEF IndInv, WireOK, FlagsOff, exch, flags
  <1> QED
    BY <1>10, <1>11, <1>13, <1>14, <1>15 DEF IndInv

\* What a reconciler or a stream holds once apply has returned.
LEMMA ProceedFacts ==
    ASSUME TypeOK, NEW p \in Reconcilers \cup Streams, NEW l \in Locals,
           Proceed(p, l)
    PROVE  /\ OnlySession(p) /\ pc'[p] \in {"pick", "listen"}
           /\ pc' \in [Sessions -> PCs] /\ loc' \in [Sessions -> Locals]
           /\ loc'[p].todo = l.todo
  <1> DEFINE m == [l EXCEPT !.order = NoOrder, !.to = Absent,
                            !.cached = Absent, !.seq = 0]
             label == IF p \in Reconcilers THEN "pick" ELSE "listen"
  <1>1. m \in Locals /\ m.todo = l.todo
    BY DEF Locals, StatusOrAbsent
  <1>2. /\ p \in Sessions /\ label \in PCs /\ label \in {"pick", "listen"}
        /\ Goto(p, label) /\ loc' = [loc EXCEPT ![p] = m]
    BY DEF Sessions, PCs, Proceed
  <1> HIDE DEF m, label
  <1> QED
    BY <1>1, <1>2, MoveFacts

\* Reconcilers and streams submit nothing.
LEMMA ReadersDiffer ==
    ASSUME NEW p \in Reconcilers \cup Streams
    PROVE  p \notin Submitters /\ p \in Sessions
  BY SessionsAssumption DEF Sessions

\* The commit of a transition: UPDATE and audit row, or neither if the sequence
\* number is taken.
LEMMA CommitInv ==
    ASSUME IndInv, NEW p \in Sessions, Commit(p)
    PROVE  IndInv'
  <1>1. /\ TypeOK /\ SessionOK(p) /\ loc[p] \in Locals /\ pc[p] = "commit"
        /\ UNCHANGED <<flags, exch>>
    BY DEF IndInv, SessionsOK, TypeOK, Commit
  <1>2. CASE WriteTransition(loc[p].order, loc[p]) /\ AfterCommit(p)
    <2>1. UNCHANGED wire
      BY <1>2 DEF AfterCommit
    <2>2. CASE p \in Submitters /\ Return(p)
      <3>1. "idle" \in PCs /\ NoLocals \in Locals
        BY NoLocalsType DEF PCs
      <3>2. /\ OnlySession(p) /\ pc'[p] = "idle" /\ loc'[p] = NoLocals
            /\ pc' \in [Sessions -> PCs] /\ loc' \in [Sessions -> Locals]
        BY <1>1, <2>2, <3>1, MoveFacts DEF Return
      <3>3. SessionOK(p)' /\ \A n \in Orders : ~Owns(p, n)'
        BY <3>2 DEF SessionOK, NoLocals, SubmitterPC, RowPC, UnsentPC, WritePC,
                    Owns
      <3> QED
        BY <1>1, <1>2, <2>1, <3>2, <3>3, CommitFrame
    <2>3. CASE /\ p \in Reconcilers \cup Streams
               /\ \E l \in Locals : l.todo = loc[p].todo /\ Proceed(p, l)
      <3>1. p \notin Submitters
        BY <2>3, ReadersDiffer
      <3>2. /\ OnlySession(p) /\ pc'[p] \in {"pick", "listen"}
            /\ pc' \in [Sessions -> PCs] /\ loc' \in [Sessions -> Locals]
            /\ loc'[p].todo = loc[p].todo
        BY <1>1, <2>3, ProceedFacts
      <3>3. \A n \in loc[p].todo : status'[n] # Absent
        <4>1. \A n \in loc[p].todo : n \in Orders /\ status[n] # Absent
          BY <1>1 DEF SessionOK, Locals
        <4>2. loc[p].to # Absent
          BY <1>1 DEF SessionOK, WritePC, PendingOK, OrderExecutionStatus, Absent
        <4> QED
          BY <1>1, <1>2, <4>1, <4>2 DEF WriteTransition, TypeOK
      <3>4. SessionOK(p)'
        BY <3>1, <3>2, <3>3 DEF SessionOK, SubmitterPC, RowPC, UnsentPC, WritePC
      <3> QED
        BY <1>1, <1>2, <2>1, <3>1, <3>2, <3>4, CommitFrame
    <2>4. /\ [loc[p] EXCEPT !.expired = TRUE] \in Locals
          /\ [loc[p] EXCEPT !.expired = TRUE].todo = loc[p].todo
      BY <1>1 DEF Locals
    <2> QED
      BY <1>1, <1>2, <2>2, <2>3, <2>4 DEF AfterCommit
  <1>3. CASE /\ Return(p) /\ UNCHANGED rows
             /\ IF p \in Streams THEN Hangup(p) ELSE UNCHANGED wire
    BY <1>1, <1>3, ReturnInv
  <1> QED
    BY <1>2, <1>3 DEF Commit
-----------------------------------------------------------------------------
(***************************************************************************)
(* reconcile_pending_testnet_orders, consume_bounded_testnet_user_stream   *)
(***************************************************************************)
LEMMA ReaderInv ==
    ASSUME IndInv, NEW p \in Reconcilers \cup Streams,
           NEW label \in {"list", "pick", "rest", "connect", "listen", "seq"},
           NEW l \in Locals, Goto(p, label), loc' = [loc EXCEPT ![p] = l],
           UNCHANGED <<flags, rows, exch>>, WireOK',
           wire' \in [Streams -> Seq(Orders \X ExchangeStatus)],
           \A n \in l.todo : status[n] # Absent,
           label \in {"rest", "seq"} =>
               l.order \in Orders /\ status[l.order] # Absent,
           label = "seq" =>
               /\ l.cached \in OrderExecutionStatus
               /\ l.to \in OrderExecutionStatus /\ l.to # "FAILED"
               /\ CanTransition(l.cached, l.to) /\ Backed(l.to, ex[l.order])
    PROVE  IndInv'
  <1>1. p \in Sessions /\ p \notin Submitters /\ TypeOK /\ label \in PCs
    BY ReadersDiffer DEF IndInv, PCs
  <1>2. /\ OnlySession(p) /\ pc'[p] = label /\ loc'[p] = l
        /\ pc' \in [Sessions -> PCs] /\ loc' \in [Sessions -> Locals]
    BY <1>1, MoveFacts
  <1>3. (pc[p] \in WritePC => PendingOK(p))'
    BY <1>2 DEF PendingOK, WritePC, exch
  <1>4. SessionOK(p)'
    BY <1>1, <1>2, <1>3 DEF SessionOK, SubmitterPC, RowPC, UnsentPC, WritePC,
                            rows
  <1> QED
    BY <1>1, <1>2, <1>4, LocalStep

\* What is on the wire stays backed while the exchange stands still.
LEMMA WireStays ==
    ASSUME IndInv, UNCHANGED <<exch, wire>>
    PROVE  WireOK' /\ wire' \in [Streams -> Seq(Orders \X ExchangeStatus)]
  BY DEF IndInv, TypeOK, WireOK, exch

\* The same when a stream is closed.
LEMMA HangupStays ==
    ASSUME IndInv, NEW c \in Streams, Hangup(c), UNCHANGED exch
    PROVE  WireOK' /\ wire' \in [Streams -> Seq(Orders \X ExchangeStatus)]
  <1>1. /\ wire' \in [Streams -> Seq(Orders \X ExchangeStatus)]
        /\ wire'[c] = <<>>
        /\ \A d \in Streams \ {c} : wire'[d] = wire[d]
    BY DEF IndInv, TypeOK, Hangup
  <1> QED
    BY <1>1 DEF IndInv, WireOK, exch

\* A reconciler or stream goes on to its next order or event, or ends.
LEMMA ProceedInv ==
    ASSUME IndInv, NEW p \in Reconcilers \cup Streams, NEW l \in Locals,
           Proceed(p, l), UNCHANGED <<flags, rows, exch>>, WireOK',
           wire' \in [Streams -> Seq(Orders \X ExchangeStatus)],
           \A n \in l.todo : status[n] # Absent
    PROVE  IndInv'
  <1> DEFINE m == [l EXCEPT !.order = NoOrder, !.to = Absent,
                            !.cached = Absent, !.seq = 0]
             label == IF p \in Reconcilers THEN "pick" ELSE "listen"
  <1>1. m \in Locals /\ m.todo = l.todo
    BY DEF Locals, StatusOrAbsent
  <1>2. /\ label \in {"pick", "listen"} /\ Goto(p, label)
        /\ loc' = [loc EXCEPT ![p] = m]
    BY DEF Proceed
  <1> HIDE DEF m, label
  <1> QED
    BY <1>1, <1>2, ReaderInv

\* TestnetOrderLifecycleProcessor.apply, given a status the exchange reached.
LEMMA ApplyInv ==
    ASSUME IndInv, NEW p \in Reconcilers \cup Streams, NEW l \in Locals,
           NEW to \in OrderExecutionStatus, apply(p, l, to), to # "FAILED",
           l.order \in Orders, Backed(to, ex[l.order]),
           l.cached # Absent => status[l.order] # Absent,
           \A n \in l.todo : status[n] # Absent,
           UNCHANGED <<flags, rows, exch>>, WireOK',
           wire' \in [Streams -> Seq(Orders \X ExchangeStatus)]
    PROVE  IndInv'
  <1>1. CASE Proceed(p, l)
    BY <1>1, ProceedInv
  <1>2. CASE /\ l.cached # Absent /\ to # l.cached /\ CanTransition(l.cached, to)
             /\ loc' = [loc EXCEPT ![p] = [l EXCEPT !.to = to]]
             /\ Goto(p, "seq")
    <2> DEFINE m == [l EXCEPT !.to = to]
    <2>1. m \in Locals
      BY DEF Locals, StatusOrAbsent
    <2>2. /\ m.order = l.order /\ m.todo = l.todo /\ m.cached = l.cached
          /\ m.to = to /\ l.cached \in OrderExecutionStatus
      BY <1>2 DEF Locals, StatusOrAbsent
    <2>3. loc' = [loc EXCEPT ![p] = m]
      BY <1>2
    <2> HIDE DEF m
    <2>4. m.order \in Orders /\ status[m.order] # Absent
      BY <1>2, <2>2
    <2>5. CanTransition(m.cached, m.to) /\ Backed(m.to, ex[m.order])
      BY <1>2, <2>2
    <2>6. Goto(p, "seq") /\ \A n \in m.todo : status[n] # Absent
      BY <1>2, <2>2
    <2> QED
      BY <2>1, <2>2, <2>3, <2>4, <2>5, <2>6, ReaderInv
  <1> QED
    BY <1>1, <1>2 DEF apply

\* What is known of a reader before its step.
LEMMA ReaderFacts ==
    ASSUME IndInv, NEW p \in Reconcilers \cup Streams
    PROVE  /\ p \in Sessions /\ TypeOK /\ SessionOK(p) /\ loc[p] \in Locals
           /\ loc[p].todo \subseteq Orders
           /\ \A n \in loc[p].todo : status[n] # Absent
           /\ loc' = loc => loc' = [loc EXCEPT ![p] = loc[p]]
  <1>1. p \in Sessions /\ TypeOK /\ SessionOK(p) /\ loc[p] \in Locals
    BY ReadersDiffer DEF IndInv, SessionsOK, TypeOK
  <1> QED
    BY <1>1 DEF SessionOK, Locals, TypeOK

\* Every step of a reconciler keeps the invariant.
LEMMA ReconcilerInv ==
    ASSUME IndInv, NEW r \in Reconcilers,
           reconcile_pending_testnet_orders(r) \/ ReconcilerStep(r)
    PROVE  IndInv'
  <1>1. /\ r \in Sessions /\ TypeOK /\ SessionOK(r) /\ loc[r] \in Locals
        /\ \A n \in loc[r].todo : n \in Orders /\ status[n] # Absent
        /\ loc' = loc => loc' = [loc EXCEPT ![r] = loc[r]]
    BY ReaderFacts
  <1>2. UNCHANGED <<flags, rows, exch, wire>>
    BY DEF reconcile_pending_testnet_orders, ReconcilerStep, ListPending,
           PickOrder, LookupFails, LookupOrder, FinishReconcile
  <1>3. WireOK' /\ wire' \in [Streams -> Seq(Orders \X ExchangeStatus)]
    BY <1>2, WireStays
  <1>4. CASE reconcile_pending_testnet_orders(r)
    BY <1>1, <1>2, <1>3, <1>4, ReaderInv DEF reconcile_pending_testnet_orders
  <1>5. CASE ListPending(r)
    <2> DEFINE open == {o \in Orders : status[o] \in PENDING_STATUSES}
               l == [loc[r] EXCEPT !.listed = status, !.todo = open]
    <2>1. l \in Locals /\ l.todo = open
      BY <1>1 DEF Locals, TypeOK
    <2>2. loc' = [loc EXCEPT ![r] = l]
      BY <1>1, <1>5 DEF ListPending, TypeOK
    <2>3. \A n \in open : status[n] # Absent
      BY DEF PENDING_STATUSES, Absent
    <2> HIDE DEF l, open
    <2> QED
      BY <1>2, <1>3, <1>5, <2>1, <2>2, <2>3, ReaderInv DEF ListPending
  <1>6. ASSUME NEW o \in Orders, PickOrder(r, o) PROVE IndInv'
    <2> DEFINE cached == IF loc[r].expired THEN status[o] ELSE loc[r].listed[o]
               l == [loc[r] EXCEPT !.order = o, !.todo = @ \ {o},
                                   !.cached = cached]
    <2>1. cached \in StatusOrAbsent
      BY <1>1 DEF TypeOK, Locals
    <2>2. loc' = [loc EXCEPT ![r] = l]
      BY <1>1, <1>6 DEF PickOrder, TypeOK
    <2> HIDE DEF cached
    <2>3. l \in Locals /\ l.order = o /\ l.todo = loc[r].todo \ {o}
      BY <1>1, <2>1 DEF Locals
    <2>4. status[o] # Absent
      BY <1>1, <1>6 DEF PickOrder
    <2> HIDE DEF l
    <2> QED
      BY <1>1, <1>2, <1>3, <1>6, <2>2, <2>3, <2>4, ReaderInv DEF PickOrder
  <1>7. CASE LookupFails(r)
    BY <1>1, <1>2, <1>3, <1>7, ProceedInv DEF LookupFails
  <1>8. CASE LookupOrder(r)
    <2>1. PICK o \in Orders : o = loc[r].order /\ status[o] # Absent
      BY <1>1, <1>8 DEF SessionOK, RowPC, LookupOrder
    <2>2. ex[o] \in ExchangeStatus /\ ex[o] # "NONE"
      BY <1>1, <1>8, <2>1 DEF TypeOK, LookupOrder
    <2>3. PICK to \in OrderExecutionStatus :
              to = normalize(ex[o]) /\ to # "FAILED" /\ Backed(to, ex[o])
      BY <2>2, NormalizeBacked
    <2>4. apply(r, loc[r], to)
      BY <1>8, <2>1, <2>3 DEF LookupOrder
    <2> QED
      BY <1>1, <1>2, <1>3, <2>1, <2>3, <2>4, ApplyInv
  <1>9. CASE FinishReconcile(r)
    BY <1>1, <1>2, <1>9, ReturnInv DEF FinishReconcile
  <1> QED
    BY <1>4, <1>5, <1>6, <1>7, <1>8, <1>9 DEF ReconcilerStep

\* The next event of a stream: what it says was reached.
LEMMA ReceiveInv ==
    ASSUME IndInv, NEW c \in Streams, Receive(c)
    PROVE  IndInv'
  <1>1. /\ c \in Sessions /\ TypeOK /\ SessionOK(c) /\ loc[c] \in Locals
        /\ \A n \in loc[c].todo : n \in Orders /\ status[n] # Absent
        /\ UNCHANGED <<flags, rows, exch>>
    BY ReaderFacts DEF Receive
  <1>2. PICK w \in Seq(Orders \X ExchangeStatus) : w = wire[c] /\ w # <<>>
    BY <1>1 DEF TypeOK, Receive
  <1>3. PICK o \in Orders, raw \in ExchangeStatus : Head(w) = <<o, raw>>
    BY <1>2
  <1>4. Backed(normalize(raw), ex[o])
    <2>1. 1 \in 1..Len(w) /\ Head(w) = w[1]
      BY <1>2
    <2> QED
      BY <1>2, <1>3, <2>1 DEF IndInv, WireOK
  <1>5. PICK to \in OrderExecutionStatus :
            to = normalize(raw) /\ to # "FAILED" /\ Backed(to, ex[o])
    BY <1>4, NormalizeBacked
  <1>6. WireOK' /\ wire' \in [Streams -> Seq(Orders \X ExchangeStatus)]
    <2>1. /\ Tail(w) \in Seq(Orders \X ExchangeStatus)
          /\ \A i \in 1..Len(Tail(w)) :
                i + 1 \in 1..Len(w) /\ Tail(w)[i] = w[i + 1]
      BY <1>2
    <2>2. wire' = [wire EXCEPT ![c] = Tail(w)]
      BY <1>2 DEF Receive
    <2>3. /\ wire' \in [Streams -> Seq(Orders \X ExchangeStatus)]
          /\ wire'[c] = Tail(w) /\ \A d \in Streams \ {c} : wire'[d] = wire[d]
      BY <1>1, <2>1, <2>2 DEF TypeOK
    <2>4. \A i \in 1..Len(w) : Backed(normalize(w[i][2]), ex[w[i][1]])
      BY <1>2 DEF IndInv, WireOK
    <2>5. \A i \in 1..Len(Tail(w)) :
              Backed(normalize(Tail(w)[i][2]), ex[Tail(w)[i][1]])
      BY <2>1, <2>4
    <2>6. \A d \in Streams \ {c} : \A i \in 1..Len(wire[d]) :
              Backed(normalize(wire[d][i][2]), ex[wire[d][i][1]])
      BY DEF IndInv, WireOK
    <2> QED
      BY <1>1, <2>3, <2>5, <2>6 DEF WireOK, exch
  <1> DEFINE l == [loc[c] EXCEPT !.order = o, !.cached = status[o],
                                 !.msgs = @ + 1]
  <1>7. l \in Locals
    <2>1. status[o] \in StatusOrAbsent /\ loc[c].msgs + 1 \in Nat
      BY <1>1 DEF Locals, TypeOK
    <2> QED
      BY <1>1, <2>1 DEF Locals
  <1>8. l.order = o /\ l.cached = status[o] /\ l.todo = loc[c].todo
    BY <1>1 DEF Locals
  <1>9. apply(c, l, to)
    <2>1. Head(wire[c])[1] = o /\ Head(wire[c])[2] = raw
      BY <1>2, <1>3
    <2>2. apply(c, [loc[c] EXCEPT !.order = Head(wire[c])[1],
                                  !.cached = status[Head(wire[c])[1]],
                                  !.msgs = @ + 1],
                normalize(Head(wire[c])[2]))
      BY DEF Receive
    <2> QED
      BY <1>5, <2>1, <2>2
  <1> HIDE DEF l
  <1> QED
    BY <1>1, <1>5, <1>6, <1>7, <1>8, <1>9, ApplyInv

\* Every step of a stream consumer keeps the invariant.
LEMMA StreamInv ==
    ASSUME IndInv, NEW c \in Streams,
           consume_bounded_testnet_user_stream(c) \/ StreamStep(c)
    PROVE  IndInv'
  <1>1. /\ c \in Sessions /\ TypeOK /\ SessionOK(c) /\ loc[c] \in Locals
        /\ \A n \in loc[c].todo : n \in Orders /\ status[n] # Absent
        /\ loc' = loc => loc' = [loc EXCEPT ![c] = loc[c]]
    BY ReaderFacts
  <1>2. CASE Receive(c)
    BY <1>2, ReceiveInv
  <1> USE DEF consume_bounded_testnet_user_stream, Connect, OtherEvent,
              MessageLimit, Disconnect
  <1>3. CASE Return(c) /\ UNCHANGED <<flags, rows, exch>>
             /\ (UNCHANGED wire \/ Hangup(c))
    BY <1>1, <1>3, ReturnInv
  <1>4. CASE /\ \E label \in {"connect", "listen"} : Goto(c, label)
             /\ UNCHANGED <<flags, rows, exch, wire, loc>>
    BY <1>1, <1>4, WireStays, ReaderInv
  <1>5. CASE /\ loc' = [loc EXCEPT ![c].reconnects = @ + 1]
             /\ Goto(c, "connect") /\ UNCHANGED <<flags, rows, exch>>
             /\ (UNCHANGED wire \/ Hangup(c))
    <2> DEFINE l == [loc[c] EXCEPT !.reconnects = @ + 1]
    <2>1. l \in Locals /\ l.todo = loc[c].todo
      BY <1>1 DEF Locals
    <2>2. loc' = [loc EXCEPT ![c] = l]
      BY <1>1, <1>5 DEF TypeOK
    <2>3. WireOK' /\ wire' \in [Streams -> Seq(Orders \X ExchangeStatus)]
      BY <1>5, WireStays, HangupStays
    <2> HIDE DEF l
    <2> QED
      BY <1>1, <1>5, <2>1, <2>2, <2>3, ReaderInv
  <1>6. CASE /\ pc[c] = "listen" /\ loc' = [loc EXCEPT ![c].msgs = @ + 1]
             /\ UNCHANGED <<flags, rows, exch, wire, pc>>
    <2> DEFINE l == [loc[c] EXCEPT !.msgs = @ + 1]
    <2>1. l \in Locals /\ l.todo = loc[c].todo
      BY <1>1 DEF Locals
    <2>2. loc' = [loc EXCEPT ![c] = l] /\ Goto(c, "listen")
      BY <1>1, <1>6 DEF TypeOK, Goto
    <2>3. WireOK' /\ wire' \in [Streams -> Seq(Orders \X ExchangeStatus)]
      BY <1>6, WireStays
    <2> HIDE DEF l
    <2> QED
      BY <1>1, <1>6, <2>1, <2>2, <2>3, ReaderInv
  <1> QED
    BY <1>2, <1>3, <1>4, <1>5, <1>6 DEF StreamStep, Reconnect
-----------------------------------------------------------------------------
(***************************************************************************)
(* The invariant is inductive, and what follows from it.                   *)
(***************************************************************************)
LEMMA NextInv == IndInv /\ [Next]_vars => IndInv'
  <1> SUFFICES ASSUME IndInv, [Next]_vars PROVE IndInv'
    OBVIOUS
  <1>1. CASE OperatorStep
    BY <1>1, OperatorInv
  <1>2. ASSUME NEW o \in Orders, NEW st \in ExchangeStatus, ExchangeMove(o, st)
        PROVE  IndInv'
    BY <1>2, ExchangeInv
  <1>3. ASSUME NEW s \in Submitters, NEW o \in Orders, submit_testnet_order(s, o)
        PROVE  IndInv'
    BY <1>3, SubmitInv
  <1>4. ASSUME NEW s \in Submitters, SubmitterStep(s) PROVE IndInv'
    BY <1>4, BeforeRiskInv, CheckRiskInv, InsertInv, PrepareInv, PostInv,
       AnswerInv DEF SubmitterStep
  <1>5. ASSUME NEW r \in Reconcilers,
               reconcile_pending_testnet_orders(r) \/ ReconcilerStep(r)
        PROVE  IndInv'
    BY <1>5, ReconcilerInv
  <1>6. ASSUME NEW c \in Streams,
               consume_bounded_testnet_user_stream(c) \/ StreamStep(c)
        PROVE  IndInv'
    BY <1>6, StreamInv
  <1>7. ASSUME NEW p \in Sessions, CommitStep(p) PROVE IndInv'
    BY <1>7, ReadSeqInv, CommitInv DEF CommitStep
  <1>8. ASSUME NEW p \in Sessions, Crash(p) PROVE IndInv'
    BY <1>8, ReturnInv DEF Crash
  <1>9. CASE UNCHANGED vars
    <2>1. UNCHANGED <<flags, rows, exch, wire, pc, loc>>
      BY <1>9 DEF vars
    <2>2. TypeOK' /\ FlagsOff' /\ Ownership' /\ WireOK'
      BY <2>1 DEF IndInv, TypeOK, FlagsOff, Ownership, Owns, WireOK, flags,
                  rows, exch
    <2>3. OrdersOK'
      BY <2>1 DEF IndInv, OrdersOK, OrderOK, Recorded, rows, exch
    <2>4. SessionsOK'
      BY <2>1 DEF IndInv, SessionsOK, SessionOK, PendingOK, Unsent, rows, exch
    <2> QED
      BY <2>2, <2>3, <2>4 DEF IndInv
  <1> QED
    BY <1>1, <1>2, <1>3, <1>4, <1>5, <1>6, <1>7, <1>8, <1>9 DEF Next

\* Every reachable state satisfies the inductive invariant: a row no order was
\* sent for is its submitter's alone, and every pending write of reconciler or
\* stream is backed by the exchange.
THEOREM Invariance == Spec => []IndInv
  BY InitInv, NextInv, PTL DEF Spec

\* No reachable state leaves the types of the rows, of the events on the wire
\* and of the local values of submit_testnet_order, the reconciliation and the
\* stream consumer.
THEOREM TypeCorrectness == Spec => []TypeOK
  <1>1. IndInv => TypeOK
    BY DEF IndInv
  <1> QED
    BY <1>1, Invariance, PTL

\* submit_testnet_order sends a client_order_id to the exchange at most once,
\* for any number of concurrent, repeated and dying requests.
THEOREM SentAtMostOnce == Spec => []AtMostOnePost
  <1>1. IndInv => AtMostOnePost
    BY DEF IndInv, OrdersOK, OrderOK, AtMostOnePost
  <1> QED
    BY <1>1, Invariance, PTL

\* The rows CREATED, RISK_PASSED, SUBMITTED of create_or_get_testnet_
\* submission_execution are committed before the order leaves, and stay.
THEOREM RecordedBeforeSent == Spec => []PostIsRecorded
  <1>1. IndInv => PostIsRecorded
    <2> SUFFICES ASSUME IndInv, NEW o \in Orders, posts[o] > 0
                 PROVE  /\ Len(trail[o]) >= 3
                        /\ [i \in 1..3 |-> trail[o][i].to]
                              = <<"CREATED", "RISK_PASSED", "SUBMITTED">>
      BY DEF PostIsRecorded
    <2>1. Recorded(o)
      BY DEF IndInv, OrdersOK, OrderOK
    <2> DEFINE first == [i \in 1..3 |-> trail[o][i].to]
               wanted == <<"CREATED", "RISK_PASSED", "SUBMITTED">>
    <2>2. first[1] = wanted[1] /\ first[2] = wanted[2] /\ first[3] = wanted[3]
      BY <2>1 DEF Recorded
    <2>3. \A i \in 1..3 : i = 1 \/ i = 2 \/ i = 3
      OBVIOUS
    <2>4. \A i \in 1..3 : first[i] = wanted[i]
      BY <2>2, <2>3
    <2>5. DOMAIN first = 1..3 /\ DOMAIN wanted = 1..3
      OBVIOUS
    <2>6. first = wanted
      <3>1. first = [i \in 1..3 |-> first[i]] /\ wanted = [i \in 1..3 |-> wanted[i]]
        BY <2>5
      <3> HIDE DEF first, wanted
      <3> QED
        BY <2>4, <3>1
    <2> QED
      BY <2>1, <2>6 DEF Recorded
  <1> QED
    BY <1>1, Invariance, PTL

\* No writer of order_executions, however old the status it started from,
\* records a status the exchange has not reached.
THEOREM BackedByExchange == Spec => []NeverAheadOfExchange
  <1>1. IndInv => NeverAheadOfExchange
    BY DEF IndInv, OrdersOK, OrderOK, NeverAheadOfExchange
  <1> QED
    BY <1>1, Invariance, PTL

\* Three writers that check the graph on stale copies still leave a trail of
\* edges that ends at the row's status: transition_order_execution and the
\* unique (order_execution_id, sequence_number) suffice.
THEOREM TrailCorrectness == Spec => []TrailMatchesStatus
  <1>1. IndInv => TrailMatchesStatus
    BY DEF IndInv, OrdersOK, OrderOK, TrailMatchesStatus
  <1> QED
    BY <1>1, Invariance, PTL

\* A submission whose risk check reads after activate_emergency_stop, with no
\* flag switched on again since, never comes to prepare a request.
THEOREM EmergencyStop == Spec => []StopCutsOff
  <1>1. IndInv => StopCutsOff
    BY DEF IndInv, SessionsOK, SessionOK, StopCutsOff, Sessions
  <1> QED
    BY <1>1, Invariance, PTL
-----------------------------------------------------------------------------
(***************************************************************************)
(* TestnetOrders implements OrderOnce.  Only an insert, a commit and the   *)
(* request to the exchange move the record of an order; a commit to a row  *)
(* that was never sent can only store a failure.                           *)
(***************************************************************************)
\* The state of OrderOnce, as Once maps it.
onceVars == <<[o \in Orders |-> RecordOf(o)], posts>>

\* What becomes of the record of order o when a step touches no other.
OnceMove(o) ==
    \/ RecordOf(o) = "none" /\ RecordOf(o)' = "kept" /\ posts'[o] = posts[o]
    \/ /\ RecordOf(o) \in {"none", "kept"} /\ posts[o] = 0
       /\ RecordOf(o)' = "refused" /\ posts'[o] = posts[o]
    \/ /\ RecordOf(o) = "kept" /\ RecordOf(o)' = "kept"
       /\ posts[o] = 0 /\ posts'[o] = 1
    \/ RecordOf(o)' = RecordOf(o) /\ posts'[o] = posts[o]

OnlyOrder(o) ==
    /\ posts' \in [Orders -> Nat]
    /\ \A n \in Orders \ {o} : status'[n] = status[n] /\ posts'[n] = posts[n]

\* What the abstract record of an order is.
LEMMA RecordCases ==
    ASSUME NEW o \in Orders
    PROVE  /\ status[o] = Absent => RecordOf(o) = "none"
           /\ status[o] \in TERMINAL_ORDER_STATUSES /\ posts[o] = 0
                => RecordOf(o) = "refused"
           /\ status[o] \notin TERMINAL_ORDER_STATUSES \cup {Absent}
                => RecordOf(o) = "kept"
           /\ status[o] # Absent /\ posts[o] # 0 => RecordOf(o) = "kept"
  BY DEF RecordOf, TERMINAL_ORDER_STATUSES, Absent

\* The same after a step.
LEMMA RecordCasesNext ==
    ASSUME NEW o \in Orders
    PROVE  /\ status'[o] = Absent => RecordOf(o)' = "none"
           /\ status'[o] \in TERMINAL_ORDER_STATUSES /\ posts'[o] = 0
                => RecordOf(o)' = "refused"
           /\ status'[o] \notin TERMINAL_ORDER_STATUSES \cup {Absent}
                => RecordOf(o)' = "kept"
           /\ status'[o] # Absent /\ posts'[o] # 0 => RecordOf(o)' = "kept"
  BY DEF RecordOf, TERMINAL_ORDER_STATUSES, Absent

\* Where neither status nor requests sent change, the abstract state does not.
LEMMA OnceStutter ==
    ASSUME UNCHANGED <<status, posts>>
    PROVE  UNCHANGED onceVars
  BY DEF RecordOf, onceVars

\* A step that moves one order as an abstract step would is that step.
LEMMA OnceAbstraction ==
    ASSUME TypeOK, NEW o \in Orders, OnlyOrder(o), OnceMove(o)
    PROVE  [Once!Next]_onceVars
  <1> DEFINE rec == [n \in Orders |-> RecordOf(n)]
             rec2 == [n \in Orders |-> RecordOf(n)']
  <1>1. posts \in [Orders -> Nat] /\ posts' \in [Orders -> Nat]
    BY DEF TypeOK, OnlyOrder
  <1>2. \A n \in Orders \ {o} : RecordOf(n)' = RecordOf(n) /\ posts'[n] = posts[n]
    BY DEF OnlyOrder, RecordOf
  <1>3. rec2 = [rec EXCEPT ![o] = RecordOf(o)']
    BY <1>2
  <1>4. posts' = [posts EXCEPT ![o] = posts'[o]]
    BY <1>1, <1>2
  <1>5. rec' = rec2
    BY DEF RecordOf
  <1>6. rec[o] = RecordOf(o)
    OBVIOUS
  <1>7. CASE RecordOf(o) = "none" /\ RecordOf(o)' = "kept"
             /\ posts'[o] = posts[o]
    <2>1. posts' = posts
      BY <1>1, <1>4, <1>7
    <2>2. Once!Keep(o)
      BY <1>3, <1>5, <1>6, <1>7, <2>1 DEF Once!Keep
    <2> QED
      BY <2>2 DEF Once!Next, onceVars
  <1>8. CASE /\ RecordOf(o) \in {"none", "kept"} /\ posts[o] = 0
             /\ RecordOf(o)' = "refused" /\ posts'[o] = posts[o]
    <2>1. posts' = posts
      BY <1>1, <1>4, <1>8
    <2>2. Once!Refuse(o)
      BY <1>3, <1>5, <1>6, <1>8, <2>1 DEF Once!Refuse
    <2> QED
      BY <2>2 DEF Once!Next, onceVars
  <1>9. CASE /\ RecordOf(o) = "kept" /\ RecordOf(o)' = "kept"
             /\ posts[o] = 0 /\ posts'[o] = 1
    <2>1. rec2 = rec
      BY <1>2, <1>9
    <2>2. Once!Send(o)
      BY <1>4, <1>5, <1>6, <1>9, <2>1 DEF Once!Send
    <2> QED
      BY <2>2 DEF Once!Next, onceVars
  <1>10. CASE RecordOf(o)' = RecordOf(o) /\ posts'[o] = posts[o]
    <2>1. rec2 = rec /\ posts' = posts
      BY <1>1, <1>2, <1>4, <1>10
    <2> QED
      BY <1>5, <2>1 DEF onceVars
  <1> QED
    BY <1>7, <1>8, <1>9, <1>10 DEF OnceMove

\* Initially nothing is recorded and nothing sent.
LEMMA OnceInit == Init => Once!Init
  <1>1. Init => \A o \in Orders : RecordOf(o) = "none"
    BY RecordCases DEF Init
  <1> QED
    BY <1>1 DEF Init, Once!Init

\* The INSERT records the order as kept, or as refused by its limits.
LEMMA OnceInsert ==
    ASSUME IndInv, NEW s \in Submitters, InsertExecution(s)
    PROVE  [Once!Next]_onceVars
  <1>1. TypeOK /\ SessionOK(s) /\ UNCHANGED posts /\ pc[s] = "insert"
    BY DEF IndInv, SessionsOK, Sessions, InsertExecution, exch
  <1>2. PICK o \in Orders : o = loc[s].order
    BY <1>1 DEF SessionOK, SubmitterPC
  <1>3. CASE UNCHANGED rows
    BY <1>1, <1>3, OnceStutter DEF rows
  <1>4. CASE /\ status[o] = Absent
             /\ \E new \in {"SUBMITTED", "REJECTED"} :
                   status' = [status EXCEPT ![o] = new]
    <2>1. status'[o] \in {"SUBMITTED", "REJECTED"} /\ posts[o] = 0
      BY <1>1, <1>4 DEF TypeOK, IndInv, OrdersOK, OrderOK
    <2>2. OnlyOrder(o)
      BY <1>1, <1>4 DEF OnlyOrder, TypeOK
    <2>3. OnceMove(o)
      BY <1>1, <1>4, <2>1, RecordCases, RecordCasesNext
      DEF OnceMove, TERMINAL_ORDER_STATUSES, Absent
    <2> QED
      BY <1>1, <2>2, <2>3, OnceAbstraction
  <1> QED
    BY <1>2, <1>3, <1>4 DEF InsertExecution

\* The request: its row is SUBMITTED and nothing was sent before.
LEMMA OncePost ==
    ASSUME IndInv, NEW s \in Submitters, Post(s)
    PROVE  [Once!Next]_onceVars
  <1>1. TypeOK /\ SessionOK(s) /\ UNCHANGED status /\ pc[s] = "post"
    BY DEF IndInv, SessionsOK, Sessions, Post, rows
  <1>2. PICK o \in Orders : o = loc[s].order
    BY <1>1 DEF SessionOK, SubmitterPC
  <1>3. status[o] = "SUBMITTED" /\ posts[o] = 0
    BY <1>1, <1>2 DEF SessionOK, UnsentPC, Unsent
  <1>4. posts' = [posts EXCEPT ![o] = posts[o] + 1]
    BY <1>2 DEF Post
  <1>5. OnlyOrder(o) /\ posts'[o] = 1
    BY <1>1, <1>3, <1>4 DEF OnlyOrder, TypeOK
  <1>6. OnceMove(o)
    BY <1>1, <1>3, <1>5, RecordCases, RecordCasesNext
    DEF OnceMove, TERMINAL_ORDER_STATUSES, Absent
  <1> QED
    BY <1>1, <1>5, <1>6, OnceAbstraction

\* A commit leaves the record, or refuses an order that was not sent.
LEMMA OnceCommit ==
    ASSUME IndInv, NEW p \in Sessions, Commit(p)
    PROVE  [Once!Next]_onceVars
  <1>1. TypeOK /\ SessionOK(p) /\ UNCHANGED posts /\ pc[p] = "commit"
    BY DEF IndInv, SessionsOK, Commit, exch
  <1>2. PICK o \in Orders : o = loc[p].order
    BY <1>1 DEF SessionOK, RowPC
  <1>3. PICK to \in OrderExecutionStatus :
            to = loc[p].to /\ Backed(to, ex[o]) /\ to # Absent
    BY <1>1, <1>2 DEF SessionOK, WritePC, PendingOK, OrderExecutionStatus, Absent
  <1>4. CASE UNCHANGED rows
    BY <1>1, <1>4, OnceStutter DEF rows
  <1>5. CASE WriteTransition(o, loc[p])
    <2>1. status' = [status EXCEPT ![o] = to]
      BY <1>3, <1>5 DEF WriteTransition
    <2>2. /\ OnlyOrder(o) /\ status'[o] = to /\ status[o] # Absent
          /\ posts'[o] = posts[o]
      BY <1>1, <1>2, <2>1 DEF OnlyOrder, TypeOK, SessionOK, RowPC
    <2>3. posts[o] = 0 => to = "FAILED"
      <3> SUFFICES ASSUME posts[o] = 0 PROVE to = "FAILED"
        OBVIOUS
      <3>1. ex[o] = "NONE"
        BY DEF IndInv, OrdersOK, OrderOK
      <3> QED
        BY <1>3, <3>1, BackedNone
    <2>4. CASE posts[o] = 0
      <3>1. RecordOf(o) \in {"kept", "refused"}
        BY <2>2, <2>4, RecordCases
      <3>2. RecordOf(o)' = "refused"
        BY <2>2, <2>3, <2>4, RecordCasesNext DEF TERMINAL_ORDER_STATUSES
      <3>3. OnceMove(o)
        BY <2>2, <2>4, <3>1, <3>2 DEF OnceMove
      <3> QED
        BY <1>1, <2>2, <3>3, OnceAbstraction
    <2>5. CASE posts[o] # 0
      <3>1. OnceMove(o)
        BY <1>3, <2>2, <2>5, RecordCases, RecordCasesNext DEF OnceMove
      <3> QED
        BY <1>1, <2>2, <3>1, OnceAbstraction
    <2> QED
      BY <2>4, <2>5
  <1> QED
    BY <1>2, <1>4, <1>5 DEF Commit

\* Every step is a step of OrderOnce or changes nothing there.
LEMMA OnceStep ==
    IndInv /\ [Next]_vars => [Once!Next]_onceVars
  <1> SUFFICES ASSUME IndInv, [Next]_vars PROVE [Once!Next]_onceVars
    OBVIOUS
  <1>1. CASE UNCHANGED <<status, posts>>
    BY <1>1, OnceStutter
  <1>2. ASSUME NEW s \in Submitters, InsertExecution(s)
        PROVE  [Once!Next]_onceVars
    BY <1>2, OnceInsert
  <1>3. ASSUME NEW s \in Submitters, Post(s) PROVE [Once!Next]_onceVars
    BY <1>3, OncePost
  <1>4. ASSUME NEW p \in Sessions, Commit(p) PROVE [Once!Next]_onceVars
    BY <1>4, OnceCommit
  <1> USE DEF rows, exch
  <1>5. OperatorStep => UNCHANGED <<status, posts>>
    BY DEF OperatorStep, update_account, patch_risk_settings,
           activate_emergency_stop, deactivate_emergency_stop
  <1>6. \A o \in Orders, st \in ExchangeStatus :
            ExchangeMove(o, st) => UNCHANGED <<status, posts>>
    BY DEF ExchangeMove
  <1>7. \A s \in Submitters :
            /\ \A o \in Orders :
                  submit_testnet_order(s, o) => UNCHANGED <<status, posts>>
            /\ (SubmitterStep(s) /\ ~InsertExecution(s) /\ ~Post(s))
                  => UNCHANGED <<status, posts>>
    BY DEF submit_testnet_order, SubmitterStep, assert_new_orders_allowed,
           ReadAccount, check_testnet_order_gate, FindExisting, CheckRisk,
           Prepare, Answer
  <1>8. \A r \in Reconcilers :
            reconcile_pending_testnet_orders(r) \/ ReconcilerStep(r)
            => UNCHANGED <<status, posts>>
    BY DEF reconcile_pending_testnet_orders, ReconcilerStep, ListPending,
           PickOrder, LookupFails, LookupOrder, FinishReconcile
  <1>9. \A c \in Streams :
            consume_bounded_testnet_user_stream(c) \/ StreamStep(c)
            => UNCHANGED <<status, posts>>
    BY DEF consume_bounded_testnet_user_stream, StreamStep, Connect, Receive,
           OtherEvent, MessageLimit, Disconnect
  <1>10. \A p \in Sessions : ReadSeq(p) \/ Crash(p) => UNCHANGED <<status, posts>>
    BY DEF ReadSeq, Crash
  <1>11. UNCHANGED vars => UNCHANGED <<status, posts>>
    BY DEF vars
  <1> QED
    BY <1>1, <1>2, <1>3, <1>4, <1>5, <1>6, <1>7, <1>8, <1>9, <1>10, <1>11
    DEF Next, CommitStep

\* Submission does what OrderOnce promises while reconciler and stream write
\* the same row: recorded first, sent at most once, and never sent after the
\* risk check or a failure before the request has refused it.
THEOREM SubmitsOnce == Spec => ImplementsOrderOnce
  BY OnceInit, OnceStep, Invariance, PTL
  DEF Spec, ImplementsOrderOnce, Once!Spec, onceVars
=============================================================================
