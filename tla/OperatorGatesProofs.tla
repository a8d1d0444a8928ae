------------------------ MODULE OperatorGatesProofs ------------------------
(***************************************************************************)
(* The safety properties of OperatorGates, proved for any number of        *)
(* concurrent requests, any instruments and amounts, any cap and duration, *)
(* and any campaign.                                                       *)
(*                                                                         *)
(* The audit log only grows, so what a request has found stays where it    *)
(* found it; what has to be carried along is what the request learnt       *)
(* before: that the adapters are switched on (a submission) or off (an     *)
(* approval), and that no row it has found was superseded by one that was  *)
(* committed when it began.                                                *)
(***************************************************************************)
EXTENDS OperatorGates, TLAPS

-----------------------------------------------------------------------------
(***************************************************************************)
(* The inductive invariant.                                                *)
(***************************************************************************)
EarlyPC == {"idle", "account", "risk", "key", "exchange", "authorize"}

\* An approval was granted while the adapters were off, in this process or in
\* an earlier one.
ApprovalsOK ==
    \A i \in DOMAIN log :
        log[i].action = "approval" =>
            /\ log[i].good /\ log[i].boot <= boot
            /\ adapters => log[i].boot < boot

\* What a request has looked up so far is what its gate asks for.
Cites(r) ==
    \A i \in 1..Len(r.ev) :
        /\ i \in DOMAIN Evidence(r.kind) /\ r.ev[i] \in DOMAIN log
        /\ log[r.ev[i]].action = Evidence(r.kind)[i] /\ log[r.ev[i]].good

\* None of the rows it has found was superseded when it began.
Current(r) ==
    \A i \in 1..Len(r.ev) :
        r.ev[i] \in DOMAIN log /\ ~Superseded(r.ev[i], r.seen)

Covered(r) ==
    /\ Len(r.ev) = 1 /\ r.ev[1] \in DOMAIN log
    /\ log[r.ev[1]].action = "approval" /\ log[r.ev[1]].what = r.what
    /\ r.cap <= log[r.ev[1]].cap
    /\ r.began <= log[r.ev[1]].at + Duration

RequestOK(label, r) ==
    /\ r.began <= clock /\ r.seen <= Len(log) /\ Current(r)
    /\ label \in EarlyPC => r.ev = <<>>
    /\ label \in {"risk", "key"} /\ r.kind = "submit" /\ r.ok => adapters
    /\ label \in {"risk", "key", "record"} /\ r.kind = "approval" =>
          r.ok /\ ~adapters
    /\ label = "exchange" => r.kind \in Probes
    /\ label = "evidence" => Cites(r) /\ Len(r.ev) < Len(Evidence(r.kind))
    /\ label = "record" => Cites(r) /\ Len(r.ev) = Len(Evidence(r.kind))
    /\ label = "authorize" => adapters
    /\ label \in {"credentials", "send"} => adapters /\ Covered(r)

RequestsOK == \A s \in Sessions : RequestOK(pc[s], req[s])

IndInv == TypeOK /\ EvidenceChain /\ ApprovalsOK /\ RequestsOK
-----------------------------------------------------------------------------
(***************************************************************************)
(* Facts about the operators.                                              *)
(***************************************************************************)
\* The citations of each gate.
LEMMA EvidenceCases ==
    /\ Evidence("review") = <<"real_check">>
    /\ Evidence("real_window") = <<"real_check", "review">>
    /\ Evidence("final_check") = <<"review", "real_window">>
    /\ \A kind \in Probes \cup {"approval", "submit"} : Evidence(kind) = <<>>
  BY DEF Evidence, Probes, Checks

\* Every kind of request has one of these lists.
LEMMA EvidenceTyped ==
    \A kind \in Kinds :
        Evidence(kind) \in Seq(Kinds) /\ Len(Evidence(kind)) \in 0..2
  <1>1. \A kind \in Kinds :
            kind \in Probes \cup {"approval", "submit"}
            \/ kind = "review" \/ kind = "real_window" \/ kind = "final_check"
    BY DEF Kinds, Probes, Checks
  <1>2. /\ "review" \in Kinds /\ "real_window" \in Kinds
        /\ "real_check" \in Kinds
    BY DEF Kinds
  <1>3. /\ <<>> \in Seq(Kinds) /\ Len(<<>>) = 0
        /\ <<"real_check">> \in Seq(Kinds)
        /\ <<"real_check", "review">> \in Seq(Kinds)
        /\ <<"review", "real_window">> \in Seq(Kinds)
    BY <1>2
  <1>4. /\ Len(<<"real_check">>) = 1 /\ Len(<<"real_check", "review">>) = 2
        /\ Len(<<"review", "real_window">>) = 2
    OBVIOUS
  <1> SUFFICES ASSUME NEW kind \in Kinds
               PROVE  Evidence(kind) \in Seq(Kinds)
                      /\ Len(Evidence(kind)) \in 0..2
    OBVIOUS
  <1>5. CASE kind \in Probes \cup {"approval", "submit"}
    <2>1. Evidence(kind) = <<>> BY <1>5, EvidenceCases
    <2>2. QED BY <1>3, <2>1
  <1>6. CASE kind = "review"
    <2>1. Evidence(kind) = <<"real_check">> BY <1>6, EvidenceCases
    <2>2. QED BY <1>3, <1>4, <2>1
  <1>7. CASE kind = "real_window"
    <2>1. Evidence(kind) = <<"real_check", "review">> BY <1>7, EvidenceCases
    <2>2. QED BY <1>3, <1>4, <2>1
  <1>8. CASE kind = "final_check"
    <2>1. Evidence(kind) = <<"review", "real_window">> BY <1>8, EvidenceCases
    <2>2. QED BY <1>3, <1>4, <2>1
  <1>9. QED BY <1>1, <1>5, <1>6, <1>7, <1>8

\* The flag of the adapters an account check vouches for.
LEMMA AccountPassesFacts ==
    ASSUME TypeOK, NEW kind \in Kinds, NEW a \in Account
    PROVE  /\ AccountPasses(kind, a) \in BOOLEAN
           /\ kind = "submit" /\ AccountPasses(kind, a) => adapters
           /\ kind = "approval" /\ AccountPasses(kind, a) => ~adapters
  <1>1. adapters \in BOOLEAN /\ a.active \in BOOLEAN /\ a.trading \in BOOLEAN
    BY DEF TypeOK, Account
  <1>2. CASE kind = "submit" BY <1>1, <1>2 DEF AccountPasses
  <1>3. CASE kind = "approval" BY <1>1, <1>3 DEF AccountPasses
  <1>4. CASE kind = "testnet_check" BY <1>1, <1>4 DEF AccountPasses
  <1>5. CASE kind \notin {"submit", "approval", "testnet_check"}
    BY <1>1, <1>5 DEF AccountPasses
  <1>6. QED BY <1>2, <1>3, <1>4, <1>5

\* A fresh request is one, and promises nothing.
LEMMA NoRequestTyped ==
    NoRequest \in Request /\ AnyInstrument \in Instruments
  <1>1. AnyInstrument \in Instruments BY GatesAssumption DEF AnyInstrument
  <1>2. <<>> \in Seq(Nat \ {0}) OBVIOUS
  <1>3. "submit" \in Kinds /\ FALSE \in BOOLEAN /\ 0 \in Nat /\ -1 \in Int
    BY DEF Kinds
  <1>4. QED BY <1>1, <1>2, <1>3 DEF NoRequest, Request

\* Nothing is asked of a session without a request.
LEMMA NoRequestOK == TypeOK => RequestOK("idle", NoRequest)
  BY DEF RequestOK, Current, NoRequest, TypeOK

\* The initial rows are the campaign's.
LEMMA InitInv == Init => IndInv
  <1> SUFFICES ASSUME Init PROVE IndInv OBVIOUS
  <1> USE DEF Init
  <1>1. campaign \in Campaign BY GatesAssumption
  <1>2. TypeOK
    <2>1. /\ account \in Account /\ risk \in Risk /\ key \in Key
          /\ log \in Seq(Row)
      BY <1>1 DEF Campaign
    <2>2. "idle" \in PCs BY DEF PCs
    <2>3. QED BY <2>1, <2>2, NoRequestTyped DEF TypeOK
  <1>3. EvidenceChain BY EarlierRowsAssumption DEF EvidenceChain
  <1>4. ApprovalsOK BY EarlierRowsAssumption DEF ApprovalsOK
  <1>5. RequestsOK BY <1>2, NoRequestOK DEF RequestsOK
  <1>6. QED BY <1>2, <1>3, <1>4, <1>5 DEF IndInv
-----------------------------------------------------------------------------
(***************************************************************************)
(* What a request knows survives the steps of the others.                  *)
(***************************************************************************)
\* Rows are appended to the audit log and never change.
Grows ==
    /\ log' \in Seq(Row) /\ Len(log) <= Len(log')
    /\ \A i \in 1..Len(log) : log'[i] = log[i]

\* What a request cites stays, since audit rows are only added.
LEMMA CitesStays ==
    ASSUME TypeOK, Grows, NEW r \in Request, Cites(r)
    PROVE  Cites(r)'
  <1> SUFFICES ASSUME NEW i \in 1..Len(r.ev)
               PROVE  /\ i \in DOMAIN Evidence(r.kind)
                      /\ r.ev[i] \in DOMAIN log'
                      /\ log'[r.ev[i]].action = Evidence(r.kind)[i]
                      /\ log'[r.ev[i]].good
    BY DEF Cites
  <1>1. /\ i \in DOMAIN Evidence(r.kind) /\ r.ev[i] \in DOMAIN log
        /\ log[r.ev[i]].action = Evidence(r.kind)[i] /\ log[r.ev[i]].good
    BY DEF Cites
  <1>2. r.ev[i] \in DOMAIN log' /\ log'[r.ev[i]] = log[r.ev[i]]
    BY <1>1 DEF TypeOK, Grows
  <1>3. QED BY <1>1, <1>2

\* Whether a row was superseded among rows that are there does not change.
LEMMA CurrentStays ==
    ASSUME TypeOK, Grows, NEW r \in Request, r.seen <= Len(log), Current(r)
    PROVE  Current(r)'
  <1> SUFFICES ASSUME NEW i \in 1..Len(r.ev)
               PROVE  /\ r.ev[i] \in DOMAIN log'
                      /\ ~Superseded(r.ev[i], r.seen)'
    BY DEF Current
  <1>1. PICK k : k = r.ev[i] OBVIOUS
  <1>2. k \in DOMAIN log /\ ~Superseded(k, r.seen) BY <1>1 DEF Current
  <1>3. k \in DOMAIN log' /\ log'[k] = log[k] BY <1>2 DEF TypeOK, Grows
  <1>4. \A j \in 1..r.seen : log'[j] = log[j]
    BY DEF TypeOK, Grows, Request
  <1>5. ~Superseded(k, r.seen)' BY <1>2, <1>3, <1>4 DEF Superseded
  <1>6. QED BY <1>1, <1>3, <1>5

\* An approval that covers an order goes on covering it.
LEMMA CoveredStays ==
    ASSUME TypeOK, Grows, NEW r \in Request, Covered(r)
    PROVE  Covered(r)'
  BY DEF TypeOK, Grows, Covered

\* A request that does nothing stays right while others add rows, as long as no
\* restart switches the adapters.
LEMMA RequestStays ==
    ASSUME TypeOK, Grows, clock' \in Nat, clock <= clock',
           adapters' = adapters,
           NEW label \in PCs, NEW r \in Request, RequestOK(label, r)
    PROVE  RequestOK(label, r)'
  <1>1. r.seen \in Nat /\ r.began \in Nat /\ clock \in Nat
    BY DEF Request, TypeOK
  <1>2. (r.began <= clock)' BY <1>1 DEF RequestOK
  <1>3. (r.seen <= Len(log))' /\ Current(r)'
    BY <1>1, CurrentStays DEF RequestOK, Grows, TypeOK
  <1>4. label \in {"evidence", "record"} => Cites(r)'
    BY CitesStays DEF RequestOK
  <1>5. label \in {"credentials", "send"} => Covered(r)'
    BY CoveredStays DEF RequestOK
  <1>6. QED BY <1>2, <1>3, <1>4, <1>5 DEF RequestOK

\* A step of one session that leaves the audit log as it is.
LEMMA LocalStep ==
    ASSUME IndInv, UNCHANGED <<account, key, envvars, log>>, risk' \in Risk,
           NEW s \in Sessions, NEW label \in PCs, NEW r \in Request,
           RequestOK(label, r),
           pc' = [pc EXCEPT ![s] = label], req' = [req EXCEPT ![s] = r]
    PROVE  IndInv'
  <1> USE DEF IndInv, envvars
  <1>1. TypeOK' BY DEF TypeOK
  <1>2. EvidenceChain' BY DEF EvidenceChain
  <1>3. ApprovalsOK' BY DEF ApprovalsOK
  <1>4. Grows BY DEF Grows, TypeOK
  <1>5. ASSUME NEW t \in Sessions PROVE RequestOK(pc[t], req[t])'
    <2>1. clock' \in Nat /\ clock <= clock' BY DEF TypeOK
    <2>2. PICK l \in PCs : l = pc'[t] BY <1>1, <1>5 DEF TypeOK
    <2>3. PICK q \in Request : q = req'[t] BY <1>1, <1>5 DEF TypeOK
    <2>4. RequestOK(l, q)
      BY <1>5, <2>2, <2>3 DEF RequestsOK, TypeOK
    <2>5. RequestOK(l, q)' BY <1>4, <2>1, <2>4, RequestStays
    <2>6. QED BY <2>2, <2>3, <2>5
  <1>6. QED BY <1>1, <1>2, <1>3, <1>5 DEF RequestsOK

\* A request ends without a record.
LEMMA ReturnStep ==
    ASSUME IndInv, UNCHANGED <<account, key, envvars, log>>, risk' \in Risk,
           NEW s \in Sessions, Return(s)
    PROVE  IndInv'
  <1>1. "idle" \in PCs BY DEF PCs
  <1>2. RequestOK("idle", NoRequest) BY NoRequestOK DEF IndInv
  <1>3. pc' = [pc EXCEPT ![s] = "idle"] /\ req' = [req EXCEPT ![s] = NoRequest]
    BY DEF Return, Goto
  <1>4. QED BY <1>1, <1>2, <1>3, NoRequestTyped, LocalStep

\* A request that has read one more row goes on, or is dropped.
LEMMA GoOnStep ==
    ASSUME IndInv, UNCHANGED <<account, key, envvars, log>>, risk' \in Risk,
           NEW s \in Sessions, NEW ok \in BOOLEAN, NEW label \in PCs,
           GoOn(s, ok, label),
           \/ ok
           \/ pc[s] # "key" /\ req[s].kind \in {"submit"} \cup Probes
           \/ pc[s] = "key" /\ req[s].kind \in Checks
           => RequestOK(label, [req[s] EXCEPT !.ok = ok])
    PROVE  IndInv'
  <1> DEFINE r == [req[s] EXCEPT !.ok = ok]
  <1>1. r \in Request BY DEF IndInv, TypeOK, Request
  <1>2. CASE Return(s) BY <1>2, ReturnStep
  <1>3. CASE ~ Return(s)
    <2>1. /\ req' = [req EXCEPT ![s] = r] /\ pc' = [pc EXCEPT ![s] = label]
          /\ RequestOK(label, r)
      BY <1>3 DEF GoOn, Goto, Checks, Probes
    <2>2. QED BY <1>1, <2>1, LocalStep
  <1>4. QED BY <1>2, <1>3
-----------------------------------------------------------------------------
(***************************************************************************)
(* The steps of a request that write no audit row.                         *)
(***************************************************************************)
\* What the latest good row of an action is.
LEMMA LatestGoodFacts ==
    ASSUME TypeOK, NEW action \in Kinds, NEW i \in LatestGood(action), i # 0
    PROVE  /\ i \in DOMAIN log /\ log[i].action = action /\ log[i].good
           /\ \A j \in DOMAIN log :
                 log[j].action = action /\ log[j].good => log[j].at <= log[i].at
  BY DEF LatestGood

\* What is known of the request a step works on.
LEMMA RequestFacts ==
    ASSUME IndInv, NEW s \in Sessions
    PROVE  /\ pc[s] \in PCs /\ req[s] \in Request /\ RequestOK(pc[s], req[s])
           /\ req[s].kind \in Kinds /\ req[s].ok \in BOOLEAN
           /\ req[s].cap \in Nat /\ req[s].what \in Instruments
           /\ req[s].ev \in Seq(Nat \ {0})
           /\ req[s].began \in Nat /\ req[s].seen \in Nat
  BY DEF IndInv, TypeOK, RequestsOK, Request

\* The columns of an audit row.
LEMMA RowFacts ==
    ASSUME TypeOK, NEW i \in DOMAIN log
    PROVE  /\ log[i] \in Row /\ log[i].at \in Nat /\ log[i].cap \in Nat
           /\ log[i].ev \in Seq(Nat \ {0}) /\ log[i].boot \in Nat
  <1>1. log[i] \in Row BY DEF TypeOK
  <1>2. QED BY <1>1 DEF Row

\* No row is newer than the one a lookup finds.
LEMMA LatestIsCurrent ==
    ASSUME TypeOK, NEW action \in Kinds, NEW i \in LatestGood(action), i # 0,
           NEW n \in Nat, n <= Len(log)
    PROVE  ~Superseded(i, n)
  <1> SUFFICES ASSUME NEW j \in 1..n, log[j].action = log[i].action,
                      log[j].good, log[j].at > log[i].at
               PROVE  FALSE
    BY DEF Superseded
  <1>1. i \in DOMAIN log /\ log[i].action = action /\ j \in DOMAIN log
    BY LatestGoodFacts DEF TypeOK
  <1>2. log[j].at <= log[i].at BY <1>1, LatestGoodFacts
  <1>3. log[j].at \in Nat /\ log[i].at \in Nat BY <1>1, RowFacts
  <1>4. QED BY <1>2, <1>3

\* The local values of a request that begins.
Fresh(kind, c, n) ==
    [NoRequest EXCEPT !.kind = kind, !.ok = TRUE, !.began = c, !.seen = n]

\* The fields of a request that begins.
LEMMA FreshRequest ==
    ASSUME NEW kind \in Kinds, NEW c \in Nat, NEW n \in Nat
    PROVE  /\ Fresh(kind, c, n) \in Request
           /\ Fresh(kind, c, n).began = c /\ Fresh(kind, c, n).seen = n
           /\ Fresh(kind, c, n).ev = <<>>
  <1> DEFINE r1 == [NoRequest EXCEPT !.kind = kind]
             r2 == [r1 EXCEPT !.ok = TRUE]
             r3 == [r2 EXCEPT !.began = c]
             r4 == [r3 EXCEPT !.seen = n]
  <1>1. NoRequest \in Request /\ NoRequest.ev = <<>>
    BY NoRequestTyped DEF NoRequest
  <1>2. r1 \in Request /\ r1.ev = <<>> BY <1>1 DEF Request
  <1> HIDE DEF r1
  <1>3. r2 \in Request /\ r2.ev = <<>> BY <1>2 DEF Request
  <1> HIDE DEF r2
  <1>4. r3 \in Request /\ r3.ev = <<>> /\ r3.began = c BY <1>3 DEF Request
  <1> HIDE DEF r3
  <1>5. /\ r4 \in Request /\ r4.ev = <<>> /\ r4.began = c
        /\ r4.seen = n
    BY <1>4 DEF Request
  <1>6. Fresh(kind, c, n) = r4 BY DEF Fresh, r1, r2, r3
  <1> HIDE DEF r4
  <1>7. QED BY <1>5, <1>6

\* A request that has cited nothing yet.
LEMMA NothingCited ==
    ASSUME NEW r, r.ev = <<>>
    PROVE  Cites(r) /\ Current(r) /\ Len(r.ev) = 0
  BY DEF Cites, Current

\* A request begins.
LEMMA BeginStep ==
    ASSUME IndInv, NEW s \in Sessions, NEW kind \in Kinds, Begin(s, kind)
    PROVE  IndInv'
  <1> DEFINE n == Len(log)
             r == Fresh(kind, clock, n)
  <1>1. clock \in Nat /\ n \in Nat BY DEF IndInv, TypeOK
  <1>2. req' = [req EXCEPT ![s] = r] BY DEF Begin, Fresh
  <1> HIDE DEF n
  <1>3. r \in Request /\ r.began = clock /\ r.seen = n /\ r.ev = <<>>
    BY <1>1, FreshRequest
  <1> HIDE DEF r
  <1>4. Current(r) BY <1>3, NothingCited
  <1>5. clock <= clock /\ n <= Len(log) BY <1>1 DEF n
  <1>6. RequestOK("account", r)
    BY <1>3, <1>4, <1>5 DEF RequestOK
  <1>7. "account" \in PCs BY DEF PCs
  <1>8. /\ pc' = [pc EXCEPT ![s] = "account"]
        /\ UNCHANGED <<account, key, envvars, log>> /\ risk' \in Risk
    BY DEF Begin, Goto, rowvars, IndInv, TypeOK
  <1>9. QED BY <1>2, <1>3, <1>6, <1>7, <1>8, LocalStep

\* The result of a lookup is stored in the request and nothing else is.
LEMMA SetOk ==
    ASSUME NEW q \in Request, NEW ok \in BOOLEAN
    PROVE  LET r == [q EXCEPT !.ok = ok]
           IN /\ r \in Request /\ r.ok = ok
              /\ r.kind = q.kind /\ r.ev = q.ev /\ r.cap = q.cap
              /\ r.what = q.what /\ r.began = q.began /\ r.seen = q.seen
  BY DEF Request

\* The account is read: a submission that goes on saw the adapters on, an
\* approval saw them off.
LEMMA ReadAccountStep ==
    ASSUME IndInv, NEW s \in Sessions, ReadAccount(s)
    PROVE  IndInv'
  <1> DEFINE kind == req[s].kind
             label == IF kind \in Probes THEN "key" ELSE "risk"
  <1>1. /\ AccountPasses(kind, account) \in BOOLEAN
        /\ kind = "submit" /\ AccountPasses(kind, account) => adapters
        /\ kind = "approval" /\ AccountPasses(kind, account) => ~adapters
    BY RequestFacts, AccountPassesFacts DEF IndInv, TypeOK
  <1>2. PICK ok \in BOOLEAN : ok = AccountPasses(kind, account) BY <1>1
  <1>3. GoOn(s, ok, label) /\ pc[s] = "account" BY <1>2 DEF ReadAccount
  <1>4. /\ UNCHANGED <<account, key, envvars, log>> /\ risk' \in Risk
        /\ label \in PCs
    BY DEF ReadAccount, rowvars, IndInv, TypeOK, PCs
  <1> DEFINE r == [req[s] EXCEPT !.ok = ok]
  <1>5. /\ r.ok = ok /\ r.kind = kind /\ r.ev = req[s].ev
        /\ r.began = req[s].began /\ r.seen = req[s].seen
    BY RequestFacts, SetOk
  <1>6. ASSUME ok \/ kind \in {"submit"} \cup Probes
        PROVE  RequestOK(label, r)
    <2>1. /\ req[s].began <= clock /\ req[s].seen <= Len(log)
          /\ req[s].ev = <<>>
      BY <1>3, RequestFacts DEF RequestOK, EarlyPC
    <2>2. kind = "submit" /\ ok => adapters BY <1>1, <1>2
    <2>3. kind = "approval" => ok /\ ~adapters
      BY <1>1, <1>2, <1>6 DEF Probes, Checks
    <2>4. label \in {"key", "risk"} OBVIOUS
    <2> HIDE DEF label, r
    <2>5. Current(r) BY <1>5, <2>1, NothingCited
    <2>6. QED BY <1>5, <2>1, <2>2, <2>3, <2>4, <2>5 DEF RequestOK
  <1>7. QED BY <1>3, <1>4, <1>6, GoOnStep

\* The risk settings are read, or created.
LEMMA ReadRiskStep ==
    ASSUME IndInv, NEW s \in Sessions, ReadRisk(s)
    PROVE  IndInv'
  <1> DEFINE kind == req[s].kind
             label == IF kind = "final_check" THEN "evidence" ELSE "key"
  <1>1. req[s].ok \in BOOLEAN /\ RiskPasses(kind, risk') \in BOOLEAN
    BY RequestFacts DEF RiskPasses
  <1>2. PICK ok \in BOOLEAN : ok = (req[s].ok /\ RiskPasses(kind, risk'))
    BY <1>1
  <1>3. GoOn(s, ok, label) /\ pc[s] = "risk" BY <1>2 DEF ReadRisk
  <1>4. /\ UNCHANGED <<account, key, envvars, log>> /\ risk' \in Risk
        /\ label \in PCs
    BY DEF ReadRisk, IndInv, TypeOK, PCs, Risk
  <1> DEFINE r == [req[s] EXCEPT !.ok = ok]
  <1>5. /\ r.ok = ok /\ r.kind = kind /\ r.ev = req[s].ev
        /\ r.began = req[s].began /\ r.seen = req[s].seen
    BY RequestFacts, SetOk
  <1>6. ASSUME ok \/ kind \in {"submit"} \cup Probes
        PROVE  RequestOK(label, r)
    <2>1. /\ req[s].began <= clock /\ req[s].seen <= Len(log)
          /\ req[s].ev = <<>>
          /\ kind = "submit" /\ req[s].ok => adapters
          /\ kind = "approval" => ~adapters
      BY <1>3, RequestFacts DEF RequestOK, EarlyPC
    <2>2. ok => req[s].ok BY <1>1, <1>2
    <2>3. kind = "approval" => ok BY <1>6 DEF Probes, Checks
    <2>4. CASE kind = "final_check"
      <3>1. label = "evidence" BY <2>4
      <3>2. Evidence(kind) = <<"review", "real_window">>
        BY <2>4, EvidenceCases
      <3>3. Len(<<"review", "real_window">>) = 2 OBVIOUS
      <3> HIDE DEF label, r
      <3>4. Cites(r) /\ Current(r) /\ Len(r.ev) = 0
        BY <1>5, <2>1, NothingCited
      <3>5. Len(r.ev) < Len(Evidence(r.kind))
        BY <1>5, <3>2, <3>3, <3>4
      <3>6. QED BY <1>5, <2>1, <3>1, <3>4, <3>5 DEF RequestOK, EarlyPC
    <2>5. CASE kind # "final_check"
      <3>1. label = "key" BY <2>5
      <3> HIDE DEF label, r
      <3>2. Current(r) BY <1>5, <2>1, NothingCited
      <3>3. QED BY <1>5, <2>1, <2>2, <2>3, <3>1, <3>2 DEF RequestOK
    <2>6. QED BY <2>4, <2>5
  <1>7. QED BY <1>3, <1>4, <1>6, GoOnStep

\* The API key is read.
LEMMA ReadKeyStep ==
    ASSUME IndInv, NEW s \in Sessions, ReadKey(s)
    PROVE  IndInv'
  <1> DEFINE kind == req[s].kind
  <1>1. req[s].ok \in BOOLEAN /\ KeyPasses(kind, key) \in BOOLEAN
    BY RequestFacts DEF KeyPasses
  <1>2. PICK ok \in BOOLEAN : ok = (req[s].ok /\ KeyPasses(kind, key))
    BY <1>1
  <1> DEFINE label == CASE kind = "submit" -> "authorize"
                        [] kind = "approval" -> "record"
                        [] kind \in Probes -> IF ok THEN "exchange" ELSE "record"
                        [] OTHER -> "evidence"
             r == [req[s] EXCEPT !.ok = ok]
  <1>3. GoOn(s, ok, label) /\ pc[s] = "key" BY <1>2 DEF ReadKey
  <1>4. UNCHANGED <<account, key, envvars, log>> /\ risk' \in Risk
    BY DEF ReadKey, rowvars, IndInv, TypeOK
  <1>5. /\ r.ok = ok /\ r.kind = kind /\ r.ev = req[s].ev
        /\ r.began = req[s].began /\ r.seen = req[s].seen
    BY RequestFacts, SetOk
  <1>6. /\ kind \in Probes => kind # "submit" /\ kind # "approval"
        /\ kind \in Checks => kind \in Probes
        /\ kind \in Kinds
    BY RequestFacts DEF Probes, Checks
  <1>7. /\ kind = "submit" => label = "authorize"
        /\ kind = "approval" => label = "record"
        /\ kind \in Probes => label \in {"exchange", "record"}
        /\ kind \notin Probes \cup {"submit", "approval"} => label = "evidence"
    BY <1>6
  <1> HIDE DEF label
  <1>8. label \in PCs BY <1>7 DEF PCs
  <1>9. ASSUME ok \/ kind \in Checks
        PROVE  RequestOK(label, r)
    <2> HIDE DEF r
    <2>1. /\ r.began <= clock /\ r.seen <= Len(log) /\ r.ev = <<>>
          /\ kind = "submit" /\ req[s].ok => adapters
          /\ kind = "approval" => req[s].ok /\ ~adapters
      BY <1>3, <1>5, RequestFacts DEF RequestOK, EarlyPC
    <2>2. ok => req[s].ok BY <1>1, <1>2
    <2>3. Cites(r) /\ Current(r) /\ Len(r.ev) = 0 BY <2>1, NothingCited
    <2>4. CASE kind = "submit"
      <3>1. label = "authorize" /\ adapters
        BY <1>6, <1>7, <1>9, <2>1, <2>2, <2>4
      <3>2. QED BY <2>1, <2>3, <3>1 DEF RequestOK
    <2>5. CASE kind = "approval"
      <3>1. label = "record" /\ ok /\ ~adapters
        BY <1>6, <1>7, <1>9, <2>1, <2>5
      <3>2. Evidence(r.kind) = <<>> BY <1>5, <2>5, EvidenceCases
      <3>3. Len(r.ev) = Len(Evidence(r.kind)) BY <2>1, <3>2
      <3>4. QED BY <1>5, <2>1, <2>3, <3>1, <3>3 DEF RequestOK, EarlyPC
    <2>6. CASE kind \in Probes
      <3>1. label \in {"exchange", "record"} /\ kind # "approval"
        BY <1>6, <1>7, <2>6
      <3>2. Evidence(r.kind) = <<>> BY <1>5, <2>6, EvidenceCases
      <3>3. Len(r.ev) = Len(Evidence(r.kind)) BY <2>1, <3>2
      <3>4. QED BY <1>5, <2>1, <2>3, <2>6, <3>1, <3>3 DEF RequestOK, EarlyPC
    <2>7. CASE kind \notin Probes \cup {"submit", "approval"}
      <3>1. label = "evidence" BY <1>7, <2>7
      <3>2. Len(Evidence(kind)) > 0
        <4>1. kind = "review" \/ kind = "real_window" \/ kind = "final_check"
          BY <1>6, <2>7 DEF Kinds, Probes, Checks
        <4>2. /\ Len(<<"real_check">>) > 0
              /\ Len(<<"real_check", "review">>) > 0
              /\ Len(<<"review", "real_window">>) > 0
          OBVIOUS
        <4>3. CASE kind = "review"
          <5>1. Evidence(kind) = <<"real_check">> BY <4>3, EvidenceCases
          <5>2. QED BY <4>2, <5>1
        <4>4. CASE kind = "real_window"
          <5>1. Evidence(kind) = <<"real_check", "review">>
            BY <4>4, EvidenceCases
          <5>2. QED BY <4>2, <5>1
        <4>5. CASE kind = "final_check"
          <5>1. Evidence(kind) = <<"review", "real_window">>
            BY <4>5, EvidenceCases
          <5>2. QED BY <4>2, <5>1
        <4>6. QED BY <4>1, <4>3, <4>4, <4>5
      <3>3. Len(r.ev) < Len(Evidence(r.kind)) BY <1>5, <2>3, <3>2
      <3>4. QED BY <2>1, <2>3, <3>1, <3>3 DEF RequestOK, EarlyPC
    <2>8. QED BY <2>4, <2>5, <2>6, <2>7
  <1>10. QED BY <1>3, <1>4, <1>8, <1>9, GoOnStep

\* The exchange is asked, by a read-only check only.
LEMMA AskExchangeStep ==
    ASSUME IndInv, NEW s \in Sessions, AskExchange(s)
    PROVE  IndInv'
  <1>1. PICK ok \in BOOLEAN : req' = [req EXCEPT ![s].ok = ok]
    BY DEF AskExchange
  <1> DEFINE r == [req[s] EXCEPT !.ok = ok]
  <1>2. req' = [req EXCEPT ![s] = r] BY <1>1
  <1>3. /\ r \in Request /\ r.kind = req[s].kind /\ r.ev = req[s].ev
        /\ r.began = req[s].began /\ r.seen = req[s].seen
    BY RequestFacts, SetOk
  <1> HIDE DEF r
  <1>4. /\ pc' = [pc EXCEPT ![s] = "record"] /\ pc[s] = "exchange"
        /\ UNCHANGED <<account, key, envvars, log>> /\ risk' \in Risk
        /\ "record" \in PCs
    BY DEF AskExchange, Goto, rowvars, IndInv, TypeOK, PCs
  <1>5. /\ r.began <= clock /\ r.seen <= Len(log)
        /\ r.ev = <<>> /\ r.kind \in Probes
    BY <1>3, <1>4, RequestFacts DEF RequestOK, EarlyPC
  <1>6. Cites(r) /\ Current(r) /\ Len(r.ev) = 0 BY <1>5, NothingCited
  <1>7. Evidence(r.kind) = <<>> BY <1>5, EvidenceCases
  <1>8. Len(r.ev) = Len(Evidence(r.kind)) BY <1>5, <1>7
  <1>9. r.kind # "approval" BY <1>5 DEF Probes, Checks
  <1>10. RequestOK("record", r)
    BY <1>5, <1>6, <1>8, <1>9 DEF RequestOK, EarlyPC
  <1>11. QED BY <1>2, <1>3, <1>4, <1>10, LocalStep

\* A found row joins the citations.
Citing(q, i) == [q EXCEPT !.ev = Append(@, i)]

\* The fields of a request that has found one more row.
LEMMA CitingFacts ==
    ASSUME NEW q \in Request, NEW i \in Nat \ {0}
    PROVE  /\ Citing(q, i) \in Request /\ Citing(q, i).ev = Append(q.ev, i)
           /\ Citing(q, i).kind = q.kind /\ Citing(q, i).ok = q.ok
           /\ Citing(q, i).began = q.began /\ Citing(q, i).seen = q.seen
  <1>1. q.ev \in Seq(Nat \ {0}) BY DEF Request
  <1>2. Append(q.ev, i) \in Seq(Nat \ {0}) BY <1>1
  <1>3. QED BY <1>2 DEF Citing, Request

\* The newest good row of the next kind is looked up.
LEMMA ReadEvidenceStep ==
    ASSUME IndInv, NEW s \in Sessions, ReadEvidence(s)
    PROVE  IndInv'
  <1> DEFINE q == req[s]
             wanted == Evidence(q.kind)
             n == Len(q.ev) + 1
  <1>1. /\ UNCHANGED <<account, key, envvars, log>> /\ risk' \in Risk
        /\ pc[s] = "evidence"
    BY DEF ReadEvidence, rowvars, IndInv, TypeOK
  <1>2. /\ q.began <= clock /\ q.seen <= Len(log)
        /\ Cites(q) /\ Current(q) /\ Len(q.ev) < Len(wanted)
    BY <1>1, RequestFacts DEF RequestOK
  <1>3. /\ q \in Request /\ q.kind \in Kinds /\ q.ev \in Seq(Nat \ {0})
    BY RequestFacts
  <1>4. wanted \in Seq(Kinds) BY <1>3, EvidenceTyped
  <1>5. n \in DOMAIN wanted /\ wanted[n] \in Kinds /\ n \in Nat
    BY <1>2, <1>3, <1>4
  <1>6. PICK i \in LatestGood(wanted[n]) :
            \/ i = 0 /\ Return(s)
            \/ /\ i # 0
               /\ req' = [req EXCEPT ![s].ev = Append(@, i)]
               /\ Goto(s, IF n < Len(wanted) THEN "evidence" ELSE "record")
    BY DEF ReadEvidence
  <1>7. CASE Return(s) BY <1>1, <1>7, ReturnStep
  <1>8. CASE ~ Return(s)
    <2> DEFINE label == IF n < Len(wanted) THEN "evidence" ELSE "record"
               r == Citing(q, i)
    <2>1. i # 0 /\ req' = [req EXCEPT ![s] = r] /\ pc' = [pc EXCEPT ![s] = label]
      BY <1>6, <1>8 DEF Goto, Citing
    <2>2. i \in DOMAIN log /\ log[i].action = wanted[n] /\ log[i].good
      BY <1>5, <2>1, LatestGoodFacts DEF IndInv
    <2>3. i \in Nat \ {0} BY <2>2 DEF IndInv, TypeOK
    <2>4. /\ r \in Request /\ r.ev = Append(q.ev, i) /\ r.kind = q.kind
          /\ r.began = q.began /\ r.seen = q.seen
      BY <1>3, <2>3, CitingFacts
    <2> HIDE DEF r
    <2>5. /\ Len(r.ev) = n /\ r.ev[n] = i
          /\ \A k \in 1..Len(q.ev) : r.ev[k] = q.ev[k]
      BY <1>3, <2>3, <2>4
    <2>6. Cites(r)
      <3> SUFFICES ASSUME NEW k \in 1..Len(r.ev)
                   PROVE  /\ k \in DOMAIN Evidence(r.kind)
                          /\ r.ev[k] \in DOMAIN log
                          /\ log[r.ev[k]].action = Evidence(r.kind)[k]
                          /\ log[r.ev[k]].good
        BY DEF Cites
      <3>1. CASE k = n BY <1>5, <2>2, <2>4, <2>5, <3>1
      <3>2. CASE k # n
        <4>1. k \in 1..Len(q.ev) BY <1>3, <2>5, <3>2
        <4>2. /\ k \in DOMAIN wanted /\ q.ev[k] \in DOMAIN log
              /\ log[q.ev[k]].action = wanted[k] /\ log[q.ev[k]].good
          BY <1>2, <4>1 DEF Cites
        <4>3. QED BY <2>4, <2>5, <4>1, <4>2
      <3>3. QED BY <3>1, <3>2
    <2>7. Current(r)
      <3> SUFFICES ASSUME NEW k \in 1..Len(r.ev)
                   PROVE  r.ev[k] \in DOMAIN log /\ ~Superseded(r.ev[k], r.seen)
        BY DEF Current
      <3>1. CASE k = n
        <4>1. q.seen \in Nat BY <1>3 DEF Request
        <4>2. ~Superseded(i, q.seen)
          BY <1>2, <1>5, <2>1, <4>1, LatestIsCurrent DEF IndInv
        <4>3. QED BY <2>2, <2>4, <2>5, <3>1, <4>2
      <3>2. CASE k # n
        <4>1. k \in 1..Len(q.ev) BY <1>3, <2>5, <3>2
        <4>2. q.ev[k] \in DOMAIN log /\ ~Superseded(q.ev[k], q.seen)
          BY <1>2, <4>1 DEF Current
        <4>3. QED BY <2>4, <2>5, <4>1, <4>2
      <3>3. QED BY <3>1, <3>2
    <2>8. RequestOK(label, r)
      <3>1. CASE n < Len(wanted)
        <4>1. label = "evidence" BY <3>1
        <4>2. Len(r.ev) < Len(Evidence(r.kind)) BY <2>4, <2>5, <3>1
        <4> HIDE DEF label
        <4>3. QED BY <1>2, <2>4, <2>6, <2>7, <4>1, <4>2 DEF RequestOK, EarlyPC
      <3>2. CASE ~ (n < Len(wanted))
        <4>1. label = "record" BY <3>2
        <4>2. Len(r.ev) = Len(Evidence(r.kind))
          BY <1>3, <1>4, <1>5, <2>4, <2>5, <3>2
        <4>3. r.kind # "approval"
          <5>1. Evidence("approval") = <<>> /\ Len(<<>>) = 0
            BY EvidenceCases
          <5>2. Len(wanted) # 0 BY <1>2, <1>3, <1>4
          <5>3. QED BY <2>4, <5>1, <5>2
        <4> HIDE DEF label
        <4>4. QED BY <1>2, <2>4, <2>6, <2>7, <4>1, <4>2, <4>3
                  DEF RequestOK, EarlyPC
      <3>3. QED BY <3>1, <3>2
    <2>9. label \in PCs BY DEF PCs
    <2> HIDE DEF label
    <2>10. QED BY <1>1, <2>1, <2>4, <2>8, <2>9, LocalStep
  <1>9. QED BY <1>7, <1>8

\* A submission that is let through keeps the approval it goes by.
Granted(q, i, cap, what) == [q EXCEPT !.ev = <<i>>, !.cap = cap, !.what = what]

\* The fields of a submission that goes by an approval.
LEMMA GrantedFacts ==
    ASSUME NEW q \in Request, NEW i \in Nat \ {0}, NEW cap \in Nat,
           NEW what \in Instruments
    PROVE  LET r == Granted(q, i, cap, what)
           IN /\ r \in Request /\ r.ev = <<i>> /\ r.cap = cap /\ r.what = what
              /\ r.began = q.began /\ r.seen = q.seen
  <1>1. <<i>> \in Seq(Nat \ {0}) OBVIOUS
  <1> DEFINE r1 == [q EXCEPT !.ev = <<i>>]
             r2 == [r1 EXCEPT !.cap = cap]
             r3 == [r2 EXCEPT !.what = what]
  <1>2. /\ r1 \in Request /\ r1.ev = <<i>>
        /\ r1.began = q.began /\ r1.seen = q.seen
    BY <1>1 DEF Request
  <1> HIDE DEF r1
  <1>3. /\ r2 \in Request /\ r2.ev = <<i>> /\ r2.cap = cap
        /\ r2.began = q.began /\ r2.seen = q.seen
    BY <1>2 DEF Request
  <1> HIDE DEF r2
  <1>4. /\ r3 \in Request /\ r3.ev = <<i>> /\ r3.cap = cap /\ r3.what = what
        /\ r3.began = q.began /\ r3.seen = q.seen
    BY <1>3 DEF Request
  <1>5. Granted(q, i, cap, what) = r3 BY DEF Granted, r1, r2
  <1> HIDE DEF r3
  <1>6. QED BY <1>4, <1>5

\* The window check picks an approval that covers the order.
LEMMA AuthorizeStep ==
    ASSUME IndInv, NEW s \in Sessions, NEW cap \in Nat, NEW what \in Instruments,
           Authorize(s, cap, what)
    PROVE  IndInv'
  <1> DEFINE q == req[s]
             allowed(i) == /\ i # 0
                           /\ log[i].what = what
                           /\ cap <= log[i].cap
                           /\ clock <= log[i].at + Duration
             r(i) == Granted(q, i, cap, what)
  <1>1. /\ UNCHANGED <<account, key, envvars, log>> /\ risk' \in Risk
        /\ pc[s] = "authorize"
    BY DEF Authorize, rowvars, IndInv, TypeOK
  <1>2. q \in Request /\ q.began \in Nat /\ q.seen \in Nat BY RequestFacts
  <1>3. q.began <= clock /\ q.seen <= Len(log) /\ adapters
    BY <1>1, RequestFacts DEF RequestOK
  <1>4. PICK i \in LatestGood("approval") :
            \/ ~allowed(i) /\ Return(s)
            \/ /\ allowed(i)
               /\ req' = [req EXCEPT ![s] = r(i)]
               /\ pc' = [pc EXCEPT ![s] = "credentials"]
    BY DEF Authorize, Goto, Granted
  <1>5. CASE Return(s) BY <1>1, <1>5, ReturnStep
  <1>6. CASE ~ Return(s)
    <2>1. /\ allowed(i) /\ req' = [req EXCEPT ![s] = r(i)]
          /\ pc' = [pc EXCEPT ![s] = "credentials"]
      BY <1>4, <1>6
    <2>2. "approval" \in Kinds BY DEF Kinds
    <2>3. /\ i \in DOMAIN log /\ log[i].action = "approval"
          /\ \A j \in DOMAIN log :
                log[j].action = "approval" /\ log[j].good =>
                    log[j].at <= log[i].at
      BY <2>1, <2>2, LatestGoodFacts DEF IndInv
    <2>4. i \in Nat \ {0} BY <2>3 DEF IndInv, TypeOK
    <2>5. log[i].at \in Nat BY <2>3, RowFacts DEF IndInv
    <2>6. ~Superseded(i, q.seen)
      BY <1>2, <1>3, <2>1, <2>2, LatestIsCurrent DEF IndInv
    <2>7. q.began <= log[i].at + Duration
      BY <1>2, <1>3, <2>1, <2>5, GatesAssumption DEF IndInv, TypeOK
    <2> DEFINE g == r(i)
    <2>8. /\ g \in Request /\ g.ev = <<i>> /\ g.cap = cap /\ g.what = what
          /\ g.began = q.began /\ g.seen = q.seen
      BY <1>2, <2>4, GrantedFacts
    <2>9. req' = [req EXCEPT ![s] = g] BY <2>1
    <2> HIDE DEF g
    <2>10. Len(g.ev) = 1 /\ g.ev[1] = i BY <2>8
    <2>11. Covered(g) /\ Current(g)
      BY <2>1, <2>3, <2>6, <2>7, <2>8, <2>10 DEF Covered, Current
    <2>12. RequestOK("credentials", g)
      BY <1>3, <2>8, <2>11 DEF RequestOK, EarlyPC
    <2>13. "credentials" \in PCs BY DEF PCs
    <2>14. QED BY <1>1, <2>1, <2>8, <2>9, <2>12, <2>13, LocalStep
  <1>7. QED BY <1>5, <1>6

\* A submission reads its credentials; its approval stays.
LEMMA ReadCredentialsStep ==
    ASSUME IndInv, NEW s \in Sessions, ReadCredentials(s)
    PROVE  IndInv'
  <1>1. /\ UNCHANGED <<account, key, envvars, log>> /\ risk' \in Risk
        /\ pc[s] = "credentials"
    BY DEF ReadCredentials, rowvars, IndInv, TypeOK
  <1>2. CASE Return(s) BY <1>1, <1>2, ReturnStep
  <1>3. CASE Goto(s, "send") /\ UNCHANGED req
    <2>1. req[s] \in Request /\ RequestOK("credentials", req[s])
      BY <1>1, RequestFacts
    <2>2. RequestOK("send", req[s]) BY <2>1 DEF RequestOK, EarlyPC
    <2>3. req' = [req EXCEPT ![s] = req[s]] BY <1>3 DEF IndInv, TypeOK
    <2>4. pc' = [pc EXCEPT ![s] = "send"] /\ "send" \in PCs
      BY <1>3 DEF Goto, PCs
    <2>5. QED BY <1>1, <2>1, <2>2, <2>3, <2>4, LocalStep
  <1>4. QED BY <1>2, <1>3 DEF ReadCredentials
-----------------------------------------------------------------------------
(***************************************************************************)
(* The steps that append an audit row.                                     *)
(***************************************************************************)
\* Appending rows leaves the chain of the earlier ones as it was.  A final
\* check also looks through its order window at the review behind it, which is
\* in the log because the order window is chained itself.
LEMMA PrefixChained ==
    ASSUME NEW rows \in Seq(Row), NEW more \in Seq(Row), Len(rows) <= Len(more),
           \A i \in 1..Len(rows) : more[i] = rows[i],
           Chained(rows), NEW n \in 1..Len(rows)
    PROVE  RowChained(more, n)
  <1> DEFINE row == rows[n]
             cited == Evidence(row.action)
  <1>1. more[n] = row OBVIOUS
  <1>2. RowChained(rows, n) BY DEF Chained
  <1>3. Len(row.ev) = Len(cited) BY <1>2 DEF RowChained
  <1>4. \A i \in DOMAIN cited :
            /\ row.ev[i] \in 1..(n - 1) /\ rows[row.ev[i]].action = cited[i]
            /\ rows[row.ev[i]].good
    BY <1>2 DEF RowChained
  <1>5. \A i \in DOMAIN cited : more[row.ev[i]] = rows[row.ev[i]]
    <2> SUFFICES ASSUME NEW i \in DOMAIN cited
                 PROVE  more[row.ev[i]] = rows[row.ev[i]]
      OBVIOUS
    <2>1. row.ev[i] \in 1..(n - 1) BY <1>4
    <2>2. QED BY <2>1
  <1>6. /\ DOMAIN <<"real_check", "review">> = 1..2
        /\ DOMAIN <<"review", "real_window">> = 1..2
        /\ <<"review", "real_window">>[2] = "real_window"
        /\ 1 \in 1..2 /\ 2 \in 1..2
    OBVIOUS
  <1>7. row.action = "real_window" =>
            2 \in DOMAIN cited /\ row.cap <= rows[row.ev[2]].cap
    <2> SUFFICES ASSUME row.action = "real_window"
                 PROVE  2 \in DOMAIN cited /\ row.cap <= rows[row.ev[2]].cap
      OBVIOUS
    <2>1. cited = <<"real_check", "review">> BY EvidenceCases
    <2>2. QED BY <1>2, <1>6, <2>1 DEF RowChained
  <1>8. row.action = "final_check" =>
            /\ 1 \in DOMAIN cited /\ 2 \in DOMAIN cited
            /\ row.cap <= rows[row.ev[1]].cap /\ row.cap <= rows[row.ev[2]].cap
            /\ row.cap <= rows[rows[row.ev[2]].ev[2]].cap
            /\ more[rows[row.ev[2]].ev[2]] = rows[rows[row.ev[2]].ev[2]]
    <2> SUFFICES ASSUME row.action = "final_check"
                 PROVE
            /\ 1 \in DOMAIN cited /\ 2 \in DOMAIN cited
            /\ row.cap <= rows[row.ev[1]].cap /\ row.cap <= rows[row.ev[2]].cap
            /\ row.cap <= rows[rows[row.ev[2]].ev[2]].cap
            /\ more[rows[row.ev[2]].ev[2]] = rows[rows[row.ev[2]].ev[2]]
      OBVIOUS
    <2>1. cited = <<"review", "real_window">> BY EvidenceCases
    <2>2. 1 \in DOMAIN cited /\ 2 \in DOMAIN cited BY <1>6, <2>1
    <2>3. /\ row.cap <= rows[row.ev[1]].cap /\ row.cap <= rows[row.ev[2]].cap
          /\ row.cap <= rows[rows[row.ev[2]].ev[2]].cap
      BY <1>2 DEF RowChained
    <2>4. PICK w \in 1..(n - 1) : w = row.ev[2] BY <1>4, <2>2
    <2>5. w \in 1..Len(rows) /\ rows[w].action = "real_window"
      BY <1>4, <1>6, <2>1, <2>2, <2>4
    <2>6. RowChained(rows, w) BY <2>5 DEF Chained
    <2>7. Evidence(rows[w].action) = <<"real_check", "review">>
      BY <2>5, EvidenceCases
    <2>8. 2 \in DOMAIN Evidence(rows[w].action) BY <1>6, <2>7
    <2>9. rows[w].ev[2] \in 1..(w - 1) BY <2>6, <2>8 DEF RowChained
    <2>10. more[rows[w].ev[2]] = rows[rows[w].ev[2]] BY <2>5, <2>9
    <2>11. QED BY <2>2, <2>3, <2>4, <2>10
  <1>9. Len(more[n].ev) = Len(Evidence(more[n].action)) BY <1>1, <1>3
  <1>10. \A i \in DOMAIN Evidence(more[n].action) :
            /\ more[n].ev[i] \in 1..(n - 1)
            /\ more[more[n].ev[i]].action = Evidence(more[n].action)[i]
            /\ more[more[n].ev[i]].good
    BY <1>1, <1>4, <1>5
  <1>11. more[n].action = "real_window" =>
            more[n].cap <= more[more[n].ev[2]].cap
    BY <1>1, <1>5, <1>7
  <1>12. more[n].action = "final_check" =>
            /\ more[n].cap <= more[more[n].ev[1]].cap
            /\ more[n].cap <= more[more[n].ev[2]].cap
            /\ more[n].cap <= more[more[more[n].ev[2]].ev[2]].cap
    BY <1>1, <1>5, <1>8
  <1>13. QED BY <1>9, <1>10, <1>11, <1>12 DEF RowChained

\* The row a gate appends is chained when its citations are and its amount is
\* within the rows it compares itself with: the review behind an order window
\* bounds a final check because it bounded the order window.
LEMMA NewRowChained ==
    ASSUME TypeOK, EvidenceChain, NEW row \in Row, NEW q \in Request, Cites(q),
           Len(q.ev) = Len(Evidence(q.kind)),
           row.ev = q.ev, row.action = q.kind,
           q.kind = "real_window" => row.cap <= log[q.ev[2]].cap,
           q.kind = "final_check" =>
               row.cap <= log[q.ev[1]].cap /\ row.cap <= log[q.ev[2]].cap,
           NEW more, more = Append(log, row)
    PROVE  RowChained(more, Len(log) + 1)
  <1> DEFINE n == Len(log) + 1
             cited == Evidence(q.kind)
  <1>1. log \in Seq(Row) BY DEF TypeOK
  <1>2. more[n] = row /\ \A i \in DOMAIN log : more[i] = log[i] BY <1>1
  <1>3. q.kind \in Kinds /\ q.ev \in Seq(Nat \ {0}) BY DEF Request
  <1>4. cited \in Seq(Kinds) BY <1>3, EvidenceTyped
  <1>5. \A i \in DOMAIN cited :
            /\ q.ev[i] \in DOMAIN log /\ log[q.ev[i]].action = cited[i]
            /\ log[q.ev[i]].good
    <2>1. \A i \in DOMAIN cited : i \in 1..Len(q.ev) BY <1>3, <1>4
    <2>2. QED BY <2>1 DEF Cites
  <1>6. \A i \in DOMAIN cited : q.ev[i] \in 1..(n - 1) BY <1>1, <1>5
  <1>7. \A i \in DOMAIN cited : more[q.ev[i]] = log[q.ev[i]] BY <1>2, <1>5
  <1>8. /\ DOMAIN <<"real_check", "review">> = 1..2
        /\ DOMAIN <<"review", "real_window">> = 1..2
        /\ <<"review", "real_window">>[2] = "real_window"
        /\ 1 \in 1..2 /\ 2 \in 1..2
    OBVIOUS
  <1>9. q.kind = "real_window" => row.cap <= more[q.ev[2]].cap
    <2> SUFFICES ASSUME q.kind = "real_window"
                 PROVE  row.cap <= more[q.ev[2]].cap
      OBVIOUS
    <2>1. cited = <<"real_check", "review">> BY EvidenceCases
    <2>2. 2 \in DOMAIN cited BY <1>8, <2>1
    <2>3. QED BY <1>7, <2>2
  <1>10. q.kind = "final_check" =>
            /\ row.cap <= more[q.ev[1]].cap /\ row.cap <= more[q.ev[2]].cap
            /\ row.cap <= more[more[q.ev[2]].ev[2]].cap
    <2> SUFFICES ASSUME q.kind = "final_check"
                 PROVE
            /\ row.cap <= more[q.ev[1]].cap /\ row.cap <= more[q.ev[2]].cap
            /\ row.cap <= more[more[q.ev[2]].ev[2]].cap
      OBVIOUS
    <2>1. cited = <<"review", "real_window">> BY EvidenceCases
    <2>2. 1 \in DOMAIN cited /\ 2 \in DOMAIN cited BY <1>8, <2>1
    <2>3. /\ row.cap <= more[q.ev[1]].cap /\ row.cap <= more[q.ev[2]].cap
          /\ row.cap <= log[q.ev[2]].cap
      BY <1>7, <2>2
    <2>4. PICK w \in DOMAIN log : w = q.ev[2] BY <1>5, <2>2
    <2>5. log[w].action = "real_window" BY <1>5, <1>8, <2>1, <2>2, <2>4
    <2>6. RowChained(log, w) BY DEF EvidenceChain, Chained
    <2>7. Evidence(log[w].action) = <<"real_check", "review">>
      BY <2>5, EvidenceCases
    <2>8. 2 \in DOMAIN Evidence(log[w].action) BY <1>8, <2>7
    <2>9. PICK v \in 1..(w - 1) : v = log[w].ev[2]
      BY <2>6, <2>8 DEF RowChained
    <2>10. log[w].cap <= log[v].cap
      BY <2>5, <2>6, <2>9 DEF RowChained
    <2>11. v \in DOMAIN log BY <1>1, <2>4, <2>9
    <2>12. row.cap <= log[v].cap
      <3>1. row.cap \in Nat BY DEF Row
      <3>2. log[w].cap \in Nat /\ log[v].cap \in Nat BY <2>11, RowFacts
      <3>3. QED BY <2>3, <2>4, <2>10, <3>1, <3>2
    <2>13. more[w] = log[w] /\ more[v] = log[v] BY <1>2, <2>11
    <2>14. QED BY <2>3, <2>4, <2>9, <2>12, <2>13
  <1> HIDE DEF n
  <1>11. Len(more[n].ev) = Len(Evidence(more[n].action)) BY <1>2
  <1>12. \A i \in DOMAIN Evidence(more[n].action) :
            /\ more[n].ev[i] \in 1..(n - 1)
            /\ more[more[n].ev[i]].action = Evidence(more[n].action)[i]
            /\ more[more[n].ev[i]].good
    BY <1>2, <1>5, <1>6, <1>7
  <1>13. more[n].action = "real_window" =>
            more[n].cap <= more[more[n].ev[2]].cap
    BY <1>2, <1>9
  <1>14. more[n].action = "final_check" =>
            /\ more[n].cap <= more[more[n].ev[1]].cap
            /\ more[n].cap <= more[more[n].ev[2]].cap
            /\ more[n].cap <= more[more[more[n].ev[2]].ev[2]].cap
    BY <1>2, <1>10
  <1>15. RowChained(more, n) BY <1>11, <1>12, <1>13, <1>14 DEF RowChained
  <1>16. QED BY <1>15 DEF n

\* A gate records its decision: the row cites what the request found, for an
\* amount not above that of the rows cited.
LEMMA RecordStep ==
    ASSUME IndInv, NEW s \in Sessions, NEW kind \in Kinds, NEW cap \in Nat,
           NEW what \in Instruments, Record(s, kind, cap, what),
           kind = "real_window" => cap <= log[req[s].ev[2]].cap,
           kind = "final_check" =>
               cap <= log[req[s].ev[1]].cap /\ cap <= log[req[s].ev[2]].cap
    PROVE  IndInv'
  <1> DEFINE q == req[s]
             row == [action |-> kind, good |-> q.ok, at |-> q.began,
                     cap |-> cap, what |-> what, ev |-> q.ev, boot |-> boot]
  <1>1. /\ log' = Append(log, row) /\ q.kind = kind /\ pc[s] = "record"
        /\ pc' = [pc EXCEPT ![s] = "idle"] /\ req' = [req EXCEPT ![s] = NoRequest]
        /\ UNCHANGED <<account, risk, key, adapters, clock, boot, changes,
                       campaign>>
    BY DEF Record, Return, Goto, rowvars, envvars
  <1>2. row \in Row
    BY RequestFacts DEF Row, IndInv, TypeOK
  <1>3. /\ row.ev = q.ev /\ row.action = q.kind /\ row.cap = cap
        /\ row.good = q.ok /\ row.boot = boot
    BY <1>1
  <1>4. q \in Request /\ RequestOK("record", q) BY <1>1, RequestFacts
  <1> HIDE DEF row
  <1>5. log \in Seq(Row) /\ log' \in Seq(Row) BY <1>1, <1>2 DEF IndInv, TypeOK
  <1>6. /\ Len(log') = Len(log) + 1 /\ log'[Len(log) + 1] = row
        /\ \A i \in 1..Len(log) : log'[i] = log[i]
    BY <1>1, <1>2, <1>5
  <1>7. Grows BY <1>5, <1>6 DEF Grows
  <1>8. TypeOK'
    <2>1. "idle" \in PCs BY DEF PCs
    <2>2. QED BY <1>1, <1>5, <2>1, NoRequestTyped DEF IndInv, TypeOK
  <1>9. EvidenceChain'
    <2>1. PICK more \in Seq(Row) : more = log' BY <1>5
    <2>2. Cites(q) /\ Len(q.ev) = Len(Evidence(q.kind))
      BY <1>4 DEF RequestOK
    <2>3. RowChained(more, Len(log) + 1)
      <3> HIDE DEF q
      <3>1. /\ q.kind = "real_window" => row.cap <= log[q.ev[2]].cap
            /\ q.kind = "final_check" =>
                 row.cap <= log[q.ev[1]].cap /\ row.cap <= log[q.ev[2]].cap
        BY <1>1, <1>3 DEF q
      <3>2. more = Append(log, row) BY <1>1, <2>1
      <3>3. QED
        BY <1>2, <1>3, <1>4, <2>2, <3>1, <3>2, NewRowChained DEF IndInv
    <2>4. \A n \in 1..Len(log) : RowChained(more, n)
      BY <1>5, <1>6, <2>1, PrefixChained DEF IndInv, EvidenceChain
    <2>5. DOMAIN more = 1..(Len(log) + 1) BY <1>5, <1>6, <2>1
    <2>6. Chained(more)
      <3>1. \A n \in DOMAIN more : n \in 1..Len(log) \/ n = Len(log) + 1
        BY <1>5, <2>5
      <3>2. QED BY <2>3, <2>4, <3>1 DEF Chained
    <2>7. QED BY <2>1, <2>6 DEF EvidenceChain
  <1>10. ApprovalsOK'
    <2> SUFFICES ASSUME NEW i \in DOMAIN log', log'[i].action = "approval"
                 PROVE  /\ log'[i].good /\ log'[i].boot <= boot'
                        /\ adapters' => log'[i].boot < boot'
      BY DEF ApprovalsOK
    <2>1. CASE i = Len(log) + 1
      <3>1. log'[i] = row BY <1>6, <2>1
      <3>2. q.ok /\ ~adapters BY <1>3, <1>4, <3>1 DEF RequestOK
      <3>3. boot <= boot BY DEF IndInv, TypeOK
      <3>4. QED BY <1>1, <1>3, <3>1, <3>2, <3>3
    <2>2. CASE i # Len(log) + 1
      <3>1. i \in DOMAIN log /\ log'[i] = log[i] BY <1>5, <1>6, <2>2
      <3>2. QED BY <1>1, <3>1 DEF IndInv, ApprovalsOK
    <2>3. QED BY <2>1, <2>2
  <1>11. ASSUME NEW t \in Sessions PROVE RequestOK(pc[t], req[t])'
    <2>1. clock' \in Nat /\ clock <= clock' BY <1>1 DEF IndInv, TypeOK
    <2>2. PICK l \in PCs : l = pc'[t] BY <1>8, <1>11 DEF TypeOK
    <2>3. PICK r \in Request : r = req'[t] BY <1>8, <1>11 DEF TypeOK
    <2>4. RequestOK("idle", NoRequest) BY NoRequestOK DEF IndInv
    <2>5. RequestOK(l, r)
      BY <1>1, <1>11, <2>2, <2>3, <2>4 DEF IndInv, RequestsOK, TypeOK
    <2>6. RequestOK(l, r)' BY <1>1, <1>7, <2>1, <2>5, RequestStays DEF IndInv
    <2>7. QED BY <2>2, <2>3, <2>6
  <1>12. QED BY <1>8, <1>9, <1>10, <1>11 DEF IndInv, RequestsOK
-----------------------------------------------------------------------------
(***************************************************************************)
(* The steps that are not a request's.                                     *)
(***************************************************************************)
\* The clock and the rows of the account move under the requests.
LEMMA EnvironmentStep ==
    ASSUME IndInv, UNCHANGED <<adapters, boot, campaign, log, pc, req>>,
           account' \in Account, risk' \in Risk, key' \in Key,
           changes' \in Nat, clock' \in Nat, clock <= clock'
    PROVE  IndInv'
  <1>1. TypeOK' BY DEF IndInv, TypeOK
  <1>2. EvidenceChain' BY DEF IndInv, EvidenceChain
  <1>3. ApprovalsOK' BY DEF IndInv, ApprovalsOK
  <1>4. Grows BY DEF Grows, IndInv, TypeOK
  <1>5. ASSUME NEW t \in Sessions PROVE RequestOK(pc[t], req[t])'
    <2>1. PICK l \in PCs : l = pc[t] BY <1>5, RequestFacts
    <2>2. PICK r \in Request : r = req[t] BY <1>5, RequestFacts
    <2>3. RequestOK(l, r) BY <1>5, <2>1, <2>2, RequestFacts
    <2>4. RequestOK(l, r)' BY <1>4, <2>3, RequestStays DEF IndInv
    <2>5. QED BY <2>1, <2>2, <2>4
  <1>6. QED BY <1>1, <1>2, <1>3, <1>5 DEF IndInv, RequestsOK

\* An operator changes account, risk settings or key.
LEMMA ChangeStep ==
    ASSUME IndInv, Change, account' \in Account, risk' \in Risk, key' \in Key
    PROVE  IndInv'
  <1>1. /\ UNCHANGED <<adapters, boot, campaign, log, pc, req>>
        /\ changes' \in Nat /\ clock' \in Nat /\ clock <= clock'
    BY DEF Change, IndInv, TypeOK
  <1>2. QED BY <1>1, EnvironmentStep

\* A restart ends every request and makes the process of every approval an
\* earlier one.
LEMMA RestartStep ==
    ASSUME IndInv, NEW flag \in BOOLEAN, Restart(flag)
    PROVE  IndInv'
  <1> USE DEF Restart, rowvars
  <1>1. TypeOK'
    <2>1. "idle" \in PCs BY DEF PCs
    <2>2. QED BY <2>1, NoRequestTyped DEF IndInv, TypeOK
  <1>2. EvidenceChain' BY DEF IndInv, EvidenceChain
  <1>3. ApprovalsOK'
    <2>1. \A i \in DOMAIN log : log[i].boot \in Nat BY RowFacts DEF IndInv
    <2>2. boot \in Nat /\ boot' = boot + 1 BY DEF IndInv, TypeOK
    <2>3. QED BY <2>1, <2>2 DEF IndInv, ApprovalsOK
  <1>4. ASSUME NEW t \in Sessions PROVE RequestOK(pc[t], req[t])'
    <2>1. pc'[t] = "idle" /\ req'[t] = NoRequest BY <1>4
    <2>2. 0 <= clock' BY DEF IndInv, TypeOK
    <2>3. 0 <= Len(log') BY <1>1 DEF TypeOK
    <2>4. QED BY <2>1, <2>2, <2>3 DEF RequestOK, Current, NoRequest
  <1>5. QED BY <1>1, <1>2, <1>3, <1>4 DEF IndInv, RequestsOK

\* Every step of an operator keeps the invariant.
LEMMA OperatorInv == IndInv /\ OperatorStep => IndInv'
  <1> SUFFICES ASSUME IndInv, OperatorStep PROVE IndInv' OBVIOUS
  <1>1. /\ account \in Account /\ risk \in Risk /\ key \in Key
        /\ campaign.patches \subseteq Account
    BY GatesAssumption DEF IndInv, TypeOK, Campaign
  <1>2. ASSUME NEW a \in campaign.patches, patch_account(a) PROVE IndInv'
    BY <1>1, <1>2, ChangeStep DEF patch_account
  <1>3. CASE remove_account
    <2>1. [account EXCEPT !.active = FALSE, !.trading = FALSE] \in Account
      BY <1>1 DEF Account
    <2>2. QED BY <1>1, <1>3, <2>1, ChangeStep DEF remove_account
  <1>4. ASSUME NEW k \in Key, set_api_key(k) PROVE IndInv'
    BY <1>1, <1>4, ChangeStep DEF set_api_key
  <1>5. CASE remove_api_key
    BY <1>1, <1>5, ChangeStep DEF remove_api_key, Key
  <1>6. CASE read_risk_settings
    BY <1>1, <1>6, ChangeStep DEF read_risk_settings, Risk
  <1>7. ASSUME NEW r \in {"off", "on"}, patch_risk_settings(r) PROVE IndInv'
    BY <1>1, <1>7, ChangeStep DEF patch_risk_settings, Risk
  <1>8. ASSUME NEW flag \in BOOLEAN, Restart(flag) PROVE IndInv'
    BY <1>8, RestartStep
  <1>9. QED
    BY <1>2, <1>3, <1>4, <1>5, <1>6, <1>7, <1>8 DEF OperatorStep

\* Every way a request begins keeps the invariant.
LEMMA NewRequestInv ==
    ASSUME IndInv, NEW s \in Sessions, NewRequest(s)
    PROVE  IndInv'
  <1>1. PICK kind \in Kinds : Begin(s, kind)
    BY DEF NewRequest, Kinds, check_testnet_read_only_credentials,
           check_real_read_only_credentials, read_real_balances,
           read_real_open_orders, approve_testnet_order_window,
           submit_testnet_order, record_small_fund_review,
           record_small_fund_order_window_approval, record_final_release_check
  <1>2. QED BY <1>1, BeginStep

\* One case per handler that appends an audit row.
LEMMA RecordInv ==
    ASSUME IndInv, NEW s \in Sessions, NEW cap \in Nat, NEW what \in Instruments,
           \/ record_testnet_order_window_approval(s, cap, what)
           \/ record_phase4_small_fund_review(s, cap)
           \/ record_phase4_small_fund_order_window_approval(s, cap)
           \/ record_phase4_final_release_check(s, cap)
           \/ run_testnet_read_only_check(s) \/ run_real_read_only_check(s)
           \/ AuditRealBalances(s) \/ AuditRealOpenOrders(s)
    PROVE  IndInv'
  <1>1. AnyInstrument \in Instruments /\ 0 \in Nat BY NoRequestTyped
  <1>2. /\ {"approval", "review", "real_window", "final_check", "testnet_check",
             "real_check", "balances", "open_orders"} \subseteq Kinds
    BY DEF Kinds
  <1>3. CASE record_testnet_order_window_approval(s, cap, what)
    BY <1>2, <1>3, RecordStep DEF record_testnet_order_window_approval
  <1>4. CASE record_phase4_small_fund_review(s, cap)
    BY <1>1, <1>2, <1>4, RecordStep DEF record_phase4_small_fund_review
  <1>5. CASE record_phase4_small_fund_order_window_approval(s, cap)
    <2>1. cap <= log[req[s].ev[2]].cap
      BY <1>5 DEF record_phase4_small_fund_order_window_approval, RealWindowCap
    <2>2. Record(s, "real_window", cap, AnyInstrument)
      BY <1>5 DEF record_phase4_small_fund_order_window_approval
    <2>3. QED BY <1>1, <1>2, <2>1, <2>2, RecordStep
  <1>6. CASE record_phase4_final_release_check(s, cap)
    <2>1. cap <= log[req[s].ev[1]].cap /\ cap <= log[req[s].ev[2]].cap
      BY <1>6 DEF record_phase4_final_release_check, FinalCheckCap
    <2>2. Record(s, "final_check", cap, AnyInstrument)
      BY <1>6 DEF record_phase4_final_release_check
    <2>3. QED BY <1>1, <1>2, <2>1, <2>2, RecordStep
  <1>7. CASE run_testnet_read_only_check(s)
    BY <1>1, <1>2, <1>7, RecordStep DEF run_testnet_read_only_check
  <1>8. CASE run_real_read_only_check(s)
    BY <1>1, <1>2, <1>8, RecordStep DEF run_real_read_only_check
  <1>9. CASE AuditRealBalances(s)
    BY <1>1, <1>2, <1>9, RecordStep DEF AuditRealBalances
  <1>10. CASE AuditRealOpenOrders(s)
    BY <1>1, <1>2, <1>10, RecordStep DEF AuditRealOpenOrders
  <1>11. QED BY <1>3, <1>4, <1>5, <1>6, <1>7, <1>8, <1>9, <1>10

\* Every step of a request keeps the invariant.
LEMMA RequestInv ==
    ASSUME IndInv, NEW s \in Sessions, RequestStep(s)
    PROVE  IndInv'
  <1>1. CASE ReadAccount(s) BY <1>1, ReadAccountStep
  <1>2. CASE ReadRisk(s) BY <1>2, ReadRiskStep
  <1>3. CASE ReadKey(s) BY <1>3, ReadKeyStep
  <1>4. CASE AskExchange(s) BY <1>4, AskExchangeStep
  <1>5. CASE ReadEvidence(s) BY <1>5, ReadEvidenceStep
  <1>6. ASSUME NEW cap \in Caps, NEW what \in Instruments,
               \/ record_testnet_order_window_approval(s, cap, what)
               \/ Authorize(s, cap, what)
        PROVE  IndInv'
    <2>1. cap \in Nat BY GatesAssumption
    <2>2. QED BY <1>6, <2>1, RecordInv, AuthorizeStep
  <1>7. ASSUME NEW cap \in Caps,
               \/ record_phase4_small_fund_review(s, cap)
               \/ record_phase4_small_fund_order_window_approval(s, cap)
               \/ record_phase4_final_release_check(s, cap)
        PROVE  IndInv'
    <2>1. cap \in Nat /\ AnyInstrument \in Instruments
      BY GatesAssumption, NoRequestTyped
    <2>2. QED BY <1>7, <2>1, RecordInv
  <1>8. CASE \/ run_testnet_read_only_check(s) \/ run_real_read_only_check(s)
             \/ AuditRealBalances(s) \/ AuditRealOpenOrders(s)
    <2>1. 0 \in Nat /\ AnyInstrument \in Instruments BY NoRequestTyped
    <2>2. QED BY <1>8, <2>1, RecordInv
  <1>9. CASE ReadCredentials(s) BY <1>9, ReadCredentialsStep
  <1>10. CASE Send(s) \/ Die(s)
    <2>1. /\ UNCHANGED <<account, key, envvars, log>> /\ risk' \in Risk
          /\ Return(s)
      BY <1>10 DEF Send, Die, rowvars, IndInv, TypeOK
    <2>2. QED BY <2>1, ReturnStep
  <1>11. QED
    BY <1>1, <1>2, <1>3, <1>4, <1>5, <1>6, <1>7, <1>8, <1>9, <1>10
       DEF RequestStep

\* Every step keeps the invariant.
LEMMA NextInv == IndInv /\ [Next]_vars => IndInv'
  <1> SUFFICES ASSUME IndInv, [Next]_vars PROVE IndInv' OBVIOUS
  <1>1. /\ account \in Account /\ risk \in Risk /\ key \in Key
        /\ changes \in Nat /\ clock \in Nat /\ clock <= clock
    BY DEF IndInv, TypeOK
  <1>2. CASE OperatorStep BY <1>2, OperatorInv
  <1>3. CASE Tick
    <2>1. clock' \in Nat /\ clock <= clock' BY <1>1, <1>3 DEF Tick
    <2>2. QED BY <1>1, <1>3, <2>1, EnvironmentStep DEF Tick, rowvars
  <1>4. ASSUME NEW s \in Sessions, NewRequest(s) \/ RequestStep(s)
        PROVE  IndInv'
    BY <1>4, NewRequestInv, RequestInv
  <1>5. CASE UNCHANGED vars
    BY <1>1, <1>5, EnvironmentStep DEF vars, rowvars, envvars
  <1>6. QED BY <1>2, <1>3, <1>4, <1>5 DEF Next
-----------------------------------------------------------------------------
(***************************************************************************)
(* The theorems.                                                           *)
(***************************************************************************)
\* The invariant holds in every reachable state, however requests, operator
\* actions, clock ticks and restarts interleave.
THEOREM Invariance == Spec => []IndInv
  BY InitInv, NextInv, PTL DEF Spec

\* Requests, audit rows and settings keep their shape through every gate.
THEOREM TypeCorrectness == Spec => []TypeOK
  <1>1. IndInv => TypeOK BY DEF IndInv
  <1>2. QED BY <1>1, Invariance, PTL

\* A submission that passed require_valid_testnet_order_window_authorization
\* goes by an approval of its instrument and amount, not expired when it began
\* and not older than any approval it could have seen then.
THEOREM WindowCovers == Spec => []WindowCoversOrder
  <1>1. IndInv => WindowCoversOrder
    BY DEF IndInv, RequestsOK, RequestOK, Covered, Current, WindowCoversOrder
  <1>2. QED BY <1>1, Invariance, PTL

\* The adapters are off when an approval is recorded and on when an order is
\* submitted, and only a restart switches them: the approval of an order comes
\* from an earlier process.
THEOREM ApprovalPrecedesRestart == Spec => []ApprovedBeforeRestart
  <1>1. IndInv => ApprovedBeforeRestart
    BY DEF IndInv, RequestsOK, RequestOK, Covered, ApprovalsOK,
           ApprovedBeforeRestart
  <1>2. QED BY <1>1, Invariance, PTL

\* The phase 4 records form a chain of earlier good rows along which the
\* amount never grows, even through rows that were superseded meanwhile.
THEOREM ChainHolds == Spec => []EvidenceChain
  <1>1. IndInv => EvidenceChain BY DEF IndInv
  <1>2. QED BY <1>1, Invariance, PTL

\* The review a phase 4 gate cites, its read-only check and its order window
\* are the latest that were committed when its request began, or later ones,
\* in whatever order overlapping requests commit their rows.
THEOREM EvidenceStaysCurrent == Spec => []EvidenceIsCurrent
  <1>1. IndInv => EvidenceIsCurrent
    <2> SUFFICES ASSUME IndInv, NEW s \in Sessions, NEW i \in DOMAIN req[s].ev
                 PROVE  ~Superseded(req[s].ev[i], req[s].seen)
      BY DEF EvidenceIsCurrent
    <2>1. RequestOK(pc[s], req[s]) /\ req[s].ev \in Seq(Nat \ {0})
      BY RequestFacts
    <2>2. i \in 1..Len(req[s].ev) BY <2>1
    <2>3. QED BY <2>1, <2>2 DEF RequestOK, Current
  <1>2. QED BY <1>1, Invariance, PTL
=============================================================================
