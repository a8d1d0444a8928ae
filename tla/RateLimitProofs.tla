-------------------------- MODULE RateLimitProofs --------------------------
(***************************************************************************)
(* WindowSpacing for any number of threads, accounts and rules.            *)
(*                                                                         *)
(* The property is about the moment a window opens.  It follows from two   *)
(* facts about keys: one that does not exist was created at least an       *)
(* interval ago (Gone), and one that will expire will be that old by then  *)
(* (Closing).  Both need that the expiry of a key is set once, while the   *)
(* key exists: only the thread whose INCR returned 1 sets it, and no other *)
(* thread can get 1 before it has (Opener, OneOpener).                     *)
(***************************************************************************)
EXTENDS RateLimit, TLAPS

Gone ==
    \A k \in Keys : count[k] = 0 => ttl[k] = 0 /\ since[k] >= Interval[k[1]]

Closing ==
    \A k \in Keys : ttl[k] > 0 => since[k] + ttl[k] >= Interval[k[1]]

Opener ==
    \A w \in Workers : pc[w] = "expire" => count[K(w)] > 0 /\ ttl[K(w)] = 0

OneOpener ==
    \A v, w \in Workers :
        pc[v] = "expire" /\ pc[w] = "expire" /\ K(v) = K(w) => v = w

IndInv == TypeOK /\ Gone /\ Closing /\ Opener /\ OneOpener

\* _rate_limit_key of a rule and an account is a key with that rule's limit.
LEMMA KeyType ==
    ASSUME NEW r \in 1..Rules, NEW a \in Accounts
    PROVE  Key(r, a) \in Keys /\ Key(r, a)[1] = r
  BY DEF Key, Keys

\* The limit and the interval of a rule are positive.
LEMMA RulePositive ==
    ASSUME NEW r \in 1..Rules
    PROVE  Limit[r] \in Nat /\ Limit[r] > 0 /\ Interval[r] \in Nat
           /\ Interval[r] > 0
  BY RulesAssumption

\* The key a thread works on exists, under its rule.
LEMMA WorkerKey ==
    ASSUME TypeOK, NEW w \in Workers
    PROVE  K(w) \in Keys /\ K(w)[1] = rule[w] /\ rule[w] \in 1..Rules
  BY KeyType DEF TypeOK, K

\* An empty store satisfies the invariant.
LEMMA InitInv == Init => IndInv
  <1> SUFFICES ASSUME Init PROVE IndInv
    OBVIOUS
  <1>1. \A k \in Keys : Interval[k[1]] \in Nat
    BY RulePositive DEF Keys
  <1>2. 1 \in 1..Rules
    BY RulesAssumption
  <1>3. TypeOK
    BY <1>1, <1>2 DEF Init, TypeOK
  <1>4. Gone /\ Closing
    BY <1>1 DEF Init, Gone, Closing
  <1>5. Opener /\ OneOpener
    BY DEF Init, Opener, OneOpener
  <1> QED BY <1>3, <1>4, <1>5 DEF IndInv

\* A thread that neither touches a counter nor stands before EXPIRE keeps it.
LEMMA QuietStep ==
    ASSUME IndInv, NEW w \in Workers,
           TypeOK', UNCHANGED <<count, ttl, since>>,
           pc'[w] # "expire",
           \A v \in Workers \ {w} :
               pc'[v] = pc[v] /\ acct'[v] = acct[v] /\ rule'[v] = rule[v]
    PROVE  IndInv'
  <1>1. \A v \in Workers : pc'[v] = "expire" =>
            pc[v] = "expire" /\ K(v)' = K(v)
    BY DEF K
  <1>2. Gone' /\ Closing'
    BY DEF IndInv, Gone, Closing
  <1>3. Opener'
    BY <1>1 DEF IndInv, Opener
  <1>4. OneOpener'
    BY <1>1 DEF IndInv, OneOpener
  <1> QED BY <1>2, <1>3, <1>4 DEF IndInv

\* redis.incr: the thread that gets 1 is the only opener of a fresh key.
LEMMA IncrInv ==
    ASSUME IndInv, NEW w \in Workers, Incr(w)
    PROVE  IndInv'
  <1> DEFINE k == K(w)
             n == IF count[k] > Limit[rule[w]] THEN count[k] ELSE count[k] + 1
  <1>1. k \in Keys /\ k[1] = rule[w] /\ rule[w] \in 1..Rules
    BY WorkerKey DEF IndInv
  <1>2. count[k] \in Nat /\ Limit[rule[w]] \in Nat /\ Limit[rule[w]] > 0
    BY <1>1, RulePositive DEF IndInv, TypeOK
  <1>3. n \in Nat /\ n > 0 /\ (n = 1 <=> count[k] = 0)
    BY <1>2
  <1>4. /\ count' = [count EXCEPT ![k] = n]
        /\ since' = [since EXCEPT ![k] = IF n = 1 THEN 0 ELSE @]
        /\ pc' = [pc EXCEPT ![w] = IF n = 1 THEN "expire"
                                   ELSE IF n <= Limit[rule[w]] THEN "ttl"
                                   ELSE "over"]
        /\ UNCHANGED <<ttl, acct, rule>>
    BY DEF Incr
  <1> HIDE DEF n
  <1>5. TypeOK'
    BY <1>1, <1>3, <1>4 DEF IndInv, TypeOK
  <1>6. \A v \in Workers : K(v)' = K(v)
    BY <1>4 DEF K
  <1>7. Gone' /\ Closing'
    <2> SUFFICES ASSUME NEW q \in Keys
                 PROVE  /\ count'[q] = 0 => ttl'[q] = 0 /\ since'[q] >= Interval[q[1]]
                        /\ ttl'[q] > 0 => since'[q] + ttl'[q] >= Interval[q[1]]
      BY DEF Gone, Closing
    <2>1. CASE q # k
      BY <2>1, <1>4 DEF IndInv, TypeOK, Gone, Closing
    <2>2. CASE q = k
      BY <2>2, <1>1, <1>3, <1>4 DEF IndInv, TypeOK, Gone, Closing
    <2> QED BY <2>1, <2>2
  <1>8. \A v \in Workers : pc'[v] = "expire" =>
            \/ v # w /\ pc[v] = "expire"
            \/ v = w /\ count[k] = 0
    BY <1>3, <1>4 DEF IndInv, TypeOK
  <1>9. Opener'
    <2> SUFFICES ASSUME NEW v \in Workers, pc'[v] = "expire"
                 PROVE  count'[K(v)] > 0 /\ ttl'[K(v)] = 0
      BY <1>6 DEF Opener
    <2>1. K(v) \in Keys
      BY WorkerKey DEF IndInv
    <2>2. CASE v = w
      BY <2>2, <1>1, <1>3, <1>4, <1>8 DEF IndInv, TypeOK, Gone
    <2>3. CASE v # w
      BY <2>1, <2>3, <1>1, <1>3, <1>4, <1>8 DEF IndInv, TypeOK, Opener
    <2> QED BY <2>2, <2>3
  <1>10. OneOpener'
    <2> SUFFICES ASSUME NEW u \in Workers, NEW v \in Workers,
                        pc'[u] = "expire", pc'[v] = "expire", K(u) = K(v)
                 PROVE  u = v
      BY <1>6 DEF OneOpener
    <2>1. count[k] = 0 => \A x \in Workers : pc[x] = "expire" => K(x) # k
      BY <1>2 DEF IndInv, Opener
    <2> QED BY <2>1, <1>8 DEF IndInv, OneOpener
  <1> QED BY <1>5, <1>7, <1>9, <1>10 DEF IndInv

\* redis.expire: the opener closes its own key, which no other thread opens.
LEMMA ExpireInv ==
    ASSUME IndInv, NEW w \in Workers, Expire(w)
    PROVE  IndInv'
  <1>1. K(w) \in Keys /\ K(w)[1] = rule[w] /\ rule[w] \in 1..Rules
    BY WorkerKey DEF IndInv
  <1>2. Interval[rule[w]] \in Nat
    BY <1>1, RulePositive
  <1>3. /\ pc[w] = "expire"
        /\ ttl' = [ttl EXCEPT ![K(w)] = Interval[rule[w]]]
        /\ pc' = [pc EXCEPT ![w] = "ttl"]
        /\ UNCHANGED <<count, since, acct, rule>>
    BY DEF Expire
  <1>4. TypeOK'
    BY <1>1, <1>2, <1>3 DEF IndInv, TypeOK
  <1>5. \A v \in Workers : K(v)' = K(v)
    BY <1>3 DEF K
  <1>6. \A v \in Workers : pc'[v] = "expire" => v # w /\ pc[v] = "expire"
    BY <1>3 DEF IndInv, TypeOK
  <1>7. Gone' /\ Closing'
    <2> SUFFICES ASSUME NEW q \in Keys
                 PROVE  /\ count'[q] = 0 => ttl'[q] = 0 /\ since'[q] >= Interval[q[1]]
                        /\ ttl'[q] > 0 => since'[q] + ttl'[q] >= Interval[q[1]]
      BY DEF Gone, Closing
    <2>1. CASE q # K(w)
      BY <2>1, <1>3 DEF IndInv, TypeOK, Gone, Closing
    <2>2. CASE q = K(w)
      BY <2>2, <1>1, <1>2, <1>3 DEF IndInv, TypeOK, Opener
    <2> QED BY <2>1, <2>2
  <1>8. Opener'
    <2> SUFFICES ASSUME NEW v \in Workers, pc'[v] = "expire"
                 PROVE  count'[K(v)] > 0 /\ ttl'[K(v)] = 0
      BY <1>5 DEF Opener
    <2>1. K(v) # K(w)
      BY <1>3, <1>6 DEF IndInv, OneOpener
    <2>2. K(v) \in Keys
      BY WorkerKey DEF IndInv
    <2> QED BY <2>1, <2>2, <1>3, <1>6 DEF IndInv, TypeOK, Opener
  <1>9. OneOpener'
    BY <1>5, <1>6 DEF IndInv, OneOpener
  <1> QED BY <1>4, <1>7, <1>8, <1>9 DEF IndInv

\* Time: a key goes only when its time is up, and then an interval has passed.
LEMMA TickInv ==
    ASSUME IndInv, Tick
    PROVE  IndInv'
  <1>1. \A k \in Keys : Interval[k[1]] \in Nat
    BY RulePositive DEF Keys
  <1>2. TypeOK'
    BY <1>1 DEF IndInv, TypeOK, Tick
  <1>3. \A w \in Workers : K(w)' = K(w) /\ pc'[w] = pc[w]
    BY DEF Tick, K
  <1>4. Gone' /\ Closing'
    <2> SUFFICES ASSUME NEW k \in Keys
                 PROVE  /\ count'[k] = 0 => ttl'[k] = 0 /\ since'[k] >= Interval[k[1]]
                        /\ ttl'[k] > 0 => since'[k] + ttl'[k] >= Interval[k[1]]
      BY DEF Gone, Closing
    <2>1. count[k] \in Nat /\ ttl[k] \in Nat /\ since[k] \in Nat
      BY DEF IndInv, TypeOK
    <2>2. /\ count[k] = 0 => ttl[k] = 0 /\ since[k] >= Interval[k[1]]
          /\ ttl[k] > 0 => since[k] + ttl[k] >= Interval[k[1]]
      BY DEF IndInv, Gone, Closing
    <2>3. /\ count'[k] = IF ttl[k] = 1 THEN 0 ELSE count[k]
          /\ ttl'[k] = IF ttl[k] > 0 THEN ttl[k] - 1 ELSE 0
          /\ since'[k] = IF since[k] < Interval[k[1]] THEN since[k] + 1
                         ELSE since[k]
      BY DEF Tick
    <2> QED BY <2>1, <2>2, <2>3, <1>1
  <1>5. Opener'
    <2> SUFFICES ASSUME NEW w \in Workers, pc[w] = "expire"
                 PROVE  count'[K(w)] > 0 /\ ttl'[K(w)] = 0
      BY <1>3 DEF Opener
    <2>1. K(w) \in Keys /\ count[K(w)] > 0 /\ ttl[K(w)] = 0
      BY WorkerKey DEF IndInv, Opener
    <2> QED BY <2>1 DEF Tick
  <1>6. OneOpener'
    BY <1>3 DEF IndInv, OneOpener
  <1> QED BY <1>2, <1>4, <1>5, <1>6 DEF IndInv

\* Every other step of a thread leaves the counters and the openers alone.
LEMMA OtherInv ==
    ASSUME IndInv, NEW w \in Workers,
           \/ \E a \in Accounts : acquire_testnet_order(w, a)
           \/ NextRule(w) \/ Exceeded(w) \/ StoreUnavailable(w)
    PROVE  IndInv'
  <1>1. 1 \in 1..Rules /\ Rules \in Nat
    BY RulesAssumption
  <1>2. TypeOK'
    <2>1. CASE \E a \in Accounts : acquire_testnet_order(w, a)
      BY <2>1 DEF IndInv, TypeOK, acquire_testnet_order
    <2>2. CASE NextRule(w)
      BY <2>2, <1>1 DEF IndInv, TypeOK, NextRule, Return
    <2>3. CASE Exceeded(w) \/ StoreUnavailable(w)
      BY <2>3, <1>1 DEF IndInv, TypeOK, Exceeded, StoreUnavailable, Return
    <2> QED BY <2>1, <2>2, <2>3
  <1>3. /\ UNCHANGED <<count, ttl, since>>
        /\ pc'[w] # "expire"
        /\ \A v \in Workers \ {w} :
               pc'[v] = pc[v] /\ acct'[v] = acct[v] /\ rule'[v] = rule[v]
    BY DEF IndInv, TypeOK, acquire_testnet_order, NextRule, Exceeded,
           StoreUnavailable, Return
  <1> QED BY <1>2, <1>3, QuietStep

\* The invariant is inductive.
LEMMA NextInv == IndInv /\ [Next]_vars => IndInv'
  <1> SUFFICES ASSUME IndInv, [Next]_vars PROVE IndInv'
    OBVIOUS
  <1>1. CASE Tick
    BY <1>1, TickInv
  <1>2. CASE \E w \in Workers, a \in Accounts : acquire_testnet_order(w, a)
    BY <1>2, OtherInv
  <1>3. CASE \E w \in Workers : WorkerStep(w)
    BY <1>3, IncrInv, ExpireInv, OtherInv DEF WorkerStep
  <1>4. CASE UNCHANGED vars
    BY <1>4 DEF vars, IndInv, TypeOK, Gone, Closing, Opener, OneOpener, K
  <1> QED BY <1>1, <1>2, <1>3, <1>4 DEF Next

\* The strengthened invariant holds in every reachable state.
THEOREM Invariance == Spec => []IndInv
  BY InitInv, NextInv, PTL DEF Spec

\* The counters, expiries and threads keep their types.
THEOREM TypeCorrectness == Spec => []TypeOK
  <1>1. IndInv => TypeOK
    BY DEF IndInv
  <1> QED BY <1>1, Invariance, PTL

\* Two windows of one rule open at least its interval apart, for any limits,
\* intervals, accounts and threads, with threads failing anywhere in acquire.
THEOREM Spacing == Spec => WindowSpacing
  <1>1. IndInv /\ [Next]_vars =>
           [\A k \in Keys :
              count[k] = 0 /\ count'[k] = 1 => since[k] >= Interval[k[1]]]_vars
    BY DEF IndInv, Gone
  <1> QED BY <1>1, Invariance, PTL DEF Spec, WindowSpacing
=============================================================================
