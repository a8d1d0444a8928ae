----------------------------- MODULE RateLimit -----------------------------
(***************************************************************************)
(* RuntimeRateLimitService.acquire_testnet_order over the Redis store      *)
(* (backend/app/services/rate_limit_service.py).  Threads of several       *)
(* backend processes walk the same rules over shared Redis counters.  One  *)
(* acquire is up to three commands, INCR, EXPIRE by whoever got 1, and     *)
(* TTL; another thread, the clock, an error or a crash may come between.   *)
(*                                                                         *)
(* Abstracted: time is a tick; a counter stops one above its limit, since  *)
(* the code only asks whether it is 1 and whether it exceeds the limit;    *)
(* the TTL is only reported (Retry-After) and decides nothing.             *)
(***************************************************************************)
EXTENDS Naturals

CONSTANTS
    Workers, Accounts,
    Rules,           \* _testnet_order_rules has Rules rules, tried 1..Rules
    IpScoped,        \* the rules whose counter all accounts share
    Limit, Interval, \* [1..Rules -> Nat]
    Global,          \* scope key of the rules in IpScoped
    FailuresAllowed  \* RedisError, or a process dying within acquire

ASSUME RulesAssumption ==
    /\ Rules \in Nat \ {0}
    /\ IpScoped \subseteq 1..Rules
    /\ Limit \in [1..Rules -> Nat \ {0}]
    /\ Interval \in [1..Rules -> Nat \ {0}]
    /\ Global \notin Accounts
    /\ FailuresAllowed \in BOOLEAN

Keys == (1..Rules) \X (Accounts \cup {Global})

\* _rate_limit_key
Key(rule, a) == <<rule, IF rule \in IpScoped THEN Global ELSE a>>

VARIABLES
    count,  \* value of each Redis key, 0: no such key
    ttl,    \* ticks until it expires, 0: no expiry set
    since,  \* ticks since the key was created last (history, capped)
    pc, acct, rule

vars == <<count, ttl, since, pc, acct, rule>>

TypeOK ==
    /\ count \in [Keys -> Nat]
    /\ ttl \in [Keys -> Nat]
    /\ since \in [Keys -> Nat]
    /\ pc \in [Workers -> {"idle", "incr", "expire", "ttl", "over"}]
    /\ acct \in [Workers -> Accounts]
    /\ rule \in [Workers -> 1..Rules]

Init ==
    /\ count = [k \in Keys |-> 0]
    /\ ttl = [k \in Keys |-> 0]
    /\ since = [k \in Keys |-> Interval[k[1]]]
    /\ pc = [w \in Workers |-> "idle"]
    /\ acct \in [Workers -> Accounts]
    /\ rule = [w \in Workers |-> 1]
-----------------------------------------------------------------------------
K(w) == Key(rule[w], acct[w])

\* The service returns or raises; the next call starts at the first rule.
Return(w) ==
    /\ pc' = [pc EXCEPT ![w] = "idle"]
    /\ rule' = [rule EXCEPT ![w] = 1]

acquire_testnet_order(w, a) ==
    /\ pc[w] = "idle"
    /\ pc' = [pc EXCEPT ![w] = "incr"]
    /\ acct' = [acct EXCEPT ![w] = a]
    /\ UNCHANGED <<count, ttl, since, rule>>

\* Mutant: every request renews the expiry.
IncrThenExpire(w) ==
    /\ pc[w] = "incr"
    /\ LET k == K(w)
           n == IF count[k] > Limit[rule[w]] THEN count[k] ELSE count[k] + 1
       IN /\ count' = [count EXCEPT ![k] = n]
          /\ since' = [since EXCEPT ![k] = IF n = 1 THEN 0 ELSE @]
          /\ pc' = [pc EXCEPT ![w] = "expire"]
    /\ UNCHANGED <<ttl, acct, rule>>

\* redis.incr: creates the key without expiry, or counts up.
Incr(w) ==
    /\ pc[w] = "incr"
    /\ LET k == K(w)
           n == IF count[k] > Limit[rule[w]] THEN count[k] ELSE count[k] + 1
       IN /\ count' = [count EXCEPT ![k] = n]
          /\ since' = [since EXCEPT ![k] = IF n = 1 THEN 0 ELSE @]
          /\ pc' = [pc EXCEPT ![w] = IF n = 1 THEN "expire"
                                     ELSE IF n <= Limit[rule[w]] THEN "ttl"
                                     ELSE "over"]
    /\ UNCHANGED <<ttl, acct, rule>>

\* Mutant: the window is one tick short.
ExpireEarly(w) ==
    /\ pc[w] = "expire"
    /\ ttl' = [ttl EXCEPT ![K(w)] = Interval[rule[w]] - 1]
    /\ pc' = [pc EXCEPT ![w] = "ttl"]
    /\ UNCHANGED <<count, since, acct, rule>>

\* redis.expire
Expire(w) ==
    /\ pc[w] = "expire"
    /\ ttl' = [ttl EXCEPT ![K(w)] = Interval[rule[w]]]
    /\ pc' = [pc EXCEPT ![w] = "ttl"]
    /\ UNCHANGED <<count, since, acct, rule>>

\* Mutant: the walk over the rules does not stop at the last one.
NextRuleAlways(w) ==
    /\ pc[w] = "ttl"
    /\ rule' = [rule EXCEPT ![w] = @ + 1]
    /\ pc' = [pc EXCEPT ![w] = "incr"]
    /\ UNCHANGED <<count, ttl, since, acct>>

\* redis.ttl, and the limit is kept: the next rule, or the order may go.
NextRule(w) ==
    /\ pc[w] = "ttl"
    /\ \/ /\ rule[w] < Rules
          /\ rule' = [rule EXCEPT ![w] = @ + 1]
          /\ pc' = [pc EXCEPT ![w] = "incr"]
       \/ rule[w] = Rules /\ Return(w)
    /\ UNCHANGED <<count, ttl, since, acct>>

\* redis.ttl, and RateLimitExceededError.
Exceeded(w) ==
    /\ pc[w] = "over"
    /\ Return(w)
    /\ UNCHANGED <<count, ttl, since, acct>>

\* RateLimitStoreUnavailableError, or the process dies: no command is undone.
StoreUnavailable(w) ==
    /\ FailuresAllowed
    /\ pc[w] # "idle"
    /\ Return(w)
    /\ UNCHANGED <<count, ttl, since, acct>>

\* External: time passes in Redis; a key whose time is up is gone.
Tick ==
    /\ count' = [k \in Keys |-> IF ttl[k] = 1 THEN 0 ELSE count[k]]
    /\ ttl' = [k \in Keys |-> IF ttl[k] > 0 THEN ttl[k] - 1 ELSE 0]
    /\ since' = [k \in Keys |-> IF since[k] < Interval[k[1]]
                                THEN since[k] + 1 ELSE since[k]]
    /\ UNCHANGED <<pc, acct, rule>>

WorkerStep(w) ==
    Incr(w) \/ Expire(w) \/ NextRule(w) \/ Exceeded(w) \/ StoreUnavailable(w)

Next ==
    \/ \E w \in Workers, a \in Accounts : acquire_testnet_order(w, a)
    \/ \E w \in Workers : WorkerStep(w)
    \/ Tick

Spec == Init /\ [][Next]_vars

\* Time passes, and a thread inside acquire goes on.
FairSpec == Spec /\ WF_vars(Tick) /\ \A w \in Workers : WF_vars(WorkerStep(w))
-----------------------------------------------------------------------------
\* Two windows of a rule are opened at least its interval apart, whichever
\* threads open them and however long the first takes from INCR to EXPIRE: with
\* limit 1 that is one order per interval.
WindowSpacing ==
    [][\A k \in Keys :
          count[k] = 0 /\ count'[k] = 1 => since[k] >= Interval[k[1]]]_vars

\* A key without an expiry that nobody is about to give one: whoever created
\* it was stopped between INCR and EXPIRE.
Abandoned(k) ==
    /\ count[k] > 0 /\ ttl[k] = 0
    /\ \A w \in Workers : pc[w] = "expire" => K(w) # k

\* A window always closes, so that a rule that refuses requests admits one
\* again, however many requests keep coming and wherever others fail; the one
\* exception is an abandoned window.
WindowCloses ==
    \A k \in Keys : count[k] > 0 ~> (count[k] = 0 \/ Abandoned(k))
=============================================================================
