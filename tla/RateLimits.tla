----------------------------- MODULE RateLimits -----------------------------
(***************************************************************************)
(* The limiters every worker shares through Redis: the sliding window of   *)
(* ingest/edgar_client.py and the two token buckets of agents/llm/         *)
(* ratelimit.py.  A Lua script is one step, on the clock of Redis.         *)
(***************************************************************************)
EXTENDS Naturals, FiniteSets, FiniteSetsExt

CONSTANTS
    Clients,        \* threads of the workers
    Window, WindowLimit,    \* EDGAR_WINDOW_S and EDGAR_LIMIT
    ServerWindow,   \* the second in which the SEC counts
    Jitter,         \* bound on the time from admission to arrival
    RequestCap, TokenCap,   \* rpm and tpm
    Minute,         \* time in which an empty bucket fills
    Costs,          \* estimated tokens of a call
    LimitHorizon    \* bound on the clock

ASSUME LimitAssumption ==
    /\ {Window, WindowLimit, ServerWindow, Jitter, RequestCap, TokenCap, LimitHorizon} \subseteq Nat
    /\ Minute \in Nat \ {0} /\ Costs \subseteq Nat \ {0}
    /\ ServerWindow + Jitter <= Window

VARIABLES
    redisTime,
    admitted,   \* requests to the SEC: number, admission, arrival at the server
    buckets,    \* content, in parts of one unit in Minute, and time of the last use
    granted,    \* what each bucket let through: number, time, units
    caller,     \* what each client is doing, and when it asks again
    limiter     \* which of the two the behaviour exercises: they share no key

limitVars == <<redisTime, admitted, buckets, granted, caller, limiter>>

Buckets == {"requests", "tokens"}
CapOf(b) == IF b = "requests" THEN RequestCap ELSE TokenCap
NoCall == [doing |-> "idle"]

LimitInit ==
    /\ redisTime = 0 /\ limiter \in {"window", "requests"}
    /\ admitted = {} /\ granted = [b \in Buckets |-> {}]
    /\ buckets = [b \in Buckets |-> [units |-> CapOf(b) * Minute, ts |-> 0]]
    /\ caller = [c \in Clients |-> NoCall]

RedisTick ==
    /\ redisTime < LimitHorizon
    /\ redisTime' = redisTime + 1
    /\ UNCHANGED <<admitted, buckets, granted, caller, limiter>>

\* EdgarClient.get, and ModelRateLimiter.acquire: a request first, then its tokens.
Ask(c) ==
    /\ caller[c] = NoCall
    /\ \E cost \in IF limiter = "window" THEN {1} ELSE Costs :
          caller' = [caller EXCEPT ![c] = [doing |-> limiter, cost |-> cost, until |-> redisTime]]
    /\ UNCHANGED <<redisTime, admitted, buckets, granted, limiter>>

Awake(c, doing) == caller[c] # NoCall /\ caller[c].doing = doing /\ redisTime >= caller[c].until
Sleep(c, wait) == caller' = [caller EXCEPT ![c].until = redisTime + wait]

-----------------------------------------------------------------------------
(* RedisSlidingWindowLimiter: the members older than the window are gone.  *)

\* A mutant: the window of the server is the window of the log.
MembersOfTheSecond == {a \in admitted : a.at + ServerWindow > redisTime}

Members == {a \in admitted : a.at + Window > redisTime}

\* The request leaves; a status worth retrying makes the client ask for another admission.
Admit(c) ==
    /\ Awake(c, "window")
    /\ Cardinality(Members) < WindowLimit
    /\ \E delay \in 0..Jitter :
          admitted' = admitted \cup
              {[n |-> Cardinality(admitted), at |-> redisTime, arrives |-> redisTime + delay]}
    /\ \/ caller' = [caller EXCEPT ![c] = NoCall]
       \/ Sleep(c, 1)
    /\ UNCHANGED <<redisTime, buckets, granted, limiter>>

WindowFull(c) ==
    /\ Awake(c, "window")
    /\ Cardinality(Members) >= WindowLimit
    /\ Sleep(c, Min({a.at : a \in Members}) + Window - redisTime)
    /\ UNCHANGED <<redisTime, admitted, buckets, granted, limiter>>

-----------------------------------------------------------------------------
(* RedisTokenBucket                                                        *)

Smaller(a, b) == IF a <= b THEN a ELSE b
Refilled(b) ==
    Smaller(CapOf(b) * Minute, buckets[b].units + (redisTime - buckets[b].ts) * CapOf(b))
\* A cost above the capacity is clamped: it could never be granted.
Charge(c, b) == Smaller(IF b = "requests" THEN 1 ELSE caller[c].cost, CapOf(b))

Use(b, units) == buckets' = [buckets EXCEPT ![b] = [units |-> units, ts |-> redisTime]]

Grant(c, b) ==
    /\ Awake(c, b)
    /\ Refilled(b) >= Charge(c, b) * Minute
    /\ Use(b, Refilled(b) - Charge(c, b) * Minute)
    /\ granted' = [granted EXCEPT ![b] = @ \cup
          {[n |-> Cardinality(@), at |-> redisTime, units |-> Charge(c, b)]}]
    /\ caller' = [caller EXCEPT ![c] =
          IF b = "requests" THEN [@ EXCEPT !.doing = "tokens", !.until = redisTime] ELSE NoCall]
    /\ UNCHANGED <<redisTime, admitted, limiter>>

\* The wait is rounded up; others may have used the bucket when it is over.
Short(c, b) ==
    /\ Awake(c, b)
    /\ Refilled(b) < Charge(c, b) * Minute
    /\ Use(b, Refilled(b))
    /\ LET missing == Charge(c, b) * Minute - Refilled(b)
       IN  Sleep(c, (missing + CapOf(b) - 1) \div CapOf(b))
    /\ UNCHANGED <<redisTime, admitted, granted, limiter>>

LimitNext ==
    \/ RedisTick
    \/ \E c \in Clients :
          \/ Ask(c) \/ Admit(c) \/ WindowFull(c)
          \/ \E b \in Buckets : Grant(c, b) \/ Short(c, b)
LimitSpec == LimitInit /\ [][LimitNext]_limitVars

-----------------------------------------------------------------------------
UnitsIn(b, from, to) == MapThenSumSet(LAMBDA g : g.units, {g \in granted[b] : g.at \in from..to})

(* ingest/edgar_client.py:3-6 and agents/llm/ratelimit.py:44: whoever asks, *)
(* retries or is delayed on the way, the SEC never counts more than the     *)
(* limit in one of its windows, and in no stretch of time does a bucket let *)
(* through more than its burst and what came back meanwhile.  A bucket lets *)
(* through what it charges: an estimate above its capacity is charged as    *)
(* the capacity (ratelimit.py:18), and a request waits for both buckets,    *)
(* so it is sent later than it was let through (ratelimit.py:79).           *)
LimitsAreKept ==
    /\ \A t \in 0..(LimitHorizon + Jitter) :
          Cardinality({a \in admitted : a.arrives >= t /\ a.arrives < t + ServerWindow}) <= WindowLimit
    /\ \A b \in Buckets : \A from \in 0..redisTime : \A to \in from..redisTime :
          UnitsIn(b, from, to) * Minute <= CapOf(b) * (Minute + (to - from))
=============================================================================
