---------------------------- MODULE RateLimiters ----------------------------
(***************************************************************************)
(* What stands before the guard of reserve and confirm: a token bucket per *)
(* project in the memory of the process, then a sliding window counter per *)
(* project and user in Redis, and the row that is logged of a rejection,   *)
(* whose project is looked up through a cache. One key of each. The unit   *)
(* of time is a second, long against a call.                               *)
(***************************************************************************)
EXTENDS Integers, FiniteSets, NoValue

CONSTANTS
    Arrivals,
    Capacity, Parts, Refill, \* of the bucket; a token has Parts, Refill come per unit
    Window, Limit,           \* of the user's counter
    Span,                    \* how far the history reaches back
    Burst                    \* bound on the calls of one unit of time

ASSUME LimiterAssumption ==
    /\ {Capacity, Parts, Refill, Window, Limit, Span, Burst} \subseteq Nat \ {0}
    /\ NULL \notin Nat /\ NULL \notin [tokens : Nat, since : Nat]

VARIABLES
    bucket,     \* tokens: in parts, since: time since lastRefillMs; NULL: no entry
    elapsed,    \* position in the current window
    cur, prev,  \* the counters of this window and the last; left: time to live
    req,        \* the calls under way
    byProject, byUser, \* how many calls each limiter has let pass in this unit and
                \* the d before it
    arrived,    \* calls that arrived in this unit
    told,       \* time left of the last Retry-After of the bucket, if nobody has
                \* taken a token since
    exists,     \* whether the project of the api key has been created
    cached,     \* whether Redis knows whose api key it is
    record      \* the row being logged

limits == <<bucket, elapsed, cur, prev, byProject, byUser, arrived, told>>
identity == <<exists, cached, record>>
limitVars == <<limits, req, identity>>

Least(a, b) == IF a < b THEN a ELSE b
Ceil(a, b) == (a + b - 1) \div b
NoKey == [n |-> 0, left |-> 0]
Waiting == [pc |-> "idle", n |-> 0]
Quiet == [pc |-> "idle", scope |-> NULL, existed |-> FALSE, named |-> FALSE, failed |-> FALSE]
Nothing == [d \in 0..Span |-> 0]

LimitInit ==
    /\ bucket = NULL
    /\ elapsed = 0 /\ cur = NoKey /\ prev = NoKey
    /\ req = [c \in Arrivals |-> Waiting]
    /\ byProject = Nothing /\ byUser = Nothing /\ arrived = 0
    /\ told = NULL
    /\ exists = FALSE /\ cached = FALSE /\ record = Quiet

-----------------------------------------------------------------------------
(* TokenBucketLimiter.tryConsume, in one turn of the event loop            *)

\* Mutant: the refill goes beyond the capacity
RefilledUncapped == IF bucket = NULL THEN Capacity * Parts
                    ELSE bucket.tokens + bucket.since * Refill
Refilled == IF bucket = NULL THEN Capacity * Parts
            ELSE Least(Capacity * Parts, bucket.tokens + bucket.since * Refill)
RetryAfter(tokens) == Ceil(Parts - tokens, Refill)
Kept(tokens) == [tokens |-> tokens, since |-> 0]
Enough(tokens) == tokens >= Parts

\* A rejection is logged; one row at a time (a bound of the model)
Log(scope) ==
    record' = IF record.pc = "idle"
              THEN [Quiet EXCEPT !.pc = "cache", !.scope = scope, !.existed = exists]
              ELSE record

Move(c, next) == req' = [req EXCEPT ![c] = next]
Passed(log) == [d \in 0..Span |-> log[d] + 1]

\* CouponUsageRateLimitMiddleware, which runs first
Arrive(c) ==
    /\ req[c] = Waiting /\ arrived < Burst
    /\ arrived' = arrived + 1
    /\ IF Enough(Refilled)
       THEN /\ bucket' = [tokens |-> Refilled - Parts, since |-> 0]
            /\ byProject' = Passed(byProject)
            /\ told' = NULL
            /\ Move(c, [pc |-> "user", n |-> 0])
            /\ UNCHANGED record
       ELSE /\ bucket' = Kept(Refilled)
            /\ told' = RetryAfter(Refilled)
            /\ Log("project")
            /\ UNCHANGED <<byProject, req>>
    /\ UNCHANGED <<elapsed, cur, prev, byUser, exists, cached>>

-----------------------------------------------------------------------------
(* CouponUsageUserRateLimitMiddleware, SlidingWindowCounterLimiter         *)

\* No game_user_id in the body, Redis disabled, or a command that fails
LetPass(c) ==
    /\ req[c].pc \in {"user", "weigh"}
    /\ Move(c, Waiting)
    /\ UNCHANGED <<limits, identity>>

\* INCR and EXPIRE, before anything is decided
KeyTtl == 2 * Window
Count(c) ==
    /\ req[c].pc = "user"
    /\ cur' = [n |-> cur.n + 1, left |-> KeyTtl]
    /\ Move(c, [pc |-> "weigh", n |-> cur.n + 1])
    /\ UNCHANGED <<bucket, elapsed, prev, byProject, byUser, arrived, told, identity>>

\* GET of the last window, weighed with what is left of it
Within(n) == n * Window + prev.n * (Window - elapsed) <= Limit * Window

Weigh(c) ==
    /\ req[c].pc = "weigh"
    /\ IF Within(req[c].n) THEN byUser' = Passed(byUser) /\ UNCHANGED record
       ELSE Log("user") /\ UNCHANGED byUser
    /\ Move(c, Waiting)
    /\ UNCHANGED <<bucket, elapsed, cur, prev, byProject, arrived, told, exists, cached>>

-----------------------------------------------------------------------------
(* RateLimitLogService.record, ProjectIdentityCacheService                 *)

\* ProjectService.create; the row is cached after the answer
CreateProject ==
    /\ ~exists /\ exists' = TRUE
    /\ cached' \in {cached, TRUE}
    /\ UNCHANGED <<limits, req, record>>

\* readCache: a hit, a miss or a failure
ReadCache ==
    /\ record.pc = "cache"
    /\ \/ record' = [record EXCEPT !.pc = "lookup"]
       \/ cached /\ record' = [record EXCEPT !.pc = "row", !.named = TRUE]
    /\ UNCHANGED <<limits, req, exists, cached>>

Row(named, failed) == [record EXCEPT !.pc = "row", !.named = named, !.failed = failed]

\* SP_PROJECT_GET_IDENTITY_BY_API_KEY; only a key that is found is cached, if
\* Redis takes it
Lookup ==
    /\ record.pc = "lookup"
    /\ \/ record' = Row(FALSE, TRUE) /\ UNCHANGED cached
       \/ /\ record' = Row(exists, FALSE)
          /\ IF exists THEN cached' \in {cached, TRUE} ELSE UNCHANGED cached
    /\ UNCHANGED <<limits, req, exists>>

\* logCall, whose own failure is swallowed
WriteRow ==
    /\ record.pc = "row" /\ record' = Quiet
    /\ UNCHANGED <<limits, req, exists, cached>>

\* PROJECT_API_KEY_CACHE_TTL_SEC
CacheExpires ==
    /\ cached /\ cached' = FALSE
    /\ UNCHANGED <<limits, req, exists, record>>

-----------------------------------------------------------------------------
Older(key) == IF key.left <= 1 THEN NoKey ELSE [key EXCEPT !.left = @ - 1]
Shift(log) == [d \in 0..Span |-> IF d = 0 THEN 0 ELSE log[d - 1]]

Second ==
    /\ \A c \in Arrivals : req[c] = Waiting
    /\ elapsed' = (elapsed + 1) % Window
    /\ IF elapsed + 1 = Window THEN prev' = Older(cur) /\ cur' = NoKey
       ELSE prev' = Older(prev) /\ cur' = Older(cur)
    /\ bucket' = IF bucket = NULL THEN NULL
                 ELSE [bucket EXCEPT !.since = Least(@ + 1, Capacity * Parts)]
    /\ byProject' = Shift(byProject) /\ byUser' = Shift(byUser)
    /\ arrived' = 0
    /\ told' = IF told \in {NULL, 0} THEN NULL ELSE told - 1
    /\ UNCHANGED <<req, identity>>

LimitNext ==
    \/ \E c \in Arrivals : Arrive(c) \/ LetPass(c) \/ Count(c) \/ Weigh(c)
    \/ CreateProject \/ ReadCache \/ Lookup \/ WriteRow \/ CacheExpires
    \/ Second

LimitSpec == LimitInit /\ [][LimitNext]_limitVars

-----------------------------------------------------------------------------
LimitTypeOK ==
    /\ bucket = NULL \/ (bucket.tokens \in 0..(Capacity * Parts) /\ bucket.since \in Nat)
    /\ elapsed \in 0..(Window - 1)
    /\ cur.left \in 0..KeyTtl /\ prev.left \in 0..KeyTtl
    /\ {byProject, byUser} \subseteq [0..Span -> 0..(Burst * (Span + 1))]
    /\ told = NULL \/ told \in Nat
    /\ {exists, cached} \subseteq BOOLEAN
    /\ record.pc \in {"idle", "cache", "lookup", "row"}

\* Whatever the calls do, a project gets through no more than the bucket and
\* what is refilled, over any stretch of time: no burst at an edge
\* ("the capacity is an absolute bound", token-bucket-limiter.ts).
ProjectBounded ==
    \A d \in 0..Span : byProject[d] * Parts <= Capacity * Parts + Refill * d

\* A user gets through Limit calls and a share of Limit for the time that has
\* passed, over any stretch shorter than a window: most of the double burst at
\* the edge of two fixed windows is gone (sliding-window-counter-limiter.ts).
UserBounded ==
    \A d \in 0..(Window - 1) :
        d <= Span => byUser[d] * Window <= Limit * (Window + d)

\* Retry-After of the bucket is the shortest wait after which a call passes if
\* nobody else takes the token; the refusals in between do not lengthen it.
RetryAfterIsExact == told # NULL => (Enough(Refilled) <=> told = 0)

\* The row of a rejection names the project that existed when the call was
\* rejected, unless the database failed: no lookup made before the project was
\* created, and no lost cache entry, makes it anonymous.
RejectionIsNamed ==
    record.pc = "row" => record.named \/ record.failed \/ ~record.existed

\* What the two limiters let through, and what the first tells those it refuses
\* and leaves behind of them
LimitersSound == ProjectBounded /\ UserBounded /\ RetryAfterIsExact /\ RejectionIsNamed
=============================================================================
