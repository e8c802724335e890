----------------------------- MODULE GameServer -----------------------------
(***************************************************************************)
(* The test game server: a daemon that runs one scenario after the other   *)
(* against the coupon API of one campaign, judges the answers, and stops   *)
(* gracefully. Another game server and the administrators act meanwhile.   *)
(* The API is one atomic step per call (CouponUsage models what is inside) *)
(* that may also answer 40001 or get lost.                                 *)
(***************************************************************************)
EXTENDS Sequences, FiniteSets, CouponSchema, NoValue

CONSTANTS GameCodes,  \* codes of a RANDOM campaign
          Pool,       \* number of players in gameUserPool
          BurstCount, \* RACE_BURST_COUNT
          Quantity,   \* usable_qty
          MaxHistory,
          MaxTicks,   \* bound on the scenarios run
          MaxForeign \* bound on what the others do

ASSUME GameAssumption ==
    /\ {Pool, BurstCount, Quantity, MaxHistory, MaxTicks} \subseteq Nat \ {0}
    /\ MaxForeign \in Nat /\ NULL \notin GameCodes /\ GameCodes # {}

VARIABLES
    offer,    \* the campaign: fixed, limit (use_limit_per_user), open; elsewhere:
              \* whether another campaign is active all the time
    redeemed, \* coupon_code_usage: a sequence of [code, user], ids are positions
    given,    \* ids confirmed
    daemon,   \* "running" a tick, "waiting" for the timer, or "idle" for good
    stopping,
    database, \* "open", "closed": the daemon's own pool
    memory,   \* ReserveHistoryStore
    work,     \* the scenario under way
    alarm,    \* the last scenario ended with a MISMATCH
    ticks,
    foreign,  \* what the others have done
    calm      \* what they had done when the scenario (or the entry retried) began

gameVars == <<offer, redeemed, given, daemon, stopping, database, memory, work, alarm, ticks,
              foreign, calm>>
service == <<offer, redeemed, given>>
process == <<daemon, stopping, database, ticks>>

Players == 1..Pool
FirstRacer == Pool + 1     \* the users of a burst are new ones
Uses(code, user) == {i \in DOMAIN redeemed : redeemed[i].code = code /\ redeemed[i].user = user}
UsesOf(user) == {i \in DOMAIN redeemed : redeemed[i].user = user}
Taken(code) == \E i \in DOMAIN redeemed : redeemed[i].code = code
Earliest(S) == CHOOSE i \in S : \A j \in S : i <= j

\* A FIXED campaign has one code
CodesHere == IF offer.fixed THEN {CHOOSE c \in GameCodes : TRUE} ELSE GameCodes
\* SPTG_USABLE_CODE_LIST
Usable == {c \in CodesHere : offer.fixed \/ ~Taken(c)}

\* POST reserve, as it answers when it answers: the id, and the rows there are then
Outcomes(code, user) ==
    IF offer.limit = 1 /\ Uses(code, user) # {}
    THEN {[id |-> Earliest(Uses(code, user)), rows |-> redeemed]}
    ELSE IF /\ offer.open /\ Len(redeemed) < Quantity
            /\ offer.fixed \/ ~Taken(code)
            /\ Cardinality(UsesOf(user)) < offer.limit
         THEN {[id |-> Len(redeemed) + 1,
                rows |-> Append(redeemed, [code |-> code, user |-> user])]}
         ELSE {}
\* The first check that fails decides what a refusal says
Reason(code) ==
    IF ~offer.fixed /\ Taken(code) THEN CODE_CONSUMED
    ELSE IF ~offer.open \/ Len(redeemed) = Quantity THEN CAMPAIGN_CLOSED
    ELSE USER_LIMIT
\* What a call brings: an id, or one of these (40001; an exception)
Ids == 1..Quantity
Refused == 0
Limited == Quantity + 1
Lost == Quantity + 2
Answers == 0..Lost
Reserve(code, user, a) ==
    LET done == Outcomes(code, user)
    IN  \/ \E o \in done : a = o.id /\ redeemed' = o.rows
        \/ \E o \in done : a = Lost /\ redeemed' = o.rows
        \/ a \in {Limited, Lost} /\ UNCHANGED redeemed
        \/ a = Refused /\ done = {} /\ UNCHANGED redeemed
Confirm(code, user, a) ==
    LET mine == Uses(code, user)
    IN  \/ mine # {} /\ a \in {Earliest(mine), Lost} /\ given' = given \cup {Earliest(mine)}
        \/ a \in {Limited, Lost} /\ UNCHANGED given
        \/ a = Refused /\ mine = {} /\ UNCHANGED given

-----------------------------------------------------------------------------
\* loop(): a tick, and the scenario it picks
Begin(w) == daemon = "running" /\ work = NULL /\ ticks < MaxTicks
            /\ work' = w /\ ticks' = ticks + 1 /\ alarm' = FALSE
Blank == [scenario |-> NULL, step |-> NULL, code |-> NULL, user |-> 0, id |-> 0, left |-> 0,
          wins |-> {}, won |-> 0, limit |-> 0, limited |-> FALSE, thrown |-> FALSE, items |-> {},
          expects |-> OK]

\* The tick ends: finally() sets the timer unless the daemon is stopping
End(raised) ==
    /\ work' = NULL /\ alarm' = raised
    /\ daemon' = IF stopping THEN "idle" ELSE "waiting"
    /\ UNCHANGED <<stopping, database, ticks>>
Continue(w) == work' = w /\ UNCHANGED <<process, alarm>>

TimerFires ==
    /\ daemon = "waiting"
    /\ daemon' = IF stopping THEN "idle" ELSE "running"
    /\ UNCHANGED <<service, stopping, database, ticks, memory, work, alarm, foreign, calm>>
\* No campaign is active, or the tick picks the other one
NotThisCampaign ==
    /\ daemon = "running" /\ work = NULL /\ (~offer.open \/ offer.elsewhere)
    /\ End(FALSE)
    /\ UNCHANGED <<service, memory, foreign, calm>>

NormalFlow(c, u) ==
    /\ Begin([Blank EXCEPT !.scenario = "normal", !.step = "reserve", !.code = c, !.user = u,
                           !.limit = offer.limit])
    /\ offer.open /\ c \in Usable
    /\ calm' = foreign
    /\ UNCHANGED <<service, daemon, stopping, database, memory, foreign>>
Record(m, e) ==
    LET all == Append(m, e) IN IF Len(all) > MaxHistory THEN Tail(all) ELSE all
NormalReserve ==
    /\ work # NULL /\ work.scenario = "normal" /\ work.step = "reserve"
    /\ \E a \in Answers :
         /\ Reserve(work.code, work.user, a)
         /\ IF a \in Ids
            THEN /\ memory' = Record(memory, [code |-> work.code, user |-> work.user, id |-> a,
                                              limit |-> work.limit, at |-> calm])
                 /\ \/ Continue([work EXCEPT !.step = "confirm", !.id = a])
                    \/ End(FALSE)     \* confirm left out on purpose
            ELSE End(FALSE) /\ UNCHANGED memory
    /\ UNCHANGED <<offer, given, foreign, calm>>
NormalConfirm ==
    /\ work # NULL /\ work.scenario = "normal" /\ work.step = "confirm"
    /\ \E a \in Answers : Confirm(work.code, work.user, a)
    /\ End(FALSE)
    /\ UNCHANGED <<offer, redeemed, memory, foreign, calm>>

IdempotentRetry(i) ==
    /\ memory[i].limit = 1
    /\ Begin([Blank EXCEPT !.scenario = "idempotent", !.step = "reserve", !.code = memory[i].code,
                           !.user = memory[i].user, !.id = memory[i].id])
    /\ calm' = memory[i].at
    /\ UNCHANGED <<service, daemon, stopping, database, memory, foreign>>
RetryReserve ==
    /\ work # NULL /\ work.scenario = "idempotent" /\ work.step = "reserve"
    /\ \E a \in Answers :
         /\ Reserve(work.code, work.user, a)
         /\ IF a \in Ids
            THEN Continue([work EXCEPT !.step = "confirm", !.thrown = (a # work.id)])
            ELSE End(a = Refused)
    /\ UNCHANGED <<offer, given, memory, foreign, calm>>
RetryConfirm ==
    /\ work # NULL /\ work.scenario = "idempotent" /\ work.step = "confirm"
    /\ \E a \in Answers :
         /\ Confirm(work.code, work.user, a)
         /\ End(work.thrown \/ a = Refused \/ (a \in Ids /\ a # work.id))
    /\ UNCHANGED <<offer, redeemed, memory, foreign, calm>>

ConcurrencyRace(c) ==
    /\ Begin([Blank EXCEPT !.scenario = "race", !.step = "burst", !.code = c,
                           !.user = FirstRacer + ticks * BurstCount, !.left = BurstCount,
                           !.limit = offer.limit])
    /\ offer.open /\ c \in Usable
    /\ calm' = foreign
    /\ UNCHANGED <<service, daemon, stopping, database, memory, foreign>>
\* One call of the burst is answered; for a RANDOM code each has a user of its own
BurstCall ==
    /\ work # NULL /\ work.scenario = "race" /\ work.left > 0
    /\ LET user == IF offer.fixed THEN work.user ELSE work.user + work.left - 1
       IN  \E a \in Answers :
             /\ Reserve(work.code, user, a)
             /\ Continue([work EXCEPT !.left = @ - 1,
                  !.won = IF a \in Ids THEN @ + 1 ELSE @,
                  !.wins = IF a \in Ids THEN @ \cup {a} ELSE @,
                  !.limited = (@ \/ a = Limited), !.thrown = (@ \/ a = Lost)])
    /\ UNCHANGED <<offer, given, memory, foreign, calm>>
Smaller(a, b) == IF a < b THEN a ELSE b
Expected == IF offer.fixed THEN Smaller(BurstCount, work.limit) ELSE 1
Counted == IF offer.fixed THEN Cardinality(Uses(work.code, work.user))
           ELSE Cardinality({i \in DOMAIN redeemed : redeemed[i].code = work.code})
Miscounted ==
    \/ IF offer.fixed /\ work.limit = 1 THEN Cardinality(work.wins) > 1 ELSE work.won # Expected
    \/ Counted # Expected
\* Mutant: the answers are judged although some were throttled.
JudgeThrottled ==
    /\ work # NULL /\ work.scenario = "race" /\ work.left = 0
    /\ End(~work.thrown /\ Miscounted)
    /\ UNCHANGED <<service, memory, foreign, calm>>
\* The answers, then the rows of the database, against what was expected
Judge ==
    /\ work # NULL /\ work.scenario = "race" /\ work.left = 0
    /\ End(~work.thrown /\ ~work.limited /\ Miscounted)
    /\ UNCHANGED <<service, memory, foreign, calm>>

Reconcile ==
    /\ Begin([Blank EXCEPT !.scenario = "reconcile",
                           !.items = DOMAIN redeemed \ given])
    /\ offer.open
    /\ calm' = foreign
    /\ UNCHANGED <<service, daemon, stopping, database, memory, foreign>>
ReconcileItem(i) ==
    /\ work # NULL /\ work.scenario = "reconcile" /\ i \in work.items
    /\ \/ UNCHANGED given /\ Continue([work EXCEPT !.items = @ \ {i}])     \* not this time
       \/ \E a \in Answers : /\ Confirm(redeemed[i].code, redeemed[i].user, a)
                             /\ IF a = Lost THEN End(FALSE)
                                ELSE Continue([work EXCEPT !.items = @ \ {i}])
    /\ UNCHANGED <<offer, redeemed, memory, foreign, calm>>
ReconcileEnds ==
    /\ work # NULL /\ work.scenario = "reconcile" /\ work.items = {}
    /\ End(FALSE)
    /\ UNCHANGED <<service, memory, foreign, calm>>

\* What is exhausted is looked for in the whole database, whatever campaign the
\* tick has picked. A RANDOM code is tried by a new user, a FIXED one by a user at
\* the limit.
ExhaustedRetry(code, user, answer) ==
    /\ Begin([Blank EXCEPT !.scenario = "exhausted", !.step = "reserve", !.code = code,
                           !.user = user, !.expects = answer])
    /\ offer.open \/ offer.elsewhere
    /\ calm' = foreign
    /\ UNCHANGED <<service, daemon, stopping, database, memory, foreign>>
ExhaustedRandom(c) ==
    /\ ~offer.fixed /\ Taken(c)
    /\ ExhaustedRetry(c, FirstRacer + ticks * BurstCount, CODE_CONSUMED)
ExhaustedFixed(u) ==
    /\ offer.fixed /\ offer.limit > 1 /\ Cardinality(UsesOf(u)) >= offer.limit
    /\ \E c \in CodesHere : ExhaustedRetry(c, u, USER_LIMIT)
ExhaustedReserve ==
    /\ work # NULL /\ work.scenario = "exhausted"
    /\ \E a \in Answers :
         /\ Reserve(work.code, work.user, a)
         /\ End(a \in Ids \/ (a = Refused /\ Reason(work.code) # work.expects))
    /\ UNCHANGED <<offer, given, memory, foreign, calm>>

\* A code nobody has, a user who never reserved, a body without game_user_id
ErrorCases ==
    /\ Begin([Blank EXCEPT !.scenario = "error", !.step = "reserve"])
    /\ offer.open
    /\ calm' = foreign
    /\ UNCHANGED <<service, daemon, stopping, database, memory, foreign>>
ErrorReserve ==
    /\ work # NULL /\ work.scenario = "error" /\ work.step = "reserve"
    /\ \/ End(FALSE)     \* the call threw, or no code is usable
       \/ \E c \in Usable : Continue([work EXCEPT !.step = "confirm", !.code = c,
                                        !.user = FirstRacer + ticks * BurstCount])
    /\ UNCHANGED <<service, memory, foreign, calm>>
ErrorConfirm ==
    /\ work # NULL /\ work.scenario = "error" /\ work.step = "confirm"
    /\ \E a \in Answers :
         /\ Confirm(work.code, work.user, a)
         /\ IF a = Lost THEN End(FALSE)
            ELSE Continue([work EXCEPT !.step = "missing", !.thrown = (a \in Ids)])
    /\ UNCHANGED <<offer, redeemed, memory, foreign, calm>>
ErrorMissing ==
    /\ work # NULL /\ work.scenario = "error" /\ work.step = "missing"
    /\ End(work.thrown)
    /\ UNCHANGED <<service, memory, foreign, calm>>

-----------------------------------------------------------------------------
\* The other game server redeems a code; an administrator pauses, resumes, or
\* changes the limit of a FIXED campaign
Foreign ==
    /\ foreign < MaxForeign
    /\ foreign' = foreign + 1
    /\ \/ /\ \E c \in CodesHere, u \in Players : \E o \in Outcomes(c, u) : redeemed' = o.rows
          /\ UNCHANGED offer
       \/ /\ offer' \in {[offer EXCEPT !.open = ~offer.open]} \cup
               IF offer.fixed THEN {[offer EXCEPT !.limit = 3 - @]} ELSE {}
          /\ UNCHANGED redeemed
    /\ UNCHANGED <<given, process, memory, work, alarm, calm>>

\* SIGINT, SIGTERM: stopScheduler. The timer, if any, is cleared.
Signal ==
    /\ ~stopping
    /\ stopping' = TRUE
    /\ daemon' = IF daemon = "waiting" THEN "idle" ELSE daemon
    /\ UNCHANGED <<service, database, ticks, memory, work, alarm, foreign, calm>>
\* Mutant: shutdown does not wait for inFlight.
CloseAtOnce ==
    /\ stopping /\ database = "open"
    /\ database' = "closed"
    /\ UNCHANGED <<service, daemon, stopping, ticks, memory, work, alarm, foreign, calm>>
\* await inFlight, then closeDbPool
ClosePool ==
    /\ stopping /\ database = "open" /\ daemon = "idle"
    /\ database' = "closed"
    /\ UNCHANGED <<service, daemon, stopping, ticks, memory, work, alarm, foreign, calm>>

GameInit ==
    /\ offer \in [fixed : BOOLEAN, limit : {1, 2}, open : {TRUE}, elsewhere : BOOLEAN]
    /\ ~offer.fixed => offer.limit = 1
    /\ redeemed = << >> /\ given = {} /\ memory = << >>
    /\ daemon = "running" /\ stopping = FALSE /\ database = "open"
    /\ work = NULL /\ alarm = FALSE /\ ticks = 0 /\ foreign = 0 /\ calm = 0
GameNext ==
    \/ TimerFires \/ NotThisCampaign \/ NormalReserve \/ NormalConfirm \/ RetryReserve
    \/ RetryConfirm \/ BurstCall \/ Judge \/ Reconcile \/ ReconcileEnds \/ Foreign
    \/ ExhaustedReserve \/ ErrorCases \/ ErrorReserve \/ ErrorConfirm \/ ErrorMissing
    \/ Signal \/ ClosePool
    \/ \E c \in GameCodes : ConcurrencyRace(c) \/ ExhaustedRandom(c)
    \/ \E c \in GameCodes, u \in Players : NormalFlow(c, u)
    \/ \E i \in DOMAIN redeemed : ExhaustedFixed(redeemed[i].user)
    \/ \E i \in DOMAIN memory : IdempotentRetry(i)
    \/ \E i \in DOMAIN redeemed : ReconcileItem(i)
GameSpec == GameInit /\ [][GameNext]_gameVars

-----------------------------------------------------------------------------
(* The variables have their types, and the daemon remembers at most        *)
(* MaxHistory reserves, the newest ones.                                   *)
GameTypeOK ==
    /\ redeemed \in Seq([code : GameCodes, user : Nat \ {0}]) /\ Len(redeemed) <= Quantity
    /\ given \subseteq DOMAIN redeemed
    /\ daemon \in {"running", "waiting", "idle"} /\ database \in {"open", "closed"}
    /\ {stopping, alarm} \subseteq BOOLEAN
    /\ Len(memory) <= MaxHistory
    /\ \A i, j \in DOMAIN memory : i < j => memory[i].at <= memory[j].at

(* Graceful stop (docs/21_TEST_GAME_SERVER.md 2.1): the pool is closed     *)
(* only after the tick under way has ended, and no tick begins after that. *)
StopsGracefully ==
    database = "closed" => daemon = "idle" /\ work = NULL

(* No MISMATCH is logged about a backend that works: unless the other game *)
(* server or an administrator has acted since the scenario read its        *)
(* campaign and code (or recorded the reserve it retries), or the campaign *)
(* is paused or its quantity smaller than the burst assumes, every verdict *)
(* agrees.                                                                 *)
NoFalseAlarm ==
    alarm => foreign # calm \/ Len(redeemed) = Quantity \/ ~offer.open

(* docs/21_TEST_GAME_SERVER.md 6.4: a user at the limit of a FIXED         *)
(* campaign is told so (33003), and a consumed code is called consumed     *)
(* (33001). Violated: the campaign of the target may be paused, over or    *)
(* sold out, and reserve checks that first.                                *)
ExhaustedIsRecognised ==
    [][(work # NULL /\ work.scenario = "exhausted" /\ alarm') => foreign # calm]_gameVars
=============================================================================
