---------------------------- MODULE AdminSession ----------------------------
(***************************************************************************)
(* Sessions of the administrators: the tables user and user_session, the   *)
(* access tokens, the guard that validates them on every request, and the  *)
(* cache in Redis that spares it the database. The cache is invalidated by *)
(* a generation counter per user, which expires itself. A unit of time is  *)
(* long against a call: it passes when no request and no background task   *)
(* is under way.                                                           *)
(***************************************************************************)
EXTENDS Naturals, FiniteSets, NoValue

CONSTANTS
    Users, Sessions, Jtis, Procs,
    Patches,        \* the statuses an update sets: any of them
    CacheTtl,       \* SESSION_CACHE_TTL_SEC
    GenerationTtl,  \* SESSION_CACHE_GENERATION_TTL_SEC
    TokenTtl,       \* JWT_ACCESS_EXPIRES_IN
    MaxGeneration, MaxTasks \* bounds

\* An access token; off: for how long the database has refused it
Tokens == [user : Users, sess : Sessions, left : 1..TokenTtl, off : 0..CacheTtl]

\* env.validation.ts refuses to boot otherwise
ASSUME SessionAssumption ==
    /\ {CacheTtl, GenerationTtl, TokenTtl, MaxGeneration, MaxTasks} \subseteq Nat \ {0}
    /\ Patches \subseteq 0..3
    /\ GenerationTtl > CacheTtl
    /\ NULL \notin Users \cup Sessions \cup Jtis
    /\ NULL \notin Tokens

VARIABLES
    user,    \* user.status
    row,     \* rows of user_session; NULL: none, over: expired_at has passed
    token,   \* the access tokens that have not expired
    cache,   \* session:jti:<jti>; stale: the user's generation was raised since it
             \* was written, lapsed: the counter expired since
    counter, \* session:gen:<user>; n = 0: no such key
    call,    \* what the API's processes are doing
    tasks    \* calls of SessionCacheService that nobody waits for

vars == <<user, row, token, cache, counter, call, tasks>>
database == <<user, row>>
redis == <<cache, counter>>

PENDING == 0
APPROVED == 1
REJECTED == 2
SUSPENDED == 3
Idle == [pc |-> "idle"]
At(p, pc) == call[p].pc = pc

Init ==
    /\ user = [u \in Users |-> PENDING]
    /\ row = [s \in Sessions |-> NULL]
    /\ token = [j \in Jtis |-> NULL]
    /\ cache = [j \in Jtis |-> NULL]
    /\ counter = [u \in Users |-> [n |-> 0, left |-> 0]]
    /\ call = [p \in Procs |-> Idle]
    /\ tasks = {}

\* A UUID that nothing refers to
Unused(j) ==
    /\ token[j] = NULL /\ cache[j] = NULL
    /\ \A s \in Sessions : row[s] # NULL => row[s].jti # j
    /\ \A p \in Procs : \A f \in DOMAIN call[p] : call[p][f] # j
    /\ \A t \in tasks : t.of # j

Live(s) == row[s] # NULL /\ row[s].state = "active"
\* SP_USER_SESSION_VALIDATE_BY_JTI, and the guard's switch on user_status
DbValid(j) == \E s \in Sessions :
    Live(s) /\ row[s].jti = j /\ user[row[s].user] = APPROVED
\* getCachedSession
Hit(j) == cache[j] # NULL /\ cache[j].gen = counter[cache[j].user].n

Issue(j, u, s) ==
    token' = [token EXCEPT ![j] =
        [user |-> u, sess |-> s, left |-> TokenTtl, off |-> 0]]
Ended(u) == [s \in Sessions |->
    IF Live(s) /\ row[s].user = u THEN [row[s] EXCEPT !.state = "ended"] ELSE row[s]]
\* A background task; an equal one under way is awaited (a bound of the model)
Task(kind, of) == [kind |-> kind, of |-> of, gen |-> 0]
Start(kind, of) == Task(kind, of) \notin tasks /\ tasks' = tasks \cup {Task(kind, of)}
Room(u) == Cardinality(tasks) < MaxTasks /\ counter[u].n < MaxGeneration

-----------------------------------------------------------------------------
(* Users: administration by a SUPER_ADMIN                                  *)

\* approve, reject: only a pending signup
Decide(u) ==
    /\ user[u] = PENDING
    /\ \E s \in {APPROVED, REJECTED} : user' = [user EXCEPT ![u] = s]
    /\ UNCHANGED <<row, token, redis, call, tasks>>

\* update: any status may follow any; only a suspension ends the sessions
Update(u, s) ==
    /\ s # user[u] \/ s = SUSPENDED
    /\ Room(u)
    /\ user' = [user EXCEPT ![u] = s]
    /\ row' = IF s = SUSPENDED /\ user[u] # s THEN Ended(u) ELSE row
    /\ IF s = SUSPENDED THEN Start("bump", u) ELSE UNCHANGED tasks
    /\ UNCHANGED <<token, redis, call>>

ResetPassword(u) ==
    /\ Room(u)
    /\ row' = Ended(u) /\ Start("bump", u)
    /\ UNCHANGED <<user, token, redis, call>>

-----------------------------------------------------------------------------
(* /auth/login and /auth/refresh                                           *)

\* The user is read, the password compared; the session follows
Login(p, u) ==
    /\ At(p, "idle") /\ user[u] = APPROVED
    /\ call' = [call EXCEPT ![p] = [pc |-> "create", user |-> u]]
    /\ UNCHANGED <<database, token, redis, tasks>>

CreateSession(p) ==
    /\ At(p, "create")
    /\ \E s \in Sessions, j \in Jtis :
        /\ row[s] = NULL /\ Unused(j)
        /\ \A x \in Jtis : token[x] # NULL => token[x].sess # s
        /\ row' = [row EXCEPT ![s] =
              [user |-> call[p].user, jti |-> j, state |-> "active"]]
        /\ Issue(j, call[p].user, s)
    /\ call' = [call EXCEPT ![p] = Idle]
    /\ UNCHANGED <<user, redis, tasks>>

\* SP_USER_SESSION_GET_BY_REFRESH_HASH
Refresh(p, s) ==
    /\ At(p, "idle") /\ Live(s) /\ user[row[s].user] = APPROVED
    /\ call' = [call EXCEPT ![p] = [pc |-> "renew", user |-> row[s].user, sess |-> s,
                                    old |-> row[s].jti]]
    /\ UNCHANGED <<database, token, redis, tasks>>

\* SP_USER_SESSION_UPDATE_JTI asks neither for the status nor for the old jti
Renew(p) ==
    /\ At(p, "renew") /\ Cardinality(tasks) < MaxTasks
    /\ \E j \in {x \in Jtis : Unused(x)} :
        /\ row' = [row EXCEPT ![call[p].sess] =
                      IF @ = NULL THEN NULL ELSE [@ EXCEPT !.jti = j]]
        /\ Issue(j, call[p].user, call[p].sess)
    /\ Start("evict", call[p].old)
    /\ call' = [call EXCEPT ![p] = Idle]
    /\ UNCHANGED <<user, redis>>

-----------------------------------------------------------------------------
(* JwtAuthGuard; Redis may fail at every command                           *)

\* Authorization header, signature and exp
Request(p, j) ==
    /\ At(p, "idle") /\ token[j] # NULL
    /\ call' = [call EXCEPT ![p] = [pc |-> "entry", jti |-> j]]
    /\ UNCHANGED <<database, token, redis, tasks>>

ReadEntry(p) ==
    /\ At(p, "entry")
    /\ LET j == call[p].jti IN
       \/ call' = [call EXCEPT ![p] = [pc |-> "validate", jti |-> j]]
       \/ /\ cache[j] # NULL
          /\ call' = [call EXCEPT ![p] = [pc |-> "compare", jti |-> j, gen |-> cache[j].gen,
                                          user |-> cache[j].user]]
    /\ UNCHANGED <<database, token, redis, tasks>>

\* Mutant: a hit caches the session again
CompareGenerationSliding(p) ==
    /\ At(p, "compare") /\ Cardinality(tasks) < MaxTasks
    /\ \/ /\ call' = [call EXCEPT ![p] = [pc |-> "validate", jti |-> call[p].jti]]
          /\ UNCHANGED tasks
       \/ /\ call[p].gen = counter[call[p].user].n
          /\ call' = [call EXCEPT ![p] = [pc |-> "passed", jti |-> call[p].jti]]
          /\ Start("read", call[p].jti)
    /\ UNCHANGED <<database, token, redis>>

CompareGeneration(p) ==
    /\ At(p, "compare")
    /\ \/ call' = [call EXCEPT ![p] = [pc |-> "validate", jti |-> call[p].jti]]
       \/ /\ call[p].gen = counter[call[p].user].n
          /\ call' = [call EXCEPT ![p] = [pc |-> "passed", jti |-> call[p].jti]]
    /\ UNCHANGED <<database, token, redis, tasks>>

Validate(p) ==
    /\ At(p, "validate") /\ Cardinality(tasks) < MaxTasks
    /\ IF DbValid(call[p].jti)
       THEN /\ call' = [call EXCEPT ![p] = [pc |-> "passed", jti |-> call[p].jti]]
            /\ Start("read", call[p].jti)
            /\ token' = [token EXCEPT ![call[p].jti].off = 0]
       ELSE call' = [call EXCEPT ![p] = Idle] /\ UNCHANGED <<token, tasks>>
    /\ UNCHANGED <<database, redis>>

\* Any handler behind the guard
Handle(p) ==
    /\ At(p, "passed")
    /\ call' = [call EXCEPT ![p] = Idle]
    /\ UNCHANGED <<database, token, redis, tasks>>

\* SP_USER_SESSION_LOGOUT ends the session that has this jti now
Logout(p) ==
    /\ At(p, "passed")
    /\ LET j == call[p].jti IN
       /\ Room(token[j].user)
       /\ row' = [s \in Sessions |-> IF Live(s) /\ row[s].jti = j
                                     THEN [row[s] EXCEPT !.state = "ended"] ELSE row[s]]
       /\ Start("bump", token[j].user)
    /\ call' = [call EXCEPT ![p] = Idle]
    /\ UNCHANGED <<user, token, redis>>

ChangePassword(p) ==
    /\ At(p, "passed")
    /\ LET u == token[call[p].jti].user IN
       Room(u) /\ row' = Ended(u) /\ Start("bump", u)
    /\ call' = [call EXCEPT ![p] = Idle]
    /\ UNCHANGED <<user, token, redis>>

-----------------------------------------------------------------------------
(* SessionCacheService: the tasks nobody waits for                         *)

Continue(t, kind, gen) ==
    tasks' = (tasks \ {t}) \cup {[kind |-> kind, of |-> t.of, gen |-> gen]}
UserOf(t) == token[t.of].user

\* A Redis command fails, or the process dies: the task is over
Fail(t) ==
    /\ tasks' = tasks \ {t}
    /\ UNCHANGED <<database, token, redis, call>>

\* cacheSession: read the generation, write, read it again, delete if it moved
ReadGeneration(t) ==
    /\ t.kind = "read"
    /\ Continue(t, "write", counter[UserOf(t)].n)
    /\ UNCHANGED <<database, token, redis, call>>

\* Mutant: the entry gets the counter's time to live
WriteEntryLong(t) ==
    /\ t.kind = "write"
    /\ cache' = [cache EXCEPT ![t.of] = [user |-> UserOf(t), gen |-> t.gen,
                                         left |-> GenerationTtl,
                                         stale |-> FALSE, lapsed |-> FALSE]]
    /\ Continue(t, "check", t.gen)
    /\ UNCHANGED <<database, token, counter, call>>

WriteEntry(t) ==
    /\ t.kind = "write"
    /\ cache' = [cache EXCEPT ![t.of] = [user |-> UserOf(t), gen |-> t.gen, left |-> CacheTtl,
                                         stale |-> FALSE, lapsed |-> FALSE]]
    /\ Continue(t, "check", t.gen)
    /\ UNCHANGED <<database, token, counter, call>>

CheckGeneration(t) ==
    /\ t.kind = "check"
    /\ IF counter[UserOf(t)].n = t.gen THEN tasks' = tasks \ {t}
       ELSE Continue(t, "evict", 0)
    /\ UNCHANGED <<database, token, redis, call>>

Evict(t) ==
    /\ t.kind = "evict"
    /\ cache' = [cache EXCEPT ![t.of] = NULL]
    /\ tasks' = tasks \ {t}
    /\ UNCHANGED <<database, token, counter, call>>

\* invalidateUser: MULTI INCR EXPIRE EXEC
Raised(u) == [n |-> counter[u].n + 1, left |-> GenerationTtl]
Bump(t) ==
    /\ t.kind = "bump"
    /\ counter' = [counter EXCEPT ![t.of] = Raised(t.of)]
    /\ cache' = [j \in Jtis |-> IF cache[j] # NULL /\ cache[j].user = t.of
                                THEN [cache[j] EXCEPT !.stale = TRUE] ELSE cache[j]]
    /\ tasks' = tasks \ {t}
    /\ UNCHANGED <<database, token, call>>

-----------------------------------------------------------------------------
(* Time                                                                    *)

More(n, bound) == IF n = bound THEN n ELSE n + 1

Tick ==
    /\ tasks = {} /\ \A p \in Procs : At(p, "idle")
    /\ token' = [j \in Jtis |-> IF token[j] = NULL \/ token[j].left = 1 THEN NULL
                 ELSE [token[j] EXCEPT !.left = @ - 1,
                           !.off = IF DbValid(j) THEN 0 ELSE More(@, CacheTtl)]]
    /\ counter' = [u \in Users |-> IF counter[u].left <= 1 THEN [n |-> 0, left |-> 0]
                                   ELSE [counter[u] EXCEPT !.left = @ - 1]]
    /\ cache' = [j \in Jtis |-> IF cache[j] = NULL \/ cache[j].left = 1 THEN NULL
                 ELSE [cache[j] EXCEPT !.left = @ - 1,
                           !.lapsed = @ \/ counter[cache[j].user].left = 1]]
    /\ UNCHANGED <<database, call, tasks>>

\* A session's expired_at passes
PassExpiry(s) ==
    /\ row[s] # NULL /\ row[s].state # "over"
    /\ row' = [row EXCEPT ![s].state = "over"]
    /\ UNCHANGED <<user, token, redis, call, tasks>>

\* SessionCleanupService
Cleanup ==
    /\ \E s \in Sessions : row[s] # NULL /\ row[s].state = "over"
    /\ row' = [s \in Sessions |-> IF row[s] # NULL /\ row[s].state = "over" THEN NULL ELSE row[s]]
    /\ UNCHANGED <<user, token, redis, call, tasks>>

-----------------------------------------------------------------------------
Guard(p) == ReadEntry(p) \/ CompareGeneration(p) \/ Validate(p)
Handler(p) == Handle(p) \/ Logout(p) \/ ChangePassword(p) \/ CreateSession(p) \/ Renew(p)
Background(t) ==
    \/ Fail(t) \/ ReadGeneration(t) \/ WriteEntry(t) \/ CheckGeneration(t) \/ Evict(t)
    \/ Bump(t)

Next ==
    \/ \E u \in Users : Decide(u) \/ ResetPassword(u)
    \/ \E u \in Users, s \in Patches : Update(u, s)
    \/ \E p \in Procs, u \in Users : Login(p, u)
    \/ \E p \in Procs, s \in Sessions : Refresh(p, s)
    \/ \E p \in Procs, j \in Jtis : Request(p, j)
    \/ \E p \in Procs : Guard(p) \/ Handler(p)
    \/ \E t \in tasks : Background(t)
    \/ \E s \in Sessions : PassExpiry(s)
    \/ Cleanup \/ Tick

Spec == Init /\ [][Next]_vars

-----------------------------------------------------------------------------
TypeOK ==
    /\ user \in [Users -> PENDING..SUSPENDED]
    /\ row \in [Sessions -> {NULL} \cup
          [user : Users, jti : Jtis, state : {"active", "ended", "over"}]]
    /\ token \in [Jtis -> {NULL} \cup Tokens]
    /\ cache \in [Jtis -> {NULL} \cup [user : Users, gen : 0..MaxGeneration,
                      left : 1..CacheTtl, stale : BOOLEAN, lapsed : BOOLEAN]]
    /\ counter \in [Users -> [n : 0..MaxGeneration, left : 0..GenerationTtl]]
    /\ \A p \in Procs : call[p].pc \in {"idle", "create", "renew", "entry", "compare",
                                         "validate", "passed"}
    /\ \A t \in tasks : t.kind \in {"read", "write", "check", "evict", "bump"}

\* A token that the database refuses, be it of a session that was logged out,
\* suspended or expired, or one that a refresh replaced, passes the guard for
\* less than the cache's TTL: no hit, failed eviction or late fill extends it
\* (session-cache.service.ts: "the worst case is bounded by the cache's TTL").
RefusedWithinTtl ==
    \A p \in Procs : At(p, "passed") => token[call[p].jti].off < CacheTtl

\* Raising a user's generation turns all sessions cached before into misses,
\* as long as the counter does not expire in between.
InvalidatedMisses ==
    \A j \in Jtis : cache[j] # NULL /\ cache[j].stale /\ ~cache[j].lapsed => ~Hit(j)

\* No entry of the cache outlives what the database has taken back
RefusalsReachTheGuard == RefusedWithinTtl /\ InvalidatedMisses
=============================================================================
