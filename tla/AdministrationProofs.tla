------------------------ MODULE AdministrationProofs ------------------------
(***************************************************************************)
(* The administration of accounts: what the cache of sessions forgives is  *)
(* over within its TTL; the audit log of companies, projects and roles     *)
(* tells the truth, nothing is created over, a revocation ends what it     *)
(* should; and a detail form replaces nothing it has not shown.            *)
(***************************************************************************)
EXTENDS MCAdministration, SequenceTheorems, TLAPS

-----------------------------------------------------------------------------
(* AdminSession: the invariant                                             *)

SessionRows == [user : Users, jti : Jtis, state : {"active", "ended", "over"}]
CacheEntries == [user : Users, gen : Nat, left : 1..CacheTtl, stale : BOOLEAN, lapsed : BOOLEAN]
Guarding == {"entry", "validate", "passed"}
GuardCalls == [pc : {"idle"}] \cup [pc : {"create"}, user : Users]
         \cup [pc : {"renew"}, user : Users, sess : Sessions, old : Jtis]
         \cup [pc : Guarding, jti : Jtis]
         \cup [pc : {"compare"}, jti : Jtis, gen : Nat, user : Users]

SessionTyped == /\ row \in [Sessions -> {NULL} \cup SessionRows]
         /\ token \in [Jtis -> {NULL} \cup Tokens]
         /\ cache \in [Jtis -> {NULL} \cup CacheEntries]
         /\ counter \in [Users -> [n : Nat, left : Nat]]
         /\ call \in [Procs -> GuardCalls]

\* A guard holds a token; behind a hit it has not been refused for the whole TTL
GuardSound(c) ==
    c.pc \in Guarding \cup {"compare"} =>
        /\ token[c.jti] \in Tokens
        /\ c.pc \in {"compare", "passed"} => token[c.jti].off < CacheTtl
\* A session is cached while the database still accepts it or has just done so,
\* under a generation the counter has had
TaskSound(t) ==
    t.kind \in {"read", "write"} =>
        /\ token[t.of] \in Tokens /\ token[t.of].off = 0
        /\ t.kind = "write" => t.gen \in Nat /\ t.gen <= counter[token[t.of].user].n
\* How long the token has been refused and how long the entry will last
AgeSound(j) ==
    cache[j] # NULL /\ token[j] # NULL => token[j].off + cache[j].left <= CacheTtl
\* Until the counter expires an entry is not ahead of it, and a stale one behind
GenerationSound(j) ==
    cache[j] # NULL /\ ~cache[j].lapsed =>
        /\ cache[j].gen <= counter[cache[j].user].n
        /\ cache[j].stale => cache[j].gen < counter[cache[j].user].n
CounterSound == \A u \in Users : counter[u].left = 0 => counter[u].n = 0

SessionInv ==
    /\ SessionTyped /\ CounterSound
    /\ \A p \in Procs : GuardSound(call[p])
    /\ \A t \in tasks : TaskSound(t)
    /\ \A j \in Jtis : AgeSound(j) /\ GenerationSound(j)

-----------------------------------------------------------------------------
(* What the invariant says                                                 *)

LEMMA RefusalsBounded == SessionInv => RefusalsReachTheGuard
<1> SUFFICES ASSUME SessionInv PROVE RefusalsReachTheGuard
  OBVIOUS
<1>1. RefusedWithinTtl
  BY DEF SessionInv, GuardSound, RefusedWithinTtl, At, Guarding
<1>2. ASSUME NEW j \in Jtis, cache[j] # NULL, cache[j].stale, ~cache[j].lapsed
      PROVE  ~Hit(j)
  <2>1. cache[j] \in CacheEntries
    BY <1>2 DEF SessionInv, SessionTyped
  <2>2. counter[cache[j].user].n \in Nat /\ cache[j].gen \in Nat
    BY <2>1 DEF SessionInv, SessionTyped, CacheEntries
  <2>3. cache[j].gen < counter[cache[j].user].n
    BY <1>2 DEF SessionInv, GenerationSound
  <2> QED
    BY <2>2, <2>3 DEF Hit
<1> QED
  BY <1>1, <1>2 DEF RefusalsReachTheGuard, InvalidatedMisses

LEMMA SessionsStart == Init => SessionInv
<1> SUFFICES ASSUME Init PROVE SessionInv
  OBVIOUS
<1>1. SessionTyped
  BY DEF Init, SessionTyped, Idle, GuardCalls
<1>2. \A p \in Procs : GuardSound(call[p])
  BY DEF Init, Idle, GuardSound, Guarding
<1>3. CounterSound /\ \A j \in Jtis : AgeSound(j) /\ GenerationSound(j)
  BY DEF Init, CounterSound, AgeSound, GenerationSound
<1> QED
  BY <1>1, <1>2, <1>3 DEF SessionInv, Init

-----------------------------------------------------------------------------
(* Steps that leave tokens and Redis alone                                 *)

LEMMA QuietStep ==
    ASSUME SessionInv, UNCHANGED <<token, redis>>,
           row' \in [Sessions -> {NULL} \cup SessionRows],
           call' \in [Procs -> GuardCalls], \A p \in Procs : GuardSound(call'[p]),
           \A t \in tasks' : TaskSound(t)
    PROVE  SessionInv'
<1>1. SessionTyped' /\ CounterSound'
  BY DEF SessionInv, SessionTyped, CounterSound, redis
<1>2. \A p \in Procs : GuardSound(call[p])'
  BY DEF GuardSound
<1>3. \A t \in tasks' : TaskSound(t)'
  BY DEF TaskSound, redis
<1>4. \A j \in Jtis : AgeSound(j)' /\ GenerationSound(j)'
  BY DEF SessionInv, AgeSound, GenerationSound, redis
<1> QED
  BY <1>1, <1>2, <1>3, <1>4 DEF SessionInv

\* The call of one process goes on
LEMMA OneCall ==
    ASSUME SessionInv, NEW p \in Procs, NEW c \in GuardCalls, GuardSound(c),
           call' = [call EXCEPT ![p] = c]
    PROVE  call' \in [Procs -> GuardCalls] /\ \A q \in Procs : GuardSound(call'[q])
<1>1. call \in [Procs -> GuardCalls] /\ \A q \in Procs : GuardSound(call[q])
  BY DEF SessionInv, SessionTyped
<1>2. call' \in [Procs -> GuardCalls]
  BY <1>1
<1>3. ASSUME NEW q \in Procs PROVE call'[q] = IF q = p THEN c ELSE call[q]
  BY <1>1
<1>4. ASSUME NEW q \in Procs PROVE GuardSound(call'[q])
  <2>1. CASE q = p
    BY <1>3, <2>1
  <2>2. CASE q # p
    BY <1>1, <1>3, <2>2
  <2> QED
    BY <2>1, <2>2
<1> QED
  BY <1>2, <1>4

LEMMA IdleSound == Idle \in GuardCalls /\ GuardSound(Idle)
BY DEF Idle, GuardCalls, GuardSound, Guarding

\* A task that caches nothing is started, or none
LEMMA OtherTask ==
    ASSUME SessionInv, NEW kind \in {"bump", "evict"}, NEW of, Start(kind, of)
    PROVE  \A t \in tasks' : TaskSound(t)
BY DEF SessionInv, Start, Task, TaskSound

LEMMA CallsUntouched ==
    ASSUME SessionInv, UNCHANGED call
    PROVE  call' \in [Procs -> GuardCalls] /\ \A p \in Procs : GuardSound(call'[p])
BY DEF SessionInv, SessionTyped

LEMMA TasksUntouched ==
    ASSUME SessionInv, UNCHANGED tasks
    PROVE  \A t \in tasks' : TaskSound(t)
BY DEF SessionInv

LEMMA EndedTyped ==
    ASSUME SessionInv, NEW u
    PROVE  Ended(u) \in [Sessions -> {NULL} \cup SessionRows]
BY DEF SessionInv, SessionTyped, Ended, Live, SessionRows

\* decide, update, resetPassword (UserService)
LEMMA AdministrationCorrect ==
    ASSUME SessionInv, NEW u \in Users,
           Decide(u) \/ ResetPassword(u) \/ \E s \in Patches : Update(u, s)
    PROVE  SessionInv'
<1>1. UNCHANGED <<token, redis, call>>
  BY DEF Decide, ResetPassword, Update
<1>2. row' \in [Sessions -> {NULL} \cup SessionRows]
  BY EndedTyped DEF Decide, ResetPassword, Update, SessionInv, SessionTyped
<1>3. \A t \in tasks' : TaskSound(t)
  BY OtherTask, TasksUntouched DEF Decide, ResetPassword, Update
<1> QED
  BY <1>1, <1>2, <1>3, CallsUntouched, QuietStep

LEMMA RowsChange ==
    ASSUME SessionInv, Cleanup \/ \E s \in Sessions : PassExpiry(s)
    PROVE  SessionInv'
<1>1. UNCHANGED <<token, redis, call, tasks>>
  BY DEF Cleanup, PassExpiry
<1>2. row' \in [Sessions -> {NULL} \cup SessionRows]
  BY DEF Cleanup, PassExpiry, SessionInv, SessionTyped, SessionRows
<1> QED
  BY <1>1, <1>2, CallsUntouched, TasksUntouched, QuietStep

-----------------------------------------------------------------------------
(* GuardCalls that read                                                         *)

LEMMA CallBegins ==
    ASSUME SessionInv, NEW p \in Procs,
           \/ \E u \in Users : Login(p, u)
           \/ \E s \in Sessions : Refresh(p, s)
           \/ \E j \in Jtis : Request(p, j)
           \/ Handle(p)
    PROVE  SessionInv'
<1>1. UNCHANGED <<database, token, redis, tasks>>
  BY DEF Login, Refresh, Request, Handle
<1>2. \E c \in GuardCalls : GuardSound(c) /\ call' = [call EXCEPT ![p] = c]
  <2>1. ASSUME NEW u \in Users, Login(p, u)
        PROVE  \E c \in GuardCalls : GuardSound(c) /\ call' = [call EXCEPT ![p] = c]
    <3>1. PICK c : c = [pc |-> "create", user |-> u]
      OBVIOUS
    <3>2. c \in GuardCalls /\ GuardSound(c)
      BY <3>1 DEF GuardCalls, GuardSound, Guarding
    <3> QED
      BY <2>1, <3>1, <3>2 DEF Login
  <2>2. ASSUME NEW s \in Sessions, Refresh(p, s)
        PROVE  \E c \in GuardCalls : GuardSound(c) /\ call' = [call EXCEPT ![p] = c]
    <3>1. PICK c : c = [pc |-> "renew", user |-> row[s].user, sess |-> s, old |-> row[s].jti]
      OBVIOUS
    <3>2. row[s] \in SessionRows
      BY <2>2 DEF Refresh, Live, SessionInv, SessionTyped
    <3>3. c \in GuardCalls /\ GuardSound(c)
      BY <3>1, <3>2 DEF GuardCalls, SessionRows, GuardSound, Guarding
    <3> QED
      BY <2>2, <3>1, <3>3 DEF Refresh
  <2>3. ASSUME NEW j \in Jtis, Request(p, j)
        PROVE  \E c \in GuardCalls : GuardSound(c) /\ call' = [call EXCEPT ![p] = c]
    <3>1. PICK c : c = [pc |-> "entry", jti |-> j]
      OBVIOUS
    <3>2. token[j] \in Tokens
      BY <2>3 DEF Request, SessionInv, SessionTyped
    <3>3. c \in GuardCalls /\ GuardSound(c)
      BY <3>1, <3>2 DEF GuardCalls, GuardSound, Guarding
    <3> QED
      BY <2>3, <3>1, <3>3 DEF Request
  <2>4. CASE Handle(p)
    BY <2>4, IdleSound DEF Handle
  <2> QED
    BY <2>1, <2>2, <2>3, <2>4
<1>3. row' \in [Sessions -> {NULL} \cup SessionRows]
  BY <1>1 DEF database, SessionInv, SessionTyped
<1> QED
  BY <1>1, <1>2, <1>3, OneCall, TasksUntouched, QuietStep

LEMMA ReadCorrect ==
    ASSUME SessionInv, NEW p \in Procs, ReadEntry(p) \/ CompareGeneration(p)
    PROVE  SessionInv'
<1>1. UNCHANGED <<database, token, redis, tasks>>
  BY DEF ReadEntry, CompareGeneration
<1>2. PICK j : j = call[p].jti
  OBVIOUS
<1>3. j \in Jtis /\ token[j] \in Tokens /\ (At(p, "compare") => token[j].off < CacheTtl)
  <2>1. call[p] \in GuardCalls /\ GuardSound(call[p])
    BY DEF SessionInv, SessionTyped
  <2>2. call[p].pc \in {"entry", "compare"}
    BY DEF ReadEntry, CompareGeneration, At
  <2> QED
    BY <1>2, <2>1, <2>2 DEF GuardCalls, GuardSound, Guarding, At
<1>4. \E c \in GuardCalls : GuardSound(c) /\ call' = [call EXCEPT ![p] = c]
  <2>1. CASE call' = [call EXCEPT ![p] = [pc |-> "validate", jti |-> j]]
    <3>1. PICK c : c = [pc |-> "validate", jti |-> j]
      OBVIOUS
    <3>2. c \in GuardCalls /\ GuardSound(c)
      BY <1>3, <3>1 DEF GuardCalls, GuardSound, Guarding
    <3> QED
      BY <2>1, <3>1, <3>2
  <2>2. CASE /\ ReadEntry(p) /\ cache[j] # NULL
             /\ call' = [call EXCEPT ![p] = [pc |-> "compare", jti |-> j, gen |-> cache[j].gen,
                                             user |-> cache[j].user]]
    <3>1. PICK c : c = [pc |-> "compare", jti |-> j, gen |-> cache[j].gen,
                        user |-> cache[j].user]
      OBVIOUS
    <3>2. cache[j] \in CacheEntries
      BY <1>3, <2>2 DEF SessionInv, SessionTyped
    <3>3. token[j].off < CacheTtl
      <4>1. token[j] # NULL => token[j].off + cache[j].left <= CacheTtl
        BY <1>3, <2>2 DEF SessionInv, AgeSound
      <4>2. token[j] # NULL
        BY <1>3, SessionAssumption
      <4> QED
        BY <1>3, <3>2, <4>1, <4>2, SessionAssumption DEF Tokens, CacheEntries
    <3>4. c \in GuardCalls /\ GuardSound(c)
      BY <1>3, <3>1, <3>2, <3>3 DEF GuardCalls, GuardSound, Guarding, CacheEntries
    <3> QED
      BY <2>2, <3>1, <3>4
  <2>3. CASE /\ CompareGeneration(p)
             /\ call' = [call EXCEPT ![p] = [pc |-> "passed", jti |-> j]]
    <3>1. PICK c : c = [pc |-> "passed", jti |-> j]
      OBVIOUS
    <3>2. token[j].off < CacheTtl
      BY <1>3, <2>3 DEF CompareGeneration
    <3>3. c \in GuardCalls /\ GuardSound(c)
      BY <1>3, <3>1, <3>2 DEF GuardCalls, GuardSound, Guarding
    <3> QED
      BY <2>3, <3>1, <3>3
  <2> QED
    BY <1>2, <2>1, <2>2, <2>3 DEF ReadEntry, CompareGeneration
<1>5. row' \in [Sessions -> {NULL} \cup SessionRows]
  BY <1>1 DEF database, SessionInv, SessionTyped
<1> QED
  BY <1>1, <1>4, <1>5, OneCall, TasksUntouched, QuietStep

-----------------------------------------------------------------------------
(* GuardCalls that write                                                        *)

\* A jti that nothing refers to gets its token
LEMMA IssueCorrect ==
    ASSUME SessionInv, NEW p \in Procs, NEW u \in Users, NEW s \in Sessions, NEW j \in Jtis,
           Unused(j), Issue(j, u, s), UNCHANGED redis, call' = [call EXCEPT ![p] = Idle],
           row' \in [Sessions -> {NULL} \cup SessionRows],
           \A t \in tasks' : t \in tasks \/ t.kind = "evict"
    PROVE  SessionInv'
<1>1. PICK x : x = [user |-> u, sess |-> s, left |-> TokenTtl, off |-> 0]
  OBVIOUS
<1>2. x \in Tokens
  BY <1>1, SessionAssumption DEF Tokens
<1>3. token' = [token EXCEPT ![j] = x]
  BY <1>1 DEF Issue
<1>4. \A i \in Jtis : i # j => token'[i] = token[i]
  BY <1>3 DEF SessionInv, SessionTyped
<1>5. SessionTyped' /\ CounterSound'
  <2>1. call' \in [Procs -> GuardCalls]
    BY IdleSound, OneCall
  <2> QED
    BY <1>2, <1>3, <2>1 DEF SessionInv, SessionTyped, CounterSound, redis
<1>6. ASSUME NEW q \in Procs PROVE GuardSound(call[q])'
  <2>1. call'[q] = IF q = p THEN Idle ELSE call[q]
    BY DEF SessionInv, SessionTyped
  <2>2. CASE q = p
    BY <2>1, <2>2 DEF Idle, GuardSound, Guarding
  <2>3. CASE q # p /\ call[q].pc \in Guarding \cup {"compare"}
    <3>1. call[q] \in GuardCalls /\ GuardSound(call[q])
      BY DEF SessionInv, SessionTyped
    <3>2. call[q].jti \in Jtis /\ "jti" \in DOMAIN call[q]
      BY <2>3, <3>1 DEF GuardCalls, Guarding
    <3>3. call[q].jti # j
      BY <3>2 DEF Unused
    <3> QED
      BY <1>4, <2>1, <2>3, <3>1, <3>2, <3>3 DEF GuardSound
  <2>4. CASE q # p /\ call[q].pc \notin Guarding \cup {"compare"}
    BY <2>1, <2>4 DEF GuardSound
  <2> QED
    BY <2>2, <2>3, <2>4
<1>7. ASSUME NEW t \in tasks' PROVE TaskSound(t)'
  <2>1. CASE t.kind \in {"read", "write"}
    <3>1. t \in tasks /\ t.of # j /\ TaskSound(t)
      BY <2>1 DEF Unused, SessionInv
    <3>2. token'[t.of] = token[t.of]
      BY <1>3, <3>1 DEF SessionInv, SessionTyped
    <3> QED
      BY <3>1, <3>2 DEF TaskSound, redis
  <2>2. CASE t.kind \notin {"read", "write"}
    BY <2>2 DEF TaskSound
  <2> QED
    BY <2>1, <2>2
<1>8. ASSUME NEW i \in Jtis PROVE AgeSound(i)' /\ GenerationSound(i)'
  <2>1. cache' = cache /\ counter' = counter /\ AgeSound(i) /\ GenerationSound(i)
    BY DEF SessionInv, redis
  <2>2. i = j => cache[i] = NULL
    BY DEF Unused
  <2> QED
    BY <1>4, <2>1, <2>2 DEF AgeSound, GenerationSound
<1> QED
  BY <1>5, <1>6, <1>7, <1>8 DEF SessionInv

LEMMA CreateCorrect ==
    ASSUME SessionInv, NEW p \in Procs, CreateSession(p)
    PROVE  SessionInv'
<1>1. PICK s \in Sessions, j \in Jtis :
        /\ Unused(j)
        /\ row' = [row EXCEPT ![s] = [user |-> call[p].user, jti |-> j, state |-> "active"]]
        /\ Issue(j, call[p].user, s)
  BY DEF CreateSession
<1>2. call[p].user \in Users
  BY DEF CreateSession, At, SessionInv, SessionTyped, GuardCalls, Guarding
<1>3. row' \in [Sessions -> {NULL} \cup SessionRows]
  BY <1>1, <1>2 DEF SessionInv, SessionTyped, SessionRows
<1> QED
  BY <1>1, <1>2, <1>3, IssueCorrect DEF CreateSession

LEMMA RenewCorrect ==
    ASSUME SessionInv, NEW p \in Procs, Renew(p)
    PROVE  SessionInv'
<1>1. PICK j \in Jtis :
        /\ Unused(j)
        /\ row' = [row EXCEPT ![call[p].sess] =
                      IF @ = NULL THEN NULL ELSE [@ EXCEPT !.jti = j]]
        /\ Issue(j, call[p].user, call[p].sess)
  BY DEF Renew
<1>2. call[p].user \in Users /\ call[p].sess \in Sessions
  BY DEF Renew, At, SessionInv, SessionTyped, GuardCalls, Guarding
<1>3. row' \in [Sessions -> {NULL} \cup SessionRows]
  BY <1>1, <1>2 DEF SessionInv, SessionTyped, SessionRows
<1>4. \A t \in tasks' : t \in tasks \/ t.kind = "evict"
  BY DEF Renew, Start, Task
<1> QED
  BY <1>1, <1>2, <1>3, <1>4, IssueCorrect DEF Renew

\* logout, changePassword (AuthService)
LEMMA LogoutCorrect ==
    ASSUME SessionInv, NEW p \in Procs, Logout(p) \/ ChangePassword(p)
    PROVE  SessionInv'
<1>1. UNCHANGED <<user, token, redis>> /\ call' = [call EXCEPT ![p] = Idle]
  BY DEF Logout, ChangePassword
<1>2. row' \in [Sessions -> {NULL} \cup SessionRows]
  <2>1. CASE Logout(p)
    BY <2>1 DEF Logout, Live, SessionInv, SessionTyped, SessionRows
  <2>2. CASE ChangePassword(p)
    BY <2>2, EndedTyped DEF ChangePassword
  <2> QED
    BY <2>1, <2>2
<1>3. \A t \in tasks' : TaskSound(t)
  BY OtherTask DEF Logout, ChangePassword
<1> QED
  BY <1>1, <1>2, <1>3, IdleSound, OneCall, QuietStep

\* JwtAuthGuard asks the database
LEMMA ValidateCorrect ==
    ASSUME SessionInv, NEW p \in Procs, Validate(p)
    PROVE  SessionInv'
<1>1. PICK j : j = call[p].jti
  OBVIOUS
<1>2. j \in Jtis /\ token[j] \in Tokens
  <2>1. call[p] \in GuardCalls /\ GuardSound(call[p]) /\ call[p].pc = "validate"
    BY DEF SessionInv, SessionTyped, Validate, At
  <2> QED
    BY <1>1, <2>1 DEF GuardCalls, GuardSound, Guarding
<1>3. UNCHANGED <<database, redis>>
  BY DEF Validate
<1>4. row' \in [Sessions -> {NULL} \cup SessionRows]
  BY <1>3 DEF database, SessionInv, SessionTyped
<1>5. CASE ~DbValid(j)
  <2>1. UNCHANGED <<token, tasks>> /\ call' = [call EXCEPT ![p] = Idle]
    BY <1>1, <1>5 DEF Validate
  <2> QED
    BY <1>3, <1>4, <2>1, IdleSound, OneCall, TasksUntouched, QuietStep
<1>6. CASE DbValid(j)
  <2>1. PICK c : c = [pc |-> "passed", jti |-> j]
    OBVIOUS
  <2>2. c \in GuardCalls
    BY <1>2, <2>1 DEF GuardCalls, Guarding
  <2>3. call' = [call EXCEPT ![p] = c] /\ token' = [token EXCEPT ![j].off = 0]
    BY <1>1, <1>6, <2>1 DEF Validate
  <2>4. tasks' = tasks \cup {Task("read", j)}
    BY <1>1, <1>6 DEF Validate, Start
  <2>5. token'[j] \in Tokens /\ token'[j].off = 0 /\ token'[j].user = token[j].user
    BY <1>2, <2>3, SessionAssumption DEF Tokens, SessionInv, SessionTyped
  <2>6. \A i \in Jtis : i # j => token'[i] = token[i]
    BY <2>3 DEF SessionInv, SessionTyped
  <2>7. SessionTyped' /\ CounterSound'
    <3>1. token' \in [Jtis -> {NULL} \cup Tokens]
      BY <2>3, <2>5, <2>6 DEF SessionInv, SessionTyped
    <3>2. call' \in [Procs -> GuardCalls]
      BY <2>2, <2>3 DEF SessionInv, SessionTyped
    <3> QED
      BY <1>3, <1>4, <3>1, <3>2 DEF SessionInv, SessionTyped, CounterSound, redis
  <2>8. ASSUME NEW q \in Procs PROVE GuardSound(call[q])'
    <3>1. call'[q] = IF q = p THEN c ELSE call[q]
      BY <2>3 DEF SessionInv, SessionTyped
    <3>2. CASE q = p
      BY <2>1, <2>5, <3>1, <3>2, SessionAssumption DEF GuardSound
    <3>3. CASE q # p /\ call[q].pc \in Guarding \cup {"compare"}
      <4>1. call[q] \in GuardCalls /\ GuardSound(call[q])
        BY DEF SessionInv, SessionTyped
      <4>2. call[q].jti \in Jtis
        BY <3>3, <4>1 DEF GuardCalls, Guarding
      <4>3. CASE call[q].jti = j
        BY <2>5, <3>1, <3>3, <4>3, SessionAssumption DEF GuardSound
      <4>4. CASE call[q].jti # j
        BY <2>6, <3>1, <3>3, <4>1, <4>2, <4>4 DEF GuardSound
      <4> QED
        BY <4>3, <4>4
    <3>4. CASE q # p /\ call[q].pc \notin Guarding \cup {"compare"}
      BY <3>1, <3>4 DEF GuardSound
    <3> QED
      BY <3>2, <3>3, <3>4
  <2>9. ASSUME NEW t \in tasks' PROVE TaskSound(t)'
    <3>1. CASE t \in tasks
      <4>1. TaskSound(t) /\ counter' = counter
        BY <1>3, <3>1 DEF SessionInv, redis
      <4>2. CASE t.of = j
        BY <2>5, <4>1, <4>2 DEF TaskSound
      <4>3. CASE t.of # j
        BY <2>3, <4>1, <4>3 DEF TaskSound, SessionInv, SessionTyped
      <4> QED
        BY <4>2, <4>3
    <3>2. CASE t = Task("read", j)
      BY <2>5, <3>2 DEF Task, TaskSound
    <3> QED
      BY <2>4, <3>1, <3>2
  <2>10. ASSUME NEW i \in Jtis PROVE AgeSound(i)' /\ GenerationSound(i)'
    <3>1. cache' = cache /\ counter' = counter /\ AgeSound(i) /\ GenerationSound(i)
      BY <1>3 DEF SessionInv, redis
    <3>2. cache[i] \in {NULL} \cup CacheEntries
      BY DEF SessionInv, SessionTyped
    <3>3. CASE i = j
      BY <2>5, <3>1, <3>2, <3>3, SessionAssumption DEF AgeSound, GenerationSound, CacheEntries
    <3>4. CASE i # j
      BY <2>6, <3>1, <3>4 DEF AgeSound, GenerationSound
    <3> QED
      BY <3>3, <3>4
  <2> QED
    BY <2>7, <2>8, <2>9, <2>10 DEF SessionInv
<1> QED
  BY <1>5, <1>6

-----------------------------------------------------------------------------
(* SessionCacheService                                                     *)

\* A task ends, or goes on, and leaves Redis alone
LEMMA TaskReads ==
    ASSUME SessionInv, NEW t \in tasks, Fail(t) \/ ReadGeneration(t) \/ CheckGeneration(t)
    PROVE  SessionInv'
<1>1. UNCHANGED <<database, token, redis, call>>
  BY DEF Fail, ReadGeneration, CheckGeneration
<1>2. row' \in [Sessions -> {NULL} \cup SessionRows]
  BY <1>1 DEF database, SessionInv, SessionTyped
<1>3. TaskSound(t) /\ \A x \in tasks : TaskSound(x)
  BY DEF SessionInv
<1>4. \A x \in tasks' : TaskSound(x)
  <2>1. CASE Fail(t)
    BY <1>3, <2>1 DEF Fail
  <2>2. CASE ReadGeneration(t)
    <3>1. PICK x : x = [kind |-> "write", of |-> t.of, gen |-> counter[UserOf(t)].n]
      OBVIOUS
    <3>2. token[t.of] \in Tokens /\ token[t.of].off = 0
      BY <1>3, <2>2 DEF ReadGeneration, TaskSound
    <3>3. counter[UserOf(t)].n \in Nat
      BY <3>2 DEF Tokens, UserOf, SessionInv, SessionTyped
    <3>4. TaskSound(x)
      BY <3>1, <3>2, <3>3 DEF TaskSound, UserOf
    <3> QED
      BY <1>3, <2>2, <3>1, <3>4 DEF ReadGeneration, Continue
  <2>3. CASE CheckGeneration(t)
    BY <1>3, <2>3 DEF CheckGeneration, Continue, TaskSound
  <2> QED
    BY <2>1, <2>2, <2>3
<1> QED
  BY <1>1, <1>2, <1>4, CallsUntouched, QuietStep

\* The cache changes at one jti, tokens and counters do not
LEMMA CacheChanges ==
    ASSUME SessionInv, NEW j, NEW e \in {NULL} \cup CacheEntries,
           UNCHANGED <<database, token, counter, call>>,
           cache' = [cache EXCEPT ![j] = e],
           j \in Jtis => AgeSound(j)' /\ GenerationSound(j)',
           \A t \in tasks' : TaskSound(t)
    PROVE  SessionInv'
<1>1. SessionTyped' /\ CounterSound'
  BY DEF database, SessionInv, SessionTyped, CounterSound
<1>2. \A p \in Procs : GuardSound(call[p])'
  BY DEF SessionInv, GuardSound
<1>3. \A t \in tasks' : TaskSound(t)'
  BY DEF TaskSound
<1>4. ASSUME NEW i \in Jtis PROVE AgeSound(i)' /\ GenerationSound(i)'
  <2>1. i # j => cache'[i] = cache[i]
    BY DEF SessionInv, SessionTyped
  <2>2. AgeSound(i) /\ GenerationSound(i)
    BY DEF SessionInv
  <2> QED
    BY <2>1, <2>2 DEF AgeSound, GenerationSound
<1> QED
  BY <1>1, <1>2, <1>3, <1>4 DEF SessionInv

LEMMA WriteCorrect ==
    ASSUME SessionInv, NEW t \in tasks, WriteEntry(t)
    PROVE  SessionInv'
<1>1. PICK e : e = [user |-> UserOf(t), gen |-> t.gen, left |-> CacheTtl,
                    stale |-> FALSE, lapsed |-> FALSE]
  OBVIOUS
<1>2. /\ token[t.of] \in Tokens /\ token[t.of].off = 0
      /\ t.gen \in Nat /\ t.gen <= counter[token[t.of].user].n
  BY DEF WriteEntry, SessionInv, TaskSound
<1>3. e \in CacheEntries
  BY <1>1, <1>2, SessionAssumption DEF UserOf, Tokens, CacheEntries
<1>4. cache' = [cache EXCEPT ![t.of] = e] /\ UNCHANGED <<database, token, counter, call>>
  BY <1>1 DEF WriteEntry
<1>5. t.of \in Jtis => AgeSound(t.of)' /\ GenerationSound(t.of)'
  <2> SUFFICES ASSUME t.of \in Jtis PROVE AgeSound(t.of)' /\ GenerationSound(t.of)'
    OBVIOUS
  <2>1. cache'[t.of] = e
    BY <1>4 DEF SessionInv, SessionTyped
  <2>2. CacheTtl \in Nat
    BY SessionAssumption
  <2>3. e.left = CacheTtl /\ e.gen = t.gen /\ e.user = token[t.of].user /\ ~e.stale
    BY <1>1 DEF UserOf
  <2> QED
    BY <1>2, <1>4, <2>1, <2>2, <2>3 DEF AgeSound, GenerationSound
<1>6. \A x \in tasks' : TaskSound(x)
  BY DEF WriteEntry, Continue, TaskSound, SessionInv
<1> QED
  BY <1>3, <1>4, <1>5, <1>6, CacheChanges

LEMMA EvictCorrect ==
    ASSUME SessionInv, NEW t \in tasks, Evict(t)
    PROVE  SessionInv'
<1>1. cache' = [cache EXCEPT ![t.of] = NULL] /\ UNCHANGED <<database, token, counter, call>>
  BY DEF Evict
<1>2. t.of \in Jtis => AgeSound(t.of)' /\ GenerationSound(t.of)'
  BY <1>1 DEF AgeSound, GenerationSound, SessionInv, SessionTyped
<1>3. \A x \in tasks' : TaskSound(x)
  BY DEF Evict, SessionInv
<1> QED
  BY <1>1, <1>2, <1>3, CacheChanges

LEMMA BumpCorrect ==
    ASSUME SessionInv, NEW t \in tasks, Bump(t)
    PROVE  SessionInv'
<1>1. UNCHANGED <<database, token, call>> /\ tasks' \subseteq tasks
  BY DEF Bump
<1>2. ASSUME NEW u \in Users
      PROVE  /\ counter'[u] \in [n : Nat, left : Nat]
             /\ counter'[u] = IF u = t.of THEN Raised(u) ELSE counter[u]
             /\ counter[u].n \in Nat /\ counter'[u].n \in Nat
             /\ counter'[u].n >= counter[u].n
             /\ u = t.of => counter'[u].n = counter[u].n + 1 /\ counter'[u].left # 0
  <2>1. counter[u] \in [n : Nat, left : Nat]
    BY DEF SessionInv, SessionTyped
  <2>2. counter'[u] = IF u = t.of THEN Raised(u) ELSE counter[u]
    BY DEF Bump, SessionInv, SessionTyped
  <2>3. GenerationTtl \in Nat \ {0}
    BY SessionAssumption
  <2> QED
    BY <2>1, <2>2, <2>3 DEF Raised
<1>3. ASSUME NEW j \in Jtis, cache'[j] # NULL
      PROVE  /\ cache[j] \in CacheEntries /\ cache[j] # NULL /\ cache'[j] \in CacheEntries
             /\ cache'[j].gen = cache[j].gen /\ cache'[j].user = cache[j].user
             /\ cache'[j].left = cache[j].left /\ cache'[j].lapsed = cache[j].lapsed
             /\ cache[j].user # t.of => cache'[j].stale = cache[j].stale
  <2>1. cache[j] # NULL /\ cache[j] \in CacheEntries
    BY <1>3 DEF Bump, SessionInv, SessionTyped
  <2>2. cache'[j] = IF cache[j].user = t.of THEN [cache[j] EXCEPT !.stale = TRUE]
                    ELSE cache[j]
    BY <2>1 DEF Bump
  <2> QED
    BY <2>1, <2>2 DEF CacheEntries
<1>4. SessionTyped' /\ CounterSound'
  <2>1. cache' \in [Jtis -> {NULL} \cup CacheEntries]
    BY <1>3 DEF Bump
  <2>2. counter' \in [Users -> [n : Nat, left : Nat]]
    BY <1>2 DEF Bump, SessionInv, SessionTyped
  <2>3. CounterSound'
    BY <1>2 DEF SessionInv, CounterSound
  <2> QED
    BY <1>1, <2>1, <2>2, <2>3 DEF database, SessionInv, SessionTyped
<1>5. \A p \in Procs : GuardSound(call[p])'
  BY <1>1 DEF SessionInv, GuardSound
<1>6. ASSUME NEW x \in tasks' PROVE TaskSound(x)'
  <2>1. TaskSound(x)
    BY <1>1 DEF SessionInv
  <2>2. CASE x.kind \in {"read", "write"}
    <3>1. token[x.of].user \in Users
      BY <2>1, <2>2 DEF TaskSound, Tokens
    <3> QED
      BY <1>1, <1>2, <2>1, <3>1 DEF TaskSound
  <2>3. CASE x.kind \notin {"read", "write"}
    BY <2>3 DEF TaskSound
  <2> QED
    BY <2>2, <2>3
<1>7. ASSUME NEW j \in Jtis, cache'[j] # NULL PROVE AgeSound(j)' /\ GenerationSound(j)'
  <2>1. AgeSound(j) /\ GenerationSound(j)
    BY DEF SessionInv
  <2>2. cache[j].user \in Users /\ cache[j].gen \in Nat
    BY <1>3, <1>7 DEF CacheEntries
  <2>3. AgeSound(j)'
    BY <1>1, <1>3, <1>7, <2>1 DEF AgeSound
  <2>4. GenerationSound(j)'
    BY <1>2, <1>3, <1>7, <2>1, <2>2 DEF GenerationSound
  <2> QED
    BY <2>3, <2>4
<1>8. \A j \in Jtis : AgeSound(j)' /\ GenerationSound(j)'
  BY <1>7 DEF AgeSound, GenerationSound
<1> QED
  BY <1>4, <1>5, <1>6, <1>8 DEF SessionInv

-----------------------------------------------------------------------------
(* Time                                                                    *)

LEMMA TickCorrect ==
    ASSUME SessionInv, Tick
    PROVE  SessionInv'
<1>1. UNCHANGED <<database, call, tasks>> /\ tasks = {}
  BY DEF Tick
<1>2. ASSUME NEW j \in Jtis, token'[j] # NULL
      PROVE  /\ token[j] \in Tokens /\ token[j] # NULL /\ token'[j] \in Tokens
             /\ token'[j].off \in {0, token[j].off, token[j].off + 1}
  <2>1. token[j] # NULL /\ token[j] \in Tokens /\ token[j].left # 1
    BY <1>2 DEF Tick, SessionInv, SessionTyped
  <2>2. token'[j] = [token[j] EXCEPT !.left = @ - 1,
                                     !.off = IF DbValid(j) THEN 0 ELSE More(@, CacheTtl)]
    BY <2>1 DEF Tick
  <2>3. More(token[j].off, CacheTtl) \in {token[j].off, token[j].off + 1} \cap 0..CacheTtl
    BY <2>1, SessionAssumption DEF More, Tokens
  <2>4. 0 \in 0..CacheTtl /\ token[j].left - 1 \in 1..TokenTtl
    BY <2>1, SessionAssumption DEF Tokens
  <2> QED
    BY <2>1, <2>2, <2>3, <2>4 DEF Tokens
<1>3. ASSUME NEW u \in Users
      PROVE  /\ counter'[u] \in [n : Nat, left : Nat]
             /\ counter'[u].left = 0 => counter'[u].n = 0
             /\ counter[u].left # 1 => counter'[u].n = counter[u].n
  <2>1. counter[u] \in [n : Nat, left : Nat] /\ (counter[u].left = 0 => counter[u].n = 0)
    BY DEF SessionInv, SessionTyped, CounterSound
  <2>2. counter'[u] = IF counter[u].left <= 1 THEN [n |-> 0, left |-> 0]
                      ELSE [counter[u] EXCEPT !.left = @ - 1]
    BY DEF Tick
  <2> QED
    BY <2>1, <2>2
<1>4. ASSUME NEW j \in Jtis, cache'[j] # NULL
      PROVE  /\ cache[j] \in CacheEntries /\ cache[j] # NULL /\ cache'[j] \in CacheEntries
             /\ cache'[j].left = cache[j].left - 1
             /\ cache'[j].gen = cache[j].gen /\ cache'[j].user = cache[j].user
             /\ cache'[j].stale = cache[j].stale
             /\ ~cache'[j].lapsed => ~cache[j].lapsed /\ counter[cache[j].user].left # 1
  <2>1. cache[j] # NULL /\ cache[j] \in CacheEntries /\ cache[j].left # 1
    BY <1>4 DEF Tick, SessionInv, SessionTyped
  <2>2. cache'[j] = [cache[j] EXCEPT !.left = @ - 1,
                                     !.lapsed = @ \/ counter[cache[j].user].left = 1]
    BY <2>1 DEF Tick
  <2>3. cache[j].left - 1 \in 1..CacheTtl
    BY <2>1, SessionAssumption DEF CacheEntries
  <2>4. (cache[j].lapsed \/ counter[cache[j].user].left = 1) \in BOOLEAN
    BY <2>1 DEF CacheEntries
  <2> QED
    BY <2>1, <2>2, <2>3, <2>4 DEF CacheEntries
<1>5. SessionTyped' /\ CounterSound'
  <2>1. token' \in [Jtis -> {NULL} \cup Tokens]
    BY <1>2 DEF Tick
  <2>2. cache' \in [Jtis -> {NULL} \cup CacheEntries]
    BY <1>4 DEF Tick
  <2>3. counter' \in [Users -> [n : Nat, left : Nat]]
    BY <1>3 DEF Tick
  <2> QED
    BY <1>1, <1>3, <2>1, <2>2, <2>3 DEF database, SessionInv, SessionTyped, CounterSound
<1>6. \A p \in Procs : GuardSound(call[p])'
  BY DEF Tick, At, GuardSound, Guarding
<1>7. \A t \in tasks' : TaskSound(t)'
  BY <1>1
<1>8. ASSUME NEW j \in Jtis PROVE AgeSound(j)'
  <2> SUFFICES ASSUME cache'[j] # NULL, token'[j] # NULL
               PROVE  token'[j].off + cache'[j].left <= CacheTtl
    BY DEF AgeSound
  <2>1. /\ token[j].off + cache[j].left <= CacheTtl
        /\ token[j].off \in Nat /\ cache[j].left \in Nat /\ CacheTtl \in Nat
        /\ cache[j].left <= CacheTtl
    BY <1>2, <1>4, SessionAssumption DEF SessionInv, AgeSound, Tokens, CacheEntries
  <2>2. token'[j].off \in {0, token[j].off, token[j].off + 1}
    BY <1>2
  <2>3. cache'[j].left = cache[j].left - 1
    BY <1>4
  <2> QED
    BY <2>1, <2>2, <2>3
<1>9. ASSUME NEW j \in Jtis PROVE GenerationSound(j)'
  <2> SUFFICES ASSUME cache'[j] # NULL, ~cache'[j].lapsed
               PROVE  /\ cache'[j].gen <= counter'[cache'[j].user].n
                      /\ cache'[j].stale => cache'[j].gen < counter'[cache'[j].user].n
    BY DEF GenerationSound
  <2>1. cache[j].user \in Users
    BY <1>4 DEF CacheEntries
  <2> QED
    BY <1>3, <1>4, <2>1 DEF SessionInv, GenerationSound
<1> QED
  BY <1>5, <1>6, <1>7, <1>8, <1>9 DEF SessionInv

-----------------------------------------------------------------------------
LEMMA SessionsGoOn == SessionInv /\ [Next]_vars => SessionInv'
<1> SUFFICES ASSUME SessionInv, [Next]_vars PROVE SessionInv'
  OBVIOUS
<1>1. ASSUME NEW u \in Users, Decide(u) \/ ResetPassword(u) \/ \E s \in Patches : Update(u, s)
      PROVE  SessionInv'
  BY <1>1, AdministrationCorrect
<1>2. ASSUME NEW p \in Procs,
             \/ \E u \in Users : Login(p, u)
             \/ \E s \in Sessions : Refresh(p, s)
             \/ \E j \in Jtis : Request(p, j)
             \/ Handle(p)
      PROVE  SessionInv'
  BY <1>2, CallBegins
<1>3. ASSUME NEW p \in Procs, Guard(p) PROVE SessionInv'
  BY <1>3, ReadCorrect, ValidateCorrect DEF Guard
<1>4. ASSUME NEW p \in Procs, Handler(p) PROVE SessionInv'
  BY <1>4, CallBegins, LogoutCorrect, CreateCorrect, RenewCorrect DEF Handler
<1>5. ASSUME NEW t \in tasks, Background(t) PROVE SessionInv'
  BY <1>5, TaskReads, WriteCorrect, EvictCorrect, BumpCorrect DEF Background
<1>6. CASE Tick
  BY <1>6, TickCorrect
<1>7. CASE Cleanup \/ \E s \in Sessions : PassExpiry(s)
  BY <1>7, RowsChange
<1>8. CASE UNCHANGED vars
  <2>1. /\ UNCHANGED <<token, redis, call, tasks>>
        /\ row' \in [Sessions -> {NULL} \cup SessionRows]
    BY <1>8 DEF vars, redis, SessionInv, SessionTyped
  <2> QED
    BY <2>1, CallsUntouched, TasksUntouched, QuietStep
<1> QED
  BY <1>1, <1>2, <1>3, <1>4, <1>5, <1>6, <1>7, <1>8 DEF Next

\* A token the database refuses passes the guard for less than the cache's TTL,
\* and a raised generation makes every session cached before a miss, however
\* fills, evictions, hits and failures of Redis interleave
\* (SessionCacheService, JwtAuthGuard).
THEOREM SessionsCorrect == Spec => []RefusalsReachTheGuard
<1>1. Spec => []SessionInv
  BY SessionsStart, SessionsGoOn, PTL DEF Spec
<1> QED
  BY <1>1, RefusalsBounded, PTL

-----------------------------------------------------------------------------
(* The bounds                                                              *)

\* A task that raises a counter finds room for it: it is the user's only one
TaskBounded(t) ==
    /\ t.kind \in {"read", "write", "check", "evict", "bump"}
    /\ t.kind = "bump" => /\ t.of \in Users /\ t = Task("bump", t.of)
                          /\ counter[t.of].n < MaxGeneration
BoundsSound ==
    /\ user \in [Users -> PENDING..SUSPENDED]
    /\ \A u \in Users : counter[u].n <= MaxGeneration /\ counter[u].left <= GenerationTtl
    /\ \A j \in Jtis : cache[j] # NULL => cache[j].gen <= MaxGeneration
    /\ \A t \in tasks : TaskBounded(t)
BoundInv == SessionInv /\ BoundsSound

LEMMA BoundsStart == Init => BoundsSound
<1> SUFFICES ASSUME Init PROVE BoundsSound
  OBVIOUS
<1>1. MaxGeneration \in Nat /\ GenerationTtl \in Nat
  BY SessionAssumption
<1> QED
  BY <1>1 DEF Init, BoundsSound, PENDING, SUSPENDED

\* Tasks end or begin, Redis stays as it is
LEMMA RedisUntouched ==
    ASSUME BoundsSound, UNCHANGED redis, user' \in [Users -> PENDING..SUSPENDED],
           \A t \in tasks' : t \in tasks \/ TaskBounded(t)
    PROVE  BoundsSound'
BY DEF redis, BoundsSound, TaskBounded

LEMMA StartedBounded ==
    ASSUME NEW kind, NEW of, Start(kind, of),
           \/ kind \in {"read", "evict"}
           \/ kind = "bump" /\ of \in Users /\ counter[of].n < MaxGeneration
    PROVE  \A t \in tasks' : t \in tasks \/ TaskBounded(t)
<1>1. PICK x : x = Task(kind, of)
  OBVIOUS
<1>2. tasks' = tasks \cup {x}
  BY <1>1 DEF Start
<1>3. x.kind = kind /\ x.of = of
  BY <1>1 DEF Task
<1>4. TaskBounded(x)
  BY <1>1, <1>3 DEF TaskBounded
<1> QED
  BY <1>2, <1>4

LEMMA ContinuedBounded ==
    ASSUME NEW t, NEW kind \in {"write", "check", "evict"}, NEW gen, Continue(t, kind, gen)
    PROVE  \A x \in tasks' : x \in tasks \/ TaskBounded(x)
<1>1. PICK y : y = [kind |-> kind, of |-> t.of, gen |-> gen]
  OBVIOUS
<1>2. TaskBounded(y)
  BY <1>1 DEF TaskBounded
<1> QED
  BY <1>1, <1>2 DEF Continue

LEMMA UsersBounded ==
    ASSUME BoundInv,
           \E u \in Users : Decide(u) \/ ResetPassword(u) \/ \E s \in Patches : Update(u, s)
    PROVE  BoundsSound'
<1>0. BoundsSound /\ user \in [Users -> PENDING..SUSPENDED]
  BY DEF BoundInv, BoundsSound
<1>1. PICK u \in Users : Decide(u) \/ ResetPassword(u) \/ \E s \in Patches : Update(u, s)
  OBVIOUS
<1>2. CASE Decide(u)
  <2>1. user' \in [Users -> PENDING..SUSPENDED]
    BY <1>0, <1>2 DEF Decide, PENDING, APPROVED, REJECTED, SUSPENDED
  <2> QED
    BY <1>0, <1>2, <2>1, RedisUntouched DEF Decide
<1>3. CASE ResetPassword(u)
  <2>1. \A t \in tasks' : t \in tasks \/ TaskBounded(t)
    BY <1>3, StartedBounded DEF ResetPassword, Room
  <2> QED
    BY <1>0, <1>3, <2>1, RedisUntouched DEF ResetPassword
<1>4. ASSUME NEW s \in Patches, Update(u, s) PROVE BoundsSound'
  <2>1. s \in PENDING..SUSPENDED
    BY SessionAssumption DEF PENDING, SUSPENDED
  <2>2. user' \in [Users -> PENDING..SUSPENDED]
    BY <1>0, <1>4, <2>1 DEF Update
  <2>3. \A t \in tasks' : t \in tasks \/ TaskBounded(t)
    <3>1. CASE s = SUSPENDED
      BY <1>4, <3>1, StartedBounded DEF Update, Room
    <3>2. CASE s # SUSPENDED
      BY <1>4, <3>2 DEF Update
    <3> QED
      BY <3>1, <3>2
  <2> QED
    BY <1>0, <1>4, <2>2, <2>3, RedisUntouched DEF Update
<1> QED
  BY <1>1, <1>2, <1>3, <1>4

LEMMA CallsBounded ==
    ASSUME BoundInv, NEW p \in Procs,
           \/ \E u \in Users : Login(p, u)
           \/ \E s \in Sessions : Refresh(p, s)
           \/ \E j \in Jtis : Request(p, j)
           \/ Guard(p) \/ Handler(p)
    PROVE  BoundsSound'
<1>0. BoundsSound /\ user \in [Users -> PENDING..SUSPENDED]
  BY DEF BoundInv, BoundsSound
<1>1. UNCHANGED redis /\ user' = user
  BY DEF Login, Refresh, Request, Guard, Handler, ReadEntry, CompareGeneration, Validate, Handle,
         Logout, ChangePassword, CreateSession, Renew, database
<1>2. CASE UNCHANGED tasks
  BY <1>0, <1>1, <1>2, RedisUntouched
<1>3. CASE Logout(p) \/ ChangePassword(p)
  <2>1. token[call[p].jti].user \in Users
    BY <1>3 DEF Logout, ChangePassword, At, BoundInv, SessionInv, GuardSound, Guarding, Tokens
  <2>2. \A t \in tasks' : t \in tasks \/ TaskBounded(t)
    BY <1>3, <2>1, StartedBounded DEF Logout, ChangePassword, Room
  <2> QED
    BY <1>0, <1>1, <2>2, RedisUntouched
<1>4. CASE Renew(p)
  <2>1. \A t \in tasks' : t \in tasks \/ TaskBounded(t)
    BY <1>4, StartedBounded DEF Renew
  <2> QED
    BY <1>0, <1>1, <2>1, RedisUntouched
<1>5. CASE Validate(p) /\ ~UNCHANGED tasks
  <2>1. \A t \in tasks' : t \in tasks \/ TaskBounded(t)
    BY <1>5, StartedBounded DEF Validate
  <2> QED
    BY <1>0, <1>1, <2>1, RedisUntouched
<1> QED
  BY <1>2, <1>3, <1>4, <1>5 DEF Login, Refresh, Request, Guard, Handler, ReadEntry,
     CompareGeneration, Handle, CreateSession

\* No entry has a generation the counter has not had
LEMMA WriteBounded ==
    ASSUME BoundInv, NEW t \in tasks, WriteEntry(t)
    PROVE  BoundsSound'
<1>1. /\ token[t.of] \in Tokens
      /\ t.gen \in Nat /\ t.gen <= counter[token[t.of].user].n
  BY DEF WriteEntry, BoundInv, SessionInv, TaskSound
<1>2. PICK u \in Users : u = token[t.of].user
  BY <1>1 DEF Tokens
<1>3. counter[u].n \in Nat /\ counter[u].n <= MaxGeneration /\ MaxGeneration \in Nat
  BY SessionAssumption DEF BoundInv, BoundsSound, SessionInv, SessionTyped
<1>4. t.gen <= MaxGeneration
  BY <1>1, <1>2, <1>3
<1>5. PICK e : e = [user |-> UserOf(t), gen |-> t.gen, left |-> CacheTtl,
                    stale |-> FALSE, lapsed |-> FALSE]
  OBVIOUS
<1>6. cache' = [cache EXCEPT ![t.of] = e] /\ e.gen = t.gen
  BY <1>5 DEF WriteEntry
<1>7. ASSUME NEW j \in Jtis, cache'[j] # NULL PROVE cache'[j].gen <= MaxGeneration
  <2>1. cache'[j] = e \/ cache'[j] = cache[j]
    BY <1>6 DEF BoundInv, SessionInv, SessionTyped
  <2> QED
    BY <1>4, <1>6, <1>7, <2>1 DEF BoundInv, BoundsSound
<1>8. \A x \in tasks' : TaskBounded(x)
  <2>1. Continue(t, "check", t.gen)
    BY DEF WriteEntry
  <2> QED
    BY <2>1, ContinuedBounded DEF BoundInv, BoundsSound
<1> QED
  BY <1>7, <1>8 DEF WriteEntry, database, BoundInv, BoundsSound, TaskBounded

LEMMA EvictBounded ==
    ASSUME BoundInv, NEW t \in tasks, Evict(t)
    PROVE  BoundsSound'
<1>1. cache' = [cache EXCEPT ![t.of] = NULL]
  BY DEF Evict
<1>2. ASSUME NEW j \in Jtis, cache'[j] # NULL PROVE cache'[j].gen <= MaxGeneration
  <2>1. cache'[j] = cache[j]
    BY <1>1, <1>2 DEF BoundInv, SessionInv, SessionTyped
  <2> QED
    BY <1>2, <2>1 DEF BoundInv, BoundsSound
<1> QED
  BY <1>2 DEF Evict, database, BoundInv, BoundsSound, TaskBounded

\* The counter has room, and whoever else raises one raises another
LEMMA BumpBounded ==
    ASSUME BoundInv, NEW t \in tasks, Bump(t)
    PROVE  BoundsSound'
<1>1. t.of \in Users /\ t = Task("bump", t.of) /\ counter[t.of].n < MaxGeneration
  BY DEF Bump, BoundInv, BoundsSound, TaskBounded
<1>2. PICK u \in Users : u = t.of
  BY <1>1
<1>3. counter[u] \in [n : Nat, left : Nat] /\ MaxGeneration \in Nat /\ GenerationTtl \in Nat
  BY SessionAssumption DEF BoundInv, SessionInv, SessionTyped
<1>4. \A v \in Users : counter'[v] = IF v = u THEN Raised(u) ELSE counter[v]
  BY <1>2 DEF Bump, BoundInv, SessionInv, SessionTyped
<1>5. Raised(u).n = counter[u].n + 1 /\ Raised(u).left = GenerationTtl
  BY DEF Raised
<1>6. \A v \in Users : counter'[v].n <= MaxGeneration /\ counter'[v].left <= GenerationTtl
  BY <1>1, <1>2, <1>3, <1>4, <1>5 DEF BoundInv, BoundsSound
<1>7. ASSUME NEW x \in tasks' PROVE TaskBounded(x)'
  <2>1. x \in tasks /\ x # t /\ TaskBounded(x)
    BY DEF Bump, BoundInv, BoundsSound
  <2>2. x.kind = "bump" => x.of # u
    BY <1>1, <1>2, <2>1 DEF TaskBounded
  <2> QED
    BY <1>4, <2>1, <2>2 DEF TaskBounded
<1>8. ASSUME NEW j \in Jtis, cache'[j] # NULL PROVE cache'[j].gen <= MaxGeneration
  <2>1. \/ cache'[j] = cache[j]
        \/ cache[j] # NULL /\ cache'[j] = [cache[j] EXCEPT !.stale = TRUE]
    BY DEF Bump
  <2>2. cache[j] # NULL /\ cache[j] \in CacheEntries
    BY <1>8, <2>1 DEF BoundInv, SessionInv, SessionTyped
  <2>3. cache'[j].gen = cache[j].gen
    BY <2>1, <2>2 DEF CacheEntries
  <2> QED
    BY <2>2, <2>3 DEF BoundInv, BoundsSound
<1> QED
  BY <1>6, <1>7, <1>8 DEF Bump, database, BoundInv, BoundsSound

LEMMA TickBounded ==
    ASSUME BoundInv, Tick
    PROVE  BoundsSound'
<1>1. tasks' = {} /\ user' = user
  BY DEF Tick, database
<1>2. ASSUME NEW u \in Users
      PROVE  counter'[u].n <= MaxGeneration /\ counter'[u].left <= GenerationTtl
  <2>1. /\ counter[u] \in [n : Nat, left : Nat] /\ MaxGeneration \in Nat
        /\ GenerationTtl \in Nat
        /\ counter[u].n <= MaxGeneration /\ counter[u].left <= GenerationTtl
    BY SessionAssumption DEF BoundInv, BoundsSound, SessionInv, SessionTyped
  <2>2. counter'[u] = IF counter[u].left <= 1 THEN [n |-> 0, left |-> 0]
                      ELSE [counter[u] EXCEPT !.left = @ - 1]
    BY DEF Tick
  <2> QED
    BY <2>1, <2>2
<1>3. ASSUME NEW j \in Jtis, cache'[j] # NULL PROVE cache'[j].gen <= MaxGeneration
  <2>1. cache[j] # NULL /\ cache[j] \in CacheEntries
    BY <1>3 DEF Tick, BoundInv, SessionInv, SessionTyped
  <2>2. cache'[j] = [cache[j] EXCEPT !.left = @ - 1,
                                     !.lapsed = @ \/ counter[cache[j].user].left = 1]
    BY <1>3, <2>1 DEF Tick
  <2>3. cache'[j].gen = cache[j].gen
    BY <2>1, <2>2 DEF CacheEntries
  <2> QED
    BY <2>1, <2>3 DEF BoundInv, BoundsSound
<1> QED
  BY <1>1, <1>2, <1>3 DEF BoundInv, BoundsSound

LEMMA BoundsStay == BoundInv /\ [Next]_vars => BoundsSound'
<1> SUFFICES ASSUME BoundInv, [Next]_vars PROVE BoundsSound'
  OBVIOUS
<1>0. BoundsSound /\ user \in [Users -> PENDING..SUSPENDED]
  BY DEF BoundInv, BoundsSound
<1>1. ASSUME NEW t \in tasks, Fail(t) \/ ReadGeneration(t) \/ CheckGeneration(t)
      PROVE  BoundsSound'
  <2>1. \A x \in tasks' : x \in tasks \/ TaskBounded(x)
    BY <1>1, ContinuedBounded DEF Fail, ReadGeneration, CheckGeneration
  <2>2. UNCHANGED redis /\ user' = user
    BY <1>1 DEF Fail, ReadGeneration, CheckGeneration, database
  <2> QED
    BY <1>0, <2>1, <2>2, RedisUntouched
<1>2. ASSUME NEW t \in tasks, Background(t) PROVE BoundsSound'
  BY <1>1, <1>2, WriteBounded, EvictBounded, BumpBounded DEF Background
<1>3. CASE UNCHANGED vars \/ Cleanup \/ \E s \in Sessions : PassExpiry(s)
  <2>1. UNCHANGED redis /\ user' = user /\ tasks' = tasks
    BY <1>3 DEF vars, Cleanup, PassExpiry, redis
  <2> QED
    BY <1>0, <2>1, RedisUntouched
<1> QED
  BY <1>2, <1>3, UsersBounded, CallsBounded, TickBounded DEF Next

\* Users, sessions, tokens, guards and what Redis holds keep their types: neither a
\* counter nor the generation of a cached session goes beyond the bound on
\* invalidations, also when several tasks that nobody awaits are under way
\* (SessionCacheService.invalidateUser).
THEOREM SessionsTyped == Spec => []TypeOK
<1>1. BoundInv => TypeOK
  <2> SUFFICES ASSUME BoundInv PROVE TypeOK
    OBVIOUS
  <2>1. SessionTyped /\ BoundsSound
    BY DEF BoundInv, SessionInv
  <2>2. ASSUME NEW u \in Users
        PROVE  counter[u] \in [n : 0..MaxGeneration, left : 0..GenerationTtl]
    <3>1. /\ counter[u] \in [n : Nat, left : Nat] /\ MaxGeneration \in Nat
          /\ GenerationTtl \in Nat
          /\ counter[u].n <= MaxGeneration /\ counter[u].left <= GenerationTtl
      BY <2>1, SessionAssumption DEF BoundsSound, SessionTyped
    <3> QED
      BY <3>1
  <2>3. ASSUME NEW j \in Jtis
        PROVE  cache[j] \in {NULL} \cup [user : Users, gen : 0..MaxGeneration,
                                         left : 1..CacheTtl, stale : BOOLEAN, lapsed : BOOLEAN]
    <3>1. CASE cache[j] # NULL
      <4>1. cache[j] \in CacheEntries /\ cache[j].gen <= MaxGeneration /\ MaxGeneration \in Nat
        BY <2>1, <3>1, SessionAssumption DEF BoundsSound, SessionTyped
      <4> QED
        BY <4>1 DEF CacheEntries
    <3> QED
      BY <3>1
  <2>4. ASSUME NEW p \in Procs
        PROVE  call[p].pc \in {"idle", "create", "renew", "entry", "compare", "validate",
                               "passed"}
    BY <2>1 DEF SessionTyped, GuardCalls, Guarding
  <2>5. counter \in [Users -> [n : 0..MaxGeneration, left : 0..GenerationTtl]]
    BY <2>1, <2>2 DEF SessionTyped
  <2>6. cache \in [Jtis -> {NULL} \cup [user : Users, gen : 0..MaxGeneration,
                                        left : 1..CacheTtl, stale : BOOLEAN, lapsed : BOOLEAN]]
    BY <2>1, <2>3 DEF SessionTyped
  <2> QED
    BY <2>1, <2>4, <2>5, <2>6 DEF SessionTyped, SessionRows, BoundsSound, TaskBounded, TypeOK
<1>2. Init => BoundInv
  BY SessionsStart, BoundsStart DEF BoundInv
<1>3. BoundInv /\ [Next]_vars => BoundInv'
  BY SessionsGoOn, BoundsStay DEF BoundInv
<1> QED
  BY <1>1, <1>2, <1>3, PTL DEF Spec

-----------------------------------------------------------------------------
(* Organisation: the invariants                                            *)

Steps == {"authorise", "read", "create", "update", "insert", "replace", "before", "compare",
          "after"}
Calls == [pc : Steps, by : Admins, op : {"create", "update", "read"}, row : Rows,
          shown : Nat, before : Nat, change : Nat]
Entries == [row : Rows, change : Nat, before : Nat, after : Nat]

TablesTyped == /\ table \in [Rows -> Nat] /\ replaced \in Seq(Nat) /\ replaced # <<>>
               /\ audit \subseteq Entries
TokensTyped == /\ active \in BOOLEAN /\ since \in 0..RoleTtl
               /\ jwt \in [Admins -> [super : BOOLEAN, left : 0..RoleTtl]]
WorkTyped == work \in [Handlers -> {Resting} \cup Calls]
Typed == TablesTyped /\ TokensTyped /\ WorkTyped

\* What is known of a call that is under way: the caller was shown a stamp that
\* had been given; a project is compared with a stamp no newer than the row read
\* before, unless the row has moved beyond it; a change replaced what it says
CallSound(p) ==
    work[p] # Resting =>
        /\ work[p].shown \in DOMAIN replaced
        /\ work[p].pc = "compare" =>
             \/ table[work[p].row] = work[p].before
             \/ table[work[p].row] > work[p].shown
        /\ work[p].pc = "after" =>
             /\ work[p].change \in DOMAIN replaced
             /\ work[p].before = replaced[work[p].change]
AuditSound == \A e \in audit : e.change \in DOMAIN replaced /\ e.before = replaced[e.change]
LogInv == Typed /\ AuditSound /\ \A p \in Handlers : CallSound(p)

\* A call of Granted that a procedure has let through is younger than a revocation
PowerSound ==
    \A p \in Handlers :
        work[p] # Resting /\ work[p].pc # "authorise" /\ work[p].by = Granted
            => active \/ since = 0
\* A token that says more than the table is from before the revocation
LagSound == ~active /\ jwt[Granted].super => since + jwt[Granted].left <= RoleTtl

-----------------------------------------------------------------------------
(* The audit log                                                           *)

LEMMA LogInit == OrgInit => LogInv
<1> SUFFICES ASSUME OrgInit PROVE LogInv
  OBVIOUS
<1>1. Typed
  BY OrganisationAssumption
  DEF OrgInit, Typed, TablesTyped, TokensTyped, WorkTyped
<1>2. AuditSound /\ \A p \in Handlers : CallSound(p)
  BY DEF OrgInit, AuditSound, CallSound
<1> QED
  BY <1>1, <1>2 DEF LogInv

\* A call that is under way is a record with all its fields
LEMMA UnderWay ==
    ASSUME WorkTyped, NEW p \in Handlers, work[p].pc # "idle"
    PROVE  work[p] \in Calls /\ work[p] # Resting
BY DEF WorkTyped, Resting

\* A call goes on, ends or begins while table and log stay as they are
LEMMA OneCallMoves ==
    ASSUME LogInv, NEW p \in Handlers, NEW c,
           work' = [work EXCEPT ![p] = c], c \in {Resting} \cup Calls,
           UNCHANGED <<table, replaced, audit>>, TokensTyped',
           CallSound(p)'
    PROVE  LogInv'
<1>1. Typed'
  BY DEF LogInv, Typed, TablesTyped, WorkTyped
<1>2. AuditSound'
  BY DEF LogInv, AuditSound
<1>3. ASSUME NEW q \in Handlers, q # p PROVE CallSound(q)'
  <2>1. work'[q] = work[q] /\ CallSound(q)
    BY <1>3 DEF LogInv, Typed, WorkTyped
  <2> QED
    BY <2>1 DEF CallSound
<1> QED
  BY <1>1, <1>2, <1>3 DEF LogInv

\* A call answers, or goes on to a step about which nothing is claimed
LEMMA CallGoesOn ==
    ASSUME LogInv, NEW p \in Handlers, work[p].pc # "idle", Quietly,
           \/ Answer(p)
           \/ \E pc \in Steps \ {"compare", "after"} : GoOn(p, pc)
    PROVE  LogInv'
<1>1. work[p] \in Calls /\ work[p] # Resting /\ CallSound(p) /\ WorkTyped
  BY UnderWay DEF LogInv, Typed
<1>2. TokensTyped' /\ UNCHANGED <<table, replaced, audit>>
  BY DEF LogInv, Typed, TokensTyped, Quietly
<1>3. CASE Answer(p)
  <2>1. work'[p] = Resting
    BY <1>1, <1>3 DEF Answer, WorkTyped
  <2>2. CallSound(p)'
    BY <2>1 DEF CallSound
  <2> QED
    BY <1>2, <1>3, <2>2, OneCallMoves DEF Answer
<1>4. ASSUME NEW pc \in Steps \ {"compare", "after"}, GoOn(p, pc) PROVE LogInv'
  <2> DEFINE c == [work[p] EXCEPT !.pc = pc]
  <2>1. work' = [work EXCEPT ![p] = c] /\ work'[p] = c
    BY <1>1, <1>4 DEF GoOn, WorkTyped
  <2>2. c \in Calls /\ c.pc = pc /\ c.shown = work[p].shown
    BY <1>1 DEF Calls, Steps
  <2>3. CallSound(p)'
    BY <1>1, <1>2, <2>1, <2>2 DEF CallSound
  <2> HIDE DEF c
  <2> QED
    BY <1>2, <2>1, <2>2, <2>3, OneCallMoves
<1> QED
  BY <1>3, <1>4

LEMMA IssueTokenLog ==
    ASSUME LogInv, NEW u \in Admins, IssueToken(u)
    PROVE  LogInv'
<1>1. TokensTyped'
  BY OrganisationAssumption DEF IssueToken, LogInv, Typed, TokensTyped, IsSuperAdmin
<1> QED
  BY <1>1 DEF IssueToken, LogInv, Typed, TablesTyped, WorkTyped, AuditSound, CallSound

LEMMA DayLog ==
    ASSUME LogInv, Day
    PROVE  LogInv'
<1>0. RoleTtl \in Nat /\ TokensTyped
  BY OrganisationAssumption DEF LogInv, Typed
<1>a. active' \in BOOLEAN /\ since' \in 0..RoleTtl
  <2>1. active \in BOOLEAN /\ since \in 0..RoleTtl
    BY <1>0 DEF TokensTyped
  <2>2. active' = active /\ since' = (IF since = RoleTtl THEN since ELSE since + 1)
    BY DEF Day
  <2>3. (IF since = RoleTtl THEN since ELSE since + 1) \in 0..RoleTtl
    BY <1>0, <2>1
  <2> QED
    BY <2>1, <2>2, <2>3
<1>b. ASSUME NEW u \in Admins
      PROVE  [jwt[u] EXCEPT !.left = IF @ = 0 THEN 0 ELSE @ - 1]
               \in [super : BOOLEAN, left : 0..RoleTtl]
  <2>1. jwt[u] \in [super : BOOLEAN, left : 0..RoleTtl]
    BY <1>0 DEF TokensTyped
  <2>2. (IF jwt[u].left = 0 THEN 0 ELSE jwt[u].left - 1) \in 0..RoleTtl
    BY <1>0, <2>1
  <2> QED
    BY <2>1, <2>2
<1>c. jwt' \in [Admins -> [super : BOOLEAN, left : 0..RoleTtl]]
  BY <1>b DEF Day
<1>1. TokensTyped'
  BY <1>a, <1>c DEF TokensTyped
<1> QED
  BY <1>1 DEF Day, LogInv, Typed, TablesTyped, WorkTyped, AuditSound, CallSound

LEMMA CallLog ==
    ASSUME LogInv, NEW p \in Handlers, NEW u \in Admins,
           NEW op \in {"create", "update", "read"}, NEW r \in Rows, Call(p, u, op, r)
    PROVE  LogInv'
<1>0. 1 \in DOMAIN replaced
  BY DEF LogInv, Typed, TablesTyped
<1>1. PICK s \in DOMAIN replaced :
        work' = [work EXCEPT ![p] = [pc |-> "authorise", by |-> u, op |-> op, row |-> r,
                                     shown |-> s, before |-> 0, change |-> 0]]
  <2>1. PICK s \in IF op = "update" /\ r \in Projects THEN DOMAIN replaced ELSE {1} :
        work' = [work EXCEPT ![p] = [pc |-> "authorise", by |-> u, op |-> op, row |-> r,
                                     shown |-> s, before |-> 0, change |-> 0]]
    BY DEF Call
  <2>2. s \in DOMAIN replaced
    BY <1>0, <2>1
  <2> QED
    BY <2>1, <2>2
<1> DEFINE c == [pc |-> "authorise", by |-> u, op |-> op, row |-> r,
                 shown |-> s, before |-> 0, change |-> 0]
<1>2. s \in Nat
  BY DEF LogInv, Typed, TablesTyped
<1>3. c \in Calls
  BY <1>2 DEF Calls, Steps
<1>4. TokensTyped' /\ UNCHANGED <<table, replaced, audit>>
  BY DEF Call, Quietly, LogInv, Typed, TokensTyped
<1>5. CallSound(p)'
  BY <1>1, <1>4 DEF CallSound, LogInv, Typed, WorkTyped
<1> HIDE DEF c
<1> QED
  BY <1>1, <1>3, <1>4, <1>5, OneCallMoves DEF c

LEMMA ReadBeforeLog ==
    ASSUME LogInv, NEW p \in Handlers, ReadBefore(p)
    PROVE  LogInv'
<1>1. work[p] \in Calls /\ work[p] # Resting /\ CallSound(p)
  BY UnderWay DEF ReadBefore, LogInv, Typed
<1> DEFINE c == [work[p] EXCEPT !.before = table[work[p].row], !.pc = "compare"]
<1>2. work' = [work EXCEPT ![p] = c] /\ work'[p] = c
  BY <1>1 DEF ReadBefore, LogInv, Typed, WorkTyped
<1>3. table[work[p].row] \in Nat
  BY <1>1 DEF Calls, LogInv, Typed, TablesTyped
<1>4. c \in Calls /\ c.pc = "compare" /\ c.shown = work[p].shown /\ c.row = work[p].row
      /\ c.before = table[work[p].row]
  BY <1>1, <1>3 DEF Calls, Steps
<1>5. TokensTyped' /\ UNCHANGED <<table, replaced, audit>>
  BY DEF ReadBefore, Quietly, LogInv, Typed, TokensTyped
<1>6. CallSound(p)'
  BY <1>1, <1>2, <1>4, <1>5 DEF CallSound
<1> HIDE DEF c
<1> QED
  BY <1>2, <1>4, <1>5, <1>6, OneCallMoves

LEMMA ReadAfterLog ==
    ASSUME LogInv, NEW p \in Handlers, ReadAfter(p)
    PROVE  LogInv'
<1>1. work[p] \in Calls /\ work[p] # Resting /\ CallSound(p) /\ WorkTyped
  BY UnderWay DEF ReadAfter, LogInv, Typed
<1> DEFINE e == [row |-> work[p].row, change |-> work[p].change,
                 before |-> work[p].before, after |-> table[work[p].row]]
<1>2. audit' \in {audit, audit \cup {e}}
  BY DEF ReadAfter
<1>3. e \in Entries /\ e.change \in DOMAIN replaced /\ e.before = replaced[e.change]
  BY <1>1 DEF Entries, Calls, CallSound, ReadAfter, LogInv, Typed, TablesTyped
<1> HIDE DEF e
<1>4. work' = [work EXCEPT ![p] = Resting] /\ work'[p] = Resting
  BY <1>1 DEF ReadAfter, Answer, WorkTyped
<1>5. Typed'
  BY <1>2, <1>3, <1>4 DEF ReadAfter, LogInv, Typed, TablesTyped, TokensTyped, WorkTyped
<1>6. AuditSound'
  BY <1>2, <1>3 DEF ReadAfter, LogInv, AuditSound
<1>7. ASSUME NEW q \in Handlers PROVE CallSound(q)'
  BY <1>1, <1>4 DEF ReadAfter, LogInv, CallSound, WorkTyped
<1> QED
  BY <1>5, <1>6, <1>7 DEF LogInv

\* A change stamps its row with a number nobody has been shown
LEMMA CommitLog ==
    ASSUME LogInv, NEW p \in Handlers, work[p].pc # "idle",
           NEW b, b = table[work[p].row], Commit(p, b)
    PROVE  LogInv'
<1>1. work[p] \in Calls /\ work[p] # Resting /\ CallSound(p) /\ WorkTyped
  BY UnderWay DEF LogInv, Typed
<1>2. PICK n : n = Len(replaced) + 1
  OBVIOUS
<1>3. PICK r \in Rows : r = work[p].row
  BY <1>1 DEF Calls
<1>4. replaced \in Seq(Nat) /\ Len(replaced) \in Nat /\ n \in Nat /\ b \in Nat
      /\ table \in [Rows -> Nat]
  BY <1>2, <1>3 DEF LogInv, Typed, TablesTyped
<1>5. table' = [table EXCEPT ![r] = n] /\ replaced' = Append(replaced, b) /\ audit' = audit
  BY <1>2, <1>3 DEF Commit
<1>6. PICK c : c = [work[p] EXCEPT !.pc = "after", !.before = b, !.change = n]
  OBVIOUS
<1>7. work' = [work EXCEPT ![p] = c] /\ work'[p] = c
  BY <1>1, <1>2, <1>6 DEF Commit, WorkTyped
<1>8. c \in Calls /\ c.pc = "after" /\ c.before = b /\ c.change = n
      /\ c.shown = work[p].shown
  BY <1>1, <1>4, <1>6 DEF Calls, Steps
<1>9. /\ replaced' \in Seq(Nat) /\ replaced' # <<>> /\ replaced'[n] = b
      /\ n \in DOMAIN replaced'
      /\ \A i \in DOMAIN replaced : i \in DOMAIN replaced' /\ replaced'[i] = replaced[i]
      /\ \A i \in DOMAIN replaced : i \in Nat /\ i < n
  BY <1>2, <1>4, <1>5
<1>10. Typed'
  <2>1. TablesTyped'
    BY <1>4, <1>5, <1>9 DEF LogInv, Typed, TablesTyped
  <2>2. TokensTyped'
    <3>1. \/ active' = ~active /\ since' = 0
          \/ active' = active /\ since' = since
      BY DEF Commit
    <3>2. 0 \in 0..RoleTtl /\ jwt' = jwt
      BY OrganisationAssumption DEF Commit
    <3> QED
      BY <3>1, <3>2 DEF LogInv, Typed, TokensTyped
  <2>3. WorkTyped'
    BY <1>1, <1>7, <1>8 DEF WorkTyped
  <2> QED
    BY <2>1, <2>2, <2>3 DEF Typed
<1>11. AuditSound'
  BY <1>5, <1>9 DEF LogInv, AuditSound
<1>12. ASSUME NEW q \in Handlers PROVE CallSound(q)'
  <2>1. CASE q = p
    BY <1>1, <1>7, <1>8, <1>9, <2>1 DEF CallSound
  <2>2. CASE q # p
    <3>1. work'[q] = work[q] /\ CallSound(q)
      BY <1>7, <2>2 DEF LogInv, Typed, WorkTyped
    <3>2. CASE work[q] # Resting
      <4>1. work[q] \in Calls
        BY <1>1, <3>2 DEF WorkTyped
      <4>2. work[q].shown \in DOMAIN replaced /\ work[q].shown < n
        BY <1>9, <3>1, <3>2 DEF CallSound
      <4>3. table'[work[q].row] \in {n, table[work[q].row]}
        BY <1>4, <1>5, <4>1 DEF Calls
      <4>4. work[q].pc = "compare" => \/ table'[work[q].row] = work[q].before
                                      \/ table'[work[q].row] > work[q].shown
        BY <1>4, <3>1, <3>2, <4>1, <4>2, <4>3 DEF CallSound, Calls
      <4>5. work[q].pc = "after" => /\ work[q].change \in DOMAIN replaced'
                                    /\ work[q].before = replaced'[work[q].change]
        BY <1>9, <3>1, <3>2 DEF CallSound
      <4> QED
        BY <1>9, <3>1, <4>2, <4>4, <4>5 DEF CallSound
    <3> QED
      BY <3>1, <3>2 DEF CallSound
  <2> QED
    BY <2>1, <2>2
<1> QED
  BY <1>10, <1>11, <1>12 DEF LogInv

LEMMA LogNext == LogInv /\ [OrgNext]_orgVars => LogInv'
<1> SUFFICES ASSUME LogInv, [OrgNext]_orgVars PROVE LogInv'
  OBVIOUS
<1>1. ASSUME NEW u \in Admins, IssueToken(u) PROVE LogInv'
  BY <1>1, IssueTokenLog
<1>2. ASSUME NEW p \in Handlers, NEW u \in Admins, NEW op \in {"create", "update", "read"},
             NEW r \in Rows, Call(p, u, op, r)
      PROVE  LogInv'
  BY <1>2, CallLog
<1>3. ASSUME NEW p \in Handlers, Authorise(p) PROVE LogInv'
  <2>1. work[p] \in Calls
    BY <1>3, UnderWay DEF Authorise, LogInv, Typed
  <2>2. work[p].op \in Steps \ {"compare", "after"}
    BY <2>1 DEF Calls, Steps
  <2>3. Quietly /\ work[p].pc # "idle"
        /\ (Answer(p) \/ \E pc \in Steps \ {"compare", "after"} : GoOn(p, pc))
    BY <1>3, <2>2 DEF Authorise
  <2> QED
    BY <2>3, CallGoesOn
<1>4. ASSUME NEW p \in Handlers, Read(p) PROVE LogInv'
  BY <1>4, CallGoesOn DEF Read
<1>5. ASSUME NEW p \in Handlers, Probe(p) PROVE LogInv'
  <2>1. Quietly /\ work[p].pc # "idle"
        /\ (Answer(p) \/ \E pc \in Steps \ {"compare", "after"} : GoOn(p, pc))
    BY <1>5 DEF Probe, Steps
  <2> QED
    BY <2>1, CallGoesOn
<1>6. ASSUME NEW p \in Handlers, Insert(p) PROVE LogInv'
  <2>1. work[p].pc # "idle"
    BY <1>6 DEF Insert
  <2>2. CASE table[work[p].row] = 0
    BY <1>6, <2>1, <2>2, CommitLog DEF Insert
  <2>3. CASE table[work[p].row] # 0
    BY <1>6, <2>1, <2>3, CallGoesOn DEF Insert
  <2> QED
    BY <2>2, <2>3
<1>7. ASSUME NEW p \in Handlers, Replace(p) PROVE LogInv'
  BY <1>7, CommitLog DEF Replace
<1>8. ASSUME NEW p \in Handlers, ReadBefore(p) PROVE LogInv'
  BY <1>8, ReadBeforeLog
<1>9. ASSUME NEW p \in Handlers, Compare(p) PROVE LogInv'
  <2>1. work[p] \in Calls /\ work[p] # Resting /\ CallSound(p)
    BY <1>9, UnderWay DEF Compare, LogInv, Typed
  <2>2. CASE Unchanged(p)
    <3>1. table[work[p].row] \in Nat
      BY <2>1 DEF Calls, LogInv, Typed, TablesTyped
    <3>2. work[p].before = table[work[p].row]
      BY <1>9, <2>1, <2>2, <3>1 DEF Compare, Unchanged, CallSound
    <3> QED
      BY <1>9, <2>2, <3>2, CommitLog DEF Compare
  <2>3. CASE ~Unchanged(p)
    BY <1>9, <2>3, CallGoesOn DEF Compare
  <2> QED
    BY <2>2, <2>3
<1>10. ASSUME NEW p \in Handlers, ReadAfter(p) PROVE LogInv'
  BY <1>10, ReadAfterLog
<1>11. CASE Day
  BY <1>11, DayLog
<1>12. CASE UNCHANGED orgVars
  BY <1>12 DEF orgVars, LogInv, Typed, TablesTyped, TokensTyped, WorkTyped, AuditSound,
               CallSound
<1> QED
  BY <1>1, <1>2, <1>3, <1>4, <1>5, <1>6, <1>7, <1>8, <1>9, <1>10, <1>11, <1>12 DEF OrgNext

LEMMA LogCorrect == OrgSpec => []LogInv
BY LogInit, LogNext, PTL DEF OrgSpec

\* before_json of every audit row is what its change replaced
\* (SP_COMPANY_UPDATE, SP_USER_ROLE_UPDATE, SP_PROJECT_UPDATE).
THEOREM AuditCorrect == OrgSpec => []BeforeIsReplaced
<1>1. LogInv => BeforeIsReplaced
  BY DEF LogInv, AuditSound, BeforeIsReplaced
<1> QED
  BY <1>1, LogCorrect, PTL

-----------------------------------------------------------------------------
(* Creation                                                                *)

\* A step of another leaves a handler where it is
LEMMA OthersStay ==
    ASSUME Typed, NEW p \in Handlers, NEW q \in Handlers, q # p,
           \/ \E u \in Admins, op \in {"create", "update", "read"}, r \in Rows :
                 Call(q, u, op, r)
           \/ Authorise(q) \/ Read(q) \/ Probe(q) \/ Insert(q) \/ Replace(q)
           \/ ReadBefore(q) \/ Compare(q) \/ ReadAfter(q)
    PROVE  work'[p] = work[p]
BY DEF Typed, WorkTyped, Call, Authorise, Read, Probe, Insert, Replace, ReadBefore, Compare,
       ReadAfter, Commit, GoOn, Answer

\* Only a handler's own step changes what it is at
LEMMA OwnStep ==
    ASSUME Typed, [OrgNext]_orgVars, NEW p \in Handlers, work'[p] # work[p]
    PROVE  \/ \E u \in Admins, op \in {"create", "update", "read"}, r \in Rows :
                 Call(p, u, op, r)
           \/ Authorise(p) \/ Read(p) \/ Probe(p) \/ Insert(p) \/ Replace(p)
           \/ ReadBefore(p) \/ Compare(p) \/ ReadAfter(p)
<1>1. ASSUME NEW u \in Admins, IssueToken(u) PROVE FALSE
  BY <1>1 DEF IssueToken
<1>2. ~Day /\ ~UNCHANGED orgVars
  BY DEF Day, orgVars
<1> QED
  BY <1>1, <1>2, OthersStay DEF OrgNext

\* Two who create the same thing at once never both succeed, nor does one
\* overwrite the other's (CompanyService.create, UserRoleService.create).
THEOREM CreationCorrect == OrgSpec => CreatedOnce
<1>1. LogInv /\ [OrgNext]_orgVars =>
        [\A p \in Handlers : work[p].pc = "insert" /\ work'[p].pc = "after"
                             => table[work[p].row] = 0]_orgVars
  <2> SUFFICES ASSUME LogInv, [OrgNext]_orgVars, NEW p \in Handlers,
                      work[p].pc = "insert", work'[p].pc = "after"
               PROVE  table[work[p].row] = 0
    OBVIOUS
  <2>0. Typed /\ work'[p] # work[p]
    BY DEF LogInv
  <2>1. Insert(p)
    <3>1. \/ \E u \in Admins, op \in {"create", "update", "read"}, r \in Rows :
                Call(p, u, op, r)
          \/ Authorise(p) \/ Read(p) \/ Probe(p) \/ Insert(p) \/ Replace(p)
          \/ ReadBefore(p) \/ Compare(p) \/ ReadAfter(p)
      BY <2>0, OwnStep
    <3> QED
      BY <3>1 DEF Call, Authorise, Read, Probe, Replace, ReadBefore, Compare,
                     ReadAfter, Resting
  <2>2. ~Answer(p)
    BY DEF Answer, LogInv, Typed, WorkTyped, Resting
  <2> QED
    BY <2>1, <2>2 DEF Insert
<1> QED
  BY <1>1, LogCorrect, PTL DEF OrgSpec, CreatedOnce

-----------------------------------------------------------------------------
(* Revocation                                                              *)

PowerInv == Typed /\ PowerSound /\ LagSound

LEMMA PowerInit == OrgInit => PowerSound /\ LagSound
BY OrganisationAssumption DEF OrgInit, PowerSound, LagSound

\* No step but a commit and the passing of a day changes the assignment's age
LEMMA LagNext ==
    ASSUME Typed, LagSound, [OrgNext]_orgVars
    PROVE  LagSound'
<1>1. active \in BOOLEAN /\ since \in 0..RoleTtl /\ RoleTtl \in Nat
      /\ jwt \in [Admins -> [super : BOOLEAN, left : 0..RoleTtl]] /\ Granted \in Admins
  BY OrganisationAssumption DEF Typed, TokensTyped
<1>2. ASSUME NEW u \in Admins, IssueToken(u) PROVE LagSound'
  <2>1. jwt' = [jwt EXCEPT ![u] = [super |-> IsSuperAdmin(u), left |-> RoleTtl]]
        /\ active' = active /\ since' = since
    BY <1>2 DEF IssueToken
  <2>2. CASE u = Granted
    BY <1>1, <2>1, <2>2 DEF LagSound, IsSuperAdmin
  <2>3. CASE u # Granted
    BY <1>1, <2>1, <2>3 DEF LagSound
  <2> QED
    BY <2>2, <2>3
<1>3. ASSUME NEW p \in Handlers, NEW b, Commit(p, b) PROVE LagSound'
  <2>1. \/ active' = ~active /\ since' = 0
        \/ active' = active /\ since' = since
    BY <1>3 DEF Commit
  <2>2. jwt' = jwt
    BY <1>3 DEF Commit
  <2> QED
    BY <1>1, <2>1, <2>2 DEF LagSound
<1>4. CASE Day
  <2>1. /\ since' = IF since = RoleTtl THEN since ELSE since + 1
        /\ active' = active
        /\ jwt'[Granted].super = jwt[Granted].super
        /\ jwt'[Granted].left = IF jwt[Granted].left = 0 THEN 0 ELSE jwt[Granted].left - 1
    BY <1>1, <1>4 DEF Day
  <2>2. jwt[Granted].left \in 0..RoleTtl
    BY <1>1
  <2> QED
    BY <1>1, <2>1, <2>2 DEF LagSound
<1>5. ASSUME UNCHANGED <<active, since, jwt>> PROVE LagSound'
  BY <1>5 DEF LagSound
<1>6. ASSUME NEW p \in Handlers,
             \/ \E u \in Admins, op \in {"create", "update", "read"}, r \in Rows :
                   Call(p, u, op, r)
             \/ Authorise(p) \/ Read(p) \/ Probe(p) \/ Insert(p) \/ Replace(p)
             \/ ReadBefore(p) \/ Compare(p) \/ ReadAfter(p)
      PROVE  LagSound'
  BY <1>3, <1>5, <1>6 DEF Call, Authorise, Read, Probe, Insert, Replace, ReadBefore, Compare,
                          ReadAfter, Quietly
<1> QED
  BY <1>2, <1>4, <1>5, <1>6 DEF OrgNext, orgVars

LEMMA PowerNext ==
    ASSUME Typed, PowerSound, [OrgNext]_orgVars
    PROVE  PowerSound'
<1> DEFINE Powerful(w) == w # Resting /\ w.pc # "authorise" /\ w.by = Granted
<1>1. \A p \in Handlers : Powerful(work[p]) => active \/ since = 0
  BY DEF PowerSound
<1>2. \/ active' = active /\ since' = since
      \/ since' = 0
      \/ \A p \in Handlers : work'[p] = Resting
  BY DEF OrgNext, orgVars, IssueToken, Call, Authorise, Read, Probe, Insert, Replace, ReadBefore,
         Compare, ReadAfter, Commit, Quietly, Day
<1>3. ASSUME NEW p \in Handlers, Powerful(work'[p]), ~Powerful(work[p]),
             active' = active
      PROVE  active'
  <2>1. CASE work'[p] = work[p]
    BY <1>3, <2>1
  <2>2. ASSUME NEW u \in Admins, NEW op \in {"create", "update", "read"}, NEW r \in Rows,
               Call(p, u, op, r)
        PROVE  FALSE
    BY <1>3, <2>2 DEF Call, Typed, WorkTyped
  <2>3. CASE Authorise(p)
    <3>1. work[p] \in Calls
      BY <2>3, UnderWay DEF Authorise, Typed
    <3>2. CASE IsSuperAdmin(work[p].by)
      <4>1. work'[p].by = work[p].by
        BY <2>3, <3>1, <3>2 DEF Authorise, GoOn, Typed, WorkTyped, Calls
      <4> QED
        BY <1>3, <3>2, <4>1 DEF IsSuperAdmin
    <3>3. CASE ~IsSuperAdmin(work[p].by)
      BY <1>3, <2>3, <3>3 DEF Authorise, Answer, Typed, WorkTyped
    <3> QED
      BY <3>2, <3>3
  <2>4. ASSUME Read(p) \/ ReadAfter(p) \/ Answer(p) PROVE FALSE
    BY <1>3, <2>4 DEF Read, ReadAfter, Answer, Typed, WorkTyped
  <2>5. ASSUME work[p].pc \notin {"idle", "authorise"}, work'[p].by = work[p].by
        PROVE  FALSE
    BY <1>3, <2>5 DEF Resting
  <2>6. ASSUME NEW b, work[p].pc \notin {"idle", "authorise"}, Commit(p, b) PROVE FALSE
    <3>1. work[p] \in Calls /\ WorkTyped
      BY <2>6, UnderWay DEF Typed
    <3>2. work'[p].by = work[p].by
      BY <2>6, <3>1 DEF Commit, WorkTyped, Calls
    <3> QED
      BY <2>5, <2>6, <3>2
  <2>7. ASSUME NEW pc, work[p].pc \notin {"idle", "authorise"}, GoOn(p, pc) PROVE FALSE
    <3>1. work[p] \in Calls /\ WorkTyped
      BY <2>7, UnderWay DEF Typed
    <3>2. work'[p].by = work[p].by
      BY <2>7, <3>1 DEF GoOn, WorkTyped, Calls
    <3> QED
      BY <2>5, <2>7, <3>2
  <2>8. ~Probe(p)
    BY <2>4, <2>7 DEF Probe
  <2>9. ~Insert(p) /\ ~Replace(p) /\ ~Compare(p)
    BY <2>4, <2>6 DEF Insert, Replace, Compare
  <2>10. ~ReadBefore(p)
    <3>1. ASSUME ReadBefore(p) PROVE FALSE
      <4>1. work[p] \in Calls /\ WorkTyped /\ work[p].pc \notin {"idle", "authorise"}
        BY <3>1, UnderWay DEF ReadBefore, Typed
      <4>2. work'[p].by = work[p].by
        BY <3>1, <4>1 DEF ReadBefore, WorkTyped, Calls
      <4> QED
        BY <2>5, <4>1, <4>2
    <3> QED
      BY <3>1
  <2> QED
    BY <2>1, <2>2, <2>3, <2>4, <2>8, <2>9, <2>10, OwnStep
<1>4. ASSUME NEW p \in Handlers, Powerful(work'[p]) PROVE active' \/ since' = 0
  <2> HIDE DEF Powerful
  <2>1. ~(work'[p] = Resting)
    BY <1>4 DEF Powerful
  <2> QED
    BY <1>1, <1>2, <1>3, <1>4, <2>1
<1> QED
  BY <1>4 DEF PowerSound

\* A revocation ends the power to change at once, and what is left of the role,
\* the power to look, with the access token.
THEOREM RevocationCorrect == OrgSpec => RevocationsBite
<1>1. OrgSpec => []PowerInv
  <2>1. OrgInit => PowerInv
    BY LogInit, PowerInit DEF PowerInv, LogInv
  <2>2. LogInv /\ PowerInv /\ [OrgNext]_orgVars => PowerInv'
    BY LogNext, LagNext, PowerNext DEF PowerInv, LogInv
  <2> QED
    BY <2>1, <2>2, LogCorrect, PTL DEF OrgSpec
<1>2. PowerInv => RoleLagIsBounded
  BY OrganisationAssumption
  DEF PowerInv, Typed, TokensTyped, LagSound, RoleLagIsBounded, RoleAnswered
<1>3. PowerInv /\ [OrgNext]_orgVars =>
        [\A p \in Handlers : /\ work[p].pc # "after" /\ work[p] # Resting /\ work'[p].pc = "after"
                             /\ work[p].by = Granted
                             => active \/ since = 0]_orgVars
  <2> SUFFICES ASSUME PowerInv, [OrgNext]_orgVars, NEW p \in Handlers,
                      work[p].pc # "after", work[p] # Resting, work'[p].pc = "after",
                      work[p].by = Granted
               PROVE  active \/ since = 0
    OBVIOUS
  <2>1. CASE work[p].pc # "authorise"
    BY <2>1 DEF PowerInv, PowerSound
  <2>2. CASE work[p].pc = "authorise"
    <3>1. Authorise(p)
      BY <2>2, OwnStep DEF PowerInv, Call, Read, Probe, Insert, Replace, ReadBefore, Compare,
                           ReadAfter
    <3>2. ~Answer(p)
      BY DEF Answer, PowerInv, Typed, WorkTyped, Resting
    <3> QED
      BY <3>1, <3>2 DEF Authorise, IsSuperAdmin
  <2> QED
    BY <2>1, <2>2
<1>4. OrgSpec => RevokedChangesNothing
  BY <1>1, <1>3, PTL DEF OrgSpec, RevokedChangesNothing
<1>5. OrgSpec => []RoleLagIsBounded
  BY <1>1, <1>2, PTL
<1> QED
  BY <1>4, <1>5 DEF RevocationsBite

-----------------------------------------------------------------------------
(* The stamps                                                              *)

\* A row's stamp is the number of a change, and a row that was changed is never
\* older than that change
StampsSound ==
    /\ Len(replaced) <= MaxChanges + 1
    /\ \A r \in Rows : table[r] <= Len(replaced)
    /\ \A i \in DOMAIN replaced : replaced[i] <= MaxChanges
    /\ \A p \in Handlers : work[p].pc = "after" => table[work[p].row] >= work[p].change
    /\ \A e \in audit : e.after >= e.change
StampInv == LogInv /\ StampsSound

LEMMA StampsStart == OrgInit => StampsSound
<1> SUFFICES ASSUME OrgInit PROVE StampsSound
  OBVIOUS
<1>1. MaxChanges \in Nat \ {0}
  BY OrganisationAssumption
<1>2. replaced = <<0>> /\ Len(replaced) = 1 /\ DOMAIN replaced = {1} /\ replaced[1] = 0
  BY DEF OrgInit
<1>3. \A r \in Rows : table[r] \in {0, 1}
  BY DEF OrgInit
<1> QED
  BY <1>1, <1>2, <1>3 DEF OrgInit, StampsSound, Resting

\* A call that is somewhere else than after its change has changed nothing
LEMMA StepKinds ==
    ASSUME LogInv, [OrgNext]_orgVars
    PROVE  \/ \E p \in Handlers : work[p].pc # "idle" /\ Commit(p, table[work[p].row])
           \/ \E p \in Handlers : ReadAfter(p)
           \/ /\ UNCHANGED <<table, replaced, audit>>
              /\ \A q \in Handlers : work'[q].pc = "after" => work'[q] = work[q]
<1> DEFINE Still == /\ UNCHANGED <<table, replaced, audit>>
                    /\ \A q \in Handlers : work'[q].pc = "after" => work'[q] = work[q]
<1>0. WorkTyped
  BY DEF LogInv, Typed
<1>1. ASSUME NEW p \in Handlers, NEW c, work' = [work EXCEPT ![p] = c], c.pc # "after", Quietly
      PROVE  Still
  BY <1>0, <1>1 DEF WorkTyped, Quietly
<1>a. UNCHANGED <<table, work, replaced, audit>> => Still
  OBVIOUS
<1> HIDE DEF Still
<1>2. ASSUME NEW p \in Handlers, Quietly, work[p].pc # "idle",
             Answer(p) \/ \E pc \in Steps \ {"compare", "after"} : GoOn(p, pc)
      PROVE  Still
  <2>1. work[p] \in Calls
    BY <1>0, <1>2, UnderWay
  <2>2. CASE Answer(p)
    <3>0. Resting.pc # "after"
      BY DEF Resting
    <3>1. PICK c : c = Resting /\ c.pc # "after"
      BY <3>0
    <3>2. work' = [work EXCEPT ![p] = c]
      BY <2>2, <3>1 DEF Answer
    <3> QED
      BY <1>1, <1>2, <3>1, <3>2
  <2>3. ASSUME NEW pc \in Steps \ {"compare", "after"}, GoOn(p, pc) PROVE Still
    <3>1. PICK c : c = [work[p] EXCEPT !.pc = pc]
      OBVIOUS
    <3>2. work' = [work EXCEPT ![p] = c] /\ c.pc = pc
      BY <2>1, <2>3, <3>1 DEF GoOn, Calls
    <3>3. c.pc # "after"
      BY <3>2
    <3> QED
      BY <1>1, <1>2, <3>2, <3>3
  <2> QED
    BY <1>2, <2>2, <2>3
<1>3. ASSUME NEW u \in Admins, IssueToken(u) PROVE Still
  BY <1>a, <1>3 DEF IssueToken
<1>4. ASSUME NEW p \in Handlers, NEW u \in Admins, NEW op \in {"create", "update", "read"},
             NEW r \in Rows, Call(p, u, op, r)
      PROVE  Still
  <2>0. PICK s : work' = [work EXCEPT ![p] =
                             [pc |-> "authorise", by |-> u, op |-> op, row |-> r,
                              shown |-> s, before |-> 0, change |-> 0]]
    BY <1>4 DEF Call
  <2>1. PICK c : c = [pc |-> "authorise", by |-> u, op |-> op, row |-> r, shown |-> s,
                      before |-> 0, change |-> 0]
    OBVIOUS
  <2>2. c.pc # "after"
    BY <2>1
  <2>3. Quietly
    BY <1>4 DEF Call
  <2>4. work' = [work EXCEPT ![p] = c]
    BY <2>0, <2>1
  <2> QED
    BY <1>1, <2>2, <2>3, <2>4
<1>5. ASSUME NEW p \in Handlers, Authorise(p) PROVE Still
  <2>1. work[p] \in Calls
    BY <1>0, <1>5, UnderWay DEF Authorise
  <2>2. work[p].op \in Steps \ {"compare", "after"}
    BY <2>1 DEF Calls, Steps
  <2>3. Quietly /\ work[p].pc # "idle"
        /\ (Answer(p) \/ \E pc \in Steps \ {"compare", "after"} : GoOn(p, pc))
    BY <1>5, <2>2 DEF Authorise
  <2> QED
    BY <1>2, <2>3
<1>6. ASSUME NEW p \in Handlers, Read(p) PROVE Still
  BY <1>2, <1>6 DEF Read
<1>7. ASSUME NEW p \in Handlers, Probe(p) PROVE Still
  <2>1. Quietly /\ work[p].pc # "idle"
        /\ (Answer(p) \/ \E pc \in Steps \ {"compare", "after"} : GoOn(p, pc))
    BY <1>7 DEF Probe, Steps
  <2> QED
    BY <1>2, <2>1
<1>8. ASSUME NEW p \in Handlers, Insert(p) \/ Replace(p) \/ Compare(p)
      PROVE  Still \/ (work[p].pc # "idle" /\ Commit(p, table[work[p].row]))
  <2>1. work[p].pc # "idle"
    BY <1>8 DEF Insert, Replace, Compare
  <2>2. CASE Answer(p) /\ Quietly
    BY <1>2, <2>1, <2>2
  <2>3. CASE Insert(p) /\ table[work[p].row] = 0
    BY <2>1, <2>3 DEF Insert
  <2>4. CASE Replace(p)
    BY <2>1, <2>4 DEF Replace
  <2>5. CASE Compare(p) /\ Unchanged(p)
    <3>1. work[p] \in Calls /\ work[p] # Resting /\ CallSound(p)
      BY <2>5, UnderWay DEF Compare, LogInv, Typed
    <3>2. table[work[p].row] \in Nat
      BY <3>1 DEF Calls, LogInv, Typed, TablesTyped
    <3>3. work[p].before = table[work[p].row]
      BY <2>5, <3>1, <3>2 DEF Compare, Unchanged, CallSound
    <3> QED
      BY <2>1, <2>5, <3>3 DEF Compare
  <2> QED
    BY <1>8, <2>2, <2>3, <2>4, <2>5 DEF Insert, Compare
<1>9. ASSUME NEW p \in Handlers, ReadBefore(p) PROVE Still
  <2>1. work[p] \in Calls
    BY <1>0, <1>9, UnderWay DEF ReadBefore
  <2>2. PICK c : c = [work[p] EXCEPT !.before = table[work[p].row], !.pc = "compare"]
    OBVIOUS
  <2>3. work' = [work EXCEPT ![p] = c] /\ c.pc = "compare"
    BY <1>0, <1>9, <2>1, <2>2 DEF ReadBefore, WorkTyped, Calls
  <2> QED
    BY <1>1, <1>9, <2>3 DEF ReadBefore
<1>10. Day \/ UNCHANGED orgVars => Still
  BY <1>a DEF Day, orgVars
<1> QED
  BY <1>3, <1>4, <1>5, <1>6, <1>7, <1>8, <1>9, <1>10 DEF OrgNext, Still

\* The changed row gets the highest stamp, and what it had goes to the log
LEMMA CommitStamps ==
    ASSUME StampInv, NEW p \in Handlers, work[p].pc # "idle", Commit(p, table[work[p].row])
    PROVE  StampsSound'
<1>1. work[p] \in Calls /\ WorkTyped /\ LogInv /\ StampsSound
  BY UnderWay DEF StampInv, LogInv, Typed
<1>2. PICK r \in Rows : r = work[p].row
  BY <1>1 DEF Calls
<1>3. PICK b \in Nat : b = table[r] /\ table \in [Rows -> Nat]
  BY <1>1, <1>2 DEF LogInv, Typed, TablesTyped
<1>4. PICK l \in Nat : l = Len(replaced)
  BY <1>1 DEF LogInv, Typed, TablesTyped
<1>5. MaxChanges \in Nat /\ l - 1 < MaxChanges
  BY <1>4, OrganisationAssumption DEF Commit, Made
<1>6. /\ table' = [table EXCEPT ![r] = l + 1] /\ replaced' = Append(replaced, b)
      /\ audit' = audit
  BY <1>2, <1>3, <1>4 DEF Commit
<1>7. /\ Len(replaced') = l + 1 /\ DOMAIN replaced' = 1..(l + 1) /\ replaced'[l + 1] = b
      /\ DOMAIN replaced = 1..l
      /\ \A i \in 1..l : replaced'[i] = replaced[i]
  BY <1>1, <1>3, <1>4, <1>6 DEF LogInv, Typed, TablesTyped
<1>8. b <= l
  BY <1>1, <1>2, <1>3, <1>4 DEF StampsSound
<1>9. \A s \in Rows : table'[s] \in {l + 1, table[s]} /\ table[s] <= l /\ table[s] \in Nat
  BY <1>1, <1>3, <1>4, <1>6 DEF StampsSound
<1>10. \A i \in DOMAIN replaced' : replaced'[i] <= MaxChanges
  <2> SUFFICES ASSUME NEW i \in 1..(l + 1)
               PROVE  replaced'[i] <= MaxChanges
    BY <1>7
  <2>1. CASE i = l + 1
    BY <1>4, <1>5, <1>7, <1>8, <2>1
  <2>2. CASE i # l + 1
    BY <1>1, <1>4, <1>7, <2>2 DEF StampsSound
  <2> QED
    BY <2>1, <2>2
<1>11. ASSUME NEW q \in Handlers, work'[q].pc = "after"
       PROVE  table'[work'[q].row] >= work'[q].change
  <2>1. CASE q = p
    <3>1. work'[p] = [work[p] EXCEPT !.pc = "after", !.before = b, !.change = l + 1]
      BY <1>1, <1>2, <1>3, <1>4 DEF Commit, WorkTyped
    <3>2. work'[p].row = r /\ work'[p].change = l + 1
      BY <1>1, <1>2, <3>1 DEF Calls
    <3> QED
      BY <1>3, <1>4, <1>6, <2>1, <3>2
  <2>2. CASE q # p
    <3>1. work'[q] = work[q]
      BY <1>1, <2>2 DEF Commit, WorkTyped
    <3>2. work[q] \in Calls /\ table[work[q].row] >= work[q].change
      BY <1>1, <1>11, <3>1, UnderWay DEF StampsSound
    <3>3. PICK s \in Rows : s = work[q].row
      BY <3>2 DEF Calls
    <3>4. work[q].change \in Nat
      BY <3>2 DEF Calls
    <3> QED
      BY <1>4, <1>9, <3>1, <3>2, <3>3, <3>4
  <2> QED
    BY <2>1, <2>2
<1>12. \A s \in Rows : table'[s] <= Len(replaced')
  BY <1>4, <1>7, <1>9
<1>13. Len(replaced') <= MaxChanges + 1
  BY <1>4, <1>5, <1>7
<1> QED
  BY <1>1, <1>6, <1>10, <1>11, <1>12, <1>13 DEF StampsSound

\* What the answer shows is the change or a later one
LEMMA AnswerStamps ==
    ASSUME StampInv, NEW p \in Handlers, ReadAfter(p)
    PROVE  StampsSound'
<1>1. work[p] \in Calls /\ WorkTyped /\ StampsSound /\ table[work[p].row] >= work[p].change
  BY UnderWay DEF ReadAfter, StampInv, StampsSound, LogInv, Typed
<1>2. \A e \in audit' : e.after >= e.change
  BY <1>1 DEF ReadAfter, StampsSound
<1>3. ASSUME NEW q \in Handlers, work'[q].pc = "after" PROVE work'[q] = work[q]
  BY <1>1, <1>3 DEF ReadAfter, Answer, WorkTyped, Resting
<1>4. UNCHANGED <<table, replaced>>
  BY DEF ReadAfter
<1> QED
  BY <1>1, <1>2, <1>3, <1>4 DEF StampsSound

\* Rows, tokens, calls and audit log keep their types; stamps are never handed
\* out beyond the changes there were, and no answer shows a row as it was before
\* the change it answers (SP_*_UPDATE: the closing SELECT follows the COMMIT).
THEOREM OrganisationTyped == OrgSpec => []OrgTypeOK
<1>1. StampInv => OrgTypeOK
  <2> SUFFICES ASSUME StampInv PROVE OrgTypeOK
    OBVIOUS
  <2>1. Typed /\ AuditSound /\ StampsSound /\ MaxChanges \in Nat
    BY OrganisationAssumption DEF StampInv, LogInv
  <2>2. table \in [Rows -> 0..(MaxChanges + 1)]
    <3>1. ASSUME NEW r \in Rows PROVE table[r] \in 0..(MaxChanges + 1)
      BY <2>1 DEF Typed, TablesTyped, StampsSound
    <3> QED
      BY <2>1, <3>1 DEF Typed, TablesTyped
  <2>3. replaced \in Seq(0..MaxChanges)
    <3>1. ASSUME NEW i \in DOMAIN replaced PROVE replaced[i] \in 0..MaxChanges
      BY <2>1 DEF Typed, TablesTyped, StampsSound
    <3>2. Len(replaced) \in Nat /\ replaced \in [1..Len(replaced) -> Nat]
      BY <2>1 DEF Typed, TablesTyped
    <3>3. replaced \in [1..Len(replaced) -> 0..MaxChanges]
      BY <3>1, <3>2
    <3> QED
      BY <3>2, <3>3, SeqDef
  <2>4. ASSUME NEW p \in Handlers
        PROVE  work[p].pc \in {"idle", "authorise", "read", "create", "update", "insert",
                               "replace", "before", "compare", "after"}
    BY <2>1 DEF Typed, WorkTyped, Resting, Calls, Steps
  <2> QED
    BY <2>1, <2>2, <2>3, <2>4 DEF Typed, TokensTyped, AuditSound, StampsSound, OrgTypeOK
<1>2. OrgInit => StampInv
  BY LogInit, StampsStart DEF StampInv
<1>3. StampInv /\ [OrgNext]_orgVars => StampInv'
  <2> SUFFICES ASSUME StampInv, [OrgNext]_orgVars
               PROVE  StampInv'
    OBVIOUS
  <2>1. LogInv /\ LogInv' /\ StampsSound
    BY LogNext DEF StampInv
  <2>2. CASE /\ UNCHANGED <<table, replaced, audit>>
             /\ \A q \in Handlers : work'[q].pc = "after" => work'[q] = work[q]
    BY <2>1, <2>2 DEF StampsSound, StampInv
  <2> QED
    BY <2>1, <2>2, StepKinds, CommitStamps, AnswerStamps DEF StampInv
<1> QED
  BY <1>1, <1>2, <1>3, PTL DEF OrgSpec

-----------------------------------------------------------------------------
(* DetailForms: a save replaces nothing its form has not shown             *)

Items == [edit : 0..MaxSaves, name : Names, status : States]
Shows == Names \X (States \cup {NULL})
Errands == [kind : {"load", "save", "button", "rotate"}, edit : Nat, name : Names \cup {NULL},
            status : States \cup {NULL}, held : Items \cup States \cup {NULL},
            known : SUBSET Shows, own : BOOLEAN,
            stage : {"sent", "done", "row", "refused"}, answer : Items \cup {NULL}]

\* What a page or an errand holds of the row is not ahead of it
Past(r) == r \in Items /\ r.edit <= item.edit

ErrandSound(k) ==
    /\ k \in Errands
    /\ k.stage = "row" => Past(k.answer)
    /\ k.kind = "rotate" => Past(k.held)
    /\ (k.kind = "load" /\ k.stage = "row" /\ k.answer.edit = item.edit) => k.answer = item
    /\ (k.kind = "save" /\ k.stage = "sent" /\ subject = "project" /\ ~k.own) =>
         k.edit <= item.edit /\ (k.edit = item.edit => <<item.name, item.status>> \in k.known)
    /\ (k.kind = "save" /\ subject = "user") => k.status = NULL

ItemTyped == subject \in {"project", "company", "user"} /\ item \in Items
FieldsTyped == /\ fields \in [name : Names \cup {NULL}, status : States \cup {NULL}]
               /\ subject = "user" => fields.status = NULL
               /\ met \subseteq Shows /\ answered \in BOOLEAN

\* As long as no write of the page has been answered, the row is the one the form
\* was filled from or its edit_count has moved on
ViewSound ==
    /\ view = NULL \/ Past(view)
    /\ confirm = NULL \/ Past(confirm)
    /\ (subject = "project" /\ view # NULL /\ ~answered /\ view.edit = item.edit) =>
         <<item.name, item.status>> \in met

DetailInv == ItemTyped /\ FieldsTyped /\ ViewSound /\ \A k \in errands : ErrandSound(k)

LEMMA ErrandTyped ==
    ASSUME NEW kind \in {"load", "save", "button", "rotate"}, NEW e \in Nat,
           NEW n \in Names \cup {NULL}, NEW s \in States \cup {NULL},
           NEW h \in Items \cup States \cup {NULL}, NEW noted \in SUBSET Shows,
           NEW own \in BOOLEAN
    PROVE  [kind |-> kind, edit |-> e, name |-> n, status |-> s, held |-> h, known |-> noted,
            own |-> own, stage |-> "sent", answer |-> NULL] \in Errands
<1>1. ASSUME NEW A, NEW B, NEW C, NEW D, NEW b \in B, NEW c \in C, NEW d \in D, NEW x \in A
      PROVE [kind |-> kind, edit |-> e, name |-> x, status |-> b, held |-> c, known |-> d,
             own |-> own, stage |-> "sent", answer |-> NULL]
             \in [kind : {"load", "save", "button", "rotate"}, edit : Nat, name : A,
                  status : B, held : C, known : D, own : BOOLEAN,
                  stage : {"sent", "done", "row", "refused"}, answer : Items \cup {NULL}]
  OBVIOUS
<1> QED
  BY <1>1 DEF Errands

LEMMA BlankSound ==
    ASSUME ItemTyped, NEW n, n = Errand("load")
    PROVE  ErrandSound(n)
<1>1. n = [kind |-> "load", edit |-> 0, name |-> NULL, status |-> NULL, held |-> NULL,
           known |-> {}, own |-> FALSE, stage |-> "sent", answer |-> NULL]
  BY DEF Errand
<1>2. n \in Errands
  <2>1. {} \in SUBSET Shows /\ 0 \in Nat /\ FALSE \in BOOLEAN
    OBVIOUS
  <2> QED
    BY <1>1, <2>1, ErrandTyped
<1> QED
  BY <1>1, <1>2 DEF ErrandSound

\* The row is changed, by an errand or by somebody else
LEMMA ItemMoves ==
    ASSUME DetailInv, subject' = subject, item' \in Items, item'.edit = item.edit + 1
    PROVE  /\ ItemTyped' /\ Items' = Items /\ States' = States
           /\ \A r : Past(r) => Past(r)' /\ r.edit # item'.edit
           /\ \A k : ErrandSound(k) => ErrandSound(k)'
<1>1. Items' = Items /\ States' = States /\ Errands' = Errands
  BY DEF Items, States, Errands, Shows
<1>2. item.edit \in Nat
  BY DetailAssumption DEF DetailInv, ItemTyped, Items
<1>3. ASSUME NEW r, Past(r)
      PROVE  Past(r)' /\ r.edit # item'.edit /\ r.edit <= item'.edit
  <2>1. r \in Items /\ r.edit \in Nat /\ r.edit <= item.edit
    BY <1>3, DetailAssumption DEF Past, Items
  <2> QED
    BY <1>1, <1>2, <2>1 DEF Past
<1>4. ASSUME NEW k, ErrandSound(k)
      PROVE  ErrandSound(k)'
  <2>1. k \in Errands /\ k.edit \in Nat
    BY <1>4 DEF ErrandSound, Errands
  <2>2. k.edit <= item.edit => k.edit <= item'.edit /\ k.edit # item'.edit
    BY <1>2, <2>1
  <2>3. k.stage = "row" => Past(k.answer)' /\ k.answer.edit # item'.edit
    BY <1>3, <1>4 DEF ErrandSound
  <2>4. k.kind = "rotate" => Past(k.held)'
    BY <1>3, <1>4 DEF ErrandSound
  <2> QED
    BY <1>1, <1>4, <2>1, <2>2, <2>3, <2>4 DEF ErrandSound
<1> QED
  BY <1>1, <1>3, <1>4 DEF DetailInv, ItemTyped

\* Nothing happens to the row: the errands are what they were
LEMMA ItemRests ==
    ASSUME DetailInv, UNCHANGED <<subject, item>>
    PROVE  /\ ItemTyped' /\ Items' = Items /\ States' = States /\ Shows' = Shows
           /\ \A r : Past(r)' <=> Past(r)
           /\ \A k : ErrandSound(k)' <=> ErrandSound(k)
<1>1. Items' = Items /\ States' = States /\ Shows' = Shows /\ Errands' = Errands
  BY DEF Items, States, Errands, Shows
<1>2. \A r : Past(r)' <=> Past(r)
  BY <1>1 DEF Past
<1> QED
  BY <1>1, <1>2 DEF DetailInv, ItemTyped, ErrandSound

LEMMA ErrandAdded ==
    ASSUME DetailInv, UNCHANGED <<subject, item>>, FieldsTyped', ViewSound', NEW n,
           ErrandSound(n), errands' = errands \cup {n}
    PROVE  DetailInv'
<1>1. \A k \in errands' : ErrandSound(k)'
  BY ItemRests DEF DetailInv
<1> QED
  BY <1>1, ItemRests DEF DetailInv

LEMMA ErrandGone ==
    ASSUME DetailInv, UNCHANGED <<subject, item>>, FieldsTyped', ViewSound',
           errands' \subseteq errands
    PROVE  DetailInv'
<1>1. \A k \in errands' : ErrandSound(k)'
  BY ItemRests DEF DetailInv
<1> QED
  BY <1>1, ItemRests DEF DetailInv

LEMMA FaceRests ==
    ASSUME DetailInv, UNCHANGED <<subject, item>>, UNCHANGED face
    PROVE  FieldsTyped' /\ ViewSound'
<1>1. /\ view' = view /\ fields' = fields /\ met' = met /\ answered' = answered
      /\ confirm' = confirm /\ item' = item /\ subject' = subject
  BY DEF face
<1>2. FieldsTyped'
  BY <1>1, ItemRests DEF DetailInv, FieldsTyped
<1>3. ViewSound'
  BY <1>1 DEF DetailInv, ViewSound, Past, Items, States
<1> QED
  BY <1>2, <1>3

-----------------------------------------------------------------------------
\* The administrator at the page
LEMMA FormStep ==
    ASSUME DetailInv, Edit \/ SubmitForm
    PROVE  DetailInv'
<1>1. CASE Edit
  <2>1. PICK n \in Names, s \in IF subject = "user" THEN {NULL} ELSE States :
          fields' = [name |-> n, status |-> s]
    BY <1>1 DEF Edit
  <2>2. UNCHANGED <<subject, item, view, met, answered, confirm, errands>>
    BY <1>1 DEF Edit
  <2>3. s \in States \cup {NULL} /\ (subject = "user" => s = NULL)
    OBVIOUS
  <2>4. FieldsTyped'
    BY <2>1, <2>2, <2>3, ItemRests DEF DetailInv, FieldsTyped
  <2>5. ViewSound'
    BY <2>2, ItemRests DEF DetailInv, ViewSound
  <2> QED
    BY <2>2, <2>4, <2>5, ErrandGone
<1>2. CASE SubmitForm
  <2>1. PICK n : n = [Errand("save") EXCEPT
                        !.edit = IF subject = "project" THEN view.edit ELSE 0,
                        !.name = fields.name, !.status = fields.status,
                        !.known = met', !.own = answered]
    OBVIOUS
  <2>2. /\ UNCHANGED <<subject, item, view, fields, answered, confirm>>
        /\ errands' = errands \cup {n} /\ met' = Displayed(met, fields)
        /\ fields.name # NULL /\ (subject = "project" => view # NULL)
    BY <1>2, <2>1 DEF SubmitForm, SendErrand
  <2>3. /\ fields.name \in Names /\ fields.status \in States \cup {NULL}
        /\ subject = "user" => fields.status = NULL
        /\ met \subseteq Shows /\ answered \in BOOLEAN
    BY <2>2 DEF DetailInv, FieldsTyped
  <2>4. met' \in SUBSET Shows /\ (subject = "project" => met \subseteq met')
    BY <2>2, <2>3 DEF Displayed, Shows
  <2>5. PICK e \in Nat : /\ e = IF subject = "project" THEN view.edit ELSE 0
                         /\ subject = "project" => e = view.edit /\ e <= item.edit
    <3>1. CASE subject = "project"
      BY <2>2, <3>1, DetailAssumption DEF DetailInv, ViewSound, Past, Items
    <3>2. CASE subject # "project"
      BY <3>2
    <3> QED
      BY <3>1, <3>2
  <2>6. n = [kind |-> "save", edit |-> e, name |-> fields.name, status |-> fields.status,
             held |-> NULL, known |-> met', own |-> answered, stage |-> "sent",
             answer |-> NULL]
    BY <2>1, <2>5 DEF Errand
  <2>7. n \in Errands
    BY <2>3, <2>4, <2>6, ErrandTyped
  <2>8. (subject = "project" /\ ~answered) =>
          e <= item.edit /\ (e = item.edit => <<item.name, item.status>> \in met')
    BY <2>2, <2>4, <2>5 DEF DetailInv, ViewSound
  <2>9. ErrandSound(n)
    BY <2>3, <2>6, <2>7, <2>8 DEF ErrandSound
  <2>10. FieldsTyped'
    BY <2>2, <2>3, <2>4, ItemRests DEF DetailInv, FieldsTyped
  <2>11. ViewSound'
    BY <2>2, <2>4, ItemRests DEF DetailInv, ViewSound
  <2> QED
    BY <2>2, <2>9, <2>10, <2>11, ErrandAdded
<1> QED
  BY <1>1, <1>2

LEMMA ButtonStep ==
    ASSUME DetailInv, PressButton \/ ClickRotate \/ ConfirmRotate \/ CancelRotate
    PROVE  DetailInv'
<1>1. CASE PressButton
  <2>0. PICK s \in Button(view.status) :
          errands' = errands \cup {[Errand("button") EXCEPT !.status = s, !.held = view.status]}
    BY <1>1 DEF PressButton, SendErrand
  <2>1. PICK n : /\ n = [Errand("button") EXCEPT !.status = s, !.held = view.status]
                 /\ errands' = errands \cup {n}
    BY <2>0
  <2>2. UNCHANGED <<subject, item, face>> /\ subject = "user" /\ view.status \in States
    BY <1>1 DEF PressButton, DetailInv, ViewSound, Past, Items
  <2>3. s \in States
    BY <2>1, <2>2 DEF States, Button
  <2>4. n = [kind |-> "button", edit |-> 0, name |-> NULL, status |-> s,
             held |-> view.status, known |-> {}, own |-> FALSE, stage |-> "sent",
             answer |-> NULL]
    BY <2>1 DEF Errand
  <2>5. n \in Errands
    <3>1. {} \in SUBSET Shows /\ 0 \in Nat /\ FALSE \in BOOLEAN
      OBVIOUS
    <3> QED
      BY <2>2, <2>3, <2>4, <3>1, ErrandTyped
  <2>6. ErrandSound(n)
    BY <2>4, <2>5 DEF ErrandSound
  <2> QED
    BY <2>1, <2>2, <2>6, FaceRests, ErrandAdded
<1>2. CASE ClickRotate \/ CancelRotate
  <2>1. /\ UNCHANGED <<subject, item, view, fields, met, answered, errands>>
        /\ confirm' = NULL \/ confirm' = view
    BY <1>2 DEF ClickRotate, CancelRotate
  <2>2. FieldsTyped'
    BY <2>1, ItemRests DEF DetailInv, FieldsTyped
  <2>3. ViewSound'
    BY <2>1, ItemRests DEF DetailInv, ViewSound
  <2> QED
    BY <2>1, <2>2, <2>3, ErrandGone
<1>3. CASE ConfirmRotate
  <2>1. PICK n : /\ n = [Errand("rotate") EXCEPT !.edit = confirm.edit, !.held = confirm]
                 /\ errands' = errands \cup {n}
    BY <1>3 DEF ConfirmRotate, SendErrand
  <2>2. /\ UNCHANGED <<subject, item, view, fields, met, answered>> /\ confirm' = NULL
        /\ Past(confirm)
    BY <1>3 DEF ConfirmRotate, DetailInv, ViewSound
  <2>3. confirm \in Items /\ confirm.edit \in Nat
    BY <2>2, DetailAssumption DEF Past, Items
  <2>4. n = [kind |-> "rotate", edit |-> confirm.edit, name |-> NULL, status |-> NULL,
             held |-> confirm, known |-> {}, own |-> FALSE, stage |-> "sent",
             answer |-> NULL]
    BY <2>1 DEF Errand
  <2>5. n \in Errands
    <3>1. {} \in SUBSET Shows /\ FALSE \in BOOLEAN
      OBVIOUS
    <3> QED
      BY <2>3, <2>4, <3>1, ErrandTyped
  <2>6. ErrandSound(n)
    BY <2>2, <2>4, <2>5 DEF ErrandSound
  <2>7. FieldsTyped'
    BY <2>2, ItemRests DEF DetailInv, FieldsTyped
  <2>8. ViewSound'
    BY <2>2, ItemRests DEF DetailInv, ViewSound
  <2> QED
    BY <2>1, <2>2, <2>6, <2>7, <2>8, ErrandAdded
<1> QED
  BY <1>1, <1>2, <1>3

-----------------------------------------------------------------------------
\* The row changes, here by an errand or by other administrators
LEMMA ItemStep ==
    ASSUME DetailInv, item' \in Items, item'.edit = item.edit + 1,
           UNCHANGED <<subject, face>>, \A k \in errands' : ErrandSound(k)'
    PROVE  DetailInv'
<1>1. /\ view' = view /\ fields' = fields /\ met' = met /\ answered' = answered
      /\ confirm' = confirm /\ subject' = subject
  BY DEF face
<1>2. FieldsTyped'
  BY <1>1, ItemMoves DEF DetailInv, FieldsTyped, Shows
<1>3. view' = NULL \/ (Past(view)' /\ view'.edit # item'.edit)
  <2>1. \A r : Past(r) => Past(r)' /\ r.edit # item'.edit
    BY <1>1, ItemMoves
  <2>2. view = NULL \/ Past(view)
    BY DEF DetailInv, ViewSound
  <2>3. PICK v : v = view
    OBVIOUS
  <2>4. v = NULL \/ (Past(v)' /\ v.edit # item'.edit)
    BY <2>1, <2>2, <2>3
  <2> QED
    BY <1>1, <2>3, <2>4 DEF Past
<1>4. confirm' = NULL \/ Past(confirm)'
  <2>1. PICK v : v = confirm
    OBVIOUS
  <2>2. v = NULL \/ Past(v)'
    BY <1>1, <2>1, ItemMoves DEF DetailInv, ViewSound
  <2> QED
    BY <1>1, <2>1, <2>2 DEF Past
<1>5. ViewSound'
  BY <1>3, <1>4 DEF ViewSound
<1> QED
  BY <1>1, <1>2, <1>5, ItemMoves DEF DetailInv

LEMMA OthersStep ==
    ASSUME DetailInv, Others
    PROVE  DetailInv'
<1>1. PICK n \in Names, s \in States : item' = [edit |-> item.edit + 1, name |-> n, status |-> s]
  BY DEF Others
<1>2. item.edit \in Nat /\ item.edit + 1 \in 0..MaxSaves
  BY DetailAssumption DEF Others, DetailInv, ItemTyped, Items
<1>3. item' \in Items /\ item'.edit = item.edit + 1
  BY <1>1, <1>2 DEF Items
<1>4. UNCHANGED <<subject, face, errands>>
  BY DEF Others
<1>5. \A k \in errands' : ErrandSound(k)'
  BY <1>3, <1>4, ItemMoves DEF DetailInv
<1> QED
  BY <1>3, <1>4, <1>5, ItemStep

LEMMA RunStep ==
    ASSUME DetailInv, NEW k \in errands, Run(k)
    PROVE  DetailInv'
<1>0. k \in Errands /\ ErrandSound(k)
  BY DEF DetailInv, ErrandSound
<1>1. item.edit \in Nat /\ item.edit + 1 \in 0..MaxSaves
  BY DetailAssumption DEF Run, DetailInv, ItemTyped, Items
<1>2. Keep(k.name, item.name) \in Names /\ Keep(k.status, item.status) \in States
  BY <1>0 DEF Keep, Errands, DetailInv, ItemTyped, Items
<1>3. item' = [edit |-> item.edit + 1, name |-> Keep(k.name, item.name),
               status |-> Keep(k.status, item.status)]
  BY DEF Run
<1>4. item' \in Items /\ item'.edit = item.edit + 1
  BY <1>1, <1>2, <1>3 DEF Items
<1>5. PICK r : r = [k EXCEPT !.stage = "done"]
  OBVIOUS
<1>6. errands' = (errands \ {k}) \cup {r} /\ UNCHANGED <<subject, face>>
  BY <1>5 DEF Run
<1>7. /\ r \in Errands /\ r.kind = k.kind /\ r.held = k.held /\ r.status = k.status
      /\ r.stage = "done"
  BY <1>0, <1>5 DEF Errands
<1>8. ErrandSound(k)' /\ Errands' = Errands
  BY <1>0, <1>4, <1>6, ItemMoves DEF Errands, Shows
<1>9. ErrandSound(r)'
  BY <1>7, <1>8 DEF ErrandSound
<1>10. \A q \in errands' : ErrandSound(q)'
  BY <1>4, <1>6, <1>9, ItemMoves DEF DetailInv
<1> QED
  BY <1>4, <1>6, <1>10, ItemStep

-----------------------------------------------------------------------------
\* What comes back
LEMMA ReplyStep ==
    ASSUME DetailInv, NEW k \in errands, Reply(k)
    PROVE  DetailInv'
<1>0. k \in Errands /\ ErrandSound(k) /\ UNCHANGED <<subject, item, face>>
  BY DEF DetailInv, ErrandSound, Reply
<1>1. PICK r : /\ errands' = (errands \ {k}) \cup {r}
               /\ r = [k EXCEPT !.stage = "row", !.answer = item]
                  \/ r = [k EXCEPT !.stage = "refused"]
  BY DEF Reply
<1>2. item \in Items /\ Past(item)
  BY DetailAssumption DEF DetailInv, ItemTyped, Past, Items
<1>3. /\ r \in Errands /\ r.kind = k.kind /\ r.held = k.held /\ r.status = k.status
      /\ r.stage # "sent" /\ (r.stage = "row" => r.answer = item)
  BY <1>0, <1>1, <1>2 DEF Errands
<1>4. ErrandSound(r)
  BY <1>0, <1>2, <1>3 DEF ErrandSound
<1>5. \A q \in errands' : ErrandSound(q)'
  BY <1>0, <1>1, <1>4, ItemRests DEF DetailInv
<1> QED
  BY <1>0, <1>5, FaceRests, ItemRests DEF DetailInv

LEMMA LoadedStep ==
    ASSUME DetailInv, NEW k \in errands, TakeLoaded(k)
    PROVE  DetailInv'
<1>1. /\ Past(k.answer)
      /\ k.answer.edit = item.edit => k.answer = item
      /\ errands' = errands \ {k} /\ view' = k.answer /\ fields' = Filled(k.answer)
      /\ met' = Displayed({}, fields') /\ answered' = FALSE
      /\ UNCHANGED <<subject, item, confirm>>
  BY DEF DetailInv, ErrandSound, TakeLoaded
<1>2. k.answer.name \in Names /\ k.answer.status \in States
  BY <1>1 DEF Past, Items
<1>3. /\ fields'.name = k.answer.name
      /\ fields'.status = IF subject = "user" THEN NULL ELSE k.answer.status
      /\ fields' = [name |-> k.answer.name,
                    status |-> IF subject = "user" THEN NULL ELSE k.answer.status]
  BY <1>1 DEF Filled
<1>4. FieldsTyped'
  <2>1. fields' \in [name : Names \cup {NULL}, status : States \cup {NULL}]
    BY <1>2, <1>3
  <2>2. met' \subseteq Shows
    BY <1>1, <2>1, <1>2, <1>3 DEF Displayed, Shows
  <2> QED
    BY <1>1, <1>3, <2>1, <2>2, ItemRests DEF FieldsTyped
<1>5. (subject = "project" /\ k.answer = item) => <<item.name, item.status>> \in met'
  BY <1>1, <1>3 DEF Displayed
<1>6. ViewSound'
  <2>1. Past(view)'
    BY <1>1 DEF Past, Items, States
  <2>2. confirm' = NULL \/ Past(confirm)'
    BY <1>1, ItemRests DEF DetailInv, ViewSound
  <2> QED
    BY <1>1, <1>5, <2>1, <2>2 DEF ViewSound
<1> QED
  BY <1>1, <1>4, <1>6, ErrandGone

LEMMA AnsweredStep ==
    ASSUME DetailInv, NEW k \in errands, TakeAnswer(k) \/ TakeRefusal(k) \/ TakeFailure(k)
    PROVE  DetailInv'
<1>0. k \in Errands /\ ErrandSound(k)
  BY DEF DetailInv, ErrandSound
<1>1. CASE TakeAnswer(k)
  <2>1. /\ errands' = errands \ {k} /\ answered' = (subject = "project")
        /\ view' = IF k.kind = "rotate" THEN [k.held EXCEPT !.edit = k.answer.edit]
                   ELSE k.answer
        /\ UNCHANGED <<subject, item, fields, met, confirm>>
        /\ Past(k.answer) /\ (k.kind = "rotate" => Past(k.held))
    BY <1>0, <1>1 DEF TakeAnswer, ErrandSound
  <2>2. view' \in Items /\ view'.edit <= item.edit
    <3>1. CASE k.kind = "rotate"
      BY <2>1, <3>1 DEF Past, Items
    <3>2. CASE k.kind # "rotate"
      BY <2>1, <3>2 DEF Past
    <3> QED
      BY <3>1, <3>2
  <2>3. FieldsTyped'
    BY <2>1, ItemRests DEF DetailInv, FieldsTyped
  <2>4. Past(view)'
    BY <2>1, <2>2, ItemRests DEF Past
  <2>5. confirm' = NULL \/ Past(confirm)'
    BY <2>1, ItemRests DEF DetailInv, ViewSound
  <2>6. ViewSound'
    BY <2>1, <2>4, <2>5 DEF ViewSound
  <2> QED
    BY <2>1, <2>3, <2>6, ErrandGone
<1>2. CASE TakeRefusal(k)
  <2>1. PICK n : n = Errand("load")
    OBVIOUS
  <2>2. ErrandSound(n) /\ UNCHANGED <<subject, item, face>>
    BY <1>2, <2>1, BlankSound DEF DetailInv, TakeRefusal
  <2>3. \A q \in errands' : q \in errands \/ q = n
    BY <1>2, <2>1 DEF TakeRefusal
  <2>4. \A q \in errands' : ErrandSound(q)'
    BY <2>2, <2>3, ItemRests DEF DetailInv
  <2> QED
    BY <2>2, <2>4, FaceRests, ItemRests DEF DetailInv
<1>3. CASE TakeFailure(k)
  <2>1. UNCHANGED <<subject, item, face>> /\ errands' \subseteq errands
    BY <1>3 DEF TakeFailure
  <2> QED
    BY <2>1, FaceRests, ErrandGone
<1> QED
  BY <1>1, <1>2, <1>3

-----------------------------------------------------------------------------
LEMMA DetailStarts == DetailInit => DetailInv
<1> SUFFICES ASSUME DetailInit
             PROVE  DetailInv
  OBVIOUS
<1>1. ItemTyped
  <2>1. 0 \in 0..MaxSaves
    BY DetailAssumption
  <2> QED
    BY <2>1 DEF DetailInit, ItemTyped, Items
<1>2. FieldsTyped
  BY DEF DetailInit, FieldsTyped, States
<1>3. ViewSound
  BY DEF DetailInit, ViewSound
<1>4. PICK n : n = Errand("load")
  OBVIOUS
<1>5. errands = {n} /\ ErrandSound(n)
  BY <1>1, <1>4, BlankSound DEF DetailInit
<1> QED
  BY <1>1, <1>2, <1>3, <1>5 DEF DetailInv

LEMMA DetailStep == DetailInv /\ [DetailNext]_detailVars => DetailInv'
<1> SUFFICES ASSUME DetailInv, [DetailNext]_detailVars
             PROVE  DetailInv'
  OBVIOUS
<1>1. CASE UNCHANGED detailVars
  BY <1>1, FaceRests, ErrandGone DEF detailVars, face
<1>2. CASE DetailNext
  BY <1>2, FormStep, ButtonStep, OthersStep, RunStep, ReplyStep, LoadedStep, AnsweredStep
  DEF DetailNext
<1> QED
  BY <1>1, <1>2

LEMMA DetailInvariant == DetailSpec => []DetailInv
BY DetailStarts, DetailStep, PTL DEF DetailSpec

LEMMA SaveInformed ==
    ASSUME DetailInv, NEW k \in errands, k.kind = "save", Run(k)
    PROVE  CASE subject = "project" -> k.own \/ <<item.name, item.status>> \in k.known
             [] subject = "user"    -> item'.status = item.status
             [] OTHER -> TRUE
<1>0. ErrandSound(k) /\ k.stage = "sent" /\ Accepted(k)
  BY DEF DetailInv, Run
<1>1. CASE subject = "project"
  BY <1>0, <1>1 DEF ErrandSound, Accepted
<1>2. CASE subject = "user"
  BY <1>0, <1>2 DEF ErrandSound, Run, Keep
<1> QED
  BY <1>1, <1>2 DEF DetailInv, ItemTyped

(* A save of a project replaces what its form has displayed, unless an     *)
(* answer of the page's own write brought the edit_count; a save of a      *)
(* user's profile leaves the status alone (SP_PROJECT_UPDATE,              *)
(* SP_USER_UPDATE and the detail pages).                                   *)
THEOREM DetailSavesInformed == DetailSpec => SavesAreInformed
<1>1. DetailInv /\ [DetailNext]_detailVars =>
        [\A k \in errands :
           (k.kind = "save" /\ Run(k)) =>
             CASE subject = "project" -> k.own \/ <<item.name, item.status>> \in k.known
               [] subject = "user"    -> item'.status = item.status
               [] OTHER -> TRUE]_detailVars
  BY SaveInformed
<1> QED
  BY <1>1, DetailInvariant, PTL DEF DetailSpec, SavesAreInformed

(* The variables have their types, and what a detail page holds of its row *)
(* is never ahead of it.                                                   *)
THEOREM DetailTyped == DetailSpec => []DetailTypeOK
<1>1. DetailInv => DetailTypeOK
  BY DEF DetailInv, ItemTyped, FieldsTyped, ViewSound, Past, Items, Shows, DetailTypeOK
<1> QED
  BY <1>1, DetailInvariant, PTL

-----------------------------------------------------------------------------
(* MCAdministration: the three side by side                                *)

LEMMA PartsApart ==
    ASSUME [AdministrationNext]_<<part, vars, orgVars, detailVars>>
    PROVE  [Next]_vars /\ [OrgNext]_orgVars /\ [DetailNext]_detailVars
BY DEF AdministrationNext, Only

\* Sessions, organisation and detail forms keep their types, whichever of the
\* three a behaviour explores.
THEOREM AdministrationTyped == AdministrationSpec => []AdministrationTypeOK
<1>1. AdministrationInit => Init /\ OrgInit /\ DetailInit
  BY DEF AdministrationInit
<1>2. AdministrationSpec => Spec /\ OrgSpec /\ DetailSpec
  BY <1>1, PartsApart, PTL DEF AdministrationSpec, Spec, OrgSpec, DetailSpec
<1>3. TypeOK /\ OrgTypeOK /\ DetailTypeOK => AdministrationTypeOK
  BY DEF AdministrationTypeOK
<1> QED
  BY <1>2, <1>3, SessionsTyped, OrganisationTyped, DetailTyped, PTL
=============================================================================
