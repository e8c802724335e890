------------------------------ MODULE S2sGate ------------------------------
(***************************************************************************)
(* What a game server's call passes before it is served: S2sAuthGuard with *)
(* its timestamp, secret and nonce, against the project's row, which       *)
(* administrators edit and whose secret they replace, the two stores of    *)
(* nonces and the batches that clean up. A call may be delivered more than *)
(* once. A unit of time is long against the guard.                         *)
(***************************************************************************)
EXTENDS Integers, FiniteSets, NoValue

CONSTANTS
    Calls, Procs, Clicks,
    Tolerance,  \* S2S_TIMESTAMP_TOLERANCE_SEC
    Grace,      \* API_SECRET_GRACE_PERIOD_DAYS
    Ahead,      \* by how much a game server's clock may be ahead
    MaxEdits    \* bound on the changes of the project

SignedCalls == [secret : Nat, age : Int, ahead : BOOLEAN]

ASSUME GateAssumption ==
    /\ {Tolerance, Grace} \subseteq Nat \ {0}
    /\ {Ahead, MaxEdits} \subseteq Nat
    /\ NULL \notin Int /\ NULL \notin SignedCalls

VARIABLES
    project,  \* its row; secret and prev: numbers of secrets, 0: none; rotated:
              \* time since secret_rotated_at
    held,     \* the secret the game server signs with
    signed,   \* signed calls; age: time since the timestamp
    guard,    \* the guard's processes
    redisUp, redisNonce, dbNonce, \* time to live and age of nonces; NULL: none
    served,   \* how often a call passed by each store (2: or more)
    click     \* administrators' requests and the row they were shown

vars == <<project, held, signed, guard, redisUp, redisNonce, dbNonce, served, click>>
nonces == <<redisUp, redisNonce, dbNonce>>
admin == <<project, click>>

Stores == {"redis", "db"}
Idle == [pc |-> "idle"]
None == [do |-> "none"]
More(n, bound) == IF n = bound THEN n ELSE n + 1

Init ==
    /\ project = [active |-> TRUE, secret |-> 1, prev |-> 0, rotated |-> 0, edits |-> 0]
    /\ held = 1
    /\ signed = [c \in Calls |-> NULL]
    /\ guard = [p \in Procs |-> Idle]
    /\ redisUp = TRUE
    /\ redisNonce = [c \in Calls |-> NULL] /\ dbNonce = [c \in Calls |-> NULL]
    /\ served = [c \in Calls |-> [s \in Stores |-> 0]]
    /\ click = [k \in Clicks |-> None]

-----------------------------------------------------------------------------
(* The game server                                                         *)

Sign(c) ==
    /\ signed[c] = NULL
    /\ \E a \in -Ahead..0 :
        signed' = [signed EXCEPT ![c] = [secret |-> held, age |-> a, ahead |-> a < 0]]
    /\ UNCHANGED <<admin, held, guard, nonces, served>>

\* The administrator hands it the secret the rotation answered with
InstallSecret ==
    /\ held # project.secret /\ held' = project.secret
    /\ UNCHANGED <<admin, signed, guard, nonces, served>>

-----------------------------------------------------------------------------
(* S2sAuthGuard.canActivate                                                *)

Goto(p, next) == guard' = [guard EXCEPT ![p] = next]

\* A copy of the call arrives: extractHeaders, checkTimestampTolerance
Deliver(p, c) ==
    /\ guard[p].pc = "idle" /\ signed[c] # NULL
    /\ signed[c].age \in -Tolerance..Tolerance
    /\ Goto(p, [pc |-> "lookup", call |-> c])
    /\ UNCHANGED <<admin, held, signed, nonces, served>>

Keys == [secret |-> project.secret, prev |-> project.prev, rotated |-> project.rotated]
\* SP_PROJECT_GET_BY_API_KEY; a suspended project is refused
LookupProject(p) ==
    /\ guard[p].pc = "lookup"
    /\ IF project.active
       THEN Goto(p, [pc |-> "verify", call |-> guard[p].call, row |-> Keys])
       ELSE Goto(p, Idle)
    /\ UNCHANGED <<admin, held, signed, nonces, served>>

\* Both secrets of the row that was read are tried
Candidates(row) == {row.secret, row.prev} \ {0}
VerifySignature(p) ==
    /\ guard[p].pc = "verify"
    /\ IF signed[guard[p].call].secret \in Candidates(guard[p].row)
       THEN Goto(p, [pc |-> "nonce", call |-> guard[p].call])
       ELSE Goto(p, [guard[p] EXCEPT !.pc = "mismatch"])
    /\ UNCHANGED <<admin, held, signed, nonces, served>>

Pass(p, store) ==
    /\ served' = [served EXCEPT ![guard[p].call][store] = More(@, 2)]
    /\ Goto(p, Idle)

\* Mutant: the key lives for a unit less than the tolerance
RedisNonceShort(p) ==
    /\ guard[p].pc = "nonce" /\ redisUp
    /\ LET c == guard[p].call IN
       IF redisNonce[c] = NULL
       THEN redisNonce' = [redisNonce EXCEPT ![c] = Tolerance - 1] /\ Pass(p, "redis")
       ELSE Goto(p, Idle) /\ UNCHANGED <<redisNonce, served>>
    /\ UNCHANGED <<admin, held, signed, redisUp, dbNonce>>

\* SET NX EX, with the tolerance as time to live
RedisNonce(p) ==
    /\ guard[p].pc = "nonce" /\ redisUp
    /\ LET c == guard[p].call IN
       IF redisNonce[c] = NULL
       THEN redisNonce' = [redisNonce EXCEPT ![c] = Tolerance] /\ Pass(p, "redis")
       ELSE Goto(p, Idle) /\ UNCHANGED <<redisNonce, served>>
    /\ UNCHANGED <<admin, held, signed, redisUp, dbNonce>>

\* The command fails: the guard turns to the database
RedisFails(p) ==
    /\ guard[p].pc = "nonce" /\ ~redisUp
    /\ Goto(p, [pc |-> "insert", call |-> guard[p].call])
    /\ UNCHANGED <<admin, held, signed, nonces, served>>

\* SP_NONCE_INSERT: the unique key decides
InsertNonce(p) ==
    /\ guard[p].pc = "insert"
    /\ LET c == guard[p].call IN
       IF dbNonce[c] = NULL
       THEN dbNonce' = [dbNonce EXCEPT ![c] = 0] /\ Pass(p, "db")
       ELSE Goto(p, Idle) /\ UNCHANGED <<dbNonce, served>>
    /\ UNCHANGED <<admin, held, signed, redisUp, redisNonce>>

\* 10011 is answered
Mismatched(p) ==
    /\ guard[p].pc = "mismatch" /\ Goto(p, Idle)
    /\ UNCHANGED <<admin, held, signed, nonces, served>>

-----------------------------------------------------------------------------
(* project.service: a page shows the row, and a button is clicked, maybe   *)
(* twice: every click carries the edit_count that was shown                *)

Shown == [active |-> project.active, secret |-> project.secret, edits |-> project.edits]
Show(k, do) ==
    /\ click[k] = None
    /\ \/ click' = [click EXCEPT ![k] = [do |-> do, seen |-> Shown]]
       \/ \E other \in Clicks :  \* the double click
            click[other].do = do /\ click' = [click EXCEPT ![k] = click[other]]
    /\ UNCHANGED <<project, held, signed, guard, nonces, served>>

\* SP_PROJECT_UPDATE: the status may change
Changed == {[project EXCEPT !.active = b, !.edits = @ + 1] : b \in BOOLEAN}
\* SP_PROJECT_API_SECRET_ROTATE
Rotated == {[project EXCEPT !.prev = project.secret, !.secret = @ + 1, !.rotated = 0,
                               !.edits = @ + 1]}
\* Mutant: the procedure reads the running edit_count itself
FreshAlways(k) == click[k].do # "none"
Fresh(k) == click[k].seen.edits = project.edits

\* WHERE edit_count = i_edit_count; otherwise 30005
Execute(k) ==
    /\ click[k].do # "none" /\ project.edits < MaxEdits
    /\ click' = [click EXCEPT ![k] = None]
    /\ IF Fresh(k) THEN project' \in IF click[k].do = "update" THEN Changed ELSE Rotated
       ELSE UNCHANGED project
    /\ UNCHANGED <<held, signed, guard, nonces, served>>

-----------------------------------------------------------------------------
(* Batches, Redis, time                                                    *)

\* Mutant: every previous secret is cleared
CleanSecretAny ==
    /\ project.prev # 0
    /\ project' = [project EXCEPT !.prev = 0]
    /\ UNCHANGED <<held, signed, guard, nonces, served, click>>

\* ApiSecretCleanupService
CleanSecret ==
    /\ project.prev # 0 /\ project.rotated >= Grace
    /\ project' = [project EXCEPT !.prev = 0]
    /\ UNCHANGED <<held, signed, guard, nonces, served, click>>

\* NonceCleanupService
CleanNonces ==
    /\ \E c \in Calls : dbNonce[c] # NULL /\ dbNonce[c] > Tolerance
    /\ dbNonce' = [c \in Calls |-> IF dbNonce[c] # NULL /\ dbNonce[c] > Tolerance
                                   THEN NULL ELSE dbNonce[c]]
    /\ UNCHANGED <<admin, held, signed, guard, redisUp, redisNonce, served>>

ToggleRedis ==
    /\ redisUp' = ~redisUp
    /\ UNCHANGED <<admin, held, signed, guard, redisNonce, dbNonce, served>>

\* A key expires within the unit of time in which its time to live ends
ExpireNonce(c) ==
    /\ redisNonce[c] = 0
    /\ redisNonce' = [redisNonce EXCEPT ![c] = NULL]
    /\ UNCHANGED <<admin, held, signed, guard, redisUp, dbNonce, served>>

Tick ==
    /\ \A p \in Procs : guard[p].pc = "idle"
    /\ project' = [project EXCEPT !.rotated = More(@, Grace)]
    /\ signed' = [c \in Calls |-> IF signed[c] = NULL THEN NULL
                    ELSE [signed[c] EXCEPT !.age = More(@, Tolerance + 1)]]
    /\ redisNonce' = [c \in Calls |-> IF redisNonce[c] \in {NULL, 0} THEN NULL
                                      ELSE redisNonce[c] - 1]
    /\ dbNonce' = [c \in Calls |-> IF dbNonce[c] = NULL THEN NULL
                                   ELSE More(dbNonce[c], Tolerance + 1)]
    /\ UNCHANGED <<held, guard, redisUp, served, click>>

-----------------------------------------------------------------------------
Guard(p) ==
    \/ \E c \in Calls : Deliver(p, c)
    \/ LookupProject(p) \/ VerifySignature(p) \/ RedisNonce(p) \/ RedisFails(p)
    \/ InsertNonce(p) \/ Mismatched(p)

Next ==
    \/ \E c \in Calls : Sign(c) \/ ExpireNonce(c)
    \/ \E p \in Procs : Guard(p)
    \/ \E k \in Clicks : Execute(k) \/ \E do \in {"update", "rotate"} : Show(k, do)
    \/ InstallSecret \/ CleanSecret \/ CleanNonces \/ ToggleRedis \/ Tick

Spec == Init /\ [][Next]_vars

-----------------------------------------------------------------------------
Secrets == 1..(MaxEdits + 1)
TypeOK ==
    /\ project \in [active : BOOLEAN, secret : Secrets, prev : Secrets \cup {0},
                    rotated : 0..Grace, edits : 0..MaxEdits]
    /\ project.secret <= project.edits + 1 /\ project.prev \in {0, project.secret - 1}
    /\ held \in Secrets
    /\ \A c \in Calls : signed[c] # NULL => signed[c].age \in -Ahead..(Tolerance + 1)
    /\ \A p \in Procs : guard[p].pc \in {"idle", "lookup", "verify", "mismatch", "nonce", "insert"}
    /\ redisUp \in BOOLEAN
    /\ redisNonce \in [Calls -> 0..Tolerance \cup {NULL}]
    /\ dbNonce \in [Calls -> 0..(Tolerance + 1) \cup {NULL}]
    /\ served \in [Calls -> [Stores -> 0..2]]
    /\ \A k \in Clicks : click[k] = None \/ click[k].seen.edits <= project.edits

\* However often a call is delivered, each store lets it pass once, if its
\* timestamp was not ahead of the server; Redis drops the nonce within the last
\* second in which the timestamp is still accepted (s2s-auth.guard.ts
\* consumeNonce, nonce-cleanup.service.ts).
ServedOnce ==
    \A c \in Calls : signed[c] # NULL /\ ~signed[c].ahead =>
        /\ served[c]["db"] <= 1
        /\ served[c]["redis"] <= 1 \/ signed[c].age >= Tolerance

\* What the guard lets pass, with the ranges of the state: the edit count of the
\* row never falls behind the number of secrets issued (S2sAuthGuard).
CallsSound == TypeOK /\ ServedOnce

\* A call signed with the project's secret, or with the one it replaced, is not
\* refused for its signature before the grace period is over, whatever is edited
\* and cleaned up meanwhile (project.service.ts, api-secret-cleanup.service.ts).
ReplacedSecretWorks ==
    \A p \in Procs : guard[p].pc = "mismatch" =>
        LET used == signed[guard[p].call].secret
            row  == guard[p].row
        IN  used # row.secret /\ (used = row.secret - 1 => row.rotated >= Grace)

\* The secret is replaced, and the project edited, only by one who was shown what
\* is replaced: the second click of two does not push the running secret out of
\* the slot that keeps it valid.
ChangedKnowingly ==
    [][project'.edits # project.edits =>
        \E k \in Clicks : /\ click[k].do # "none" /\ click'[k] = None
                          /\ click[k].seen.secret = project.secret
                          /\ click[k].seen.active = project.active]_vars
=============================================================================
