--------------------------- MODULE S2sGateProofs ----------------------------
(***************************************************************************)
(* For every number of calls, guards and administrators, every tolerance   *)
(* and grace period: a call passes each store of nonces once.              *)
(***************************************************************************)
EXTENDS S2sGate, TLAPS

KeyRows == [secret : Secrets, prev : Secrets \cup {0}, rotated : 0..Grace]
GuardStates ==
    {Idle} \cup [pc : {"lookup", "nonce", "insert"}, call : Calls]
           \cup [pc : {"verify", "mismatch"}, call : Calls, row : KeyRows]
ClickStates ==
    {None} \cup [do : {"update", "rotate"},
                 seen : [active : BOOLEAN, secret : Secrets, edits : 0..MaxEdits]]
ProjectRows ==
    [active : BOOLEAN, secret : Secrets, prev : Secrets \cup {0}, rotated : 0..Grace,
     edits : 0..MaxEdits]

\* The administrators' half of the type invariant, with the shape of the clicks
AdminTyped ==
    /\ project \in ProjectRows
    /\ project.secret <= project.edits + 1 /\ project.prev \in {0, project.secret - 1}
    /\ held \in Secrets
    /\ click \in [Clicks -> ClickStates]
    /\ \A k \in Clicks : click[k] = None \/ click[k].seen.edits <= project.edits

\* The other half, with the shape of calls and guards
NoncesTyped ==
    /\ redisUp \in BOOLEAN
    /\ redisNonce \in [Calls -> 0..Tolerance \cup {NULL}]
    /\ dbNonce \in [Calls -> 0..(Tolerance + 1) \cup {NULL}]
    /\ served \in [Calls -> [Stores -> 0..2]]
SignedTyped ==
    /\ signed \in [Calls -> SignedCalls \cup {NULL}]
    /\ \A c \in Calls : signed[c] # NULL => signed[c].age \in -Ahead..(Tolerance + 1)
GuardsTyped == guard \in [Procs -> GuardStates]

\* A guard is never slower than the unit of time: the call it is at is accepted
Accepted(c) == signed[c] # NULL /\ signed[c].age \in -Tolerance..Tolerance
GuardsSound == \A p \in Procs : guard[p] # Idle => Accepted(guard[p].call)

Exact(c) == signed[c] # NULL /\ ~signed[c].ahead

\* What is not signed has left no trace
Traceless(c) == redisNonce[c] = NULL /\ dbNonce[c] = NULL /\ \A s \in Stores : served[c][s] = 0
CallSound(c) ==
    /\ signed[c] = NULL => Traceless(c)
    /\ Exact(c) => signed[c].age >= 0

\* The database keeps a nonce no shorter than the timestamp is accepted
DbSound(c) ==
    Exact(c) =>
        /\ dbNonce[c] # NULL => dbNonce[c] <= signed[c].age
        /\ served[c]["db"] >= 1 => dbNonce[c] # NULL \/ signed[c].age > Tolerance
        /\ served[c]["db"] <= 1

\* Redis drops it as the timestamp is accepted for the last time
RedisSound(c) ==
    Exact(c) =>
        /\ redisNonce[c] # NULL => redisNonce[c] + signed[c].age >= Tolerance
        /\ served[c]["redis"] >= 1 => redisNonce[c] # NULL \/ signed[c].age >= Tolerance
        /\ served[c]["redis"] <= 1 \/ signed[c].age >= Tolerance

NonceSound(c) == CallSound(c) /\ DbSound(c) /\ RedisSound(c)
NoncesSound == \A c \in Calls : NonceSound(c)

IInv ==
    AdminTyped /\ NoncesTyped /\ SignedTyped /\ GuardsTyped /\ GuardsSound /\ NoncesSound
-----------------------------------------------------------------------------
\* The assumption, part by part
LEMMA Numbers ==
    /\ Tolerance \in Nat /\ Tolerance >= 1 /\ Grace \in Nat /\ Grace >= 1
    /\ Ahead \in Nat /\ MaxEdits \in Nat
    /\ NULL \notin Int /\ NULL \notin SignedCalls
BY GateAssumption

\* The invariant is at least what the runs check
LEMMA InvImplies == IInv => CallsSound
<1> SUFFICES ASSUME IInv PROVE CallsSound
  OBVIOUS
<1>1. \A p \in Procs : guard[p].pc \in {"idle", "lookup", "verify", "mismatch", "nonce", "insert"}
  BY DEF IInv, GuardsTyped, GuardStates, Idle
<1>2. TypeOK
  BY <1>1 DEF IInv, AdminTyped, NoncesTyped, SignedTyped, TypeOK, ProjectRows
<1>3. ServedOnce
  BY DEF IInv, NoncesSound, NonceSound, DbSound, RedisSound, Exact, ServedOnce
<1> QED
  BY <1>2, <1>3 DEF CallsSound

LEMMA InitCorrect == Init => IInv
<1> SUFFICES ASSUME Init PROVE IInv
  OBVIOUS
<1>1. AdminTyped
  BY Numbers DEF Init, AdminTyped, ProjectRows, Secrets, ClickStates
<1>2. NoncesTyped /\ SignedTyped /\ GuardsTyped
  BY Numbers DEF Init, NoncesTyped, SignedTyped, GuardsTyped, GuardStates
<1>3. GuardsSound
  BY DEF Init, GuardsSound
<1>4. NoncesSound
  BY DEF Init, NoncesSound, NonceSound, CallSound, DbSound, RedisSound, Exact, Traceless
<1> QED
  BY <1>1, <1>2, <1>3, <1>4 DEF IInv
-----------------------------------------------------------------------------
\* Steps of administrators and of the game server's keys leave the calls alone
LEMMA CallsKept ==
    ASSUME IInv, UNCHANGED <<signed, guard, nonces, served>>, AdminTyped'
    PROVE  IInv'
BY DEF IInv, nonces, NoncesTyped, SignedTyped, GuardsTyped, GuardsSound, Accepted, NoncesSound,
    NonceSound, CallSound, DbSound, RedisSound, Exact, Traceless

\* Steps of guards leave the project alone
LEMMA AdminKept ==
    ASSUME IInv, UNCHANGED <<admin, held>>
    PROVE  AdminTyped'
BY DEF IInv, admin, AdminTyped

\* A guard that goes on with a call, while no nonce changes
LEMMA GuardGoesOn ==
    ASSUME IInv, UNCHANGED <<admin, held, signed, nonces, served>>,
           NEW p \in Procs, NEW next \in GuardStates, Goto(p, next),
           next # Idle => Accepted(next.call)
    PROVE  IInv'
<1>1. AdminTyped'
  BY AdminKept
<1>2. GuardsTyped' /\ \A q \in Procs : guard'[q] = IF q = p THEN next ELSE guard[q]
  BY DEF IInv, GuardsTyped, Goto
<1>3. GuardsSound'
  BY <1>2 DEF IInv, GuardsSound, Accepted
<1>4. NoncesTyped' /\ SignedTyped' /\ NoncesSound'
  BY DEF IInv, nonces, NoncesTyped, SignedTyped, NoncesSound, NonceSound, CallSound, DbSound,
     RedisSound, Exact, Traceless
<1> QED
  BY <1>1, <1>2, <1>3, <1>4 DEF IInv

\* What is known of a guard that is at a call
LEMMA AtCall ==
    ASSUME IInv, NEW p \in Procs, guard[p].pc # "idle"
    PROVE  guard[p] # Idle /\ guard[p].call \in Calls /\ Accepted(guard[p].call)
<1>1. guard[p] \in GuardStates /\ guard[p] # Idle
  BY DEF IInv, GuardsTyped, Idle
<1> QED
  BY <1>1 DEF IInv, GuardsSound, GuardStates

LEMMA DeliverCorrect ==
    ASSUME IInv, NEW p \in Procs, NEW c \in Calls, Deliver(p, c)
    PROVE  IInv'
<1>1. [pc |-> "lookup", call |-> c] \in GuardStates
  BY DEF GuardStates
<1> QED
  BY <1>1, GuardGoesOn DEF Deliver, Accepted

LEMMA LookupCorrect ==
    ASSUME IInv, NEW p \in Procs, LookupProject(p)
    PROVE  IInv'
<1>1. guard[p].call \in Calls /\ Accepted(guard[p].call)
  BY AtCall DEF LookupProject
<1>2. Keys \in KeyRows
  BY DEF IInv, AdminTyped, ProjectRows, Keys, KeyRows
<1>3. [pc |-> "verify", call |-> guard[p].call, row |-> Keys] \in GuardStates /\ Idle \in GuardStates
  BY <1>1, <1>2 DEF GuardStates
<1> QED
  BY <1>1, <1>3, GuardGoesOn DEF LookupProject

LEMMA VerifyCorrect ==
    ASSUME IInv, NEW p \in Procs, VerifySignature(p)
    PROVE  IInv'
<1>1. guard[p].call \in Calls /\ Accepted(guard[p].call)
  BY AtCall DEF VerifySignature
<1>2. guard[p] \in [pc : {"verify", "mismatch"}, call : Calls, row : KeyRows]
  BY DEF VerifySignature, IInv, GuardsTyped, GuardStates, Idle
<1>3. CASE signed[guard[p].call].secret \in Candidates(guard[p].row)
  <2>1. [pc |-> "nonce", call |-> guard[p].call] \in GuardStates
    BY <1>1 DEF GuardStates
  <2> QED
    BY <1>1, <1>3, <2>1, GuardGoesOn DEF VerifySignature
<1>4. CASE signed[guard[p].call].secret \notin Candidates(guard[p].row)
  <2> DEFINE next == [guard[p] EXCEPT !.pc = "mismatch"]
  <2>1. next \in GuardStates /\ next.call = guard[p].call
    BY <1>2 DEF GuardStates
  <2>2. Goto(p, next) /\ UNCHANGED <<admin, held, signed, nonces, served>>
    BY <1>4 DEF VerifySignature
  <2> HIDE DEF next
  <2> QED
    BY <1>1, <2>1, <2>2, GuardGoesOn
<1> QED
  BY <1>3, <1>4

LEMMA RedisFailsCorrect ==
    ASSUME IInv, NEW p \in Procs, RedisFails(p)
    PROVE  IInv'
<1>1. guard[p].call \in Calls /\ Accepted(guard[p].call)
  BY AtCall DEF RedisFails
<1>2. [pc |-> "insert", call |-> guard[p].call] \in GuardStates
  BY <1>1 DEF GuardStates
<1> QED
  BY <1>1, <1>2, GuardGoesOn DEF RedisFails

LEMMA MismatchedCorrect ==
    ASSUME IInv, NEW p \in Procs, Mismatched(p)
    PROVE  IInv'
BY GuardGoesOn DEF Mismatched, GuardStates
-----------------------------------------------------------------------------
\* A guard is done: it is idle, and the others are where they were
LEMMA GuardDone ==
    ASSUME IInv, NEW p \in Procs, Goto(p, Idle), UNCHANGED <<admin, held, signed>>
    PROVE  AdminTyped' /\ SignedTyped' /\ GuardsTyped' /\ GuardsSound'
<1>1. AdminTyped'
  BY AdminKept
<1>2. GuardsTyped' /\ \A q \in Procs : guard'[q] = IF q = p THEN Idle ELSE guard[q]
  BY DEF IInv, GuardsTyped, Goto, GuardStates
<1>3. GuardsSound' /\ SignedTyped'
  BY <1>2 DEF IInv, GuardsSound, Accepted, SignedTyped
<1> QED
  BY <1>1, <1>2, <1>3

\* What Pass does to the counts
LEMMA PassCounts ==
    ASSUME IInv, NEW p \in Procs, NEW store \in Stores, guard[p].call \in Calls, Pass(p, store)
    PROVE  /\ served' \in [Calls -> [Stores -> 0..2]]
           /\ \A c \in Calls, s \in Stores :
                served'[c][s] = IF c = guard[p].call /\ s = store THEN More(served[c][s], 2)
                                ELSE served[c][s]
BY DEF IInv, NoncesTyped, Pass, More

LEMMA RedisNonceCorrect ==
    ASSUME IInv, NEW p \in Procs, RedisNonce(p)
    PROVE  IInv'
<1>1. PICK c \in Calls : c = guard[p].call /\ Accepted(c)
  BY AtCall DEF RedisNonce
<1>2. CASE redisNonce[c] # NULL
  BY <1>1, <1>2, GuardGoesOn DEF RedisNonce, GuardStates, nonces
<1>3. CASE redisNonce[c] = NULL
  <2>1. /\ redisNonce' = [redisNonce EXCEPT ![c] = Tolerance] /\ Pass(p, "redis")
        /\ UNCHANGED <<admin, held, signed, redisUp, dbNonce>>
    BY <1>1, <1>3 DEF RedisNonce
  <2>2. AdminTyped' /\ SignedTyped' /\ GuardsTyped' /\ GuardsSound'
    BY <2>1, GuardDone DEF Pass
  <2>3. /\ served' \in [Calls -> [Stores -> 0..2]]
        /\ \A d \in Calls, s \in Stores :
             served'[d][s] = IF d = c /\ s = "redis" THEN More(served[d][s], 2)
                             ELSE served[d][s]
    BY <1>1, <2>1, PassCounts DEF Stores
  <2>4. NoncesTyped'
    <3>1. Tolerance \in 0..Tolerance \cup {NULL}
      BY Numbers
    <3>2. redisNonce' \in [Calls -> 0..Tolerance \cup {NULL}]
      BY <2>1, <3>1 DEF IInv, NoncesTyped
    <3> QED
      BY <2>1, <2>3, <3>2 DEF IInv, NoncesTyped
  <2>5. NonceSound(c)'
    <3>1. /\ redisNonce'[c] = Tolerance /\ dbNonce' = dbNonce /\ signed' = signed
          /\ served'[c]["redis"] = More(served[c]["redis"], 2)
          /\ served'[c]["db"] = served[c]["db"] /\ Tolerance # NULL
      BY <1>1, <2>1, <2>3, Numbers DEF IInv, NoncesTyped, Stores
    <3>2. NonceSound(c) /\ signed[c] # NULL /\ signed[c].age \in Int /\ served[c]["redis"] \in 0..2
      BY <1>1, Numbers DEF IInv, NoncesSound, Accepted, NoncesTyped, Stores
    <3> QED
      BY <1>3, <3>1, <3>2, Numbers
         DEF NonceSound, CallSound, DbSound, RedisSound, Exact, More
  <2>6. ASSUME NEW d \in Calls, d # c PROVE NonceSound(d)'
    <3>1. /\ redisNonce'[d] = redisNonce[d] /\ dbNonce' = dbNonce /\ signed' = signed
          /\ \A s \in Stores : served'[d][s] = served[d][s]
      BY <1>1, <2>1, <2>3, <2>6 DEF IInv, NoncesTyped
    <3> QED
      BY <3>1 DEF IInv, NoncesSound, NonceSound, CallSound, DbSound, RedisSound, Exact,
         Traceless, Stores
  <2> QED
    BY <2>2, <2>4, <2>5, <2>6 DEF IInv, NoncesSound
<1> QED
  BY <1>2, <1>3

LEMMA InsertNonceCorrect ==
    ASSUME IInv, NEW p \in Procs, InsertNonce(p)
    PROVE  IInv'
<1>1. PICK c \in Calls : c = guard[p].call /\ Accepted(c)
  BY AtCall DEF InsertNonce
<1>2. CASE dbNonce[c] # NULL
  BY <1>1, <1>2, GuardGoesOn DEF InsertNonce, GuardStates, nonces
<1>3. CASE dbNonce[c] = NULL
  <2>1. /\ dbNonce' = [dbNonce EXCEPT ![c] = 0] /\ Pass(p, "db")
        /\ UNCHANGED <<admin, held, signed, redisUp, redisNonce>>
    BY <1>1, <1>3 DEF InsertNonce
  <2>2. AdminTyped' /\ SignedTyped' /\ GuardsTyped' /\ GuardsSound'
    BY <2>1, GuardDone DEF Pass
  <2>3. /\ served' \in [Calls -> [Stores -> 0..2]]
        /\ \A d \in Calls, s \in Stores :
             served'[d][s] = IF d = c /\ s = "db" THEN More(served[d][s], 2)
                             ELSE served[d][s]
    BY <1>1, <2>1, PassCounts DEF Stores
  <2>4. NoncesTyped'
    <3>1. 0 \in 0..(Tolerance + 1) \cup {NULL}
      BY Numbers
    <3>2. dbNonce' \in [Calls -> 0..(Tolerance + 1) \cup {NULL}]
      BY <2>1, <3>1 DEF IInv, NoncesTyped
    <3> QED
      BY <2>1, <2>3, <3>2 DEF IInv, NoncesTyped
  <2>5. NonceSound(c)'
    <3>1. /\ dbNonce'[c] = 0 /\ redisNonce' = redisNonce /\ signed' = signed
          /\ served'[c]["db"] = More(served[c]["db"], 2)
          /\ served'[c]["redis"] = served[c]["redis"] /\ 0 # NULL
      BY <1>1, <2>1, <2>3, Numbers DEF IInv, NoncesTyped, Stores
    <3>2. /\ NonceSound(c) /\ signed[c] # NULL /\ signed[c].age \in -Tolerance..Tolerance
          /\ served[c]["db"] \in 0..2
      BY <1>1, Numbers DEF IInv, NoncesSound, Accepted, NoncesTyped, Stores
    <3> QED
      BY <1>3, <3>1, <3>2, Numbers
         DEF NonceSound, CallSound, DbSound, RedisSound, Exact, More
  <2>6. ASSUME NEW d \in Calls, d # c PROVE NonceSound(d)'
    <3>1. /\ dbNonce'[d] = dbNonce[d] /\ redisNonce' = redisNonce /\ signed' = signed
          /\ \A s \in Stores : served'[d][s] = served[d][s]
      BY <1>1, <2>1, <2>3, <2>6 DEF IInv, NoncesTyped
    <3> QED
      BY <3>1 DEF IInv, NoncesSound, NonceSound, CallSound, DbSound, RedisSound, Exact,
         Traceless, Stores
  <2> QED
    BY <2>2, <2>4, <2>5, <2>6 DEF IInv, NoncesSound
<1> QED
  BY <1>2, <1>3
-----------------------------------------------------------------------------
LEMMA SignCorrect ==
    ASSUME IInv, NEW c \in Calls, Sign(c)
    PROVE  IInv'
<1>1. PICK a \in -Ahead..0 :
        signed' = [signed EXCEPT ![c] = [secret |-> held, age |-> a, ahead |-> a < 0]]
  BY DEF Sign
<1> DEFINE new == [secret |-> held, age |-> a, ahead |-> a < 0]
<1>2. new \in SignedCalls /\ new # NULL /\ new.age \in -Ahead..(Tolerance + 1)
  <2>1. a \in Int /\ -Ahead <= a /\ a <= 0 /\ held \in Nat
    BY Numbers DEF IInv, AdminTyped, Secrets
  <2>2. new \in SignedCalls
    BY <2>1 DEF SignedCalls
  <2> QED
    BY <2>1, <2>2, Numbers
<1>3. SignedTyped' /\ signed[c] = NULL
      /\ \A d \in Calls : signed'[d] = IF d = c THEN new ELSE signed[d]
  BY <1>1, <1>2 DEF IInv, SignedTyped, Sign
<1>4. AdminTyped' /\ NoncesTyped' /\ GuardsTyped'
  BY DEF Sign, IInv, admin, nonces, AdminTyped, NoncesTyped, GuardsTyped
<1>5. GuardsSound'
  <2> SUFFICES ASSUME NEW p \in Procs, guard[p] # Idle PROVE Accepted(guard[p].call)'
    BY DEF Sign, GuardsSound
  <2>1. guard[p] \in GuardStates /\ Accepted(guard[p].call)
    BY DEF IInv, GuardsSound, GuardsTyped
  <2>2. guard[p].call \in Calls /\ guard[p].call # c
    BY <1>3, <2>1 DEF Accepted, GuardStates
  <2> QED
    BY <1>3, <2>1, <2>2 DEF Accepted, Sign
<1>6. ASSUME NEW d \in Calls PROVE NonceSound(d)'
  <2>1. UNCHANGED <<redisNonce, dbNonce, served>>
    BY DEF Sign, nonces
  <2>2. CASE d # c
    BY <1>3, <2>1, <2>2 DEF IInv, NoncesSound, NonceSound, CallSound, DbSound, RedisSound,
       Exact, Traceless
  <2>3. CASE d = c
    <3>1. Traceless(c)
      BY <1>3 DEF IInv, NoncesSound, NonceSound, CallSound
    <3>2. signed'[d] # NULL /\ (Exact(d)' => signed'[d].age = 0)
      <4>1. new.ahead = (a < 0) /\ new.age = a /\ signed'[d] = new
        BY <1>3, <2>3
      <4>2. ~(a < 0) => a = 0
        BY Numbers
      <4> QED
        BY <1>2, <4>1, <4>2 DEF Exact
    <3>3. Traceless(d)'
      BY <2>1, <2>3, <3>1 DEF Traceless
    <3>4. served'[d]["db"] = 0 /\ served'[d]["redis"] = 0
      BY <3>3 DEF Traceless, Stores
    <3> QED
      BY <3>2, <3>3, <3>4 DEF NonceSound, CallSound, DbSound, RedisSound, Traceless
  <2> QED
    BY <2>2, <2>3
<1> QED
  BY <1>3, <1>4, <1>5, <1>6 DEF IInv, NoncesSound

LEMMA InstallSecretCorrect ==
    ASSUME IInv, InstallSecret
    PROVE  IInv'
<1>1. AdminTyped'
  BY DEF InstallSecret, IInv, admin, AdminTyped, ProjectRows
<1> QED
  BY <1>1, CallsKept DEF InstallSecret

LEMMA ShowCorrect ==
    ASSUME IInv, NEW k \in Clicks, NEW do \in {"update", "rotate"}, Show(k, do)
    PROVE  IInv'
<1>1. PICK new \in ClickStates :
        click' = [click EXCEPT ![k] = new] /\ (new = None \/ new.seen.edits <= project.edits)
  <2>1. CASE click' = [click EXCEPT ![k] = [do |-> do, seen |-> Shown]]
    <3>1. [do |-> do, seen |-> Shown] \in ClickStates
      BY DEF IInv, AdminTyped, ProjectRows, Shown, ClickStates
    <3>2. Shown.edits <= project.edits
      BY Numbers DEF IInv, AdminTyped, ProjectRows, Shown
    <3> QED
      BY <2>1, <3>1, <3>2
  <2>2. CASE \E other \in Clicks : click' = [click EXCEPT ![k] = click[other]]
    BY <2>2 DEF IInv, AdminTyped
  <2> QED
    BY <2>1, <2>2 DEF Show
<1>2. AdminTyped'
  BY <1>1 DEF Show, IInv, AdminTyped
<1> QED
  BY <1>2, CallsKept DEF Show

LEMMA ExecuteCorrect ==
    ASSUME IInv, NEW k \in Clicks, Execute(k)
    PROVE  IInv'
<1>1. /\ project' \in ProjectRows /\ project'.edits >= project.edits
      /\ project'.secret <= project'.edits + 1 /\ project'.prev \in {0, project'.secret - 1}
  <2>1. /\ project \in ProjectRows /\ project.edits < MaxEdits
        /\ project.secret <= project.edits + 1 /\ project.prev \in {0, project.secret - 1}
    BY DEF IInv, AdminTyped, Execute
  <2>2. CASE project' = project
    BY <2>1, <2>2, Numbers DEF ProjectRows
  <2>3. CASE project' \in Changed
    <3>1. PICK b \in BOOLEAN : project' = [project EXCEPT !.active = b, !.edits = @ + 1]
      BY <2>3 DEF Changed
    <3>2. project.edits \in Nat /\ project.edits + 1 \in 0..MaxEdits
      BY <2>1, Numbers DEF ProjectRows
    <3>3. /\ project' \in ProjectRows /\ project'.edits = project.edits + 1
          /\ project'.secret = project.secret /\ project'.prev = project.prev
      BY <2>1, <3>1, <3>2 DEF ProjectRows
    <3> QED
      BY <2>1, <3>2, <3>3 DEF ProjectRows, Secrets
  <2>4. CASE project' \in Rotated
    <3>1. /\ project.secret \in Nat /\ project.secret + 1 \in Secrets
          /\ project.edits \in Nat /\ project.edits + 1 \in 0..MaxEdits
      BY <2>1, Numbers DEF ProjectRows, Secrets
    <3>2. project' = [project EXCEPT !.prev = project.secret, !.secret = @ + 1, !.rotated = 0,
                                     !.edits = @ + 1]
      BY <2>4 DEF Rotated
    <3>3. /\ project' \in ProjectRows /\ project'.edits = project.edits + 1
          /\ project'.secret = project.secret + 1 /\ project'.prev = project.secret
      <4>1. 0 \in 0..Grace /\ project.secret \in Secrets \cup {0}
        BY <2>1, Numbers DEF ProjectRows
      <4> QED
        BY <2>1, <3>1, <3>2, <4>1 DEF ProjectRows
    <3> QED
      BY <2>1, <3>1, <3>3
  <2> QED
    BY <2>2, <2>3, <2>4 DEF Execute
<1>2. click' \in [Clicks -> ClickStates]
      /\ \A j \in Clicks : click'[j] = None \/ click'[j] = click[j]
  BY DEF Execute, IInv, AdminTyped, ClickStates
<1>3. \A j \in Clicks : click'[j] = None \/ click'[j].seen.edits <= project'.edits
  <2> SUFFICES ASSUME NEW j \in Clicks, click'[j] # None
               PROVE  click'[j].seen.edits <= project'.edits
    OBVIOUS
  <2>1. click'[j] = click[j] /\ click[j].seen.edits <= project.edits
    BY <1>2 DEF IInv, AdminTyped
  <2>2. click[j].seen.edits \in Nat /\ project.edits \in Nat /\ project'.edits \in Nat
    BY <1>1, <1>2, <2>1, Numbers DEF IInv, AdminTyped, ProjectRows, ClickStates
  <2> QED
    BY <1>1, <2>1, <2>2
<1>4. AdminTyped'
  BY <1>1, <1>2, <1>3 DEF Execute, IInv, AdminTyped
<1> QED
  BY <1>4, CallsKept DEF Execute

LEMMA CleanSecretCorrect ==
    ASSUME IInv, CleanSecret
    PROVE  IInv'
<1>1. AdminTyped'
  BY DEF CleanSecret, IInv, AdminTyped, ProjectRows
<1> QED
  BY <1>1, CallsKept DEF CleanSecret
-----------------------------------------------------------------------------
\* Batches, Redis and time change what is remembered of a call
LEMMA NoncesChange ==
    ASSUME IInv, UNCHANGED <<admin, held, signed, guard>>, NoncesTyped', NoncesSound'
    PROVE  IInv'
<1>1. AdminTyped'
  BY AdminKept
<1> QED
  BY <1>1 DEF IInv, SignedTyped, GuardsTyped, GuardsSound, Accepted

LEMMA ToggleRedisCorrect ==
    ASSUME IInv, ToggleRedis
    PROVE  IInv'
<1>1. NoncesTyped' /\ NoncesSound'
  BY DEF ToggleRedis, IInv, NoncesTyped, NoncesSound, NonceSound, CallSound, DbSound,
     RedisSound, Exact, Traceless
<1> QED
  BY <1>1, NoncesChange DEF ToggleRedis

LEMMA ExpireNonceCorrect ==
    ASSUME IInv, NEW c \in Calls, ExpireNonce(c)
    PROVE  IInv'
<1>1. /\ redisNonce' \in [Calls -> 0..Tolerance \cup {NULL}]
      /\ \A d \in Calls : redisNonce'[d] = IF d = c THEN NULL ELSE redisNonce[d]
  BY DEF ExpireNonce, IInv, NoncesTyped
<1>2. NoncesTyped'
  BY <1>1 DEF ExpireNonce, IInv, NoncesTyped
<1>3. ASSUME NEW d \in Calls PROVE NonceSound(d)'
  <2>1. NonceSound(d) /\ (d = c => redisNonce[d] = 0 /\ redisNonce[d] # NULL)
    BY Numbers DEF IInv, NoncesSound, ExpireNonce
  <2>2. signed[d] # NULL => signed[d].age \in Int
    BY Numbers DEF IInv, SignedTyped
  <2> QED
    BY <1>1, <2>1, <2>2, Numbers
       DEF ExpireNonce, NonceSound, CallSound, DbSound, RedisSound, Exact, Traceless
<1>4. NoncesSound'
  BY <1>3 DEF NoncesSound
<1> QED
  BY <1>2, <1>4, NoncesChange DEF ExpireNonce

LEMMA CleanNoncesCorrect ==
    ASSUME IInv, CleanNonces
    PROVE  IInv'
<1>1. /\ dbNonce' \in [Calls -> 0..(Tolerance + 1) \cup {NULL}]
      /\ \A d \in Calls : \/ dbNonce'[d] = dbNonce[d]
                          \/ dbNonce'[d] = NULL /\ dbNonce[d] # NULL /\ dbNonce[d] > Tolerance
  BY DEF CleanNonces, IInv, NoncesTyped
<1>2. NoncesTyped'
  BY <1>1 DEF CleanNonces, IInv, NoncesTyped
<1>3. ASSUME NEW d \in Calls PROVE NonceSound(d)'
  <2>1. NonceSound(d) /\ (dbNonce[d] # NULL => dbNonce[d] \in Int)
    BY Numbers DEF IInv, NoncesSound, NoncesTyped
  <2>2. signed[d] # NULL => signed[d].age \in Int
    BY Numbers DEF IInv, SignedTyped
  <2> QED
    BY <1>1, <2>1, <2>2, Numbers
       DEF CleanNonces, NonceSound, CallSound, DbSound, RedisSound, Exact, Traceless
<1>4. NoncesSound'
  BY <1>3 DEF NoncesSound
<1> QED
  BY <1>2, <1>4, NoncesChange DEF CleanNonces

\* A unit of time passes for the call and for what is remembered of it
LEMMA TickCorrect ==
    ASSUME IInv, Tick
    PROVE  IInv'
<1>1. AdminTyped'
  <2>1. project.rotated \in 0..Grace /\ More(project.rotated, Grace) \in 0..Grace
    BY Numbers DEF IInv, AdminTyped, ProjectRows, More
  <2>2. project' = [project EXCEPT !.rotated = More(project.rotated, Grace)]
    BY DEF Tick
  <2> QED
    BY <2>1, <2>2 DEF Tick, IInv, AdminTyped, ProjectRows
<1>2. GuardsTyped' /\ GuardsSound'
  BY DEF Tick, IInv, GuardsTyped, GuardStates, GuardsSound, Idle
<1>3. ASSUME NEW c \in Calls
      PROVE  /\ signed'[c] \in SignedCalls \cup {NULL}
             /\ signed'[c] = NULL <=> signed[c] = NULL
             /\ signed[c] # NULL =>
                  /\ signed[c].age \in Int /\ signed[c].age <= Tolerance + 1
                  /\ signed'[c].age = More(signed[c].age, Tolerance + 1)
                  /\ signed'[c].ahead = signed[c].ahead
                  /\ signed'[c].age \in -Ahead..(Tolerance + 1)
  <2>1. CASE signed[c] = NULL
    BY <2>1 DEF Tick
  <2>2. CASE signed[c] # NULL
    <3>1. signed[c] \in SignedCalls /\ signed[c].age \in -Ahead..(Tolerance + 1)
      BY <2>2 DEF IInv, SignedTyped
    <3>2. signed'[c] = [signed[c] EXCEPT !.age = More(signed[c].age, Tolerance + 1)]
      BY <2>2 DEF Tick
    <3>3. More(signed[c].age, Tolerance + 1) \in -Ahead..(Tolerance + 1)
      BY <3>1, Numbers DEF More
    <3>4. signed'[c] \in SignedCalls
      BY <3>1, <3>2, <3>3 DEF SignedCalls
    <3> QED
      BY <2>2, <3>1, <3>2, <3>3, <3>4, Numbers DEF SignedCalls
  <2> QED
    BY <2>1, <2>2
<1>4. SignedTyped'
  <2>1. DOMAIN signed' = Calls /\ signed' = [c \in Calls |-> signed'[c]]
    BY DEF Tick
  <2> QED
    BY <1>3, <2>1 DEF SignedTyped
<1>5. ASSUME NEW c \in Calls
      PROVE  /\ redisNonce'[c] = IF redisNonce[c] \in {NULL, 0} THEN NULL ELSE redisNonce[c] - 1
             /\ dbNonce'[c] = IF dbNonce[c] = NULL THEN NULL ELSE More(dbNonce[c], Tolerance + 1)
             /\ redisNonce[c] \in 0..Tolerance \cup {NULL}
             /\ dbNonce[c] \in 0..(Tolerance + 1) \cup {NULL}
             /\ redisNonce'[c] \in 0..Tolerance \cup {NULL}
             /\ dbNonce'[c] \in 0..(Tolerance + 1) \cup {NULL}
  <2>1. /\ redisNonce'[c] = IF redisNonce[c] \in {NULL, 0} THEN NULL ELSE redisNonce[c] - 1
        /\ dbNonce'[c] = IF dbNonce[c] = NULL THEN NULL ELSE More(dbNonce[c], Tolerance + 1)
    BY DEF Tick
  <2>2. /\ redisNonce[c] \in 0..Tolerance \cup {NULL}
        /\ dbNonce[c] \in 0..(Tolerance + 1) \cup {NULL}
    BY DEF IInv, NoncesTyped
  <2>3. redisNonce'[c] \in 0..Tolerance \cup {NULL}
    BY <2>1, <2>2, Numbers
  <2>4. dbNonce'[c] \in 0..(Tolerance + 1) \cup {NULL}
    BY <2>1, <2>2, Numbers DEF More
  <2> QED
    BY <2>1, <2>2, <2>3, <2>4
<1>6. NoncesTyped'
  <2>1. /\ redisNonce' = [c \in Calls |-> redisNonce'[c]]
        /\ dbNonce' = [c \in Calls |-> dbNonce'[c]]
    BY DEF Tick
  <2> QED
    BY <1>5, <2>1 DEF Tick, IInv, NoncesTyped
<1>7. ASSUME NEW c \in Calls PROVE NonceSound(c)'
  <2>1. NonceSound(c) /\ served' = served
    BY DEF IInv, NoncesSound, Tick
  <2>2. CallSound(c)'
    BY <1>3, <1>5, <2>1, Numbers DEF NonceSound, CallSound, Traceless, Exact, More
  <2>3. DbSound(c)'
    BY <1>3, <1>5, <2>1, Numbers DEF NonceSound, CallSound, DbSound, Exact, More
  <2>4. RedisSound(c)'
    BY <1>3, <1>5, <2>1, Numbers DEF NonceSound, CallSound, RedisSound, Exact, More
  <2> QED
    BY <2>2, <2>3, <2>4 DEF NonceSound
<1> QED
  BY <1>1, <1>2, <1>4, <1>6, <1>7 DEF IInv, NoncesSound
-----------------------------------------------------------------------------
LEMMA NextCorrect == IInv /\ [Next]_vars => IInv'
<1> SUFFICES ASSUME IInv, [Next]_vars PROVE IInv'
  OBVIOUS
<1>1. ASSUME NEW p \in Procs, Guard(p) PROVE IInv'
  BY <1>1, DeliverCorrect, LookupCorrect, VerifyCorrect, RedisNonceCorrect, RedisFailsCorrect,
     InsertNonceCorrect, MismatchedCorrect DEF Guard
<1>2. ASSUME NEW c \in Calls, Sign(c) \/ ExpireNonce(c) PROVE IInv'
  BY <1>2, SignCorrect, ExpireNonceCorrect
<1>3. ASSUME NEW k \in Clicks, Execute(k) \/ \E do \in {"update", "rotate"} : Show(k, do)
      PROVE  IInv'
  BY <1>3, ExecuteCorrect, ShowCorrect
<1>4. CASE InstallSecret \/ CleanSecret \/ CleanNonces \/ ToggleRedis \/ Tick
  BY <1>4, InstallSecretCorrect, CleanSecretCorrect, CleanNoncesCorrect, ToggleRedisCorrect,
     TickCorrect
<1>5. CASE UNCHANGED vars
  BY <1>5, AdminKept, CallsKept DEF vars, admin, nonces
<1> QED
  BY <1>1, <1>2, <1>3, <1>4, <1>5 DEF Next

\* However often a call is delivered to however many guards, and whenever Redis
\* fails or a batch cleans up, each store lets it pass once, but for the last unit
\* of its timestamp in Redis (s2s-auth.guard.ts consumeNonce).
THEOREM CallsCorrect == Spec => []CallsSound
<1>1. Spec => []IInv
  BY InitCorrect, NextCorrect, PTL DEF Spec
<1> QED
  BY <1>1, InvImplies, PTL
-----------------------------------------------------------------------------
\* The previous secret stays in its slot until the grace period is over
GraceSound(row) ==
    /\ row.prev \in {0, row.secret - 1}
    /\ row.prev = 0 => row.secret = 1 \/ row.rotated >= Grace

AtKeys(p) == guard[p].pc \in {"verify", "mismatch"}
KeysSound ==
    /\ GraceSound(project)
    /\ \A c \in Calls : signed[c] # NULL => signed[c].secret >= 1
    /\ \A p \in Procs : AtKeys(p) => GraceSound(guard[p].row)
    /\ \A p \in Procs : guard[p].pc = "mismatch" =>
         signed[guard[p].call].secret \notin Candidates(guard[p].row)

\* A click was shown the row as it is, unless edit_count has moved on
SeenSound ==
    \A k \in Clicks : click[k] # None /\ click[k].seen.edits = project.edits =>
        click[k].seen.secret = project.secret /\ click[k].seen.active = project.active

LEMMA KeysImply == IInv /\ KeysSound => ReplacedSecretWorks
<1> SUFFICES ASSUME IInv, KeysSound, NEW p \in Procs, guard[p].pc = "mismatch"
             PROVE  LET used == signed[guard[p].call].secret
                        row  == guard[p].row
                    IN  used # row.secret /\ (used = row.secret - 1 => row.rotated >= Grace)
  BY DEF ReplacedSecretWorks
<1> DEFINE used == signed[guard[p].call].secret
           row == guard[p].row
<1>1. guard[p].call \in Calls /\ Accepted(guard[p].call)
  BY AtCall
<1>2. row \in KeyRows
  BY DEF IInv, GuardsTyped, GuardStates, Idle
<1>3. used >= 1 /\ used \notin Candidates(row) /\ GraceSound(row)
  BY <1>1 DEF KeysSound, AtKeys, Accepted
<1>4. used \in Nat
  BY <1>1 DEF IInv, SignedTyped, Accepted, SignedCalls
<1>5. used # row.secret
  BY <1>2, <1>3, Numbers DEF Candidates, KeyRows, Secrets
<1>6. ASSUME used = row.secret - 1 PROVE row.rotated >= Grace
  BY <1>2, <1>3, <1>4, <1>6, Numbers DEF Candidates, KeyRows, GraceSound, Secrets
<1> QED
  BY <1>5, <1>6

LEMMA KeysInit == Init => KeysSound /\ SeenSound
BY Numbers DEF Init, KeysSound, GraceSound, AtKeys, Idle, SeenSound

\* The row changes through an administrator, who replaces a secret, or through
\* the batch, which clears one whose grace period is over
LEMMA GraceKept == IInv /\ KeysSound /\ [Next]_vars => GraceSound(project)'
<1> SUFFICES ASSUME IInv, KeysSound, [Next]_vars PROVE GraceSound(project)'
  OBVIOUS
<1> USE Numbers DEF IInv, AdminTyped, ProjectRows, Secrets, KeysSound, GraceSound
<1>1. CASE UNCHANGED project
  BY <1>1
<1>2. ASSUME NEW k \in Clicks, Execute(k), ~UNCHANGED project PROVE GraceSound(project)'
  <2>1. CASE project' \in Changed
    BY <2>1 DEF Changed
  <2>2. CASE project' \in Rotated
    <3>1. project' = [project EXCEPT !.prev = project.secret, !.secret = @ + 1, !.rotated = 0,
                                     !.edits = @ + 1]
      BY <2>2 DEF Rotated
    <3>2. project'.prev = project.secret /\ project'.secret = project.secret + 1
      BY <3>1
    <3> QED
      BY <3>2
  <2> QED
    BY <1>2, <2>1, <2>2 DEF Execute
<1>3. CASE CleanSecret
  BY <1>3 DEF CleanSecret
<1>4. CASE Tick
  BY <1>4 DEF Tick, More
<1> QED
  BY <1>1, <1>2, <1>3, <1>4 DEF Next, vars, admin, nonces, Guard, Sign, ExpireNonce, Show,
     InstallSecret, CleanNonces, ToggleRedis, Deliver, LookupProject, VerifySignature,
     RedisNonce, RedisFails, InsertNonce, Mismatched

\* A secret is in no call before it is issued, and a call keeps its secret
LEMMA SecretKept ==
    IInv /\ KeysSound /\ [Next]_vars =>
        \A c \in Calls : /\ signed'[c] # NULL => signed'[c].secret >= 1
                         /\ signed[c] # NULL => signed'[c].secret = signed[c].secret
<1> SUFFICES ASSUME IInv, KeysSound, [Next]_vars, NEW c \in Calls
             PROVE  /\ signed'[c] # NULL => signed'[c].secret >= 1
                    /\ signed[c] # NULL => signed'[c].secret = signed[c].secret
  OBVIOUS
<1>1. CASE UNCHANGED signed
  BY <1>1 DEF KeysSound
<1>2. ASSUME NEW d \in Calls, Sign(d)
      PROVE  /\ signed'[c] # NULL => signed'[c].secret >= 1
             /\ signed[c] # NULL => signed'[c].secret = signed[c].secret
  BY <1>2, Numbers DEF Sign, IInv, AdminTyped, Secrets, SignedTyped, KeysSound
<1>3. CASE Tick
  BY <1>3 DEF Tick, IInv, SignedTyped, SignedCalls, KeysSound
<1> QED
  BY <1>1, <1>2, <1>3 DEF Next, vars, admin, nonces, Guard, ExpireNonce, Show, Execute,
     InstallSecret, CleanSecret, CleanNonces, ToggleRedis, Deliver, LookupProject,
     VerifySignature, RedisNonce, RedisFails, InsertNonce, Mismatched

\* A guard compares the call with the secrets of the row it has read
LEMMA MismatchKept ==
    IInv /\ KeysSound /\ [Next]_vars =>
        \A p \in Procs : /\ AtKeys(p)' => GraceSound(guard'[p].row)
                         /\ guard'[p].pc = "mismatch" =>
                              signed'[guard'[p].call].secret \notin Candidates(guard'[p].row)
<1> DEFINE Sound(p) == /\ AtKeys(p)' => GraceSound(guard'[p].row)
                       /\ guard'[p].pc = "mismatch" =>
                            signed'[guard'[p].call].secret \notin Candidates(guard'[p].row)
<1> SUFFICES ASSUME IInv, KeysSound, [Next]_vars, NEW p \in Procs PROVE Sound(p)
  OBVIOUS
<1>1. CASE guard'[p] = guard[p]
  <2>1. ASSUME guard[p].pc = "mismatch"
        PROVE  signed'[guard[p].call].secret = signed[guard[p].call].secret
    BY <2>1, AtCall, SecretKept DEF Accepted
  <2> QED
    BY <1>1, <2>1 DEF KeysSound, AtKeys
<1>2. CASE guard'[p].pc \notin {"verify", "mismatch"}
  BY <1>2 DEF AtKeys
<1>3. CASE LookupProject(p)
  <2>1. CASE project.active
    <3>1. guard'[p] = [pc |-> "verify", call |-> guard[p].call, row |-> Keys]
      BY <1>3, <2>1 DEF LookupProject, Goto, IInv, GuardsTyped
    <3> QED
      BY <3>1 DEF Keys, KeysSound, GraceSound, AtKeys
  <2>2. CASE ~project.active
    BY <1>2, <1>3, <2>2 DEF LookupProject, Goto, IInv, GuardsTyped, Idle
  <2> QED
    BY <2>1, <2>2
<1>4. CASE VerifySignature(p)
  <2>1. CASE signed[guard[p].call].secret \in Candidates(guard[p].row)
    BY <1>2, <1>4, <2>1 DEF VerifySignature, Goto, IInv, GuardsTyped
  <2>2. CASE signed[guard[p].call].secret \notin Candidates(guard[p].row)
    <3>1. guard[p] \in [pc : {"verify", "mismatch"}, call : Calls, row : KeyRows]
      BY <1>4 DEF VerifySignature, IInv, GuardsTyped, GuardStates, Idle
    <3>2. guard'[p] = [guard[p] EXCEPT !.pc = "mismatch"] /\ signed' = signed
      BY <1>4, <2>2 DEF VerifySignature, Goto, IInv, GuardsTyped
    <3>3. guard'[p].call = guard[p].call /\ guard'[p].row = guard[p].row
      BY <3>1, <3>2
    <3> QED
      BY <1>4, <2>2, <3>2, <3>3 DEF KeysSound, AtKeys, VerifySignature
  <2> QED
    BY <2>1, <2>2
<1>5. ASSUME NEW q \in Procs, Guard(q)
      PROVE  \/ guard'[p] = guard[p] \/ guard'[p].pc \notin {"verify", "mismatch"}
             \/ LookupProject(p) \/ VerifySignature(p)
  <2>1. CASE q # p
    BY <1>5, <2>1 DEF Guard, Deliver, LookupProject, VerifySignature, RedisNonce, RedisFails,
       InsertNonce, Mismatched, Pass, Goto, IInv, GuardsTyped
  <2>2. CASE q = p
    BY <1>5, <2>2 DEF Guard, Deliver, RedisNonce, RedisFails, InsertNonce, Mismatched, Pass,
       Goto, IInv, GuardsTyped, Idle
  <2> QED
    BY <2>1, <2>2
<1>6. CASE UNCHANGED guard
  BY <1>1, <1>6
<1> QED
  BY <1>1, <1>2, <1>3, <1>4, <1>5, <1>6 DEF Next, vars, Sign, ExpireNonce, Show, Execute,
     InstallSecret, CleanSecret, CleanNonces, ToggleRedis, Tick

LEMMA KeysKept == IInv /\ KeysSound /\ [Next]_vars => KeysSound'
<1> SUFFICES ASSUME IInv, KeysSound, [Next]_vars PROVE KeysSound'
  OBVIOUS
<1>1. GraceSound(project)' /\ \A p \in Procs : AtKeys(p)' => GraceSound(guard[p].row)'
  BY GraceKept, MismatchKept DEF GraceSound
<1>2. \A p \in Procs : guard'[p].pc = "mismatch" =>
        signed'[guard'[p].call].secret \notin Candidates(guard'[p].row)
  BY MismatchKept
<1> QED
  BY <1>1, <1>2, SecretKept DEF KeysSound, Candidates

LEMMA SeenKept == IInv /\ SeenSound /\ [Next]_vars => SeenSound'
<1> SUFFICES ASSUME IInv, SeenSound, [Next]_vars, NEW k \in Clicks, click'[k] # None,
                    click'[k].seen.edits = project'.edits
             PROVE  /\ click'[k].seen.secret = project'.secret
                    /\ click'[k].seen.active = project'.active
  BY DEF SeenSound
<1>1. CASE UNCHANGED admin
  BY <1>1 DEF admin, SeenSound
<1>2. CASE UNCHANGED click /\ (CleanSecret \/ Tick)
  BY <1>2 DEF CleanSecret, Tick, SeenSound, IInv, AdminTyped, ProjectRows
<1>3. ASSUME NEW j \in Clicks, NEW do \in {"update", "rotate"}, Show(j, do)
      PROVE  /\ click'[k].seen.secret = project'.secret
             /\ click'[k].seen.active = project'.active
  <2>1. project' = project
    BY <1>3 DEF Show
  <2>2. \/ click'[k] = [do |-> do, seen |-> Shown]
        \/ \E other \in Clicks : click'[k] = click[other]
    BY <1>3 DEF Show, IInv, AdminTyped
  <2> QED
    BY <2>1, <2>2 DEF SeenSound, Shown
<1>4. ASSUME NEW j \in Clicks, Execute(j)
      PROVE  /\ click'[k].seen.secret = project'.secret
             /\ click'[k].seen.active = project'.active
  <2>1. click'[k] = click[k] /\ click[k] # None
    BY <1>4 DEF Execute, IInv, AdminTyped
  <2>2. CASE project' = project
    BY <2>1, <2>2 DEF SeenSound
  <2>3. CASE project' # project
    <3>1. project'.edits = project.edits + 1
      BY <1>4, <2>3, Numbers DEF Execute, Changed, Rotated, IInv, AdminTyped, ProjectRows
    <3>2. /\ project.edits \in Int /\ click[k].seen.edits \in Int
          /\ click[k].seen.edits <= project.edits
      BY <2>1, Numbers DEF IInv, AdminTyped, ProjectRows, ClickStates
    <3> QED
      BY <2>1, <3>1, <3>2
  <2> QED
    BY <2>2, <2>3
<1>5. CASE InstallSecret \/ CleanNonces \/ ToggleRedis
  BY <1>1, <1>5 DEF InstallSecret, CleanNonces, ToggleRedis, admin
<1>6. ASSUME NEW p \in Procs, Guard(p) PROVE UNCHANGED admin
  BY <1>6 DEF Guard, Deliver, LookupProject, VerifySignature, RedisNonce, RedisFails,
     InsertNonce, Mismatched, Pass
<1>7. ASSUME NEW c \in Calls, Sign(c) \/ ExpireNonce(c) PROVE UNCHANGED admin
  BY <1>7 DEF Sign, ExpireNonce
<1> QED
  BY <1>1, <1>2, <1>3, <1>4, <1>5, <1>6, <1>7 DEF Next, vars, admin, CleanSecret, Tick

\* Who changes the row was shown it
LEMMA ChangedSeen ==
    IInv /\ SeenSound /\ [Next]_vars =>
        (project'.edits # project.edits =>
            \E k \in Clicks : /\ click[k].do # "none" /\ click'[k] = None
                              /\ click[k].seen.secret = project.secret
                              /\ click[k].seen.active = project.active)
<1> SUFFICES ASSUME IInv, SeenSound, [Next]_vars, project'.edits # project.edits
             PROVE  \E k \in Clicks : /\ click[k].do # "none" /\ click'[k] = None
                                      /\ click[k].seen.secret = project.secret
                                      /\ click[k].seen.active = project.active
  OBVIOUS
<1>1. CleanSecret \/ Tick => project'.edits = project.edits
  BY DEF CleanSecret, Tick, IInv, AdminTyped, ProjectRows
<1>2. PICK k \in Clicks : Execute(k)
  BY <1>1 DEF Next, vars, admin, nonces, Guard, Sign, ExpireNonce, Show, InstallSecret,
     CleanNonces, ToggleRedis, Deliver, LookupProject, VerifySignature, RedisNonce, RedisFails,
     InsertNonce, Mismatched
<1>3. Fresh(k)
  BY <1>2 DEF Execute
<1>4. click[k].do # "none" /\ click'[k] = None /\ click[k].seen.edits = project.edits
  BY <1>2, <1>3 DEF Execute, Fresh, IInv, AdminTyped
<1>5. click[k] # None
  BY <1>4 DEF None
<1> QED
  BY <1>4, <1>5 DEF SeenSound

LEMMA GateCorrect == Spec => [](IInv /\ KeysSound /\ SeenSound)
BY InitCorrect, NextCorrect, KeysInit, KeysKept, SeenKept, PTL DEF Spec

\* Whatever is edited, rotated and cleaned up: until the grace period is over,
\* no call is refused for being signed with the secret that was replaced
\* (project.service.ts, api-secret-cleanup.service.ts).
THEOREM KeysCorrect == Spec => []ReplacedSecretWorks
BY GateCorrect, KeysImply, PTL

\* A double click replaces the secret once, and no administrator edits what it
\* was not shown (SP_PROJECT_UPDATE, SP_PROJECT_API_SECRET_ROTATE).
THEOREM ClicksCorrect == Spec => ChangedKnowingly
BY GateCorrect, ChangedSeen, PTL DEF Spec, ChangedKnowingly
=============================================================================
