--------------------------- MODULE TrafficProofs ---------------------------
(***************************************************************************)
(* What stands around the calls of game servers: the limiters pass no more *)
(* than they promise and say the truth about when to come back, batches    *)
(* run once at a time and never wedge a pool, a scan of the unconfirmed    *)
(* list misses nothing without a reason, and the test game server stops    *)
(* gracefully and raises no false alarm. One inductive invariant each.     *)
(***************************************************************************)
EXTENDS MCTraffic, FiniteSetTheorems, NaturalsInduction, WellFoundedInduction,
        SequenceTheorems, TLAPS

-----------------------------------------------------------------------------
(* BatchPool: the invariant                                                *)

Places == {"idle", "first", "acquire", "second", "query", "release"}
TaskStates == [pc : Places, own : Conns \cup {NULL}, alive : BOOLEAN]

PoolTables ==
    /\ conn \in [Conns -> Tasks \cup {NULL}]
    /\ lock \in [Batches -> Conns \cup {NULL}]
    /\ queue \in [Replicas -> Seq(Tasks)]
    /\ task \in [Tasks -> TaskStates]

\* Who waits is in the queue of the own replica, once
Queued == {"first", "second"}
QueueSound ==
    \A r \in Replicas : \A i \in DOMAIN queue[r] :
        /\ task[queue[r][i]].pc \in Queued
        /\ ReplicaOf[queue[r][i]] = r
        /\ \A j \in DOMAIN queue[r] : queue[r][i] = queue[r][j] => i = j

ConnSound == \A c \in Conns : conn[c] # NULL => ReplicaOf[conn[c]] = ReplicaOf[c]

\* A run past SP_LOCK_ACQUIRE keeps its connection, and that owns the lock as
\* long as its session is alive
Runs(t) == BatchOf[t] # NULL /\ task[t].pc \in {"second", "query", "release"}
RunSound(t) ==
    IF Runs(t)
    THEN /\ task[t].own \in Conns /\ conn[task[t].own] = t
         /\ task[t].alive => lock[BatchOf[t]] = task[t].own
    ELSE task[t].own = NULL
\* It waits with this one connection
HoldSound(t) ==
    /\ task[t].pc \in {"idle", "first"} <=> \A c \in Conns : conn[c] # t
    /\ task[t].pc \in {"acquire", "second"} =>
         \A c, d \in Conns : conn[c] = t /\ conn[d] = t => c = d
TaskSound(t) ==
    /\ RunSound(t) /\ HoldSound(t)
    /\ task[t].pc = "second" => task[t].alive
    /\ BatchOf[t] = NULL => task[t].pc \in {"idle", "first", "query"}
PoolInv == PoolTables /\ QueueSound /\ ConnSound /\ \A t \in Tasks : TaskSound(t)

-----------------------------------------------------------------------------
(* What the invariant says                                                 *)

LEMMA OneRun ==
    ASSUME PoolInv, NEW t \in Tasks, NEW u \in Tasks, Runs(t), Runs(u),
           BatchOf[t] = BatchOf[u], task[t].alive, task[u].alive
    PROVE  t = u
BY DEF PoolInv, TaskSound, RunSound

LEMMA InvExclusive == PoolInv => RunsExclusively
BY OneRun DEF RunsExclusively, Runs

\* Were a whole pool held by runs that wait, two of them would run one batch
LEMMA InvUnwedged == PoolInv => PoolNeverWedged
<1> SUFFICES ASSUME PoolInv, NEW r \in Replicas,
                    \A c \in ConnsOf(r) : conn[c] # NULL /\ Doing(conn[c], "second")
             PROVE  FALSE
  BY DEF PoolNeverWedged
<1>1. \A c \in ConnsOf(r) :
        /\ c \in Conns /\ conn[c] \in Tasks /\ task[conn[c]].pc = "second"
        /\ BatchOf[conn[c]] \in Batches
  <2> TAKE c \in ConnsOf(r)
  <2>1. c \in Conns /\ conn[c] \in Tasks /\ task[conn[c]].pc = "second"
    BY DEF ConnsOf, PoolInv, PoolTables, Doing
  <2>2. BatchOf[conn[c]] # NULL
    BY <2>1 DEF PoolInv, TaskSound
  <2> QED
    BY <2>1, <2>2, PoolAssumption
<1> DEFINE f == [c \in ConnsOf(r) |-> BatchOf[conn[c]]]
<1>2. f \in [ConnsOf(r) -> Batches]
  BY <1>1
<1>3. IsFiniteSet(ConnsOf(r))
  BY PoolAssumption, FS_Subset DEF ConnsOf
<1>4. IsFiniteSet(Batches) /\ Cardinality(Batches) \in Nat /\ Cardinality(ConnsOf(r)) \in Nat
      /\ Cardinality(Batches) < Cardinality(ConnsOf(r))
  BY <1>3, PoolAssumption, FS_CardinalityType
<1>5. PICK c, d \in ConnsOf(r) : c # d /\ f[c] = f[d]
  <2> HIDE DEF f
  <2> QED
    BY <1>2, <1>3, <1>4, FS_PigeonHole
<1>6. BatchOf[conn[c]] = BatchOf[conn[d]]
  BY <1>5
<1>7. Runs(conn[c]) /\ Runs(conn[d]) /\ task[conn[c]].alive /\ task[conn[d]].alive
  BY <1>1, <1>5, PoolAssumption DEF Runs, PoolInv, TaskSound
<1>8. conn[c] = conn[d]
  BY <1>1, <1>5, <1>6, <1>7, OneRun
<1> QED
  BY <1>1, <1>5, <1>8 DEF PoolInv, TaskSound, HoldSound

LEMMA InvTypes == PoolInv => PoolTypeOK
<1> SUFFICES ASSUME PoolInv PROVE PoolTypeOK
  OBVIOUS
<1>1. /\ conn \in [Conns -> Tasks \cup {NULL}] /\ lock \in [Batches -> Conns \cup {NULL}]
      /\ \A r \in Replicas : queue[r] \in Seq(Tasks)
  BY DEF PoolInv, PoolTables
<1>2. ASSUME NEW t \in Tasks
      PROVE  /\ task[t].pc \in Places
             /\ task[t].pc \in {"idle", "first"} <=> Held(t) = {}
             /\ task[t].own \in Held(t) \cup {NULL}
             /\ Held(t) \subseteq ConnsOf(ReplicaOf[t])
  <2>1. task[t] \in TaskStates /\ TaskSound(t)
    BY DEF PoolInv, PoolTables
  <2>2. Held(t) \subseteq ConnsOf(ReplicaOf[t])
    BY PoolAssumption DEF Held, ConnsOf, PoolInv, ConnSound
  <2> QED
    BY <2>1, <2>2 DEF TaskStates, TaskSound, RunSound, HoldSound, Held
<1> QED
  BY <1>1, <1>2 DEF PoolTypeOK, Places

-----------------------------------------------------------------------------
(* Frames                                                                  *)

LEMMA Untouched ==
    ASSUME NEW q \in Tasks, TaskSound(q), task'[q] = task[q],
           \A c \in Conns : conn'[c] = q <=> conn[c] = q,
           Runs(q) /\ task[q].alive => lock'[BatchOf[q]] = task[q].own
    PROVE  TaskSound(q)'
BY DEF TaskSound, RunSound, HoldSound, Runs

\* One who does not wait changes, and does not begin to
LEMMA QueueKept ==
    ASSUME PoolTables, QueueSound, NEW t \in Tasks, task[t].pc \notin Queued, NEW x,
           queue' = queue, task' = [task EXCEPT ![t] = x]
    PROVE  QueueSound'
<1>1. ASSUME NEW r \in Replicas, NEW i \in DOMAIN queue[r]
      PROVE  task'[queue[r][i]] = task[queue[r][i]]
  <2>1. queue[r][i] \in Tasks /\ queue[r][i] # t
    BY DEF PoolTables, QueueSound
  <2> QED
    BY <2>1 DEF PoolTables
<1> QED
  BY <1>1 DEF QueueSound

\* One who does not wait begins to
LEMMA QueueJoined ==
    ASSUME PoolTables, QueueSound, NEW t \in Tasks, task[t].pc \notin Queued,
           NEW x, x.pc \in Queued, Wait(t), task' = [task EXCEPT ![t] = x]
    PROVE  QueueSound' /\ queue' \in [Replicas -> Seq(Tasks)]
<1>1. PICK r \in Replicas : r = ReplicaOf[t]
  BY PoolAssumption
<1>2. queue' = [queue EXCEPT ![r] = Append(queue[r], t)]
  BY <1>1 DEF Wait
<1>3. \A q \in Replicas : queue[q] \in Seq(Tasks)
  BY DEF PoolTables
<1>4. queue' \in [Replicas -> Seq(Tasks)]
  BY <1>2, <1>3 DEF PoolTables
<1>5. ASSUME NEW q \in Replicas, NEW i \in DOMAIN queue[q]
      PROVE  queue[q][i] \in Tasks /\ queue[q][i] # t
             /\ task'[queue[q][i]] = task[queue[q][i]]
  <2>1. queue[q][i] \in Tasks /\ queue[q][i] # t
    BY <1>3 DEF QueueSound
  <2> QED
    BY <2>1 DEF PoolTables
<1>6. task'[t] = x
  BY DEF PoolTables
<1>7. ASSUME NEW q \in Replicas, NEW i \in DOMAIN queue'[q]
      PROVE  /\ task'[queue'[q][i]].pc \in Queued
             /\ ReplicaOf[queue'[q][i]] = q
             /\ \A j \in DOMAIN queue'[q] : queue'[q][i] = queue'[q][j] => i = j
  <2>1. CASE q # r
    <3>1. queue'[q] = queue[q]
      BY <1>2, <2>1 DEF PoolTables
    <3> QED
      BY <1>5, <1>7, <3>1 DEF QueueSound
  <2>2. CASE q = r
    <3>1. queue'[q] = Append(queue[q], t)
      BY <1>2, <2>2 DEF PoolTables
    <3>2. /\ DOMAIN queue'[q] = 1..(Len(queue[q]) + 1) /\ DOMAIN queue[q] = 1..Len(queue[q])
          /\ Len(queue[q]) \in Nat /\ queue'[q][Len(queue[q]) + 1] = t
          /\ \A j \in DOMAIN queue[q] : queue'[q][j] = queue[q][j]
      BY <1>3, <3>1
    <3>3. CASE i \in DOMAIN queue[q]
      <4>1. ASSUME NEW j \in DOMAIN queue'[q], queue'[q][i] = queue'[q][j] PROVE i = j
        <5>1. j \in DOMAIN queue[q]
          BY <1>5, <3>2, <3>3, <4>1
        <5> QED
          BY <3>2, <3>3, <4>1, <5>1 DEF QueueSound
      <4> QED
        BY <1>5, <3>2, <3>3, <4>1 DEF QueueSound
    <3>4. CASE i = Len(queue[q]) + 1
      <4>1. ASSUME NEW j \in DOMAIN queue'[q], queue'[q][i] = queue'[q][j] PROVE i = j
        <5>1. j \notin DOMAIN queue[q]
          BY <1>5, <3>2, <3>4, <4>1
        <5> QED
          BY <3>2, <3>4, <5>1
      <4> QED
        BY <1>1, <1>6, <2>2, <3>2, <3>4, <4>1
    <3> QED
      BY <1>7, <3>2, <3>3, <3>4
  <2> QED
    BY <2>1, <2>2
<1> QED
  BY <1>4, <1>7 DEF QueueSound

-----------------------------------------------------------------------------
(* Every step                                                              *)

LEMMA PoolInitCorrect == PoolInit => PoolInv
<1> SUFFICES ASSUME PoolInit PROVE PoolInv
  OBVIOUS
<1>1. PoolTables
  BY DEF PoolInit, PoolTables, Resting, TaskStates, Places
<1>2. QueueSound /\ ConnSound
  BY DEF PoolInit, QueueSound, ConnSound
<1>3. \A t \in Tasks : TaskSound(t)
  BY PoolAssumption DEF PoolInit, Resting, TaskSound, RunSound, HoldSound, Runs
<1> QED
  BY <1>1, <1>2, <1>3 DEF PoolInv

LEMMA FireCorrect ==
    ASSUME PoolInv, NEW t \in Tasks, Fire(t)
    PROVE  PoolInv'
<1>1. task[t] \in TaskStates /\ TaskSound(t) /\ PoolTables /\ QueueSound
  BY DEF PoolInv, PoolTables
<1>2. PICK x : x = [task[t] EXCEPT !.pc = "first"]
  OBVIOUS
<1>3. task' = [task EXCEPT ![t] = x] /\ task'[t] = x
  BY <1>1, <1>2 DEF Fire, Become, PoolTables
<1>4. x \in TaskStates /\ x.pc = "first" /\ x.own = task[t].own
  BY <1>1, <1>2 DEF TaskStates, Places
<1>5. QueueSound' /\ queue' \in [Replicas -> Seq(Tasks)]
  <2>1. task[t].pc \notin Queued /\ x.pc \in Queued /\ Wait(t)
    BY <1>4 DEF Fire, Doing, Queued
  <2> QED
    BY <1>1, <1>3, <2>1, QueueJoined
<1>6. PoolTables'
  BY <1>1, <1>3, <1>4, <1>5 DEF Fire, PoolTables
<1>7. TaskSound(t)'
  BY <1>1, <1>3, <1>4 DEF Fire, Doing, TaskSound, RunSound, HoldSound, Runs
<1>8. ASSUME NEW q \in Tasks, q # t PROVE TaskSound(q)'
  <2>1. task'[q] = task[q] /\ TaskSound(q)
    BY <1>1, <1>3, <1>8 DEF PoolInv, PoolTables
  <2> QED
    BY <2>1, Untouched DEF Fire, TaskSound, RunSound
<1>9. ConnSound'
  BY DEF Fire, PoolInv, ConnSound
<1> QED
  BY <1>5, <1>6, <1>7, <1>8, <1>9 DEF PoolInv

LEMMA GrantCorrect ==
    ASSUME PoolInv, NEW r \in Replicas, Grant(r)
    PROVE  PoolInv'
<1>1. PICK q : q = queue[r]
  OBVIOUS
<1>2. q \in Seq(Tasks) /\ q # <<>> /\ PoolTables /\ QueueSound
  BY <1>1 DEF Grant, PoolInv, PoolTables
<1>3. PICK t \in Tasks : t = Head(q)
  BY <1>2
<1>4. 1 \in DOMAIN q /\ t = q[1]
  BY <1>2, <1>3
<1>5. task[t] \in TaskStates /\ TaskSound(t) /\ task[t].pc \in Queued /\ ReplicaOf[t] = r
  BY <1>1, <1>2, <1>4 DEF PoolInv, PoolTables, QueueSound
<1>6. PICK c \in Free(r) : conn' = [conn EXCEPT ![c] = t]
  BY <1>1, <1>3 DEF Grant
<1>7. c \in Conns /\ ReplicaOf[c] = r /\ conn[c] = NULL
  BY <1>6 DEF Free, ConnsOf
<1>8. PICK pc : pc = IF task[t].pc = "first" /\ BatchOf[t] # NULL THEN "acquire" ELSE "query"
  OBVIOUS
<1>9. PICK x : x = [task[t] EXCEPT !.pc = pc]
  OBVIOUS
<1>10. task' = [task EXCEPT ![t] = x] /\ task'[t] = x
  BY <1>1, <1>2, <1>3, <1>8, <1>9 DEF Grant, Become, Doing, PoolTables
<1>11. x \in TaskStates /\ x.pc = pc /\ x.own = task[t].own /\ x.alive = task[t].alive
  BY <1>5, <1>8, <1>9 DEF TaskStates, Places
<1>12. queue' = [queue EXCEPT ![r] = Tail(q)] /\ lock' = lock
  BY <1>1 DEF Grant
<1>13. /\ Tail(q) \in Seq(Tasks) /\ Len(q) \in Nat
       /\ DOMAIN Tail(q) = 1..(Len(q) - 1) /\ DOMAIN q = 1..Len(q)
       /\ \A i \in DOMAIN Tail(q) : i \in Nat /\ i + 1 \in DOMAIN q /\ i + 1 # 1
                                    /\ Tail(q)[i] = q[i + 1]
  BY <1>2
<1>14. PoolTables'
  BY <1>2, <1>6, <1>7, <1>10, <1>11, <1>12, <1>13 DEF PoolTables
<1>15. QueueSound'
  <2>1. ASSUME NEW s \in Replicas, NEW i \in DOMAIN queue'[s]
        PROVE  /\ task'[queue'[s][i]].pc \in Queued
               /\ ReplicaOf[queue'[s][i]] = s
               /\ \A j \in DOMAIN queue'[s] : queue'[s][i] = queue'[s][j] => i = j
    <3>1. CASE s = r
      <4>1. queue'[s] = Tail(q)
        BY <1>2, <1>12, <3>1 DEF PoolTables
      <4>2. i \in DOMAIN Tail(q) /\ i + 1 \in DOMAIN q /\ queue'[s][i] = q[i + 1]
        BY <1>13, <2>1, <4>1
      <4>3. q[i + 1] \in Tasks /\ q[i + 1] # t
        BY <1>1, <1>2, <1>4, <1>13, <4>2 DEF QueueSound
      <4>4. task'[q[i + 1]] = task[q[i + 1]]
        BY <1>2, <1>10, <4>3 DEF PoolTables
      <4>5. ASSUME NEW j \in DOMAIN queue'[s], queue'[s][i] = queue'[s][j] PROVE i = j
        <5>1. j + 1 \in DOMAIN q /\ q[i + 1] = q[j + 1] /\ i \in Nat /\ j \in Nat
          BY <1>13, <4>1, <4>2, <4>5
        <5>2. i + 1 = j + 1
          BY <1>1, <1>2, <4>2, <5>1 DEF QueueSound
        <5> QED
          BY <5>1, <5>2
      <4> QED
        BY <1>1, <1>2, <3>1, <4>2, <4>4, <4>5 DEF QueueSound
    <3>2. CASE s # r
      <4>1. queue'[s] = queue[s]
        BY <1>2, <1>12, <3>2 DEF PoolTables
      <4>2. queue[s][i] \in Tasks /\ queue[s][i] # t
        BY <1>2, <1>5, <2>1, <3>2, <4>1 DEF PoolTables, QueueSound
      <4>3. task'[queue[s][i]] = task[queue[s][i]]
        BY <1>2, <1>10, <4>2 DEF PoolTables
      <4> QED
        BY <1>2, <2>1, <4>1, <4>3 DEF QueueSound
    <3> QED
      BY <3>1, <3>2
  <2> QED
    BY <2>1 DEF QueueSound
<1>16. \A d \in Conns : conn'[d] = IF d = c THEN t ELSE conn[d]
  BY <1>2, <1>6 DEF PoolTables
<1>17. ConnSound'
  BY <1>5, <1>7, <1>16 DEF PoolInv, ConnSound
<1>18. TaskSound(t)'
  <2>1. t # NULL
    BY PoolAssumption
  <2>2. CASE task[t].pc = "first"
    <3>1. task[t].own = NULL /\ \A d \in Conns : conn[d] # t
      BY <1>5, <2>2 DEF TaskSound, RunSound, HoldSound, Runs
    <3>2. CASE BatchOf[t] # NULL
      BY <1>7, <1>8, <1>10, <1>11, <1>16, <2>2, <3>1, <3>2
      DEF TaskSound, RunSound, HoldSound, Runs
    <3>3. CASE BatchOf[t] = NULL
      BY <1>7, <1>8, <1>10, <1>11, <1>16, <2>2, <3>1, <3>3
      DEF TaskSound, RunSound, HoldSound, Runs
    <3> QED
      BY <3>2, <3>3
  <2>3. CASE task[t].pc = "second"
    <3>1. Runs(t) /\ BatchOf[t] # NULL
      BY <1>5, <2>3 DEF TaskSound, Runs
    <3>2. task[t].own \in Conns /\ conn[task[t].own] = t /\ task[t].own # c
          /\ (task[t].alive => lock[BatchOf[t]] = task[t].own)
      BY <1>5, <1>7, <2>1, <3>1 DEF TaskSound, RunSound
    <3>3. x.pc = "query"
      BY <1>8, <1>11, <2>3
    <3> QED
      BY <1>7, <1>10, <1>11, <1>12, <1>16, <3>1, <3>2, <3>3
      DEF TaskSound, RunSound, HoldSound, Runs
  <2> QED
    BY <1>5, <2>2, <2>3 DEF Queued
<1>19. ASSUME NEW u \in Tasks, u # t PROVE TaskSound(u)'
  <2>1. task'[u] = task[u] /\ TaskSound(u)
    BY <1>2, <1>10, <1>19 DEF PoolInv, PoolTables
  <2>2. \A d \in Conns : conn'[d] = u <=> conn[d] = u
    BY <1>7, <1>16, <1>19, PoolAssumption
  <2> QED
    BY <1>12, <2>1, <2>2, Untouched DEF TaskSound, RunSound
<1> QED
  BY <1>14, <1>15, <1>17, <1>18, <1>19 DEF PoolInv

LEMMA AcquireCorrect ==
    ASSUME PoolInv, NEW t \in Tasks, Acquire(t)
    PROVE  PoolInv'
<1>1. task[t] \in TaskStates /\ TaskSound(t) /\ PoolTables /\ QueueSound /\ task[t].pc = "acquire"
  BY DEF PoolInv, PoolTables, Acquire, Doing
<1>2. PICK c \in Held(t) : lock[BatchOf[t]] \in {NULL, c} /\ Obtain(t, c)
  BY DEF Acquire
<1>3. PICK x : x = [pc |-> "second", own |-> c, alive |-> TRUE]
  OBVIOUS
<1>4. c \in Conns /\ conn[c] = t /\ x \in TaskStates /\ x.pc = "second" /\ x.own = c
      /\ x.alive = TRUE
  BY <1>2, <1>3 DEF Held, TaskStates, Places
<1>5. task' = [task EXCEPT ![t] = x] /\ task'[t] = x /\ conn' = conn
  BY <1>1, <1>2, <1>3 DEF Obtain, PoolTables
<1>6. BatchOf[t] # NULL /\ BatchOf[t] \in Batches
  BY <1>1, PoolAssumption DEF TaskSound
<1>7. lock' = [lock EXCEPT ![BatchOf[t]] = c] /\ lock'[BatchOf[t]] = c
  BY <1>1, <1>2, <1>6 DEF Obtain, PoolTables
<1>8. QueueSound' /\ queue' \in [Replicas -> Seq(Tasks)]
  <2>1. task[t].pc \notin Queued /\ x.pc \in Queued /\ Wait(t)
    BY <1>1, <1>2, <1>4 DEF Obtain, Queued
  <2> QED
    BY <1>1, <1>5, <2>1, QueueJoined
<1>9. PoolTables'
  BY <1>1, <1>4, <1>5, <1>7, <1>8 DEF PoolTables
<1>10. ConnSound'
  BY <1>5 DEF PoolInv, ConnSound
<1>11. TaskSound(t)'
  BY <1>1, <1>4, <1>5, <1>6, <1>7 DEF TaskSound, RunSound, HoldSound, Runs
<1>12. ASSUME NEW u \in Tasks, u # t PROVE TaskSound(u)'
  <2>1. task'[u] = task[u] /\ TaskSound(u)
    BY <1>1, <1>5, <1>12 DEF PoolInv, PoolTables
  <2>2. ASSUME Runs(u), task[u].alive PROVE lock'[BatchOf[u]] = task[u].own
    <3>1. task[u].own \in Conns /\ conn[task[u].own] = u /\ lock[BatchOf[u]] = task[u].own
      BY <2>1, <2>2 DEF TaskSound, RunSound
    <3>2. task[u].own # c /\ task[u].own # NULL
      BY <1>4, <1>12, <3>1, PoolAssumption
    <3>3. BatchOf[u] # BatchOf[t]
      BY <1>2, <3>1, <3>2
    <3>4. BatchOf[u] \in Batches
      BY <2>2, PoolAssumption DEF Runs
    <3> QED
      BY <1>1, <1>7, <3>1, <3>3, <3>4 DEF PoolTables
  <2> QED
    BY <1>5, <2>1, <2>2, Untouched
<1> QED
  BY <1>8, <1>9, <1>10, <1>11, <1>12 DEF PoolInv

\* Connections of one that does not wait are released
LEMMA Releases ==
    ASSUME PoolInv, NEW t \in Tasks, NEW cs \in SUBSET Held(t), conn' = Released(cs)
    PROVE  /\ conn' \in [Conns -> Tasks \cup {NULL}]
           /\ ConnSound'
           /\ \A c \in Conns : conn'[c] = t <=> conn[c] = t /\ c \notin cs
           /\ \A u \in Tasks \ {t} : \A c \in Conns : conn'[c] = u <=> conn[c] = u
BY PoolAssumption DEF PoolInv, PoolTables, Released, Held, ConnSound

LEMMA RestCorrect ==
    ASSUME PoolInv, NEW t \in Tasks, task[t].pc \notin Queued, Rest(t), queue' = queue,
           conn' = Released(Held(t)),
           \/ lock' = lock
           \/ /\ Runs(t) /\ OwnsLock(t)
              /\ lock' = [lock EXCEPT ![BatchOf[t]] = NULL]
    PROVE  PoolInv'
<1>1. task[t] \in TaskStates /\ TaskSound(t) /\ PoolTables /\ QueueSound
  BY DEF PoolInv, PoolTables
<1>2. /\ conn' \in [Conns -> Tasks \cup {NULL}] /\ ConnSound'
      /\ \A c \in Conns : conn'[c] # t
      /\ \A u \in Tasks \ {t} : \A c \in Conns : conn'[c] = u <=> conn[c] = u
  BY Releases DEF Held
<1>3. Resting \in TaskStates /\ Resting.pc = "idle" /\ Resting.own = NULL
  BY DEF Resting, TaskStates, Places
<1>4. task' = [task EXCEPT ![t] = Resting] /\ task'[t] = Resting
  BY <1>1 DEF Rest, PoolTables
<1>5. lock' \in [Batches -> Conns \cup {NULL}]
  BY <1>1 DEF PoolTables
<1>6. PoolTables'
  BY <1>1, <1>2, <1>3, <1>4, <1>5 DEF PoolTables
<1>7. QueueSound'
  BY <1>1, <1>4, QueueKept
<1>8. TaskSound(t)'
  BY <1>2, <1>3, <1>4 DEF TaskSound, RunSound, HoldSound, Runs
<1>9. ASSUME NEW u \in Tasks, u # t PROVE TaskSound(u)'
  <2>1. task'[u] = task[u] /\ TaskSound(u)
    BY <1>1, <1>4, <1>9 DEF PoolInv, PoolTables
  <2>2. ASSUME Runs(u), task[u].alive PROVE lock'[BatchOf[u]] = task[u].own
    <3>1. conn[task[u].own] = u /\ lock[BatchOf[u]] = task[u].own /\ BatchOf[u] \in Batches
      BY <2>1, <2>2, PoolAssumption DEF TaskSound, RunSound, Runs
    <3>2. CASE lock' = lock
      BY <3>1, <3>2
    <3>3. CASE Runs(t) /\ OwnsLock(t) /\ lock' = [lock EXCEPT ![BatchOf[t]] = NULL]
      <4>1. BatchOf[u] # BatchOf[t]
        BY <1>1, <1>9, <3>1, <3>3 DEF TaskSound, RunSound, OwnsLock
      <4> QED
        BY <1>1, <3>1, <3>3, <4>1 DEF PoolTables
    <3> QED
      BY <3>2, <3>3
  <2> QED
    BY <1>2, <1>9, <2>1, <2>2, Untouched
<1> QED
  BY <1>2, <1>6, <1>7, <1>8, <1>9 DEF PoolInv

LEMMA EndQueryCorrect ==
    ASSUME PoolInv, NEW t \in Tasks, EndQuery(t)
    PROVE  PoolInv'
<1>1. task[t] \in TaskStates /\ TaskSound(t) /\ PoolTables /\ QueueSound /\ task[t].pc = "query"
  BY DEF PoolInv, PoolTables, EndQuery, Doing
<1>2. CASE BatchOf[t] = NULL
  <2>1. task[t].own = NULL
    BY <1>1, <1>2 DEF TaskSound, RunSound, Runs
  <2>2. Held(t) \ {task[t].own} = Held(t)
    BY <2>1, PoolAssumption DEF Held
  <2> QED
    BY <1>1, <1>2, <2>2, RestCorrect DEF EndQuery, Queued
<1>3. CASE BatchOf[t] # NULL
  <2>1. task[t].own \in Conns /\ conn[task[t].own] = t
        /\ (task[t].alive => lock[BatchOf[t]] = task[t].own)
    BY <1>1, <1>3 DEF TaskSound, RunSound, Runs
  <2>2. PICK cs \in SUBSET Held(t) : cs = Held(t) \ {task[t].own}
    OBVIOUS
  <2>3. /\ conn' \in [Conns -> Tasks \cup {NULL}] /\ ConnSound'
        /\ conn'[task[t].own] = t
        /\ \A u \in Tasks \ {t} : \A c \in Conns : conn'[c] = u <=> conn[c] = u
    <3>1. conn' = Released(cs)
      BY <2>2 DEF EndQuery
    <3>2. task[t].own \notin cs
      BY <2>2
    <3> QED
      BY <2>1, <3>1, <3>2, Releases
  <2>4. PICK x : x = [task[t] EXCEPT !.pc = "release"]
    OBVIOUS
  <2>5. task' = [task EXCEPT ![t] = x] /\ task'[t] = x /\ lock' = lock /\ queue' = queue
    BY <1>1, <1>3, <2>4 DEF EndQuery, Become, PoolTables
  <2>6. x \in TaskStates /\ x.pc = "release" /\ x.own = task[t].own /\ x.alive = task[t].alive
    BY <1>1, <2>4 DEF TaskStates, Places
  <2>7. PoolTables'
    BY <1>1, <2>3, <2>5, <2>6 DEF PoolTables
  <2>8. QueueSound'
    BY <1>1, <2>5, QueueKept DEF Queued
  <2>9. TaskSound(t)'
    BY <1>3, <2>1, <2>3, <2>5, <2>6 DEF TaskSound, RunSound, HoldSound, Runs
  <2>10. ASSUME NEW u \in Tasks, u # t PROVE TaskSound(u)'
    <3>1. task'[u] = task[u] /\ TaskSound(u)
      BY <1>1, <2>5, <2>10 DEF PoolInv, PoolTables
    <3> QED
      BY <2>3, <2>5, <2>10, <3>1, Untouched DEF TaskSound, RunSound
  <2> QED
    BY <2>3, <2>7, <2>8, <2>9, <2>10 DEF PoolInv
<1> QED
  BY <1>2, <1>3

LEMMA SessionEndsCorrect ==
    ASSUME PoolInv, NEW t \in Tasks, SessionEnds(t)
    PROVE  PoolInv'
<1>1. /\ task[t] \in TaskStates /\ TaskSound(t) /\ PoolTables /\ QueueSound /\ Runs(t)
      /\ task[t].pc \in {"query", "release"} /\ task[t].alive /\ BatchOf[t] \in Batches
  BY PoolAssumption DEF PoolInv, PoolTables, SessionEnds, Runs
<1>2. PICK x : x = [task[t] EXCEPT !.alive = FALSE]
  OBVIOUS
<1>3. task' = [task EXCEPT ![t] = x] /\ task'[t] = x /\ conn' = conn /\ queue' = queue
      /\ lock' = [lock EXCEPT ![BatchOf[t]] = NULL]
  BY <1>1, <1>2 DEF SessionEnds, PoolTables
<1>4. x \in TaskStates /\ x.pc = task[t].pc /\ x.own = task[t].own /\ x.alive = FALSE
  BY <1>1, <1>2 DEF TaskStates
<1>5. PoolTables'
  BY <1>1, <1>3, <1>4 DEF PoolTables
<1>6. QueueSound'
  BY <1>1, <1>3, QueueKept DEF Queued
<1>7. ConnSound'
  BY <1>3 DEF PoolInv, ConnSound
<1>8. TaskSound(t)'
  BY <1>1, <1>3, <1>4 DEF TaskSound, RunSound, HoldSound, Runs
<1>9. ASSUME NEW u \in Tasks, u # t PROVE TaskSound(u)'
  <2>1. task'[u] = task[u] /\ TaskSound(u)
    BY <1>1, <1>3, <1>9 DEF PoolInv, PoolTables
  <2>2. ASSUME Runs(u), task[u].alive PROVE lock'[BatchOf[u]] = task[u].own
    <3>1. lock[BatchOf[u]] = task[u].own /\ BatchOf[u] \in Batches
      BY <2>1, <2>2, PoolAssumption DEF TaskSound, RunSound, Runs
    <3>2. BatchOf[u] # BatchOf[t]
      BY <1>1, <1>9, <2>2, OneRun
    <3> QED
      BY <1>1, <1>3, <3>1, <3>2 DEF PoolTables
  <2> QED
    BY <1>3, <2>1, <2>2, Untouched
<1> QED
  BY <1>5, <1>6, <1>7, <1>8, <1>9 DEF PoolInv

LEMMA PoolNextCorrect == PoolInv /\ [PoolNext]_poolVars => PoolInv'
<1> SUFFICES ASSUME PoolInv, [PoolNext]_poolVars PROVE PoolInv'
  OBVIOUS
<1>1. ASSUME NEW t \in Tasks, Fire(t) PROVE PoolInv'
  BY <1>1, FireCorrect
<1>2. ASSUME NEW r \in Replicas, Grant(r) PROVE PoolInv'
  BY <1>2, GrantCorrect
<1>3. ASSUME NEW t \in Tasks, Acquire(t) PROVE PoolInv'
  BY <1>3, AcquireCorrect
<1>4. ASSUME NEW t \in Tasks, Refuse(t) PROVE PoolInv'
  BY <1>4, RestCorrect DEF Refuse, Doing, Queued
<1>5. ASSUME NEW t \in Tasks, EndQuery(t) PROVE PoolInv'
  BY <1>5, EndQueryCorrect
<1>6. ASSUME NEW t \in Tasks, Release(t) PROVE PoolInv'
  <2>1. task[t].pc = "release" /\ task[t].pc \notin Queued /\ TaskSound(t)
    BY <1>6 DEF Release, Doing, Queued, PoolInv
  <2>2. Runs(t)
    BY <2>1 DEF Runs, TaskSound
  <2> QED
    BY <1>6, <2>1, <2>2, RestCorrect DEF Release
<1>7. ASSUME NEW t \in Tasks, SessionEnds(t) PROVE PoolInv'
  BY <1>7, SessionEndsCorrect
<1>8. CASE UNCHANGED poolVars
  BY <1>8 DEF poolVars, PoolInv, PoolTables, QueueSound, ConnSound, TaskSound, RunSound, HoldSound,
              Runs
<1> QED
  BY <1>1, <1>2, <1>3, <1>4, <1>5, <1>6, <1>7, <1>8 DEF PoolNext, Step

LEMMA PoolCorrect == PoolSpec => []PoolInv
BY PoolInitCorrect, PoolNextCorrect, PTL DEF PoolSpec

\* Connections, queues, runs and locks keep to their types, and whoever rests
\* holds nothing (SpExecutorService).
THEOREM PoolTyped == PoolSpec => []PoolTypeOK
BY PoolCorrect, InvTypes, PTL

\* A batch runs in one replica, and once in it, unless its session ended; and
\* with more connections than batches no pool is held whole by runs that wait
\* (runExclusive), for any number of replicas, connections and batches.
THEOREM BatchesCorrect == PoolSpec => []BatchesSound
<1>1. PoolInv => BatchesSound
  BY InvExclusive, InvUnwedged DEF BatchesSound
<1> QED
  BY <1>1, PoolCorrect, PTL

-----------------------------------------------------------------------------
(* RateLimiters: the bucket                                                *)

\* Arithmetic of the bucket: capped sums, and waiting times rounded up
LEMMA LeastOf ==
    ASSUME NEW a \in Int, NEW b \in Int
    PROVE  /\ Least(a, b) \in Int /\ Least(a, b) <= a /\ Least(a, b) <= b
           /\ Least(a, b) = a \/ Least(a, b) = b
BY DEF Least

LEMMA CeilOf ==
    ASSUME NEW a \in Nat, NEW b \in Nat \ {0}
    PROVE  /\ Ceil(a, b) \in Nat
           /\ a <= Ceil(a, b) * b
           /\ Ceil(a, b) > 0 => (Ceil(a, b) - 1) * b < a
<1>1. PICK x \in Nat : x = a + b - 1
  OBVIOUS
<1>2. PICK q \in Nat : q = x \div b
  OBVIOUS
<1>3. PICK p : p = q * b
  OBVIOUS
<1>4. p \in Nat /\ p <= x /\ x < p + b
  BY <1>2, <1>3
<1>5. (q - 1) * b = p - b
  BY <1>2, <1>3
<1> QED
  BY <1>1, <1>2, <1>3, <1>4, <1>5 DEF Ceil

Cap == Capacity * Parts
BucketTyped ==
    /\ bucket = NULL \/ bucket \in [tokens : Nat, since : Nat]
    /\ bucket # NULL => bucket.tokens <= Cap
    /\ told \in Nat \cup {NULL}
    /\ byProject \in [0..Span -> Nat]

\* The calls that have passed are paid for, and so is the token there is
Paid == \A d \in 0..Span : byProject[d] * Parts + Refilled <= Cap + Refill * d

\* In `told` units there is a token again, and in one unit less there is not
Promised ==
    told # NULL => /\ bucket # NULL
                   /\ Refilled + told * Refill >= Parts
                   /\ told > 0 => Refilled + (told - 1) * Refill < Parts
BucketInv == BucketTyped /\ Paid /\ Promised

LEMMA LimitConstants ==
    /\ Capacity \in Nat \ {0} /\ Parts \in Nat \ {0} /\ Refill \in Nat \ {0}
    /\ Window \in Nat \ {0} /\ Limit \in Nat \ {0} /\ Span \in Nat \ {0}
    /\ Cap \in Nat /\ Parts <= Cap /\ NULL \notin Nat
BY LimiterAssumption DEF Cap

LEMMA RefilledTyped ==
    ASSUME BucketTyped
    PROVE  Refilled \in Nat /\ Refilled <= Cap
<1>1. CASE bucket = NULL
  BY <1>1, LimitConstants DEF Refilled, Cap
<1>2. CASE bucket # NULL
  <2>1. PICK t \in Nat, s \in Nat : t = bucket.tokens /\ s = bucket.since
    BY <1>2 DEF BucketTyped
  <2>2. PICK y \in Nat : y = s * Refill
    BY LimitConstants
  <2>3. PICK x \in Nat : x = t + y
    OBVIOUS
  <2>4. Refilled = Least(Cap, x)
    BY <1>2, <2>1, <2>2, <2>3 DEF Refilled, Cap
  <2> QED
    BY <2>3, <2>4, LimitConstants DEF Least
<1> QED
  BY <1>1, <1>2

\* A unit of time brings Refill, up to the capacity
LEMMA RefilledLater ==
    ASSUME BucketTyped,
           bucket' = IF bucket = NULL THEN NULL
                     ELSE [bucket EXCEPT !.since = Least(@ + 1, Capacity * Parts)]
    PROVE  Refilled' = Least(Cap, Refilled + Refill)
<1>1. CASE bucket = NULL
  BY <1>1, LimitConstants DEF Refilled, Cap, Least
<1>2. CASE bucket # NULL
  <2>1. PICK t \in Nat, s \in Nat : bucket = [tokens |-> t, since |-> s] /\ t <= Cap
    BY <1>2 DEF BucketTyped
  <2>2. PICK v \in Nat : v = Least(s + 1, Cap) /\ v <= s + 1 /\ (v = s + 1 \/ (v = Cap /\ Cap <= s))
    BY LimitConstants DEF Least
  <2>3. bucket' = [tokens |-> t, since |-> v] /\ bucket' # NULL
    BY <1>2, <2>1, <2>2, LimiterAssumption DEF Cap
  <2>4. Refilled = Least(Cap, t + s * Refill) /\ Refilled' = Least(Cap, t + v * Refill)
    BY <1>2, <2>1, <2>3 DEF Refilled, Cap
  <2>5. CASE v = s + 1
    <3>1. PICK y \in Nat : y = s * Refill
      BY LimitConstants
    <3>2. v * Refill = y + Refill
      BY <2>5, <3>1, LimitConstants
    <3> QED
      BY <2>4, <3>1, <3>2, LimitConstants DEF Least
  <2>6. CASE v = Cap /\ Cap <= s
    <3>1. PICK y \in Nat, z \in Nat : y = s * Refill /\ z = v * Refill
      BY LimitConstants
    <3>2. s <= y /\ v <= z
      BY <3>1, LimitConstants
    <3>3. Cap <= t + y /\ Cap <= t + z
      BY <2>6, <3>1, <3>2, LimitConstants
    <3>4. Refilled = Cap /\ Refilled' = Cap
      BY <2>4, <3>1, <3>3, LimitConstants DEF Least
    <3> QED
      BY <3>4, LimitConstants DEF Least
  <2> QED
    BY <2>2, <2>5, <2>6
<1> QED
  BY <1>1, <1>2

LEMMA BucketStarts == LimitInit => BucketInv
<1> SUFFICES ASSUME LimitInit
             PROVE  BucketInv
  OBVIOUS
<1>1. bucket = NULL /\ told = NULL /\ byProject = [d \in 0..Span |-> 0]
  BY DEF LimitInit, Nothing
<1>2. Refilled = Cap
  BY <1>1 DEF Refilled, Cap
<1>3. \A d \in 0..Span : byProject[d] = 0 /\ 0 * Parts = 0 /\ Refill * d \in Nat
  BY <1>1, LimitConstants
<1>4. Paid
  BY <1>2, <1>3, LimitConstants DEF Paid
<1> QED
  BY <1>1, <1>4, LimitConstants DEF BucketInv, BucketTyped, Promised

LEMMA ArriveKeepsBucket ==
    ASSUME BucketInv, NEW c \in Arrivals, Arrive(c)
    PROVE  BucketInv'
<1>1. PICK R \in Nat : R = Refilled /\ R <= Cap
  BY RefilledTyped DEF BucketInv
<1>2. \A t \in Nat : LET b == [tokens |-> t, since |-> 0] IN
        b \in [tokens : Nat, since : Nat] /\ b # NULL /\ b.tokens = t /\ b.since = 0
  BY LimiterAssumption
<1>3. ASSUME NEW t \in Nat, t <= Cap, bucket' = [tokens |-> t, since |-> 0]
      PROVE  /\ Refilled' = t /\ bucket' \in [tokens : Nat, since : Nat]
             /\ bucket' # NULL /\ bucket'.tokens <= Cap
  <2>1. bucket' # NULL /\ bucket'.tokens = t /\ bucket'.since = 0
    BY <1>2, <1>3
  <2>2. Refilled' = Least(Cap, t + 0 * Refill)
    BY <2>1 DEF Refilled, Cap
  <2>3. Refilled' = t
    BY <1>3, <2>2, LimitConstants DEF Least
  <2> QED
    BY <1>2, <1>3, <2>1, <2>3
<1>4. CASE Enough(R)
  <2>1. /\ bucket' = [tokens |-> R - Parts, since |-> 0] /\ told' = NULL
        /\ byProject' = [d \in 0..Span |-> byProject[d] + 1]
    BY <1>1, <1>4 DEF Arrive, Passed
  <2>2. R - Parts \in Nat /\ R - Parts <= Cap
    BY <1>1, <1>4, LimitConstants DEF Enough
  <2>3. /\ Refilled' = R - Parts /\ bucket' \in [tokens : Nat, since : Nat]
        /\ bucket' # NULL /\ bucket'.tokens <= Cap
    BY <1>3, <2>1, <2>2
  <2>4. Paid'
    <3> SUFFICES ASSUME NEW d \in 0..Span
                 PROVE  byProject'[d] * Parts + Refilled' <= Cap + Refill * d
      BY DEF Paid, Cap
    <3>1. PICK n \in Nat : n = byProject[d] /\ byProject'[d] = n + 1
      BY <2>1 DEF BucketInv, BucketTyped
    <3>2. PICK x \in Nat, y \in Nat : x = n * Parts /\ y = Refill * d
      BY LimitConstants
    <3>3. (n + 1) * Parts = x + Parts
      BY <3>2, LimitConstants
    <3>4. x + R <= Cap + y
      BY <1>1, <3>1, <3>2 DEF BucketInv, Paid
    <3> QED
      BY <1>1, <2>2, <2>3, <3>1, <3>2, <3>3, <3>4, LimitConstants
  <2>5. BucketTyped'
    <3>1. byProject' \in [0..Span -> Nat]
      BY <2>1 DEF BucketInv, BucketTyped
    <3> QED
      BY <2>1, <2>3, <3>1 DEF BucketTyped, Cap
  <2> QED
    BY <2>1, <2>4, <2>5 DEF BucketInv, Promised
<1>5. CASE ~Enough(R)
  <2>1. /\ bucket' = [tokens |-> R, since |-> 0] /\ told' = Ceil(Parts - R, Refill)
        /\ byProject' = byProject
    BY <1>1, <1>5 DEF Arrive, Kept, RetryAfter
  <2>2. /\ Refilled' = R /\ bucket' \in [tokens : Nat, since : Nat]
        /\ bucket' # NULL /\ bucket'.tokens <= Cap
    BY <1>1, <1>3, <2>1
  <2>3. Paid'
    BY <1>1, <2>1, <2>2 DEF BucketInv, Paid, Cap
  <2>4. Parts - R \in Nat
    BY <1>1, <1>5, LimitConstants DEF Enough
  <2>5. PICK r \in Nat : r = told' /\ r = Ceil(Parts - R, Refill)
    BY <2>1, <2>4, CeilOf, LimitConstants
  <2>6. Parts - R <= r * Refill /\ (r > 0 => (r - 1) * Refill < Parts - R)
    BY <2>4, <2>5, CeilOf, LimitConstants
  <2>7. PICK x \in Nat : x = r * Refill
    BY <2>5, LimitConstants
  <2>8. (r - 1) * Refill = x - Refill
    BY <2>5, <2>7, LimitConstants
  <2>9. R + x >= Parts /\ (r > 0 => R + (x - Refill) < Parts)
    BY <1>1, <2>7, <2>8, <2>6, LimitConstants
  <2>10. Promised'
    BY <2>2, <2>5, <2>7, <2>8, <2>9 DEF Promised
  <2>11. BucketTyped'
    BY <2>1, <2>2, <2>5 DEF BucketTyped, BucketInv, Cap
  <2> QED
    BY <2>3, <2>10, <2>11 DEF BucketInv
<1> QED
  BY <1>4, <1>5

LEMMA SecondKeepsBucket ==
    ASSUME BucketInv, Second
    PROVE  BucketInv'
<1>1. PICK R \in Nat : R = Refilled /\ R <= Cap
  BY RefilledTyped DEF BucketInv
<1>2. PICK Q \in Nat : Q = Refilled' /\ Q = Least(Cap, R + Refill)
  BY <1>1, RefilledLater, LimitConstants DEF BucketInv, Second, Least
<1>3. Q <= Cap /\ Q <= R + Refill /\ (Q = Cap \/ Q = R + Refill)
  BY <1>1, <1>2, LimitConstants DEF Least
<1>4. /\ byProject' = [d \in 0..Span |-> IF d = 0 THEN 0 ELSE byProject[d - 1]]
      /\ told' = IF told \in {NULL, 0} THEN NULL ELSE told - 1
      /\ bucket' = IF bucket = NULL THEN NULL
                   ELSE [bucket EXCEPT !.since = Least(@ + 1, Capacity * Parts)]
  BY DEF Second, Shift
<1>5. bucket # NULL => /\ bucket' # NULL /\ bucket' \in [tokens : Nat, since : Nat]
                       /\ bucket'.tokens = bucket.tokens
  <2> SUFFICES ASSUME bucket # NULL
               PROVE  /\ bucket' # NULL /\ bucket' \in [tokens : Nat, since : Nat]
                      /\ bucket'.tokens = bucket.tokens
    OBVIOUS
  <2>1. PICK t \in Nat, s \in Nat : bucket = [tokens |-> t, since |-> s]
    BY DEF BucketInv, BucketTyped
  <2>2. PICK v \in Nat : v = Least(s + 1, Capacity * Parts)
    BY LimitConstants DEF Least, Cap
  <2>3. bucket' = [tokens |-> t, since |-> v]
    BY <1>4, <2>1, <2>2
  <2>4. bucket' \in [tokens : Nat, since : Nat]
    BY <2>3
  <2> QED
    BY <2>1, <2>3, <2>4, LimiterAssumption
<1>6. Paid'
  <2> SUFFICES ASSUME NEW d \in 0..Span
               PROVE  byProject'[d] * Parts + Q <= Cap + Refill * d
    BY <1>2 DEF Paid, Cap
  <2>1. CASE d = 0
    <3>1. byProject'[d] = 0 /\ 0 * Parts = 0 /\ Refill * d = 0
      BY <1>4, <2>1, LimitConstants
    <3> QED
      BY <1>3, <3>1, LimitConstants
  <2>2. CASE d # 0
    <3>1. PICK e \in 0..Span : d = e + 1
      BY <2>2, LimitConstants
    <3>2. PICK n \in Nat : n = byProject[e] /\ byProject'[d] = n
      BY <1>4, <2>2, <3>1 DEF BucketInv, BucketTyped
    <3>3. PICK x \in Nat, y \in Nat : x = n * Parts /\ y = Refill * e
      BY LimitConstants
    <3>4. Refill * d = y + Refill
      BY <3>1, <3>3, LimitConstants
    <3>5. x + R <= Cap + y
      BY <1>1, <3>2, <3>3 DEF BucketInv, Paid
    <3> QED
      BY <1>1, <1>3, <3>2, <3>3, <3>4, <3>5, LimitConstants
  <2> QED
    BY <2>1, <2>2
<1>7. Promised'
  <2> SUFFICES ASSUME told' # NULL
               PROVE  /\ bucket' # NULL
                      /\ Q + told' * Refill >= Parts
                      /\ told' > 0 => Q + (told' - 1) * Refill < Parts
    BY <1>2 DEF Promised
  <2>1. PICK r \in Nat : told = r + 1 /\ told' = r
    BY <1>4, LimitConstants DEF BucketInv, BucketTyped
  <2>2. told # NULL /\ bucket # NULL
    BY <2>1, LimitConstants DEF BucketInv, Promised
  <2>3. PICK x \in Nat : x = r * Refill
    BY LimitConstants
  <2>4. told * Refill = x + Refill /\ (told - 1) * Refill = x /\ (r - 1) * Refill = x - Refill
    BY <2>1, <2>3, LimitConstants
  <2>5. R + x + Refill >= Parts /\ R + x < Parts
    BY <1>1, <2>1, <2>2, <2>4, LimitConstants DEF BucketInv, Promised
  <2>6. Q + x >= Parts
    BY <1>1, <1>2, <1>3, <2>3, <2>5, LimitConstants
  <2>7. r > 0 => Q + (x - Refill) < Parts
    BY <1>1, <1>2, <1>3, <2>3, <2>5, LimitConstants
  <2> QED
    BY <1>5, <2>1, <2>2, <2>3, <2>4, <2>6, <2>7
<1>8. BucketTyped'
  <2>1. byProject' \in [0..Span -> Nat]
    <3> SUFFICES ASSUME NEW d \in 0..Span
                 PROVE  (IF d = 0 THEN 0 ELSE byProject[d - 1]) \in Nat
      BY <1>4
    <3>1. d # 0 => d - 1 \in 0..Span
      BY LimitConstants
    <3> QED
      BY <3>1 DEF BucketInv, BucketTyped
  <2>2. told' \in Nat \cup {NULL}
    BY <1>4 DEF BucketInv, BucketTyped
  <2>3. /\ bucket' = NULL \/ bucket' \in [tokens : Nat, since : Nat]
        /\ bucket' # NULL => bucket'.tokens <= Cap
    BY <1>4, <1>5 DEF BucketInv, BucketTyped
  <2> QED
    BY <2>1, <2>2, <2>3 DEF BucketTyped, Cap
<1> QED
  BY <1>6, <1>7, <1>8 DEF BucketInv

LEMMA BucketGoesOn == BucketInv /\ [LimitNext]_limitVars => BucketInv'
<1> SUFFICES ASSUME BucketInv, [LimitNext]_limitVars
             PROVE  BucketInv'
  OBVIOUS
<1>1. ASSUME UNCHANGED <<bucket, told, byProject>>
      PROVE  BucketInv'
  BY <1>1 DEF BucketInv, BucketTyped, Paid, Promised, Refilled, Cap
<1>2. ASSUME NEW c \in Arrivals, LetPass(c) \/ Count(c) \/ Weigh(c)
      PROVE  BucketInv'
  BY <1>1, <1>2 DEF LetPass, Count, Weigh, limits
<1>3. CASE CreateProject \/ ReadCache \/ Lookup \/ WriteRow \/ CacheExpires
  BY <1>1, <1>3 DEF CreateProject, ReadCache, Lookup, WriteRow, CacheExpires, limits
<1>4. CASE UNCHANGED limitVars
  BY <1>1, <1>4 DEF limitVars, limits
<1> QED
  BY <1>2, <1>3, <1>4, ArriveKeepsBucket, SecondKeepsBucket DEF LimitNext

LEMMA BucketBounds == BucketInv => ProjectBounded /\ RetryAfterIsExact
<1> SUFFICES ASSUME BucketInv
             PROVE  ProjectBounded /\ RetryAfterIsExact
  OBVIOUS
<1>1. PICK R \in Nat : R = Refilled /\ R <= Cap
  BY RefilledTyped DEF BucketInv
<1>2. ProjectBounded
  <2> SUFFICES ASSUME NEW d \in 0..Span
               PROVE  byProject[d] * Parts <= Cap + Refill * d
    BY DEF ProjectBounded, Cap
  <2>1. PICK x \in Nat, y \in Nat : x = byProject[d] * Parts /\ y = Refill * d
    BY LimitConstants DEF BucketInv, BucketTyped
  <2>2. x + R <= Cap + y
    BY <1>1, <2>1 DEF BucketInv, Paid
  <2> QED
    BY <1>1, <2>1, <2>2, LimitConstants
<1>3. RetryAfterIsExact
  <2> SUFFICES ASSUME told # NULL
               PROVE  R >= Parts <=> told = 0
    BY <1>1 DEF RetryAfterIsExact, Enough
  <2>1. told \in Nat
    BY DEF BucketInv, BucketTyped
  <2>2. CASE told = 0
    <3>1. told * Refill = 0
      BY <2>2, LimitConstants
    <3> QED
      BY <1>1, <2>2, <3>1, LimitConstants DEF BucketInv, Promised
  <2>3. CASE told > 0
    <3>1. PICK x \in Nat : x = (told - 1) * Refill
      BY <2>1, <2>3, LimitConstants
    <3>2. R + x < Parts
      BY <1>1, <2>3, <3>1 DEF BucketInv, Promised
    <3> QED
      BY <1>1, <2>3, <3>1, <3>2, LimitConstants
  <2> QED
    BY <2>1, <2>2, <2>3
<1> QED
  BY <1>2, <1>3

-----------------------------------------------------------------------------
(* RateLimiters: the user's window                                         *)

Keys == [n : Nat, left : Nat]
UserTyped ==
    /\ elapsed \in 0..(Window - 1) /\ cur \in Keys /\ prev \in Keys
    /\ req \in [Arrivals -> [pc : {"idle", "user", "weigh"}, n : Nat]]
    /\ byUser \in [0..Span -> Nat]

\* The counts of this window that may have passed: nobody still weighs them
Passable == {n \in 1..cur.n : Within(n) /\ \A c \in Arrivals :
                                req[c].pc = "weigh" => req[c].n # n}

\* Each call weighs a count of its own
CountsSound ==
    /\ \A c \in Arrivals : req[c].pc = "weigh" => req[c].n \in 1..cur.n
    /\ \A c, d \in Arrivals : req[c].pc = "weigh" /\ req[d].pc = "weigh" /\ req[c].n = req[d].n
                                => c = d
\* No counter expires before the window after its own has ended
KeysLive ==
    /\ cur.n > 0 => cur.left >= KeyTtl - elapsed
    /\ prev.n > 0 => prev.left >= Window - elapsed
\* The calls that passed in this window have counts of it, and of those in the
\* last window there were no more than it counted and than the limit
PassesCounted ==
    \A d \in 0..Span :
        /\ d <= elapsed => byUser[d] <= Cardinality(Passable)
        /\ elapsed < d /\ d < Window =>
             byUser[d] <= Cardinality(Passable) + Least(prev.n, Limit)
UserInv == UserTyped /\ CountsSound /\ KeysLive /\ PassesCounted

LEMMA CountsFinite ==
    ASSUME NEW n \in Nat, NEW S, S \subseteq 1..n
    PROVE  IsFiniteSet(S) /\ Cardinality(S) \in Nat /\ Cardinality(S) <= n
<1>1. IsFiniteSet(1..n) /\ Cardinality(1..n) = n
  BY FS_Interval
<1>2. S \in SUBSET (1..n)
  OBVIOUS
<1>3. IsFiniteSet(S) /\ Cardinality(S) <= Cardinality(1..n)
  BY <1>1, <1>2, FS_Subset
<1> QED
  BY <1>1, <1>3, FS_CardinalityType

LEMMA PassableFinite ==
    ASSUME UserTyped
    PROVE  /\ IsFiniteSet(Passable) /\ Cardinality(Passable) \in Nat
           /\ Cardinality(Passable) <= cur.n
<1>1. cur.n \in Nat /\ Passable \subseteq 1..cur.n
  BY DEF UserTyped, Keys, Passable
<1> QED
  BY <1>1, CountsFinite

LEMMA NoneThenSome ==
    ASSUME NEW S, IsFiniteSet(S), NEW k \in Nat \ {0}, k <= Cardinality(S), S \subseteq Nat \ {0}
    PROVE  \E n \in S : k <= n
<1> SUFFICES ASSUME \A n \in S : n < k
             PROVE  FALSE
  OBVIOUS
<1>1. PICK m \in Nat : k = m + 1
  OBVIOUS
<1>2. S \subseteq 1..m
  BY <1>1
<1>3. PICK c \in Nat : c = Cardinality(S) /\ c <= m
  BY <1>2, CountsFinite
<1> QED
  BY <1>1, <1>3

\* As many counts as have passed weigh no more than the limit
LEMMA PassableWithin ==
    ASSUME UserTyped, Cardinality(Passable) > 0
    PROVE  Within(Cardinality(Passable))
<1>1. PICK k \in Nat \ {0} : k = Cardinality(Passable)
  BY PassableFinite
<1>2. Passable \subseteq Nat \ {0}
  BY DEF Passable
<1>3. PICK n \in Passable : k <= n
  <2>1. IsFiniteSet(Passable) /\ k <= Cardinality(Passable)
    BY <1>1, PassableFinite
  <2> QED
    BY <1>2, <2>1, NoneThenSome
<1>4. PICK p \in Int : p = prev.n * (Window - elapsed)
  BY LimitConstants DEF UserTyped, Keys
<1>5. PICK x \in Nat, y \in Nat : x = n * Window /\ y = k * Window
  BY <1>2, LimitConstants
<1>6. y <= x
  BY <1>2, <1>3, <1>5, LimitConstants
<1>7. x + p <= Limit * Window
  BY <1>3, <1>4, <1>5 DEF Passable, Within
<1>8. y + p <= Limit * Window
  BY <1>4, <1>5, <1>6, <1>7, LimitConstants
<1> QED
  BY <1>1, <1>4, <1>5, <1>8 DEF Within

LEMMA TimesMore ==
    ASSUME NEW a \in Int, NEW b \in Int, NEW c \in Nat, a <= b
    PROVE  a * c <= b * c
OBVIOUS

LEMMA UserBounds == UserInv => UserBounded
<1> SUFFICES ASSUME UserInv, NEW d \in 0..(Window - 1), d <= Span
             PROVE  byUser[d] * Window <= Limit * (Window + d)
  BY DEF UserBounded
<1>1. PICK k \in Nat, e \in Nat, b \in Nat, q \in Nat :
        /\ k = Cardinality(Passable) /\ e = elapsed /\ b = byUser[d] /\ q = prev.n
        /\ e < Window
  <2>1. Cardinality(Passable) \in Nat
    BY PassableFinite DEF UserInv
  <2>2. elapsed \in Nat /\ elapsed < Window /\ byUser[d] \in Nat /\ prev.n \in Nat
    BY LimitConstants DEF UserInv, UserTyped, Keys
  <2> QED
    BY <2>1, <2>2
<1>2. PICK m \in Nat : m = Least(q, Limit) /\ m <= q /\ m <= Limit
  BY LimitConstants DEF Least
<1>3. PICK lw \in Nat, ld \in Nat, le \in Nat, kw \in Nat, mw \in Nat, me \in Nat :
        /\ lw = Limit * Window /\ ld = Limit * d /\ le = Limit * e
        /\ kw = k * Window /\ mw = m * Window /\ me = m * e
  <2>1. Limit * Window \in Nat /\ Limit * d \in Nat /\ Limit * e \in Nat
    BY <1>1, LimitConstants
  <2>2. k * Window \in Nat /\ m * Window \in Nat /\ m * e \in Nat
    BY <1>1, <1>2, LimitConstants
  <2> QED
    BY <2>1, <2>2
<1>4. PICK r \in Nat, s \in Nat : r = q * (Window - e) /\ s = m * (Window - e)
  <2>1. PICK w \in Nat : w = Window - e
    BY <1>1, LimitConstants
  <2>2. q * w \in Nat /\ m * w \in Nat
    BY <1>1, <1>2, <2>1
  <2> QED
    BY <2>1, <2>2
<1>5. s <= r /\ mw = s + me /\ me <= le /\ mw <= lw
  <2>1. mw = s + me
    BY <1>1, <1>2, <1>3, <1>4, LimitConstants
  <2>2. Window - e \in Nat
    BY <1>1, LimitConstants
  <2>3. s <= r
    BY <1>1, <1>2, <1>4, <2>2, TimesMore
  <2>4. me <= le /\ mw <= lw
    BY <1>1, <1>2, <1>3, TimesMore, LimitConstants
  <2> QED
    BY <2>1, <2>3, <2>4
<1>6. k > 0 => kw + r <= lw
  BY <1>1, <1>3, <1>4, PassableWithin DEF Within, UserInv
<1>7. k = 0 => kw = 0
  BY <1>3, LimitConstants
<1>8. Limit * (Window + d) = lw + ld
  BY <1>3, LimitConstants
<1>9. CASE d <= e
  <2>1. b <= k
    BY <1>1, <1>9 DEF UserInv, PassesCounted
  <2>2. PICK v \in Nat : v = b * Window /\ v <= kw
    BY <1>1, <1>3, <2>1, TimesMore, LimitConstants
  <2>3. v <= lw + ld
    BY <1>1, <1>3, <1>4, <1>6, <1>7, <2>2
  <2> QED
    BY <1>1, <1>8, <2>2, <2>3
<1>10. CASE e < d
  <2>1. b <= k + m
    BY <1>1, <1>2, <1>10, LimitConstants DEF UserInv, PassesCounted
  <2>2. b * Window <= kw + mw
    <3>1. (k + m) * Window = kw + mw
      BY <1>1, <1>2, <1>3, LimitConstants
    <3>2. PICK c \in Nat : c = k + m /\ b <= c
      BY <1>1, <1>2, <2>1
    <3>3. b * Window <= c * Window
      BY <1>1, <3>2, LimitConstants
    <3> QED
      BY <3>1, <3>2, <3>3
  <2>3. le <= ld
    BY <1>1, <1>3, <1>10, LimitConstants
  <2>4. kw + mw <= lw + le
    BY <1>1, <1>3, <1>4, <1>5, <1>6, <1>7
  <2>5. PICK v \in Nat : v = b * Window
    BY <1>1, LimitConstants
  <2>6. v <= lw + ld
    BY <1>3, <2>2, <2>3, <2>4, <2>5
  <2> QED
    BY <1>1, <1>8, <2>5, <2>6
<1> QED
  BY <1>1, <1>9, <1>10, LimitConstants

\* Requests that move without a new count: a count that was pending may pass, or not
LEMMA PassesKept ==
    ASSUME UserInv, UNCHANGED <<elapsed, cur, prev, byUser>>, UserTyped',
           Passable \subseteq Passable'
    PROVE  PassesCounted'
<1>1. IsFiniteSet(Passable') /\ Cardinality(Passable') \in Nat
  <2>1. cur'.n \in Nat /\ Passable' \subseteq 1..cur'.n
    BY DEF UserTyped, Keys, Passable
  <2> QED
    BY <2>1, CountsFinite
<1>2. Passable \in SUBSET Passable'
  OBVIOUS
<1>3. Cardinality(Passable) <= Cardinality(Passable') /\ Cardinality(Passable) \in Nat
  BY <1>1, <1>2, FS_Subset, PassableFinite DEF UserInv
<1>4. Least(prev.n, Limit) \in Int
  BY LimitConstants DEF UserInv, UserTyped, Keys, Least
<1> QED
  BY <1>1, <1>3, <1>4 DEF UserInv, UserTyped, PassesCounted

\* A call that comes, is refused or is let pass uncounted
LEMMA CallMoves ==
    ASSUME UserInv, NEW c \in Arrivals, NEW q \in [pc : {"idle", "user", "weigh"}, n : Nat],
           req' = [req EXCEPT ![c] = q], q.pc # "weigh",
           UNCHANGED <<elapsed, cur, prev, byUser>>
    PROVE  UserInv'
<1>1. UserTyped'
  BY DEF UserInv, UserTyped
<1>2. \A d \in Arrivals : req'[d].pc = "weigh" => req'[d] = req[d]
  BY DEF UserInv, UserTyped
<1>3. CountsSound' /\ KeysLive'
  BY <1>2 DEF UserInv, CountsSound, KeysLive, KeyTtl
<1>4. Passable \subseteq Passable'
  BY <1>2 DEF Passable, Within
<1> QED
  BY <1>1, <1>3, <1>4, PassesKept DEF UserInv

LEMMA CountStep ==
    ASSUME UserInv, NEW c \in Arrivals, Count(c)
    PROVE  UserInv'
<1>1. PICK n \in Nat, t \in Nat : n = cur.n + 1 /\ t = KeyTtl
  BY LimitConstants DEF UserInv, UserTyped, Keys, KeyTtl
<1>2. PICK q \in [pc : {"idle", "user", "weigh"}, n : Nat] : q = [pc |-> "weigh", n |-> n]
  BY <1>1
<1>3. PICK k \in Keys : k = [n |-> n, left |-> t] /\ k.n = n /\ k.left = t
  <2>1. PICK k : k = [n |-> n, left |-> t]
    OBVIOUS
  <2>2. k \in Keys
    BY <2>1 DEF Keys
  <2> QED
    BY <2>1, <2>2
<1>4. /\ req' = [req EXCEPT ![c] = q] /\ cur' = k /\ req[c].pc = "user"
      /\ UNCHANGED <<elapsed, prev, byUser>>
  BY <1>1, <1>2, <1>3 DEF Count, Move
<1>5. UserTyped'
  BY <1>4 DEF UserInv, UserTyped, Keys
<1>6. /\ req'[c] = q /\ q.n = n /\ q.pc = "weigh"
      /\ \A d \in Arrivals : d # c => req'[d] = req[d]
  BY <1>2, <1>4 DEF UserInv, UserTyped
<1>7. CountsSound'
  BY <1>1, <1>3, <1>4, <1>6 DEF UserInv, UserTyped, CountsSound, Keys
<1>8. KeysLive'
  BY <1>1, <1>3, <1>4, LimitConstants DEF UserInv, UserTyped, KeysLive, KeyTtl
<1>9. Passable' = Passable
  <2>1. \A m \in 1..cur.n : m \in 1..cur'.n /\ m # n
    BY <1>1, <1>3, <1>4 DEF UserInv, UserTyped, Keys
  <2>2. \A m \in 1..cur'.n : m # n => m \in 1..cur.n
    BY <1>1, <1>3, <1>4 DEF UserInv, UserTyped, Keys
  <2>3. \A m : Within(m)' <=> Within(m)
    BY <1>4 DEF Within
  <2> QED
    BY <1>4, <1>6, <2>1, <2>2, <2>3 DEF Passable
<1>10. PassesCounted'
  BY <1>4, <1>9 DEF UserInv, PassesCounted
<1> QED
  BY <1>5, <1>7, <1>8, <1>10 DEF UserInv

LEMMA WeighStep ==
    ASSUME UserInv, NEW c \in Arrivals, Weigh(c)
    PROVE  UserInv'
<1>1. /\ Waiting \in [pc : {"idle", "user", "weigh"}, n : Nat] /\ Waiting.pc = "idle"
      /\ req' = [req EXCEPT ![c] = Waiting] /\ req[c].pc = "weigh"
      /\ UNCHANGED <<elapsed, cur, prev>>
  BY DEF Waiting, Weigh, Move
<1>2. CASE ~Within(req[c].n)
  <2>1. byUser' = byUser
    BY <1>2 DEF Weigh
  <2> QED
    BY <1>1, <2>1, CallMoves
<1>3. CASE Within(req[c].n)
  <2>1. byUser' = [d \in 0..Span |-> byUser[d] + 1]
    BY <1>3 DEF Weigh, Passed
  <2>2. PICK n \in 1..cur.n : n = req[c].n
    BY <1>1 DEF UserInv, CountsSound
  <2>3. \A d \in Arrivals : (req'[d].pc = "weigh" <=> d # c /\ req[d].pc = "weigh")
                            /\ (d # c => req'[d] = req[d])
    BY <1>1 DEF UserInv, UserTyped
  <2>4. \A m : Within(m)' <=> Within(m)
    BY <1>1 DEF Within
  <2>5. Passable' = Passable \cup {n} /\ n \notin Passable
    <3>1. n \notin Passable
      BY <1>1, <2>2 DEF Passable
    <3>2. \A d \in Arrivals : d # c /\ req[d].pc = "weigh" => req[d].n # n
      BY <1>1, <2>2 DEF UserInv, CountsSound
    <3>3. n \in Passable'
      BY <1>1, <1>3, <2>2, <2>3, <2>4, <3>2 DEF Passable
    <3>4. \A m \in 1..cur.n : m # n => (m \in Passable' <=> m \in Passable)
      BY <1>1, <2>2, <2>3, <2>4 DEF Passable
    <3>5. Passable \subseteq 1..cur.n /\ Passable' \subseteq 1..cur.n
      BY <1>1 DEF Passable
    <3> QED
      BY <3>1, <3>3, <3>4, <3>5
  <2>6. PICK k \in Nat : k = Cardinality(Passable) /\ Cardinality(Passable') = k + 1
    BY <2>5, PassableFinite, FS_AddElement DEF UserInv
  <2>7. UserTyped'
    BY <1>1, <2>1 DEF UserInv, UserTyped
  <2>8. CountsSound' /\ KeysLive'
    BY <1>1, <2>3 DEF UserInv, CountsSound, KeysLive, KeyTtl
  <2>9. PassesCounted'
    <3>1. Least(prev.n, Limit) \in Int
      BY LimitConstants DEF UserInv, UserTyped, Keys, Least
    <3>2. \A d \in 0..Span : byUser'[d] = byUser[d] + 1 /\ byUser[d] \in Nat
      BY <2>1 DEF UserInv, UserTyped
    <3>3. elapsed \in Nat
      BY LimitConstants DEF UserInv, UserTyped
    <3> QED
      BY <1>1, <2>6, <3>1, <3>2, <3>3 DEF UserInv, PassesCounted
  <2> QED
    BY <2>7, <2>8, <2>9 DEF UserInv
<1> QED
  BY <1>2, <1>3

\* A key that is not about to expire keeps its count
LEMMA OlderKeeps ==
    ASSUME NEW k \in Keys
    PROVE  /\ Older(k) \in Keys
           /\ k.n > 0 /\ k.left > 1 => Older(k).n = k.n /\ Older(k).left = k.left - 1
           /\ k.n = 0 => Older(k).n = 0
<1>1. PICK n \in Nat, l \in Nat : k = [n |-> n, left |-> l]
  BY DEF Keys
<1>2. CASE l <= 1
  <2>1. Older(k) = [n |-> 0, left |-> 0]
    BY <1>1, <1>2 DEF Older, NoKey
  <2> QED
    BY <1>1, <1>2, <2>1 DEF Keys
<1>3. CASE l > 1
  <2>1. PICK m \in Nat : m = l - 1
    BY <1>3
  <2>2. PICK o : o = [n |-> n, left |-> m]
    OBVIOUS
  <2>3. o \in Keys /\ o.n = n /\ o.left = m
    BY <2>2 DEF Keys
  <2>4. Older(k) = o
    BY <1>1, <1>3, <2>1, <2>2 DEF Older
  <2> QED
    BY <1>1, <2>1, <2>3, <2>4
<1> QED
  BY <1>2, <1>3

LEMMA PassableLimited ==
    ASSUME UserInv
    PROVE  Cardinality(Passable) <= Limit
<1>1. PICK k \in Nat : k = Cardinality(Passable)
  BY PassableFinite DEF UserInv
<1>2. CASE k = 0
  BY <1>1, <1>2, LimitConstants
<1>3. CASE k > 0
  <2>1. PICK w \in Nat : w = Window - elapsed
    BY LimitConstants DEF UserInv, UserTyped
  <2>2. PICK p \in Nat : p = prev.n * w
    BY <2>1 DEF UserInv, UserTyped, Keys
  <2>3. k * Window + p <= Limit * Window
    BY <1>1, <1>3, <2>1, <2>2, PassableWithin DEF UserInv, Within
  <2>4. ASSUME k >= Limit + 1
        PROVE  FALSE
    <3>1. PICK m \in Nat : m = Limit * Window
      BY LimitConstants
    <3>2. (Limit + 1) * Window = m + Window
      BY <3>1, LimitConstants
    <3>3. (Limit + 1) * Window <= k * Window
      BY <2>4, TimesMore, LimitConstants
    <3>4. k * Window \in Nat
      BY LimitConstants
    <3> QED
      BY <2>2, <2>3, <3>1, <3>2, <3>3, <3>4, LimitConstants
  <2> QED
    BY <1>1, <2>4, LimitConstants
<1> QED
  BY <1>1, <1>2, <1>3

\* A unit of time within the window: what may have passed still may
LEMMA WithinWindow ==
    ASSUME UserInv, Second, elapsed + 1 # Window
    PROVE  UserInv'
<1>1. PICK e \in Nat : e = elapsed /\ e + 1 < Window /\ elapsed' = e + 1
  <2>1. PICK e \in Nat : e = elapsed /\ e + 1 < Window
    BY LimitConstants DEF UserInv, UserTyped
  <2>2. elapsed' = (e + 1) % Window
    BY <2>1 DEF Second
  <2>3. (e + 1) % Window = e + 1
    BY <2>1, LimitConstants
  <2> QED
    BY <2>1, <2>2, <2>3
<1>2. /\ req' = req /\ cur' = Older(cur) /\ prev' = Older(prev)
      /\ byUser' = [d \in 0..Span |-> IF d = 0 THEN 0 ELSE byUser[d - 1]]
      /\ \A c \in Arrivals : req[c].pc = "idle"
  BY DEF Second, Waiting, Shift
<1>3. /\ cur' \in Keys /\ cur'.n = cur.n /\ (cur.n > 0 => cur'.left = cur.left - 1)
      /\ prev' \in Keys /\ prev'.n = prev.n /\ (prev.n > 0 => prev'.left = prev.left - 1)
  <2>1. cur \in Keys /\ prev \in Keys
    BY DEF UserInv, UserTyped
  <2>2. cur.n \in Nat /\ cur.left \in Nat /\ prev.n \in Nat /\ prev.left \in Nat
    BY <2>1 DEF Keys
  <2>3. (cur.n > 0 => cur.left > 1) /\ (prev.n > 0 => prev.left > 1)
    BY <1>1, <2>2, LimitConstants DEF UserInv, KeysLive, KeyTtl
  <2> QED
    BY <1>2, <2>1, <2>2, <2>3, OlderKeeps
<1>4. byUser' \in [0..Span -> Nat]
  <2> SUFFICES ASSUME NEW d \in 0..Span
               PROVE  (IF d = 0 THEN 0 ELSE byUser[d - 1]) \in Nat
    BY <1>2
  <2>1. d # 0 => d - 1 \in 0..Span
    BY LimitConstants
  <2> QED
    BY <2>1 DEF UserInv, UserTyped
<1>5. UserTyped'
  <2>1. elapsed' \in 0..(Window - 1)
    BY <1>1, LimitConstants
  <2>2. req' \in [Arrivals -> [pc : {"idle", "user", "weigh"}, n : Nat]]
    BY <1>2 DEF UserInv, UserTyped
  <2> QED
    BY <1>3, <1>4, <2>1, <2>2 DEF UserTyped
<1>6. CountsSound'
  BY <1>2 DEF CountsSound
<1>7. KeysLive'
  <2>1. cur.n \in Nat /\ cur.left \in Nat /\ prev.n \in Nat /\ prev.left \in Nat
    BY DEF UserInv, UserTyped, Keys
  <2> QED
    BY <1>1, <1>3, <2>1, LimitConstants DEF UserInv, KeysLive, KeyTtl
<1>8. Passable \subseteq Passable'
  <2> SUFFICES ASSUME NEW n \in 1..cur.n, Within(n)
               PROVE  Within(n)'
    BY <1>2, <1>3 DEF Passable
  <2>1. PICK w \in Nat : w + 1 = Window - e
    BY <1>1, LimitConstants
  <2>2. PICK q \in Nat : q = prev.n
    BY DEF UserInv, UserTyped, Keys
  <2>3. PICK x \in Nat : x = q * w
    BY <2>1, <2>2
  <2>4. q * (w + 1) = x + q
    BY <2>1, <2>2, <2>3
  <2>5. Window - elapsed' = w /\ Window - elapsed = w + 1
    BY <1>1, <2>1, LimitConstants
  <2>6. PICK y \in Nat, z \in Nat : y = n * Window /\ z = Limit * Window
    BY LimitConstants DEF UserInv, UserTyped, Keys
  <2>7. y + (x + q) <= z
    BY <2>2, <2>4, <2>5, <2>6 DEF Within
  <2> QED
    BY <1>3, <2>2, <2>3, <2>5, <2>6, <2>7 DEF Within
<1>9. PassesCounted'
  <2>1. PICK j \in Nat, k \in Nat :
          j = Cardinality(Passable) /\ k = Cardinality(Passable') /\ j <= k
    <3>1. cur'.n \in Nat /\ Passable' \subseteq 1..cur'.n
      BY <1>3 DEF Keys, Passable
    <3>2. IsFiniteSet(Passable') /\ Cardinality(Passable') \in Nat
      BY <3>1, CountsFinite
    <3>3. Passable \in SUBSET Passable'
      BY <1>8
    <3>4. Cardinality(Passable) <= Cardinality(Passable')
      BY <3>2, <3>3, FS_Subset
    <3>5. Cardinality(Passable) \in Nat
      BY PassableFinite DEF UserInv
    <3> QED
      BY <3>2, <3>4, <3>5
  <2>2. PICK l \in Int : l = Least(prev.n, Limit) /\ l = Least(prev'.n, Limit) /\ l >= 0
    BY <1>3, LimitConstants DEF UserInv, UserTyped, Keys, Least
  <2> SUFFICES ASSUME NEW d \in 0..Span
               PROVE  /\ d <= elapsed' => byUser'[d] <= k
                      /\ elapsed' < d /\ d < Window => byUser'[d] <= k + l
    BY <2>1, <2>2 DEF PassesCounted
  <2>3. CASE d = 0
    <3>1. byUser'[d] = 0
      BY <1>2, <2>3
    <3> QED
      BY <2>1, <2>2, <3>1
  <2>4. CASE d # 0
    <3>1. PICK f \in 0..Span : d = f + 1
      BY <2>4, LimitConstants
    <3>2. PICK b \in Nat : b = byUser[f] /\ byUser'[d] = b
      BY <1>2, <2>4, <3>1 DEF UserInv, UserTyped
    <3>3. /\ f <= e => b <= j
          /\ e < f /\ f < Window => b <= j + l
      BY <1>1, <2>1, <2>2, <3>2 DEF UserInv, PassesCounted
    <3> QED
      BY <1>1, <2>1, <2>2, <3>1, <3>2, <3>3, LimitConstants
  <2> QED
    BY <2>3, <2>4
<1> QED
  BY <1>5, <1>6, <1>7, <1>9 DEF UserInv

\* The edge of the window: what may have passed is what the last window counted
LEMMA NextWindow ==
    ASSUME UserInv, Second, elapsed + 1 = Window
    PROVE  UserInv'
<1>1. elapsed' = 0
  <2>1. elapsed' = Window % Window
    BY DEF Second
  <2> QED
    BY <2>1, LimitConstants
<1>2. /\ req' = req /\ cur' = NoKey /\ prev' = Older(cur)
      /\ byUser' = [d \in 0..Span |-> IF d = 0 THEN 0 ELSE byUser[d - 1]]
      /\ \A c \in Arrivals : req[c].pc = "idle"
  BY DEF Second, Waiting, Shift
<1>3. cur' \in Keys /\ cur'.n = 0
  BY <1>2 DEF NoKey, Keys
<1>4. prev' \in Keys /\ prev'.n = cur.n /\ (cur.n > 0 => prev'.left = cur.left - 1)
  <2>1. cur \in Keys
    BY DEF UserInv, UserTyped
  <2>2. cur.n \in Nat /\ cur.left \in Nat /\ elapsed \in Nat
    BY <2>1, LimitConstants DEF Keys, UserInv, UserTyped
  <2>3. cur.n > 0 => cur.left > 1
    BY <2>2, LimitConstants DEF UserInv, KeysLive, KeyTtl
  <2> QED
    BY <1>2, <2>1, <2>2, <2>3, OlderKeeps
<1>5. byUser' \in [0..Span -> Nat]
  <2> SUFFICES ASSUME NEW d \in 0..Span
               PROVE  (IF d = 0 THEN 0 ELSE byUser[d - 1]) \in Nat
    BY <1>2
  <2>1. d # 0 => d - 1 \in 0..Span
    BY LimitConstants
  <2> QED
    BY <2>1 DEF UserInv, UserTyped
<1>6. UserTyped'
  <2>1. elapsed' \in 0..(Window - 1)
    BY <1>1, LimitConstants
  <2>2. req' \in [Arrivals -> [pc : {"idle", "user", "weigh"}, n : Nat]]
    BY <1>2 DEF UserInv, UserTyped
  <2> QED
    BY <1>3, <1>4, <1>5, <2>1, <2>2 DEF UserTyped
<1>7. CountsSound'
  BY <1>2 DEF CountsSound
<1>8. KeysLive'
  <2>1. cur.n \in Nat /\ cur.left \in Nat /\ elapsed \in Nat
    BY LimitConstants DEF UserInv, UserTyped, Keys
  <2>2. cur.n > 0 => cur.left >= Window + 1
    BY <2>1, LimitConstants DEF UserInv, KeysLive, KeyTtl
  <2> QED
    BY <1>1, <1>3, <1>4, <2>1, <2>2, LimitConstants DEF KeysLive
<1>9. PassesCounted'
  <2>1. Cardinality(Passable') = 0
    <3>1. Passable' = {}
      BY <1>3 DEF Passable
    <3> QED
      BY <3>1, FS_EmptySet
  <2>2. PICK j \in Nat : j = Cardinality(Passable) /\ j <= cur.n /\ j <= Limit
    BY PassableFinite, PassableLimited DEF UserInv
  <2>3. j <= Least(prev'.n, Limit) /\ Least(prev'.n, Limit) \in Int
    BY <1>4, <2>2, LimitConstants DEF Least, UserInv, UserTyped, Keys
  <2> SUFFICES ASSUME NEW d \in 0..Span
               PROVE  /\ d <= 0 => byUser'[d] <= 0
                      /\ 0 < d /\ d < Window => byUser'[d] <= Least(prev'.n, Limit)
    BY <1>1, <2>1, <2>3, <1>5 DEF PassesCounted
  <2>4. CASE d = 0
    BY <1>2, <2>4
  <2>5. CASE d # 0
    <3>1. PICK f \in 0..Span : d = f + 1
      BY <2>5, LimitConstants
    <3>2. PICK b \in Nat : b = byUser[f] /\ byUser'[d] = b
      BY <1>2, <2>5, <3>1 DEF UserInv, UserTyped
    <3>3. f <= elapsed => b <= j
      BY <2>2, <3>2 DEF UserInv, PassesCounted
    <3> QED
      BY <2>3, <2>2, <3>1, <3>2, <3>3, LimitConstants DEF UserInv, UserTyped
  <2> QED
    BY <2>4, <2>5
<1> QED
  BY <1>6, <1>7, <1>8, <1>9 DEF UserInv

LEMMA UserStarts == LimitInit => UserInv
<1> SUFFICES ASSUME LimitInit
             PROVE  UserInv
  OBVIOUS
<1>1. /\ elapsed = 0 /\ cur = NoKey /\ prev = NoKey
      /\ req = [c \in Arrivals |-> Waiting] /\ byUser = [d \in 0..Span |-> 0]
  BY DEF LimitInit, Nothing
<1>2. cur.n = 0 /\ prev.n = 0 /\ cur \in Keys /\ prev \in Keys
  BY <1>1 DEF NoKey, Keys
<1>3. req \in [Arrivals -> [pc : {"idle", "user", "weigh"}, n : Nat]]
      /\ \A c \in Arrivals : req[c].pc = "idle"
  BY <1>1 DEF Waiting
<1>4. UserTyped
  BY <1>1, <1>2, <1>3, LimitConstants DEF UserTyped
<1>5. Cardinality(Passable) = 0 /\ Least(prev.n, Limit) = 0
  <2>1. Passable = {}
    BY <1>2 DEF Passable
  <2> QED
    BY <1>2, <2>1, FS_EmptySet, LimitConstants DEF Least
<1> QED
  BY <1>1, <1>2, <1>3, <1>4, <1>5 DEF UserInv, CountsSound, KeysLive, PassesCounted

LEMMA UserGoesOn == UserInv /\ [LimitNext]_limitVars => UserInv'
<1> SUFFICES ASSUME UserInv, [LimitNext]_limitVars
             PROVE  UserInv'
  OBVIOUS
<1>1. ASSUME UNCHANGED <<elapsed, cur, prev, req, byUser>>
      PROVE  UserInv'
  BY <1>1 DEF UserInv, UserTyped, CountsSound, KeysLive, PassesCounted, Passable, Within, KeyTtl
<1>2. ASSUME NEW c \in Arrivals, Arrive(c)
      PROVE  UserInv'
  <2>1. UNCHANGED <<elapsed, cur, prev, byUser>>
    BY <1>2 DEF Arrive
  <2>2. CASE Enough(Refilled)
    <3>1. PICK q \in [pc : {"idle", "user", "weigh"}, n : Nat] : q = [pc |-> "user", n |-> 0]
      OBVIOUS
    <3>2. req' = [req EXCEPT ![c] = q] /\ q.pc # "weigh"
      BY <1>2, <2>2, <3>1 DEF Arrive, Move
    <3>3. req[c].pc # "weigh"
      BY <1>2 DEF Arrive, Waiting
    <3> QED
      BY <2>1, <3>2, <3>3, CallMoves
  <2>3. CASE ~Enough(Refilled)
    BY <1>1, <1>2, <2>1, <2>3 DEF Arrive
  <2> QED
    BY <2>2, <2>3
<1>3. ASSUME NEW c \in Arrivals, LetPass(c)
      PROVE  UserInv'
  <2>1. Waiting \in [pc : {"idle", "user", "weigh"}, n : Nat] /\ Waiting.pc # "weigh"
    BY DEF Waiting
  <2>2. req' = [req EXCEPT ![c] = Waiting] /\ UNCHANGED <<elapsed, cur, prev, byUser>>
    BY <1>3 DEF LetPass, Move, limits
  <2> QED
    BY <2>1, <2>2, CallMoves
<1>4. CASE CreateProject \/ ReadCache \/ Lookup \/ WriteRow \/ CacheExpires
  BY <1>1, <1>4 DEF CreateProject, ReadCache, Lookup, WriteRow, CacheExpires, limits
<1>5. CASE UNCHANGED limitVars
  BY <1>1, <1>5 DEF limitVars, limits
<1> QED
  BY <1>2, <1>3, <1>4, <1>5, CountStep, WeighStep, WithinWindow, NextWindow DEF LimitNext

-----------------------------------------------------------------------------
(* RateLimiters: the row of a rejection                                    *)

\* What was there when the call was rejected is still there, and only a lookup
\* that found it or failed leads to the row
RecordInv ==
    /\ exists \in BOOLEAN
    /\ record \in [pc : {"idle", "cache", "lookup", "row"}, scope : {NULL, "project", "user"},
                   existed : BOOLEAN, named : BOOLEAN, failed : BOOLEAN]
    /\ record.existed => exists
    /\ RejectionIsNamed

LEMMA RecordStarts == LimitInit => RecordInv
<1> SUFFICES ASSUME LimitInit
             PROVE  RecordInv
  OBVIOUS
<1>1. /\ exists = FALSE
      /\ record = [pc |-> "idle", scope |-> NULL, existed |-> FALSE,
                   named |-> FALSE, failed |-> FALSE]
  BY DEF LimitInit, Quiet
<1> QED
  BY <1>1 DEF RecordInv, RejectionIsNamed

LEMMA LogKeepsRecord ==
    ASSUME RecordInv, NEW scope \in {"project", "user"}, Log(scope), exists' = exists
    PROVE  RecordInv'
<1>1. CASE record.pc = "idle"
  <2>1. record' = [pc |-> "cache", scope |-> scope, existed |-> exists,
                   named |-> FALSE, failed |-> FALSE]
    BY <1>1 DEF Log, Quiet
  <2> QED
    BY <2>1 DEF RecordInv, RejectionIsNamed
<1>2. CASE record.pc # "idle"
  BY <1>2 DEF Log, RecordInv, RejectionIsNamed
<1> QED
  BY <1>1, <1>2

LEMMA RecordGoesOn == RecordInv /\ [LimitNext]_limitVars => RecordInv'
<1> SUFFICES ASSUME RecordInv, [LimitNext]_limitVars
             PROVE  RecordInv'
  OBVIOUS
<1>1. ASSUME UNCHANGED <<exists, record>>
      PROVE  RecordInv'
  BY <1>1 DEF RecordInv, RejectionIsNamed
<1>2. ASSUME NEW c \in Arrivals, Arrive(c)
      PROVE  RecordInv'
  <2>1. exists' = exists /\ (record' = record \/ Log("project"))
    BY <1>2 DEF Arrive
  <2> QED
    BY <1>1, <2>1, LogKeepsRecord
<1>3. ASSUME NEW c \in Arrivals, LetPass(c) \/ Count(c)
      PROVE  RecordInv'
  BY <1>1, <1>3 DEF LetPass, Count, identity
<1>4. ASSUME NEW c \in Arrivals, Weigh(c)
      PROVE  RecordInv'
  <2>1. exists' = exists /\ (record' = record \/ Log("user"))
    BY <1>4 DEF Weigh
  <2> QED
    BY <1>1, <2>1, LogKeepsRecord
<1>5. CASE CreateProject
  BY <1>5 DEF CreateProject, RecordInv, RejectionIsNamed
<1>6. CASE ReadCache
  BY <1>6 DEF ReadCache, RecordInv, RejectionIsNamed
<1>7. CASE Lookup
  BY <1>7 DEF Lookup, Row, RecordInv, RejectionIsNamed
<1>8. CASE WriteRow
  BY <1>8 DEF WriteRow, Quiet, RecordInv, RejectionIsNamed
<1>9. CASE CacheExpires \/ Second \/ UNCHANGED limitVars
  BY <1>1, <1>9 DEF CacheExpires, Second, limitVars, identity
<1> QED
  BY <1>2, <1>3, <1>4, <1>5, <1>6, <1>7, <1>8, <1>9 DEF LimitNext

-----------------------------------------------------------------------------
\* Over any stretch of time a project gets through no more than the capacity of
\* its bucket and what has been refilled, a user no more than the limit and a
\* share of it for the time passed; Retry-After is exact; and the row of a
\* rejection names the project (token-bucket-limiter.ts,
\* sliding-window-counter-limiter.ts, project-identity-cache.service.ts).
THEOREM LimitersCorrect == LimitSpec => []LimitersSound
<1> DEFINE LimiterInv == BucketInv /\ UserInv /\ RecordInv
<1>1. LimitInit => LimiterInv
  BY BucketStarts, UserStarts, RecordStarts
<1>2. LimiterInv /\ [LimitNext]_limitVars => LimiterInv'
  BY BucketGoesOn, UserGoesOn, RecordGoesOn
<1>3. LimiterInv => LimitersSound
  BY BucketBounds, UserBounds DEF LimitersSound, RecordInv
<1> QED
  BY <1>1, <1>2, <1>3, PTL DEF LimitSpec

-----------------------------------------------------------------------------
(* RateLimiters: the types                                                 *)

\* No limiter has let pass more calls than there were: those of this unit and of
\* the d before it, and of the user's those that are not still under way
UnderWay == {c \in Arrivals : req[c] # Waiting}
Known(d) == Burst * d + arrived
HistoryInv ==
    /\ arrived \in 0..Burst /\ cached \in BOOLEAN
    /\ cur.left <= KeyTtl /\ prev.left <= KeyTtl
    /\ IsFiniteSet(UnderWay)
    /\ \A d \in 0..Span : /\ byProject[d] <= Known(d)
                          /\ byUser[d] + Cardinality(UnderWay) <= Known(d)

LEMMA HistoryConstants ==
    Burst \in Nat /\ Burst # 0 /\ Span \in Nat /\ Window \in Nat /\ KeyTtl \in Nat
BY LimiterAssumption DEF KeyTtl

LEMMA KnownTyped ==
    ASSUME arrived \in Nat, NEW d \in Nat
    PROVE  Known(d) \in Nat /\ (Known(d))' = Burst * d + arrived'
<1>1. Burst * d \in Nat
  BY HistoryConstants
<1> QED
  BY <1>1 DEF Known

LEMMA HistoryStarts == LimitInit => HistoryInv
<1> SUFFICES ASSUME LimitInit PROVE HistoryInv
  OBVIOUS
<1>1. UnderWay = {}
  BY DEF LimitInit, UnderWay
<1>2. IsFiniteSet(UnderWay) /\ Cardinality(UnderWay) = 0
  BY <1>1, FS_EmptySet
<1>3. cur.left = 0 /\ prev.left = 0 /\ arrived = 0 /\ cached = FALSE
  BY DEF LimitInit, NoKey
<1>4. ASSUME NEW d \in 0..Span
      PROVE  byProject[d] <= Known(d) /\ byUser[d] + Cardinality(UnderWay) <= Known(d)
  <2>1. byProject[d] = 0 /\ byUser[d] = 0
    BY DEF LimitInit, Nothing
  <2>2. Known(d) \in Nat
    BY <1>3, KnownTyped
  <2> QED
    BY <1>2, <2>1, <2>2
<1>5. arrived \in 0..Burst /\ cur.left <= KeyTtl /\ prev.left <= KeyTtl
  BY <1>3, HistoryConstants
<1>6. cached \in BOOLEAN
  BY <1>3
<1> QED
  BY <1>2, <1>4, <1>5, <1>6 DEF HistoryInv

\* While no time passes, each of the two logs grows at most with what it counts
LEMMA HistoryKept ==
    ASSUME BucketTyped, UserTyped, HistoryInv, BucketTyped', UserTyped',
           arrived' \in 0..Burst, cached' \in BOOLEAN,
           cur'.left <= KeyTtl, prev' = prev,
           NEW p \in 0..1, NEW u \in 0..1,
           \A d \in 0..Span : byProject'[d] = byProject[d] + p,
           \A d \in 0..Span : byUser'[d] = byUser[d] + u,
           arrived' >= arrived + p,
           IsFiniteSet(UnderWay'),
           Cardinality(UnderWay') + u <= Cardinality(UnderWay) + (arrived' - arrived)
    PROVE  HistoryInv'
<1>1. prev'.left <= KeyTtl
  BY DEF HistoryInv
<1>2. ASSUME NEW d \in 0..Span
      PROVE  (byProject[d] <= Known(d) /\ byUser[d] + Cardinality(UnderWay) <= Known(d))'
  <2>1. PICK x \in Nat, y \in Nat : x = byProject[d] /\ y = byUser[d]
    BY DEF BucketTyped, UserTyped
  <2>2. PICK k \in Nat : k = Cardinality(UnderWay)
    BY FS_CardinalityType DEF HistoryInv
  <2>3. PICK l \in Nat : l = Cardinality(UnderWay')
    BY FS_CardinalityType
  <2>4. PICK b \in Nat : b = Burst * d
    BY HistoryConstants
  <2>5. PICK a \in Nat, e \in Nat : a = arrived /\ e = arrived'
    BY HistoryConstants DEF HistoryInv
  <2>6. x <= b + a /\ y + k <= b + a
    BY <2>1, <2>2, <2>4, <2>5 DEF HistoryInv, Known
  <2>7. x + p <= b + e /\ (y + u) + l <= b + e
    BY <2>1, <2>2, <2>3, <2>4, <2>5, <2>6
  <2>8. byProject'[d] = x + p /\ byUser'[d] = y + u
    BY <2>1
  <2>9. (Known(d))' = b + e
    BY <2>4, <2>5 DEF Known
  <2> QED
    BY <2>3, <2>7, <2>8, <2>9
<1> QED
  BY <1>1, <1>2 DEF HistoryInv

\* The same when only other variables move
LEMMA HistoryUntouched ==
    ASSUME HistoryInv, UNCHANGED <<limits, req>>, cached' \in BOOLEAN
    PROVE  HistoryInv'
BY DEF HistoryInv, limits, UnderWay, Known, KeyTtl

LEMMA NoneMore ==
    ASSUME NEW log \in [0..Span -> Nat], NEW next, next = log
    PROVE  \A d \in 0..Span : next[d] = log[d] + 0
OBVIOUS

LEMMA CallEnds ==
    ASSUME UserTyped, HistoryInv, NEW c \in Arrivals, req[c] # Waiting, Move(c, Waiting)
    PROVE  IsFiniteSet(UnderWay') /\ Cardinality(UnderWay') = Cardinality(UnderWay) - 1
<1>1. UnderWay' = UnderWay \ {c} /\ c \in UnderWay
  BY DEF UserTyped, Move, UnderWay
<1> QED
  BY <1>1, FS_RemoveElement DEF HistoryInv

LEMMA ArrivalCounted ==
    ASSUME BucketTyped, UserTyped, HistoryInv, BucketTyped', UserTyped',
           NEW c \in Arrivals, Arrive(c)
    PROVE  HistoryInv'
<1>1. PICK a \in Nat : a = arrived /\ arrived' = a + 1 /\ a + 1 <= Burst
  BY HistoryConstants DEF HistoryInv, Arrive
<1>2. cached' \in BOOLEAN /\ cur'.left <= KeyTtl /\ prev' = prev /\ byUser' = byUser
  BY DEF HistoryInv, Arrive
<1>3. \A d \in 0..Span : byUser'[d] = byUser[d] + 0
  BY <1>2, NoneMore DEF UserTyped
<1>4. PICK k \in Nat : k = Cardinality(UnderWay)
  BY FS_CardinalityType DEF HistoryInv
<1>5. CASE Enough(Refilled)
  <2>1. byProject' = Passed(byProject)
    BY <1>5 DEF Arrive
  <2>2. \A d \in 0..Span : byProject'[d] = byProject[d] + 1
    BY <2>1 DEF Passed
  <2>3. PICK q : q = [pc |-> "user", n |-> 0]
    OBVIOUS
  <2>4. req' = [req EXCEPT ![c] = q] /\ q # Waiting /\ req[c] = Waiting
    BY <1>5, <2>3 DEF Arrive, Move, Waiting
  <2>5. UnderWay' = UnderWay \cup {c} /\ c \notin UnderWay
    BY <2>4 DEF UserTyped, UnderWay
  <2>6. IsFiniteSet(UnderWay') /\ Cardinality(UnderWay') = k + 1
    BY <1>4, <2>5, FS_AddElement DEF HistoryInv
  <2>7. arrived' >= arrived + 1 /\ arrived' \in 0..Burst
        /\ Cardinality(UnderWay') + 0 <= Cardinality(UnderWay) + (arrived' - arrived)
    BY <1>1, <1>4, <2>6, HistoryConstants
  <2> QED
    BY <1>2, <1>3, <2>2, <2>6, <2>7, HistoryKept
<1>6. CASE ~Enough(Refilled)
  <2>1. byProject' = byProject /\ req' = req
    BY <1>6 DEF Arrive
  <2>2. \A d \in 0..Span : byProject'[d] = byProject[d] + 0
    BY <2>1, NoneMore DEF BucketTyped
  <2>3. UnderWay' = UnderWay
    BY <2>1 DEF UnderWay
  <2>4. arrived' >= arrived + 0 /\ arrived' \in 0..Burst
        /\ Cardinality(UnderWay') + 0 <= Cardinality(UnderWay) + (arrived' - arrived)
    BY <1>1, <1>4, <2>3, HistoryConstants
  <2>5. IsFiniteSet(UnderWay')
    BY <2>3 DEF HistoryInv
  <2> QED
    BY <1>2, <1>3, <2>2, <2>4, <2>5, HistoryKept
<1> QED
  BY <1>5, <1>6

LEMMA UserCallCounted ==
    ASSUME BucketTyped, UserTyped, HistoryInv, BucketTyped', UserTyped',
           NEW c \in Arrivals, LetPass(c) \/ Count(c) \/ Weigh(c)
    PROVE  HistoryInv'
<1>1. PICK a \in Nat : a = arrived /\ arrived' = a /\ a <= Burst
  BY HistoryConstants DEF HistoryInv, LetPass, Count, Weigh, limits
<1>2. byProject' = byProject /\ cached' \in BOOLEAN /\ prev' = prev
  BY DEF HistoryInv, LetPass, Count, Weigh, limits, identity
<1>3. \A d \in 0..Span : byProject'[d] = byProject[d] + 0
  BY <1>2, NoneMore DEF BucketTyped
<1>4. PICK k \in Nat : k = Cardinality(UnderWay)
  BY FS_CardinalityType DEF HistoryInv
<1>5. arrived' \in 0..Burst /\ arrived' >= arrived + 0 /\ arrived' - arrived = 0
  BY <1>1, HistoryConstants
<1>6. CASE LetPass(c)
  <2>1. cur' = cur /\ byUser' = byUser /\ req[c] # Waiting /\ Move(c, Waiting)
    BY <1>6 DEF LetPass, limits, Waiting
  <2>2. \A d \in 0..Span : byUser'[d] = byUser[d] + 0
    BY <2>1, NoneMore DEF UserTyped
  <2>3. IsFiniteSet(UnderWay') /\ Cardinality(UnderWay') = k - 1
    BY <1>4, <2>1, CallEnds
  <2>4. cur'.left <= KeyTtl
    BY <2>1 DEF HistoryInv
  <2>5. Cardinality(UnderWay') + 0 <= Cardinality(UnderWay) + (arrived' - arrived)
    BY <1>4, <1>5, <2>3
  <2> QED
    BY <1>2, <1>3, <1>5, <2>2, <2>3, <2>4, <2>5, HistoryKept
<1>7. CASE Count(c)
  <2>1. byUser' = byUser /\ cur' = [n |-> cur.n + 1, left |-> KeyTtl] /\ req[c].pc = "user"
    BY <1>7 DEF Count
  <2>2. \A d \in 0..Span : byUser'[d] = byUser[d] + 0
    BY <2>1, NoneMore DEF UserTyped
  <2>3. PICK q : q = [pc |-> "weigh", n |-> cur.n + 1]
    OBVIOUS
  <2>4. req' = [req EXCEPT ![c] = q] /\ q # Waiting /\ req[c] # Waiting
    BY <1>7, <2>1, <2>3 DEF Count, Move, Waiting
  <2>5. UnderWay' = UnderWay
    BY <2>4 DEF UserTyped, UnderWay
  <2>6. cur'.left <= KeyTtl
    BY <2>1, HistoryConstants
  <2>7. IsFiniteSet(UnderWay') /\ Cardinality(UnderWay') + 0 <= Cardinality(UnderWay) + (arrived' - arrived)
    BY <1>4, <1>5, <2>5 DEF HistoryInv
  <2> QED
    BY <1>2, <1>3, <1>5, <2>2, <2>6, <2>7, HistoryKept
<1>8. CASE Weigh(c)
  <2>1. cur' = cur /\ req[c] # Waiting /\ Move(c, Waiting)
    BY <1>8 DEF Weigh, Waiting
  <2>2. PICK u \in 0..1 : \A d \in 0..Span : byUser'[d] = byUser[d] + u
    <3>1. CASE Within(req[c].n)
      <4>1. byUser' = Passed(byUser)
        BY <1>8, <3>1 DEF Weigh
      <4>2. \A d \in 0..Span : byUser'[d] = byUser[d] + 1
        BY <4>1 DEF Passed
      <4> QED
        BY <4>2
    <3>2. CASE ~Within(req[c].n)
      <4>1. byUser' = byUser
        BY <1>8, <3>2 DEF Weigh
      <4>2. \A d \in 0..Span : byUser'[d] = byUser[d] + 0
        BY <4>1, NoneMore DEF UserTyped
      <4> QED
        BY <4>2
    <3> QED
      BY <3>1, <3>2
  <2>3. IsFiniteSet(UnderWay') /\ Cardinality(UnderWay') = k - 1
    BY <1>4, <2>1, CallEnds
  <2>4. cur'.left <= KeyTtl
    BY <2>1 DEF HistoryInv
  <2>5. Cardinality(UnderWay') + u <= Cardinality(UnderWay) + (arrived' - arrived)
    BY <1>4, <1>5, <2>2, <2>3
  <2> QED
    BY <1>2, <1>3, <1>5, <2>2, <2>3, <2>4, <2>5, HistoryKept
<1> QED
  BY <1>6, <1>7, <1>8

LEMMA OlderIsShorter ==
    ASSUME NEW key \in Keys, key.left <= KeyTtl
    PROVE  Older(key).left <= KeyTtl
BY HistoryConstants DEF Older, NoKey, Keys

LEMMA SecondCounted ==
    ASSUME BucketTyped, UserTyped, HistoryInv, Second
    PROVE  HistoryInv'
<1>1. arrived' = 0 /\ cached' = cached /\ req' = req
  BY DEF Second, identity
<1>2. cur \in Keys /\ prev \in Keys /\ cur.left <= KeyTtl /\ prev.left <= KeyTtl
  BY DEF UserTyped, HistoryInv
<1>3. cur'.left <= KeyTtl /\ prev'.left <= KeyTtl
  <2>1. NoKey.left <= KeyTtl
    BY HistoryConstants DEF NoKey
  <2>2. Older(cur).left <= KeyTtl /\ Older(prev).left <= KeyTtl
    BY <1>2, OlderIsShorter
  <2> QED
    BY <2>1, <2>2 DEF Second
<1>4. UnderWay' = {}
  BY <1>1 DEF Second, UnderWay
<1>5. IsFiniteSet(UnderWay') /\ Cardinality(UnderWay') = 0
  BY <1>4, FS_EmptySet
<1>6. ASSUME NEW d \in 0..Span
      PROVE  (byProject[d] <= Known(d) /\ byUser[d] + Cardinality(UnderWay) <= Known(d))'
  <2>1. byProject'[d] = (IF d = 0 THEN 0 ELSE byProject[d - 1])
        /\ byUser'[d] = (IF d = 0 THEN 0 ELSE byUser[d - 1])
    BY DEF Second, Shift
  <2>2. PICK b \in Nat : b = Burst * d
    BY HistoryConstants
  <2>3. (Known(d))' = b
    BY <1>1, <2>2 DEF Known
  <2>4. CASE d = 0
    BY <1>5, <2>1, <2>2, <2>3, <2>4
  <2>5. CASE d # 0
    <3>1. d - 1 \in 0..Span
      BY <2>5, HistoryConstants
    <3>2. PICK x \in Nat, y \in Nat : x = byProject[d - 1] /\ y = byUser[d - 1]
      BY <3>1 DEF BucketTyped, UserTyped
    <3>3. PICK k \in Nat : k = Cardinality(UnderWay)
      BY FS_CardinalityType DEF HistoryInv
    <3>4. Burst * (d - 1) = b - Burst
      BY <2>2, HistoryConstants
    <3>5. PICK a \in Nat : a = arrived /\ a <= Burst
      BY HistoryConstants DEF HistoryInv
    <3>6. x <= (b - Burst) + a /\ y + k <= (b - Burst) + a
      BY <3>1, <3>2, <3>3, <3>4, <3>5 DEF HistoryInv, Known
    <3>7. x <= b /\ y <= b
      BY <2>2, <3>2, <3>3, <3>5, <3>6, HistoryConstants
    <3>8. byProject'[d] = x /\ byUser'[d] = y
      BY <2>1, <2>5, <3>2
    <3> QED
      BY <1>5, <2>3, <3>2, <3>7, <3>8
  <2> QED
    BY <2>4, <2>5
<1>7. arrived' \in 0..Burst /\ cached' \in BOOLEAN
  BY <1>1, HistoryConstants DEF HistoryInv
<1> QED
  BY <1>3, <1>5, <1>6, <1>7 DEF HistoryInv

LEMMA HistoryGoesOn ==
    ASSUME BucketTyped, UserTyped, HistoryInv, BucketTyped', UserTyped',
           exists \in BOOLEAN, [LimitNext]_limitVars
    PROVE  HistoryInv'
<1>1. CASE CreateProject \/ ReadCache \/ Lookup \/ WriteRow \/ CacheExpires
  <2>1. UNCHANGED <<limits, req>>
    BY <1>1 DEF CreateProject, ReadCache, Lookup, WriteRow, CacheExpires
  <2>2. cached' \in BOOLEAN
    BY <1>1 DEF CreateProject, ReadCache, Lookup, WriteRow, CacheExpires, HistoryInv
  <2> QED
    BY <2>1, <2>2, HistoryUntouched
<1>2. CASE UNCHANGED limitVars
  BY <1>2, HistoryUntouched DEF limitVars, identity, HistoryInv
<1> QED
  BY <1>1, <1>2, ArrivalCounted, UserCallCounted, SecondCounted DEF LimitNext

LEMMA HistoryTypes ==
    ASSUME BucketTyped, UserTyped, RecordInv, HistoryInv
    PROVE  LimitTypeOK
<1>1. bucket = NULL \/ (bucket.tokens \in 0..(Capacity * Parts) /\ bucket.since \in Nat)
  BY LimitConstants DEF BucketTyped, Cap
<1>2. cur.left \in 0..KeyTtl /\ prev.left \in 0..KeyTtl /\ elapsed \in 0..(Window - 1)
  BY HistoryConstants DEF UserTyped, Keys, HistoryInv
<1>3. PICK top \in Nat : top = Burst * (Span + 1)
  BY HistoryConstants
<1>4. ASSUME NEW d \in 0..Span
      PROVE  byProject[d] \in 0..top /\ byUser[d] \in 0..top
  <2>1. PICK x \in Nat, y \in Nat : x = byProject[d] /\ y = byUser[d]
    BY DEF BucketTyped, UserTyped
  <2>2. PICK k \in Nat : k = Cardinality(UnderWay)
    BY FS_CardinalityType DEF HistoryInv
  <2>3. PICK b \in Nat : b = Burst * d
    BY HistoryConstants
  <2>4. PICK a \in Nat : a = arrived /\ a <= Burst
    BY HistoryConstants DEF HistoryInv
  <2>5. x <= b + a /\ y + k <= b + a
    BY <2>1, <2>2, <2>3, <2>4 DEF HistoryInv, Known
  <2>6. b + Burst <= top
    <3>1. PICK e \in Nat : e = Span - d
      BY HistoryConstants
    <3>2. PICK r \in Nat : r = Burst * e
      BY HistoryConstants
    <3>3. Burst * (Span + 1) = (Burst * d + Burst * e) + Burst
      BY <3>1, HistoryConstants
    <3> QED
      BY <1>3, <2>3, <3>2, <3>3, HistoryConstants
  <2> QED
    BY <1>3, <2>1, <2>2, <2>3, <2>4, <2>5, <2>6, HistoryConstants
<1>5. byProject \in [0..Span -> 0..top] /\ byUser \in [0..Span -> 0..top]
  BY <1>4 DEF BucketTyped, UserTyped
<1>6. told = NULL \/ told \in Nat
  BY DEF BucketTyped
<1>7. {exists, cached} \subseteq BOOLEAN /\ record.pc \in {"idle", "cache", "lookup", "row"}
  BY DEF RecordInv, HistoryInv
<1> QED
  BY <1>1, <1>2, <1>3, <1>5, <1>6, <1>7 DEF LimitTypeOK

\* The limiters keep their types: a bucket holds at most its capacity, no key
\* outlives two windows, and neither limiter has let pass more calls than arrived
\* in the time (token-bucket-limiter.ts, sliding-window-counter-limiter.ts).
THEOREM LimitsTyped == LimitSpec => []LimitTypeOK
<1> DEFINE LimiterInv == BucketInv /\ UserInv /\ RecordInv /\ HistoryInv
<1>1. LimitInit => LimiterInv
  BY BucketStarts, UserStarts, RecordStarts, HistoryStarts
<1>2. LimiterInv /\ [LimitNext]_limitVars => LimiterInv'
  <2> SUFFICES ASSUME LimiterInv, [LimitNext]_limitVars PROVE LimiterInv'
    OBVIOUS
  <2>1. BucketInv' /\ UserInv' /\ RecordInv'
    BY BucketGoesOn, UserGoesOn, RecordGoesOn
  <2> QED
    BY <2>1, HistoryGoesOn DEF BucketInv, UserInv, RecordInv
<1>3. LimiterInv => LimitTypeOK
  BY HistoryTypes DEF BucketInv, UserInv
<1> QED
  BY <1>1, <1>2, <1>3, PTL DEF LimitSpec

-----------------------------------------------------------------------------
(* UnconfirmedPages: the invariant                                         *)

Asked == [pc : {"idle", "reading", "done"}, user : GameUsers \cup {NULL},
          campaign : GameCampaigns \cup {NULL}, page : Nat \ {0},
          seen : SUBSET Usages, had : SUBSET Usages, gone : SUBSET Usages]
PagesTyped ==
    /\ entry \in [Usages -> [state : States, at : Nat]] /\ second \in Nat
    /\ \A x \in Usages : entry[x].at <= second
    /\ scan \in Asked

\* A redemption is listed until it is confirmed, for good
Progress ==
    /\ \A x \in scan.seen \cup scan.had : entry[x].state \in {"listed", "confirmed"}
    /\ \A x \in scan.gone : entry[x].state = "confirmed"
    /\ scan.pc = "reading" => \A x \in scan.had \ scan.gone : Matches(x, scan)
    /\ scan.pc = "reading" /\ scan.user # NULL => scan.page = 1

\* A redemption is ahead of the scan when the older ones fill the pages read
ListedBefore(x) == {y \in Unconfirmed(scan) : entry[y].at < entry[x].at}
Ahead(x) == Cardinality(ListedBefore(x)) >= (scan.page - 1) * ListPageSize
Excused(x) == scan.user = NULL /\ (MovedForward(x) \/ SharesSecond(x))
NoneSkipped ==
    scan.pc # "idle" => \A x \in (scan.had \ scan.gone) \ scan.seen :
        Excused(x) \/ (scan.pc = "reading" /\ Ahead(x))
PagesInv == PagesTyped /\ Progress /\ NoneSkipped

-----------------------------------------------------------------------------
(* The rows in some order, and the pages of it                             *)

LEMMA ListConstants ==
    /\ ListPageSize \in Nat \ {0} /\ MaxUsages \in Nat
    /\ NULL \notin GameUsers /\ NULL \notin GameCampaigns
    /\ Usages \subseteq Nat
BY ListAssumption DEF Usages

LEMMA ProductTyped ==
    ASSUME NEW n \in Nat \ {0}
    PROVE  \E p \in Nat : p = (n - 1) * ListPageSize /\ n * ListPageSize = p + ListPageSize
<1>1. PICK k \in Nat : n = k + 1
  OBVIOUS
<1>2. PICK z \in Nat : z = ListPageSize
  BY ListConstants
<1>3. PICK p \in Nat : p = k * z
  <2>1. k * z \in Nat
    BY <1>1, <1>2
  <2> QED
    BY <2>1
<1>4. (k + 1) * z = p + z
  BY <1>1, <1>2, <1>3
<1>5. n - 1 = k
  BY <1>1
<1> QED
  BY <1>1, <1>2, <1>3, <1>4, <1>5

LEMMA UsagesFinite ==
    ASSUME NEW S \in SUBSET Usages
    PROVE  IsFiniteSet(S) /\ Cardinality(S) \in Nat
BY CountsFinite, ListConstants DEF Usages

LEMMA MoreUsages ==
    ASSUME NEW T \in SUBSET Usages, NEW S \in SUBSET T
    PROVE  Cardinality(S) <= Cardinality(T)
<1>1. IsFiniteSet(T)
  BY UsagesFinite
<1> QED
  BY <1>1, FS_Subset

\* An order of a set is a sequence of all its members
LEMMA OrderOf ==
    ASSUME NEW S \in SUBSET Usages, NEW o \in SetToSeqs(S)
    PROVE  /\ Len(o) = Cardinality(S) /\ Len(o) \in Nat /\ DOMAIN o = 1..Len(o)
           /\ \A i \in DOMAIN o : o[i] \in S
           /\ \A i, j \in DOMAIN o : i # j => o[i] # o[j]
           /\ \A x \in S : \E i \in DOMAIN o : o[i] = x
<1>1. PICK n \in Nat : n = Cardinality(S)
  BY UsagesFinite
<1>2. o \in [1..n -> S] /\ \A i, j \in 1..n : i # j => o[i] # o[j]
  BY <1>1 DEF SetToSeqs
<1>3. o \in Injection(1..n, S)
  BY <1>2 DEF Injection, IsInjective
<1>4. Cardinality(1..n) = n
  BY FS_Interval
<1>5. o \in Surjection(1..n, S)
  BY <1>1, <1>3, <1>4, UsagesFinite, FS_Injection
<1>6. \A x \in S : \E i \in 1..n : o[i] = x
  BY <1>5 DEF Surjection
<1>7. Len(o) = n /\ DOMAIN o = 1..n
  BY <1>2
<1> QED
  BY <1>1, <1>2, <1>6, <1>7

\* A row that shares its second with no other comes after exactly the older ones
LEMMA PositionOf ==
    ASSUME PagesTyped, NEW S \in SUBSET Usages, NEW o \in Orders(S), NEW i \in DOMAIN o,
           \A y \in S \ {o[i]} : entry[y].at # entry[o[i]].at
    PROVE  Cardinality({y \in S : entry[y].at < entry[o[i]].at}) = i - 1
<1> DEFINE T == {y \in S : entry[y].at < entry[o[i]].at}
<1>1. o \in SetToSeqs(S)
  BY DEF Orders
<1>2. /\ Len(o) \in Nat /\ DOMAIN o = 1..Len(o) /\ \A j \in DOMAIN o : o[j] \in S
      /\ \A j, k \in DOMAIN o : j # k => o[j] # o[k]
      /\ \A x \in S : \E j \in DOMAIN o : o[j] = x
  BY <1>1, OrderOf
<1>3. \A j, k \in DOMAIN o : j < k => entry[o[j]].at <= entry[o[k]].at
  BY DEF Orders
<1>4. \A x \in S : entry[x].at \in Nat
  BY DEF PagesTyped
<1>5. PICK m \in Nat : i = m + 1
  <2>1. PICK l \in Nat : l = Len(o) /\ i \in 1..l
    BY <1>2
  <2>2. i - 1 \in Nat /\ i = (i - 1) + 1
    BY <2>1
  <2> QED
    BY <2>2
<1>6. ASSUME NEW j \in 1..m
      PROVE  j \in DOMAIN o /\ o[j] \in T
  <2>1. j \in DOMAIN o /\ j < i /\ o[j] \in S /\ o[j] # o[i]
    BY <1>2, <1>5
  <2>2. entry[o[j]].at <= entry[o[i]].at /\ entry[o[j]].at # entry[o[i]].at
    BY <1>3, <2>1
  <2>3. entry[o[j]].at \in Nat /\ entry[o[i]].at \in Nat
    BY <1>2, <1>4, <2>1
  <2> QED
    BY <2>1, <2>2, <2>3
<1>7. ASSUME NEW x \in T
      PROVE  \E j \in 1..m : o[j] = x
  <2>1. PICK j \in DOMAIN o : o[j] = x
    BY <1>2
  <2>2. ~(i < j) /\ i # j
    <3>1. entry[x].at < entry[o[i]].at /\ entry[x].at \in Nat /\ entry[o[i]].at \in Nat
      BY <1>2, <1>4
    <3> QED
      BY <1>3, <2>1, <3>1
  <2>3. j \in 1..m
    BY <1>2, <1>5, <2>2
  <2> QED
    BY <2>1, <2>3
<1> HIDE DEF T
<1>8. PICK f : f = [j \in 1..m |-> o[j]]
  OBVIOUS
<1>9. f \in [1..m -> T] /\ \A j \in 1..m : f[j] = o[j]
  BY <1>6, <1>8
<1>10. f \in Injection(1..m, T)
  BY <1>2, <1>6, <1>9 DEF Injection, IsInjective
<1>11. f \in Surjection(1..m, T)
  BY <1>7, <1>9 DEF Surjection
<1>12. ExistsBijection(1..m, T)
  BY <1>10, <1>11 DEF ExistsBijection, Bijection
<1>13. Cardinality(T) = m
  BY <1>12, FS_CountingElements
<1> QED
  BY <1>5, <1>13 DEF T

LEMMA SliceShows ==
    ASSUME NEW S, NEW o, NEW a \in Nat, NEW n \in Nat, NEW i \in a..n,
           \A j \in a..n : o[j] \in S
    PROVE  o[i] \in ToSet(SubSeq(o, a, n))
<1>1. PICK s : s = SubSeq(o, a, n)
  OBVIOUS
<1>2. PICK k \in Int : k = i - a + 1
  OBVIOUS
<1>3. k \in 1..(n - a + 1) /\ a + k - 1 = i
  BY <1>2
<1>4. a <= n
  OBVIOUS
<1>5. /\ s \in Seq(S) /\ Len(s) = n - a + 1
      /\ \A j \in 1..(n - a + 1) : s[j] = o[a + j - 1]
  BY <1>1, <1>4, SubSeqProperties
<1>6. DOMAIN s = 1..Len(s)
  BY <1>5, LenProperties
<1>7. k \in DOMAIN s /\ s[k] = o[i]
  BY <1>3, <1>5, <1>6
<1> QED
  BY <1>1, <1>7 DEF ToSet

LEMMA SliceWithin ==
    ASSUME NEW S, NEW o, NEW a \in Nat, NEW n \in Nat, \A j \in a..n : o[j] \in S
    PROVE  ToSet(SubSeq(o, a, n)) \subseteq S
<1>1. PICK s : s = SubSeq(o, a, n)
  OBVIOUS
<1>2. s \in Seq(S)
  <2>1. SubSeq(o, a, n) \in Seq(S)
    BY SubSeqProperties
  <2> QED
    BY <1>1, <2>1
<1> QED
  BY <1>1, <1>2, LenProperties DEF ToSet

\* What a page contains of an order
LEMMA PageShows ==
    ASSUME NEW S \in SUBSET Usages, NEW o \in SetToSeqs(S), NEW q, q.user = NULL,
           NEW i \in DOMAIN o,
           NEW p \in Nat, p = (q.page - 1) * ListPageSize, p < i,
           NEW e \in Nat, e = q.page * ListPageSize, i <= e
    PROVE  o[i] \in ToSet(PageOf(o, q))
<1>1. /\ Len(o) \in Nat /\ DOMAIN o = 1..Len(o) /\ \A j \in DOMAIN o : o[j] \in S
  BY OrderOf
<1>2. PICK n \in Nat : n = Min({e, Len(o)}) /\ n <= Len(o) /\ i <= n
  <2>1. \E n \in {e, Len(o)} : \A m \in {e, Len(o)} : n =< m
    BY <1>1
  <2>2. PICK n : n = Min({e, Len(o)})
    OBVIOUS
  <2>3. n \in {e, Len(o)} /\ \A m \in {e, Len(o)} : n =< m
    BY <2>1, <2>2 DEF Min
  <2> QED
    BY <1>1, <2>2, <2>3
<1>3. PICK a \in Nat : a = p + 1
  OBVIOUS
<1>4. i \in a..n /\ \A j \in a..n : o[j] \in S
  <2>1. i \in Nat /\ i >= 1
    BY <1>1
  <2>2. a <= i /\ a >= 1
    BY <1>3, <2>1
  <2>3. \A j \in a..n : j \in 1..Len(o)
    BY <1>1, <1>2, <2>2
  <2>4. \A j \in a..n : o[j] \in S
    BY <1>1, <2>3
  <2>5. i \in a..n
    BY <1>2, <2>1, <2>2
  <2> QED
    BY <2>4, <2>5
<1>5. PageOf(o, q) = SubSeq(o, a, n)
  BY <1>2, <1>3 DEF PageOf
<1> QED
  BY <1>4, <1>5, SliceShows

LEMMA OnePage ==
    ASSUME NEW S \in SUBSET Usages, NEW o \in SetToSeqs(S), NEW q, q.user # NULL, NEW x \in S
    PROVE  x \in ToSet(PageOf(o, q))
<1>1. PICK i \in DOMAIN o : o[i] = x
  BY OrderOf
<1> QED
  BY <1>1 DEF ToSet, PageOf

LEMMA PageIsPart ==
    ASSUME NEW S \in SUBSET Usages, NEW o \in SetToSeqs(S), NEW q, q.page \in Nat \ {0}
    PROVE  ToSet(PageOf(o, q)) \subseteq S
<1>1. /\ Len(o) \in Nat /\ DOMAIN o = 1..Len(o) /\ \A j \in DOMAIN o : o[j] \in S
  BY OrderOf
<1>2. CASE q.user # NULL
  BY <1>1, <1>2 DEF PageOf, ToSet
<1>3. CASE q.user = NULL
  <2>1. PICK p \in Nat, e \in Nat :
          p = (q.page - 1) * ListPageSize /\ e = q.page * ListPageSize
    <3>1. PICK p \in Nat :
            p = (q.page - 1) * ListPageSize /\ q.page * ListPageSize = p + ListPageSize
      BY ProductTyped
    <3> QED
      BY <3>1, ListConstants
  <2>2. PICK n \in Nat : n = Min({e, Len(o)}) /\ n <= Len(o)
    <3>1. \E n \in {e, Len(o)} : \A m \in {e, Len(o)} : n =< m
      BY <1>1
    <3>2. PICK n : n = Min({e, Len(o)})
      OBVIOUS
    <3>3. n \in {e, Len(o)} /\ \A m \in {e, Len(o)} : n =< m
      BY <3>1, <3>2 DEF Min
    <3> QED
      BY <1>1, <3>2, <3>3
  <2>3. PICK a \in Nat \ {0} : a = p + 1
    OBVIOUS
  <2>4. \A j \in a..n : o[j] \in S
    BY <1>1, <2>2
  <2>5. ToSet(SubSeq(o, a, n)) \subseteq S
    BY <2>4, SliceWithin
  <2>6. PageOf(o, q) = SubSeq(o, a, n)
    BY <1>3, <2>1, <2>2, <2>3 DEF PageOf
  <2> QED
    BY <2>5, <2>6
<1> QED
  BY <1>2, <1>3

-----------------------------------------------------------------------------
(* The steps                                                               *)

LEMMA PagesStart == ReadingInit => PagesInv
<1> SUFFICES ASSUME ReadingInit
             PROVE  PagesInv
  OBVIOUS
<1>1. scan = NotReading /\ NotReading \in Asked
  BY DEF ReadingInit, NotReading, Asked
<1>2. entry \in [Usages -> [state : States, at : Nat]]
  BY DEF ReadingInit, NoEntry, States
<1>3. \A x \in Usages : entry[x].at = 0
  BY DEF ReadingInit, NoEntry
<1>4. scan.pc = "idle" /\ scan.seen = {} /\ scan.had = {} /\ scan.gone = {}
  BY <1>1 DEF NotReading
<1> QED
  BY <1>1, <1>2, <1>3, <1>4 DEF ReadingInit, PagesInv, PagesTyped, Progress, NoneSkipped

\* What can happen to the rows while nobody reads them
RowsMove ==
    /\ \A x \in Usages :
         /\ entry[x].state # "none" => entry'[x].at = entry[x].at
         /\ entry[x].state = "confirmed" => entry'[x].state = "confirmed"
         /\ entry[x].state = "listed" => entry'[x].state \in {"listed", "confirmed"}
    /\ entry' \in [Usages -> [state : States, at : Nat]]
    /\ second' \in Nat /\ \A x \in Usages : entry'[x].at <= second'

\* An excuse is for good
LEMMA ExcuseStays ==
    ASSUME PagesInv, RowsMove, scan'.user = scan.user, scan.gone \subseteq scan'.gone,
           NEW x \in scan.had, Excused(x)
    PROVE  Excused(x)'
<1>1. scan.had \subseteq Usages /\ scan.gone \subseteq Usages
  BY DEF PagesInv, PagesTyped, Asked
<1>2. entry'[x].at = entry[x].at
  BY <1>1 DEF PagesInv, Progress, RowsMove
<1>3. CASE MovedForward(x)
  <2>1. PICK y \in scan.gone : entry[y].at < entry[x].at
    BY <1>3 DEF MovedForward
  <2>2. entry'[y].at = entry[y].at /\ y \in scan'.gone
    BY <1>1, <2>1 DEF PagesInv, Progress, RowsMove
  <2>3. MovedForward(x)'
    BY <1>2, <2>1, <2>2 DEF MovedForward
  <2> QED
    BY <2>3 DEF Excused
<1>4. CASE SharesSecond(x)
  <2>1. PICK y \in Usages \ {x} :
          entry[y].state \in {"listed", "confirmed"} /\ entry[y].at = entry[x].at
    BY <1>4 DEF SharesSecond
  <2>2. entry'[y].at = entry[y].at /\ entry'[y].state \in {"listed", "confirmed"}
    BY <2>1 DEF RowsMove
  <2>3. SharesSecond(x)'
    BY <1>2, <2>1, <2>2 DEF SharesSecond
  <2> QED
    BY <2>3 DEF Excused
<1> QED
  BY <1>3, <1>4 DEF Excused

\* The rows change, and more of them may be confirmed
LEMMA RowsChange ==
    ASSUME PagesInv, RowsMove,
           \/ scan' = scan /\ \A x \in Usages : entry[x].state = "listed" =>
                                                entry'[x].state = "listed"
           \/ \E y \in Usages :
                /\ entry[y].state = "listed"
                /\ entry' = [entry EXCEPT ![y].state = "confirmed"]
                /\ scan' = [scan EXCEPT !.gone = IF scan.pc = "reading" THEN @ \cup {y} ELSE @]
    PROVE  PagesInv'
<1>1. PICK G \in SUBSET Usages :
        /\ scan' = [scan EXCEPT !.gone = G] /\ scan.gone \subseteq G
        /\ scan' \in Asked
        /\ \A x \in G \ scan.gone : entry'[x].state = "confirmed"
        /\ \A x \in G : entry[x].state # "none"
        /\ \A x \in Usages : scan.pc = "reading" /\ entry[x].state = "listed" =>
                             entry'[x].state = "listed" \/ x \in G
  <2>1. scan \in Asked /\ scan.gone \in SUBSET Usages
    BY DEF PagesInv, PagesTyped, Asked
  <2>0. \A x \in scan.gone : entry[x].state # "none"
    BY DEF PagesInv, Progress
  <2>2. \A G \in SUBSET Usages : [scan EXCEPT !.gone = G] \in Asked
    BY <2>1 DEF Asked
  <2>3. CASE scan' = scan /\ \A x \in Usages : entry[x].state = "listed" =>
                                                entry'[x].state = "listed"
    <3>1. [scan EXCEPT !.gone = scan.gone] = scan
      BY <2>1 DEF Asked
    <3> QED
      BY <2>0, <2>1, <2>2, <2>3, <3>1
  <2>4. CASE \E y \in Usages :
                /\ entry[y].state = "listed"
                /\ entry' = [entry EXCEPT ![y].state = "confirmed"]
                /\ scan' = [scan EXCEPT !.gone = IF scan.pc = "reading" THEN @ \cup {y} ELSE @]
    <3>1. PICK y \in Usages :
            /\ entry[y].state = "listed"
            /\ entry' = [entry EXCEPT ![y].state = "confirmed"]
            /\ scan' = [scan EXCEPT !.gone = IF scan.pc = "reading" THEN @ \cup {y} ELSE @]
      BY <2>4
    <3>2. PICK G \in SUBSET Usages :
            G = IF scan.pc = "reading" THEN scan.gone \cup {y} ELSE scan.gone
      BY <2>1
    <3>3. scan' = [scan EXCEPT !.gone = G]
      BY <3>1, <3>2
    <3>4. entry'[y].state = "confirmed" /\ \A x \in Usages \ {y} : entry'[x] = entry[x]
      BY <3>1 DEF PagesInv, PagesTyped
    <3>5. scan.gone \subseteq G /\ scan' \in Asked
      BY <2>2, <3>2, <3>3
    <3>6. \A x \in G \ scan.gone : x = y
      BY <3>2
    <3>7. /\ \A x \in G \ scan.gone : entry'[x].state = "confirmed"
          /\ \A x \in G : entry[x].state # "none"
      BY <2>0, <3>1, <3>4, <3>6
    <3>8. \A x \in Usages : scan.pc = "reading" /\ entry[x].state = "listed" =>
                             entry'[x].state = "listed" \/ x \in G
      BY <3>2, <3>4
    <3> QED
      BY <3>3, <3>5, <3>7, <3>8
  <2> QED
    BY <2>3, <2>4
<1>2. /\ scan'.pc = scan.pc /\ scan'.user = scan.user /\ scan'.campaign = scan.campaign
      /\ scan'.page = scan.page /\ scan'.seen = scan.seen /\ scan'.had = scan.had
      /\ scan'.gone = G
  BY <1>1 DEF PagesInv, PagesTyped, Asked
<1>3. PagesTyped'
  BY <1>1 DEF PagesTyped, RowsMove
<1>4. scan.had \subseteq Usages /\ scan.seen \subseteq Usages /\ scan.page \in Nat \ {0}
  BY DEF PagesInv, PagesTyped, Asked
<1>5. ASSUME scan.pc = "reading", NEW x \in Usages, Matches(x, scan), x \notin G
      PROVE  Matches(x, scan)'
  BY <1>1, <1>2, <1>5 DEF Matches
<1>6. Progress'
  <2>1. \A x \in (scan.seen \cup scan.had)' : entry'[x].state \in {"listed", "confirmed"}
    BY <1>2, <1>4 DEF PagesInv, Progress, RowsMove
  <2>2. \A x \in scan'.gone : entry'[x].state = "confirmed"
    BY <1>1, <1>2 DEF PagesInv, Progress, RowsMove
  <2>3. scan'.pc = "reading" => \A x \in (scan.had \ scan.gone)' : Matches(x, scan)'
    BY <1>1, <1>2, <1>4, <1>5 DEF PagesInv, Progress
  <2> QED
    BY <1>2, <2>1, <2>2, <2>3 DEF PagesInv, Progress
<1>7. ASSUME scan'.pc # "idle", NEW x \in ((scan.had \ scan.gone) \ scan.seen)'
      PROVE  Excused(x)' \/ (scan'.pc = "reading" /\ Ahead(x)')
  <2>1. x \in (scan.had \ scan.gone) \ scan.seen /\ x \in Usages /\ x \notin G
    BY <1>1, <1>2, <1>4
  <2>2. CASE Excused(x)
    BY <1>1, <1>2, <2>1, <2>2, ExcuseStays
  <2>3. CASE ~Excused(x)
    <3>1. scan.pc = "reading" /\ Ahead(x)
      BY <1>2, <1>7, <2>1, <2>3 DEF PagesInv, NoneSkipped
    <3>2. CASE scan.user # NULL
      <4>1. scan'.page = 1 /\ (1 - 1) * ListPageSize = 0
        BY <1>2, <3>1, <3>2, ListConstants DEF PagesInv, Progress
      <4>2. ListedBefore(x)' \in SUBSET Usages
        BY DEF ListedBefore, Unconfirmed
      <4>3. Cardinality(ListedBefore(x)') \in Nat
        BY <4>2, UsagesFinite
      <4> QED
        BY <1>2, <3>1, <4>1, <4>3 DEF Ahead
    <3>3. CASE scan.user = NULL /\ \E y \in G : entry[y].at < entry[x].at
      <4>1. PICK y \in G : entry[y].at < entry[x].at
        BY <3>3
      <4>2. entry'[x].at = entry[x].at
        BY <2>1 DEF PagesInv, Progress, RowsMove
      <4>3. entry'[y].at = entry[y].at
        BY <1>1, <4>1 DEF RowsMove
      <4>4. MovedForward(x)'
        BY <1>2, <4>1, <4>2, <4>3 DEF MovedForward
      <4> QED
        BY <1>2, <3>3, <4>4 DEF Excused
    <3>4. CASE \A y \in G : ~(entry[y].at < entry[x].at)
      <4>1. entry'[x].at = entry[x].at
        BY <2>1 DEF PagesInv, Progress, RowsMove
      <4>2. ASSUME NEW y \in ListedBefore(x)
            PROVE  y \in ListedBefore(x)'
        <5>1. y \in Usages /\ Matches(y, scan) /\ entry[y].at < entry[x].at /\ y \notin G
          BY <3>4 DEF ListedBefore, Unconfirmed
        <5>2. Matches(y, scan)'
          BY <1>5, <3>1, <5>1
        <5>3. entry'[y].at = entry[y].at
          BY <5>1 DEF Matches, RowsMove
        <5> QED
          BY <4>1, <5>1, <5>2, <5>3 DEF ListedBefore, Unconfirmed
      <4>3. ListedBefore(x) \in SUBSET Usages /\ ListedBefore(x)' \in SUBSET Usages
        BY DEF ListedBefore, Unconfirmed
      <4>4. PICK m \in Nat, n \in Nat :
              m = Cardinality(ListedBefore(x)) /\ n = Cardinality(ListedBefore(x)') /\ m <= n
        BY <4>2, <4>3, UsagesFinite, MoreUsages
      <4>5. PICK p \in Nat : p = (scan.page - 1) * ListPageSize
        BY <1>4, ProductTyped
      <4>6. (scan'.page - 1) * ListPageSize = p
        BY <1>2, <4>5
      <4>7. m >= p
        BY <3>1, <4>4, <4>5 DEF Ahead
      <4>8. n >= p
        BY <4>4, <4>7
      <4> QED
        BY <1>2, <3>1, <4>4, <4>6, <4>8 DEF Ahead
    <3> QED
      BY <2>3, <3>1, <3>2, <3>3, <3>4
  <2> QED
    BY <2>2, <2>3
<1> QED
  BY <1>3, <1>6, <1>7 DEF PagesInv, NoneSkipped

LEMMA RowsGoOn ==
    ASSUME PagesInv, NEW x \in Usages,
           InsertEntry(x) \/ CommitEntry(x) \/ ConfirmEntry(x)
    PROVE  PagesInv'
<1>1. /\ entry \in [Usages -> [state : States, at : Nat]] /\ second \in Nat
      /\ \A y \in Usages : entry[y].at <= second
      /\ second' = second
  BY DEF PagesInv, PagesTyped, InsertEntry, CommitEntry, ConfirmEntry
<1>2. CASE InsertEntry(x)
  <2>1. PICK r \in [state : States, at : Nat] : r.state = "open" /\ r.at = second
                                              /\ entry' = [entry EXCEPT ![x] = r]
    <3>1. [state |-> "open", at |-> second] \in [state : States, at : Nat]
      BY <1>1 DEF States
    <3> QED
      BY <1>2, <3>1 DEF InsertEntry
  <2>2. entry' \in [Usages -> [state : States, at : Nat]]
    BY <1>1, <2>1
  <2>3. RowsMove
    BY <1>1, <1>2, <2>1, <2>2 DEF RowsMove, InsertEntry
  <2>4. scan' = scan /\ \A y \in Usages : entry[y].state = "listed" => entry'[y].state = "listed"
    BY <1>1, <1>2, <2>1 DEF InsertEntry
  <2> QED
    BY <2>3, <2>4, RowsChange
<1>3. ASSUME CommitEntry(x) \/ ConfirmEntry(x)
      PROVE  /\ entry' \in [Usages -> [state : States, at : Nat]]
             /\ \A y \in Usages : entry'[y].at = entry[y].at
             /\ \A y \in Usages \ {x} : entry'[y] = entry[y]
  <2>1. PICK s \in {"listed", "confirmed"} : entry' = [entry EXCEPT ![x].state = s]
    BY <1>3 DEF CommitEntry, ConfirmEntry
  <2>2. [entry[x] EXCEPT !.state = s] \in [state : States, at : Nat]
    BY <1>1 DEF States
  <2>3. entry' = [entry EXCEPT ![x] = [entry[x] EXCEPT !.state = s]]
    BY <2>1
  <2> QED
    BY <1>1, <2>2, <2>3
<1>4. CASE CommitEntry(x)
  <2>1. entry'[x].state = "listed" /\ entry[x].state = "open" /\ scan' = scan
    BY <1>1, <1>4 DEF CommitEntry
  <2>2. RowsMove
    BY <1>1, <1>3, <1>4, <2>1 DEF RowsMove
  <2>3. \A y \in Usages : entry[y].state = "listed" => entry'[y].state = "listed"
    BY <1>3, <1>4, <2>1
  <2> QED
    BY <2>1, <2>2, <2>3, RowsChange
<1>5. CASE ConfirmEntry(x)
  <2>1. entry'[x].state = "confirmed" /\ entry[x].state = "listed"
    BY <1>1, <1>5 DEF ConfirmEntry
  <2>2. RowsMove
    BY <1>1, <1>3, <1>5, <2>1 DEF RowsMove
  <2>3. /\ entry' = [entry EXCEPT ![x].state = "confirmed"]
        /\ scan' = [scan EXCEPT !.gone = IF scan.pc = "reading" THEN @ \cup {x} ELSE @]
    BY <1>5 DEF ConfirmEntry
  <2> QED
    BY <2>1, <2>2, <2>3, RowsChange
<1> QED
  BY <1>2, <1>4, <1>5

LEMMA TimeGoesOn ==
    ASSUME PagesInv, NextSecond \/ UNCHANGED readingVars
    PROVE  PagesInv'
<1>1. entry' = entry /\ scan' = scan /\ second' \in {second, second + 1}
  BY DEF NextSecond, readingVars
<1>2. /\ entry \in [Usages -> [state : States, at : Nat]] /\ second \in Nat
      /\ \A y \in Usages : entry[y].at \in Nat /\ entry[y].at <= second
  BY DEF PagesInv, PagesTyped
<1>3. second' \in Nat /\ \A y \in Usages : entry[y].at <= second'
  BY <1>1, <1>2
<1>4. RowsMove
  BY <1>1, <1>2, <1>3 DEF RowsMove
<1> QED
  BY <1>1, <1>4, RowsChange

LEMMA ScanBegins ==
    ASSUME PagesInv, NEW u \in GameUsers \cup {NULL}, NEW c \in GameCampaigns \cup {NULL},
           BeginScan(u, c)
    PROVE  PagesInv'
<1>1. PICK S \in SUBSET Usages : S = Unconfirmed([user |-> u, campaign |-> c])
  BY DEF Unconfirmed
<1>2. entry' = entry /\ second' = second
  BY DEF BeginScan
<1>3. scan' = [NotReading EXCEPT !.pc = "reading", !.user = u, !.campaign = c, !.had = S]
  BY <1>1 DEF BeginScan
<1>4. /\ scan'.pc = "reading" /\ scan'.user = u /\ scan'.campaign = c /\ scan'.page = 1
      /\ scan'.seen = {} /\ scan'.had = S /\ scan'.gone = {} /\ scan' \in Asked
  <2>1. scan' = [pc |-> "reading", user |-> u, campaign |-> c, page |-> 1,
                 seen |-> {}, had |-> S, gone |-> {}]
    BY <1>3 DEF NotReading
  <2> QED
    BY <2>1 DEF Asked
<1>5. PagesTyped'
  BY <1>2, <1>4 DEF PagesInv, PagesTyped
<1>6. \A x \in S : Matches(x, scan)' /\ entry[x].state = "listed"
  BY <1>1, <1>2, <1>4 DEF Unconfirmed, Matches
<1>7. Progress'
  BY <1>2, <1>4, <1>6 DEF Progress
<1>8. ASSUME NEW x \in S
      PROVE  Ahead(x)'
  <2>1. (1 - 1) * ListPageSize = 0
    BY ListConstants
  <2>2. ListedBefore(x)' \in SUBSET Usages
    BY DEF ListedBefore, Unconfirmed
  <2>3. Cardinality(ListedBefore(x)') \in Nat
    BY <2>2, UsagesFinite
  <2> QED
    BY <1>4, <2>1, <2>3 DEF Ahead
<1>9. NoneSkipped'
  BY <1>4, <1>8 DEF NoneSkipped
<1> QED
  BY <1>5, <1>7, <1>9 DEF PagesInv

LEMMA PageRead ==
    ASSUME PagesInv, ReadPage
    PROVE  PagesInv'
<1>1. PICK S \in SUBSET Usages : S = Unconfirmed(scan)
  BY DEF Unconfirmed
<1>2. PICK o \in Orders(S) :
        scan' = [scan EXCEPT
           !.seen = @ \cup ToSet(PageOf(o, scan)),
           !.pc = IF scan.user # NULL \/ scan.page * ListPageSize >= Len(o)
                  THEN "done" ELSE "reading",
           !.page = @ + 1]
  BY <1>1 DEF ReadPage
<1>3. entry' = entry /\ second' = second /\ scan.pc = "reading"
  BY DEF ReadPage
<1>4. /\ scan \in Asked /\ scan.page \in Nat \ {0} /\ scan.had \subseteq Usages
  BY DEF PagesInv, PagesTyped, Asked
<1>5. o \in SetToSeqs(S)
  BY DEF Orders
<1>6. /\ Len(o) \in Nat /\ DOMAIN o = 1..Len(o) /\ \A i \in DOMAIN o : o[i] \in S
  BY <1>5, OrderOf
<1>7. PICK T \in SUBSET S : T = ToSet(PageOf(o, scan))
  BY <1>4, <1>5, PageIsPart
<1>8. PICK p \in Nat, e \in Nat :
        /\ p = (scan.page - 1) * ListPageSize /\ e = scan.page * ListPageSize
        /\ e = p + ListPageSize
  <2>1. PICK p \in Nat :
          p = (scan.page - 1) * ListPageSize /\ scan.page * ListPageSize = p + ListPageSize
    BY <1>4, ProductTyped
  <2> QED
    BY <2>1, ListConstants
<1>9. PICK d \in {"done", "reading"} :
        d = IF scan.user # NULL \/ e >= Len(o) THEN "done" ELSE "reading"
  OBVIOUS
<1>10. scan' = [scan EXCEPT !.seen = scan.seen \cup T, !.pc = d, !.page = scan.page + 1]
  BY <1>2, <1>7, <1>8, <1>9
<1>11. /\ scan'.pc = d /\ scan'.user = scan.user /\ scan'.campaign = scan.campaign
       /\ scan'.page = scan.page + 1 /\ scan'.seen = scan.seen \cup T
       /\ scan'.had = scan.had /\ scan'.gone = scan.gone
  BY <1>4, <1>10 DEF Asked
<1>12. scan' \in Asked
  <2>1. scan.page + 1 \in Nat \ {0} /\ scan.seen \cup T \in SUBSET Usages
    BY <1>4 DEF Asked
  <2> QED
    BY <1>4, <1>10, <2>1 DEF Asked
<1>13. PagesTyped'
  BY <1>3, <1>12 DEF PagesInv, PagesTyped
<1>14. \A x \in Usages : Matches(x, scan)' <=> Matches(x, scan)
  BY <1>3, <1>11 DEF Matches
<1>15. Progress'
  <2>1. \A x \in T : entry[x].state = "listed"
    BY <1>1 DEF Unconfirmed, Matches
  <2>2. \A x \in scan'.seen \cup scan'.had : entry[x].state \in {"listed", "confirmed"}
    BY <1>11, <2>1 DEF PagesInv, Progress
  <2>3. d = "reading" => scan.user = NULL
    BY <1>9
  <2>4. \A x \in scan.had \ scan.gone : Matches(x, scan)'
    BY <1>3, <1>4, <1>14 DEF PagesInv, Progress
  <2> QED
    BY <1>3, <1>11, <2>2, <2>3, <2>4 DEF PagesInv, Progress
<1>16. ASSUME NEW x \in (scan.had \ scan.gone) \ (scan.seen \cup T), ~Excused(x)
       PROVE  d = "reading" /\ Ahead(x)'
  <2>1. x \in Usages /\ x \in S /\ Ahead(x)
    BY <1>1, <1>3, <1>4, <1>16 DEF PagesInv, Progress, NoneSkipped, Unconfirmed
  <2>2. scan.user = NULL
    BY <1>5, <1>7, <1>16, <2>1, OnePage
  <2>3. PICK i \in DOMAIN o : o[i] = x
    BY <1>5, <2>1, OrderOf
  <2>4. \A y \in S \ {x} : entry[y].at # entry[x].at
    BY <1>1, <1>16, <2>2 DEF Excused, SharesSecond, Unconfirmed, Matches
  <2>5. Cardinality(ListedBefore(x)) = i - 1
    <3>1. Cardinality({y \in S : entry[y].at < entry[o[i]].at}) = i - 1
      BY <2>3, <2>4, PositionOf DEF PagesInv
    <3>2. ListedBefore(x) = {y \in S : entry[y].at < entry[o[i]].at}
      BY <1>1, <2>3 DEF ListedBefore
    <3> QED
      BY <3>1, <3>2
  <2>6. i \in Nat /\ i <= Len(o)
    BY <1>6, <2>3
  <2>7. i - 1 >= p
    BY <1>8, <2>1, <2>5 DEF Ahead
  <2>8. ~(i <= e)
    <3> SUFFICES ASSUME i <= e
                 PROVE  FALSE
      OBVIOUS
    <3>1. p < i
      BY <2>6, <2>7
    <3>2. o[i] \in ToSet(PageOf(o, scan))
      BY <1>5, <1>8, <2>2, <3>1, PageShows
    <3> QED
      BY <1>7, <1>16, <2>3, <3>2
  <2>9. d = "reading"
    BY <1>6, <1>8, <1>9, <2>2, <2>6, <2>8
  <2>10. (scan'.page - 1) * ListPageSize = e
    <3>1. scan'.page - 1 = scan.page
      BY <1>4, <1>11
    <3> QED
      BY <1>8, <3>1
  <2>11. ListedBefore(x)' = ListedBefore(x)
    BY <1>3, <1>14 DEF ListedBefore, Unconfirmed
  <2>12. i - 1 >= e
    BY <1>8, <2>6, <2>8
  <2> QED
    BY <2>5, <2>9, <2>10, <2>11, <2>12 DEF Ahead
<1>17. \A x : Excused(x) => Excused(x)'
  BY <1>3, <1>11 DEF Excused, MovedForward, SharesSecond
<1>18. NoneSkipped'
  BY <1>11, <1>16, <1>17 DEF NoneSkipped
<1> QED
  BY <1>13, <1>15, <1>18 DEF PagesInv

LEMMA ScanEnds ==
    ASSUME PagesInv, EndScan
    PROVE  PagesInv'
<1>1. entry' = entry /\ second' = second /\ scan' = NotReading /\ NotReading \in Asked
  BY DEF EndScan, NotReading, Asked
<1>2. scan'.pc = "idle" /\ scan'.seen = {} /\ scan'.had = {} /\ scan'.gone = {}
  BY <1>1 DEF NotReading
<1> QED
  BY <1>1, <1>2 DEF PagesInv, PagesTyped, Progress, NoneSkipped

LEMMA PagesGoOn == PagesInv /\ [ReadingNext]_readingVars => PagesInv'
<1> SUFFICES ASSUME PagesInv, [ReadingNext]_readingVars
             PROVE  PagesInv'
  OBVIOUS
<1>1. CASE \E x \in Usages : InsertEntry(x) \/ CommitEntry(x) \/ ConfirmEntry(x)
  BY <1>1, RowsGoOn
<1>2. CASE NextSecond \/ UNCHANGED readingVars
  BY <1>2, TimeGoesOn
<1>3. CASE \E u \in GameUsers \cup {NULL}, c \in GameCampaigns \cup {NULL} : BeginScan(u, c)
  BY <1>3, ScanBegins
<1>4. CASE ReadPage
  BY <1>4, PageRead
<1>5. CASE EndScan
  BY <1>5, ScanEnds
<1> QED
  BY <1>1, <1>2, <1>3, <1>4, <1>5 DEF ReadingNext

(* A scan misses a redemption only for one of the two reasons the          *)
(* documents give, however many rows there are, whatever the page size.    *)
THEOREM ScansCorrect == ReadingSpec => []ScanIsComplete
<1>1. PagesInv => ScanIsComplete
  BY DEF PagesInv, NoneSkipped, ScanIsComplete, Excused
<1> QED
  BY <1>1, PagesStart, PagesGoOn, PTL DEF ReadingSpec

(* The rows and the scan have their types, and a scan sees only what is    *)
(* or was listed.                                                          *)
THEOREM ReadingTyped == ReadingSpec => []ReadingTypeOK
<1>1. PagesInv => ReadingTypeOK
  <2> SUFFICES ASSUME PagesInv
               PROVE  ReadingTypeOK
    OBVIOUS
  <2>1. \A x \in Usages : entry[x].state \in States /\ entry[x].at \in 0..second
    BY DEF PagesInv, PagesTyped
  <2>2. scan.pc \in {"idle", "reading", "done"}
    BY DEF PagesInv, PagesTyped, Asked
  <2> QED
    BY <2>1, <2>2 DEF PagesInv, Progress, ReadingTypeOK
<1> QED
  BY <1>1, PagesStart, PagesGoOn, PTL DEF ReadingSpec

-----------------------------------------------------------------------------
(* GameServer: the invariant                                               *)

Rows == [code : GameCodes, user : Nat]
Entries == [code : GameCodes, user : Nat, id : Nat, limit : {1, 2}, at : Nat]
Scenarios == [scenario : {"normal", "idempotent", "race", "reconcile", "exhausted", "error"},
              step : {NULL, "reserve", "confirm", "burst", "missing"},
              code : GameCodes \cup {NULL}, user : Nat, id : Nat, left : Nat, wins : SUBSET Nat,
              won : Nat, limit : {0, 1, 2}, limited : BOOLEAN, thrown : BOOLEAN,
              items : SUBSET Nat, expects : {OK, CODE_CONSUMED, USER_LIMIT}]

ServiceTyped ==
    /\ offer \in [fixed : BOOLEAN, limit : {1, 2}, open : BOOLEAN, elsewhere : BOOLEAN]
    /\ ~offer.fixed => offer.limit = 1
    /\ redeemed \in Seq(Rows) /\ Len(redeemed) <= Quantity
    /\ \A i \in DOMAIN redeemed : redeemed[i].code \in CodesHere
    /\ foreign \in Nat /\ calm \in Nat /\ calm <= foreign

\* The users of the bursts to come are new ones
NewUser == FirstRacer + ticks * BurstCount
UsersFresh == \A i \in DOMAIN redeemed : redeemed[i].user < NewUser

\* A user whom nobody has redeemed for, and nobody will but the daemon
Unknown(user) == user >= FirstRacer /\ UsesOf(user) = {}

\* The first reserve of a user and code is the one an idempotent answer names
Repeats(c, u, n) == /\ offer.limit = 1 /\ Uses(c, u) # {}
                    /\ Earliest(Uses(c, u)) = n
EntrySound(m) ==
    /\ m.at <= foreign /\ m.user \in Players /\ m.code \in CodesHere
    /\ m.at = foreign /\ m.limit = 1 => Repeats(m.code, m.user, m.id)
MemorySound == \A i \in DOMAIN memory : EntrySound(memory[i])
World ==
    /\ ServiceTyped /\ UsersFresh /\ MemorySound
    /\ memory \in Seq(Entries) /\ ticks \in Nat

\* The part of a burst that is over, if all of its calls have been answered
Judged == BurstCount - work.left
CodeRows(c) == {i \in DOMAIN redeemed : redeemed[i].code = c}
RacedRandom ==
    /\ work.won = Smaller(Judged, 1)
    /\ Cardinality(CodeRows(work.code)) = work.won
RacedFixed ==
    /\ Cardinality(UsesOf(work.user)) = Smaller(Judged, work.limit)
    /\ work.limit = 1 => work.wins \subseteq UsesOf(work.user)
    /\ work.limit = 2 => work.won = Smaller(Judged, 2)
RaceSound ==
    /\ work.left <= BurstCount /\ work.user + BurstCount = NewUser
    /\ work.code \in CodesHere
    /\ ~offer.fixed => \A u \in work.user..(work.user + work.left - 1) : Unknown(u)
    /\ calm = foreign => offer.open /\ work.limit = offer.limit
    /\ calm = foreign /\ Len(redeemed) < Quantity /\ ~work.thrown /\ ~work.limited =>
         IF offer.fixed THEN RacedFixed ELSE RacedRandom

WorkSound ==
    work # NULL =>
      /\ ~alarm
      /\ work.scenario = "normal" =>
           /\ work.code \in CodesHere /\ work.limit # 0 /\ work.user \in Players
           /\ calm = foreign => work.limit = offer.limit
      /\ work.scenario = "idempotent" =>
           /\ work.code \in CodesHere /\ work.user < NewUser
           /\ calm = foreign => Repeats(work.code, work.user, work.id) /\ ~work.thrown
      /\ work.scenario = "race" => RaceSound
      /\ work.scenario = "exhausted" =>
           /\ work.code \in CodesHere /\ work.user < NewUser
           /\ ~offer.fixed => /\ Unknown(work.user) /\ Taken(work.code)
                              /\ work.expects = CODE_CONSUMED
           /\ offer.fixed /\ calm = foreign =>
                /\ offer.limit = 2 /\ Cardinality(UsesOf(work.user)) >= 2
                /\ work.expects = USER_LIMIT
      /\ work.scenario = "error" =>
           /\ ~work.thrown
           /\ work.step = "confirm" => Unknown(work.user)

\* Only a running daemon has work, and the pool is closed behind it
DaemonInv ==
    /\ daemon # "running" => work = NULL
    /\ database = "closed" => daemon = "idle"

TaskInv == (work = NULL \/ work \in Scenarios) /\ WorkSound /\ NoFalseAlarm
GameInv == World /\ TaskInv

-----------------------------------------------------------------------------
(* GameServer: the daemon                                                  *)

LEMMA DaemonStarts == GameInit => DaemonInv
BY DEF GameInit, DaemonInv

LEMMA DaemonGoesOn == DaemonInv /\ [GameNext]_gameVars => DaemonInv'
<1> SUFFICES ASSUME DaemonInv, [GameNext]_gameVars
             PROVE  DaemonInv'
  OBVIOUS
<1>1. ASSUME NEW a, End(a), work # NULL \/ daemon = "running"
      PROVE  DaemonInv'
  BY <1>1 DEF End, DaemonInv
<1>2. ASSUME NEW w, work # NULL, Continue(w)
      PROVE  DaemonInv'
  BY <1>2 DEF Continue, process, DaemonInv
<1>3. ASSUME NEW w, Begin(w), UNCHANGED <<daemon, database>>
      PROVE  DaemonInv'
  BY <1>3 DEF Begin, DaemonInv
<1>4. CASE TimerFires \/ Signal \/ ClosePool \/ Foreign \/ UNCHANGED gameVars
  BY <1>4 DEF TimerFires, Signal, ClosePool, Foreign, gameVars, process, DaemonInv
<1>5. CASE NotThisCampaign \/ NormalConfirm \/ RetryConfirm \/ Judge \/ ReconcileEnds
             \/ ExhaustedReserve \/ ErrorMissing
  BY <1>1, <1>5 DEF NotThisCampaign, NormalConfirm, RetryConfirm, Judge, ReconcileEnds,
                    ExhaustedReserve, ErrorMissing
<1>6. CASE NormalReserve \/ RetryReserve \/ ErrorReserve \/ ErrorConfirm \/ BurstCall
  BY <1>1, <1>2, <1>6 DEF NormalReserve, RetryReserve, ErrorReserve, ErrorConfirm, BurstCall
<1>7. CASE Reconcile \/ ErrorCases
  BY <1>3, <1>7 DEF Reconcile, ErrorCases
<1>8. ASSUME NEW c, NEW u, NormalFlow(c, u) \/ ConcurrencyRace(c) \/ ExhaustedRandom(c)
                             \/ ExhaustedFixed(u)
      PROVE  DaemonInv'
  BY <1>3, <1>8 DEF NormalFlow, ConcurrencyRace, ExhaustedRandom, ExhaustedFixed, ExhaustedRetry
<1>9. ASSUME NEW i, IdempotentRetry(i) \/ ReconcileItem(i)
      PROVE  DaemonInv'
  BY <1>1, <1>2, <1>3, <1>9 DEF IdempotentRetry, ReconcileItem
<1> QED
  BY <1>4, <1>5, <1>6, <1>7, <1>8, <1>9 DEF GameNext

\* Nothing is closed under a tick, and no tick begins after a graceful stop
\* (docs/21_TEST_GAME_SERVER.md 2.1).
THEOREM DaemonStopsGracefully == GameSpec => []StopsGracefully
<1>1. DaemonInv => StopsGracefully
  BY DEF DaemonInv, StopsGracefully
<1> QED
  BY <1>1, DaemonStarts, DaemonGoesOn, PTL DEF GameSpec

-----------------------------------------------------------------------------
(* GameServer: the service                                                 *)

LEMMA FirstExists ==
    ASSUME NEW S, S \subseteq Nat, S # {}
    PROVE  \E i \in S : \A j \in S : i <= j
<1> DEFINE R == OpToRel(<, Nat)
<1>1. PICK i \in S : \A j \in S : ~(<<j, i>> \in R)
  BY NatLessThanWellFounded, WFMin
<1> HIDE DEF R
<1>2. ASSUME NEW j \in S
      PROVE  i <= j
  <2>1. i \in Nat /\ j \in Nat
    OBVIOUS
  <2>2. j < i => <<j, i>> \in R
    BY <2>1 DEF R, OpToRel
  <2> QED
    BY <1>1, <2>1, <2>2
<1> QED
  BY <1>2

LEMMA EarliestOf ==
    ASSUME NEW S, S \subseteq Nat, S # {}
    PROVE  /\ Earliest(S) \in S
           /\ \A j \in S : Earliest(S) <= j
BY FirstExists DEF Earliest

\* A later use changes neither which is the first
LEMMA EarliestStays ==
    ASSUME NEW n \in Nat, NEW S, S \subseteq 1..n, S # {}, NEW T, T = S \/ T = S \cup {n + 1}
    PROVE  T # {} /\ Earliest(T) = Earliest(S)
<1>1. PICK i \in S : i = Earliest(S) /\ \A j \in S : i <= j
  <2>1. S \subseteq Nat
    OBVIOUS
  <2> QED
    BY <2>1, EarliestOf
<1>2. i \in 1..n /\ i \in T /\ \A j \in T : j \in 1..n \/ j = n + 1
  BY <1>1
<1>3. \A j \in T : i <= j
  <2> SUFFICES ASSUME NEW j \in T
               PROVE  i <= j
    OBVIOUS
  <2>1. j \in S \/ j = n + 1
    OBVIOUS
  <2> QED
    BY <1>1, <1>2, <2>1
<1>4. PICK k \in T : k = Earliest(T) /\ \A j \in T : k <= j
  <2>1. \A j \in T : j \in Nat
    BY <1>2
  <2>2. T \subseteq Nat /\ T # {}
    BY <1>2, <2>1
  <2> QED
    BY <2>2, EarliestOf
<1>5. i <= k /\ k <= i /\ i \in Nat /\ k \in Nat
  BY <1>2, <1>3, <1>4
<1> QED
  BY <1>1, <1>2, <1>4, <1>5

LEMMA GameConstants ==
    /\ Pool \in Nat \ {0} /\ BurstCount \in Nat \ {0} /\ Quantity \in Nat \ {0}
    /\ MaxHistory \in Nat \ {0} /\ MaxTicks \in Nat \ {0}
    /\ GameCodes # {} /\ NULL \notin GameCodes
    /\ FirstRacer \in Nat \ {0} /\ Players = 1..Pool /\ FirstRacer = Pool + 1
BY GameAssumption DEF FirstRacer, Players

LEMMA CodesOfGame == CodesHere \subseteq GameCodes
BY GameConstants DEF CodesHere

LEMMA RowOf ==
    ASSUME NEW c \in CodesHere, NEW u \in Nat
    PROVE  \E r \in Rows : r = [code |-> c, user |-> u] /\ r.code = c /\ r.user = u
<1>1. PICK r : r = [code |-> c, user |-> u]
  OBVIOUS
<1>2. r \in Rows
  BY <1>1, CodesOfGame DEF Rows
<1> QED
  BY <1>1, <1>2

LEMMA RowsFinite ==
    ASSUME ServiceTyped
    PROVE  /\ Len(redeemed) \in Nat /\ DOMAIN redeemed = 1..Len(redeemed)
           /\ \A i \in DOMAIN redeemed : redeemed[i] \in Rows
           /\ \A u : /\ UsesOf(u) \subseteq 1..Len(redeemed) /\ IsFiniteSet(UsesOf(u))
                     /\ Cardinality(UsesOf(u)) \in Nat
           /\ \A c : /\ CodeRows(c) \subseteq 1..Len(redeemed) /\ IsFiniteSet(CodeRows(c))
                     /\ Cardinality(CodeRows(c)) \in Nat
           /\ \A c, u : Uses(c, u) \subseteq UsesOf(u)
<1>1. /\ Len(redeemed) \in Nat /\ DOMAIN redeemed = 1..Len(redeemed)
      /\ \A i \in DOMAIN redeemed : redeemed[i] \in Rows
  BY LenProperties DEF ServiceTyped
<1>2. ASSUME NEW S, S \subseteq 1..Len(redeemed)
      PROVE  IsFiniteSet(S) /\ Cardinality(S) \in Nat
  BY <1>1, <1>2, CountsFinite
<1>3. ASSUME NEW u
      PROVE  UsesOf(u) \subseteq 1..Len(redeemed)
  BY <1>1 DEF UsesOf
<1>4. ASSUME NEW c
      PROVE  CodeRows(c) \subseteq 1..Len(redeemed)
  BY <1>1 DEF CodeRows
<1>5. \A c, u : Uses(c, u) \subseteq UsesOf(u)
  BY DEF Uses, UsesOf
<1> QED
  BY <1>1, <1>2, <1>3, <1>4, <1>5

LEMMA RowAdded ==
    ASSUME ServiceTyped, NEW r \in Rows, redeemed' = Append(redeemed, r)
    PROVE  /\ redeemed' \in Seq(Rows) /\ Len(redeemed') = Len(redeemed) + 1
           /\ DOMAIN redeemed' = DOMAIN redeemed \cup {Len(redeemed) + 1}
           /\ Len(redeemed) + 1 \notin DOMAIN redeemed
           /\ redeemed'[Len(redeemed) + 1] = r
           /\ \A i \in DOMAIN redeemed : redeemed'[i] = redeemed[i]
<1>1. redeemed \in Seq(Rows)
  BY DEF ServiceTyped
<1>2. PICK n \in Nat : n = Len(redeemed) /\ DOMAIN redeemed = 1..n
  BY <1>1, LenProperties
<1>3. /\ redeemed' \in Seq(Rows) /\ Len(redeemed') = n + 1
      /\ redeemed'[n + 1] = r /\ \A i \in 1..n : redeemed'[i] = redeemed[i]
  BY <1>1, <1>2, AppendProperties
<1>4. DOMAIN redeemed' = 1..(n + 1)
  BY <1>3, LenProperties
<1>5. 1..(n + 1) = 1..n \cup {n + 1}
  OBVIOUS
<1> QED
  BY <1>2, <1>3, <1>4, <1>5

\* What a new row changes for a user and a code
LEMMA UsesAdded ==
    ASSUME ServiceTyped, NEW r \in Rows, redeemed' = Append(redeemed, r), NEW c, NEW u
    PROVE  /\ UsesOf(u)' = IF r.user = u THEN UsesOf(u) \cup {Len(redeemed) + 1} ELSE UsesOf(u)
           /\ Uses(c, u)' = IF r.code = c /\ r.user = u
                            THEN Uses(c, u) \cup {Len(redeemed) + 1} ELSE Uses(c, u)
           /\ CodeRows(c)' = IF r.code = c THEN CodeRows(c) \cup {Len(redeemed) + 1}
                             ELSE CodeRows(c)
           /\ Taken(c)' <=> Taken(c) \/ r.code = c
<1>1. PICK n : n = Len(redeemed) + 1 /\ n \notin DOMAIN redeemed
  BY RowAdded
<1>2. /\ DOMAIN redeemed' = DOMAIN redeemed \cup {n} /\ redeemed'[n] = r
      /\ \A i \in DOMAIN redeemed : redeemed'[i] = redeemed[i]
  BY <1>1, RowAdded
<1>3. UsesOf(u)' = IF r.user = u THEN UsesOf(u) \cup {n} ELSE UsesOf(u)
  BY <1>1, <1>2 DEF UsesOf
<1>4. Uses(c, u)' = IF r.code = c /\ r.user = u THEN Uses(c, u) \cup {n} ELSE Uses(c, u)
  BY <1>1, <1>2 DEF Uses
<1>5. CodeRows(c)' = IF r.code = c THEN CodeRows(c) \cup {n} ELSE CodeRows(c)
  BY <1>1, <1>2 DEF CodeRows
<1>6. Taken(c)' <=> Taken(c) \/ r.code = c
  BY <1>1, <1>2 DEF Taken
<1> QED
  BY <1>1, <1>3, <1>4, <1>5, <1>6

\* and how many rows that makes
LEMMA OneMore ==
    ASSUME ServiceTyped, NEW r \in Rows, redeemed' = Append(redeemed, r), NEW c, NEW u
    PROVE  /\ Cardinality(UsesOf(u)') =
                IF r.user = u THEN Cardinality(UsesOf(u)) + 1 ELSE Cardinality(UsesOf(u))
           /\ Cardinality(CodeRows(c)') =
                IF r.code = c THEN Cardinality(CodeRows(c)) + 1 ELSE Cardinality(CodeRows(c))
<1>1. PICK n : n = Len(redeemed) + 1 /\ n \notin DOMAIN redeemed
  BY RowAdded
<1>2. n \notin UsesOf(u) /\ n \notin CodeRows(c)
  BY <1>1 DEF UsesOf, CodeRows
<1>3. IsFiniteSet(UsesOf(u)) /\ IsFiniteSet(CodeRows(c))
  BY RowsFinite
<1>4. /\ Cardinality(UsesOf(u) \cup {n}) = Cardinality(UsesOf(u)) + 1
      /\ Cardinality(CodeRows(c) \cup {n}) = Cardinality(CodeRows(c)) + 1
  BY <1>2, <1>3, FS_AddElement
<1> QED
  BY <1>1, <1>4, UsesAdded

LEMMA SameRows ==
    ASSUME redeemed' = redeemed, NEW c, NEW u
    PROVE  /\ UsesOf(u)' = UsesOf(u) /\ Uses(c, u)' = Uses(c, u)
           /\ CodeRows(c)' = CodeRows(c) /\ (Taken(c)' <=> Taken(c))
BY DEF UsesOf, Uses, CodeRows, Taken

\* A redemption of the service
Repeated(c, u) == offer.limit = 1 /\ Uses(c, u) # {}
Allowed(c, u) == /\ ~Repeated(c, u)
                 /\ offer.open /\ Len(redeemed) < Quantity
                 /\ offer.fixed \/ ~Taken(c)
                 /\ Cardinality(UsesOf(u)) < offer.limit
Redeems(c, u) == Allowed(c, u) /\ redeemed' = Append(redeemed, [code |-> c, user |-> u])

LEMMA OutcomesOf ==
    ASSUME NEW c, NEW u
    PROVE  /\ Repeated(c, u) \/ Allowed(c, u) <=> Outcomes(c, u) # {}
           /\ \A o \in Outcomes(c, u) :
                IF Repeated(c, u) THEN o.id = Earliest(Uses(c, u)) /\ o.rows = redeemed
                ELSE /\ o.id = Len(redeemed) + 1
                     /\ o.rows = Append(redeemed, [code |-> c, user |-> u])
<1>1. PICK x : x = [id |-> Earliest(Uses(c, u)), rows |-> redeemed]
  OBVIOUS
<1>2. PICK y : y = [id |-> Len(redeemed) + 1,
                    rows |-> Append(redeemed, [code |-> c, user |-> u])]
  OBVIOUS
<1>3. CASE Repeated(c, u)
  <2>1. Outcomes(c, u) = {x}
    BY <1>1, <1>3 DEF Outcomes, Repeated
  <2> QED
    BY <1>1, <1>3, <2>1
<1>4. CASE Allowed(c, u)
  <2>1. Outcomes(c, u) = {y}
    BY <1>2, <1>4 DEF Outcomes, Allowed, Repeated
  <2>2. ~Repeated(c, u)
    BY <1>4 DEF Allowed
  <2> QED
    BY <1>2, <1>4, <2>1, <2>2
<1>5. CASE ~Repeated(c, u) /\ ~Allowed(c, u)
  <2>1. Outcomes(c, u) = {}
    BY <1>5 DEF Outcomes, Allowed, Repeated
  <2> QED
    BY <1>5, <2>1
<1> QED
  BY <1>3, <1>4, <1>5

\* What an answer says of the rows
LEMMA ReserveSays ==
    ASSUME ServiceTyped, NEW c, NEW u, NEW a, Reserve(c, u, a)
    PROVE  /\ redeemed' = redeemed \/ Redeems(c, u)
           /\ a \in Ids => \/ Repeated(c, u) /\ redeemed' = redeemed /\ a = Earliest(Uses(c, u))
                           \/ Redeems(c, u) /\ a = Len(redeemed) + 1
           /\ a = Refused => ~Repeated(c, u) /\ ~Allowed(c, u) /\ redeemed' = redeemed
<1>1. /\ \A k \in Ids : k # Lost /\ k # Limited /\ k # Refused
      /\ Lost # Limited /\ Lost # Refused /\ Limited # Refused
  BY GameConstants DEF Ids, Lost, Limited, Refused
<1>2. ASSUME NEW o \in Outcomes(c, u)
      PROVE  /\ o.id \in Ids
             /\ \/ Repeated(c, u) /\ o.rows = redeemed /\ o.id = Earliest(Uses(c, u))
                \/ /\ Allowed(c, u) /\ o.id = Len(redeemed) + 1
                   /\ o.rows = Append(redeemed, [code |-> c, user |-> u])
  <2>1. PICK n \in Nat : n = Len(redeemed) /\ n <= Quantity
    BY RowsFinite DEF ServiceTyped
  <2>2. CASE Repeated(c, u)
    <3>1. o.rows = redeemed /\ o.id = Earliest(Uses(c, u))
      BY <1>2, <2>2, OutcomesOf
    <3>2. Uses(c, u) \subseteq 1..n /\ Uses(c, u) # {}
      BY <2>1, <2>2, RowsFinite DEF Repeated
    <3>3. Uses(c, u) \subseteq Nat
      BY <3>2
    <3>4. Earliest(Uses(c, u)) \in 1..n
      BY <3>2, <3>3, EarliestOf
    <3> QED
      BY <2>1, <2>2, <3>1, <3>4, GameConstants DEF Ids
  <2>3. CASE Allowed(c, u)
    <3>1. o.id = n + 1 /\ o.rows = Append(redeemed, [code |-> c, user |-> u])
      BY <1>2, <2>1, <2>3, OutcomesOf DEF Allowed
    <3>2. n < Quantity
      BY <2>1, <2>3 DEF Allowed
    <3> QED
      BY <2>1, <2>3, <3>1, <3>2, GameConstants DEF Ids
  <2> QED
    BY <1>2, <2>2, <2>3, OutcomesOf
<1>3. ASSUME NEW o \in Outcomes(c, u), redeemed' = o.rows
      PROVE  redeemed' = redeemed \/ Redeems(c, u)
  BY <1>2, <1>3 DEF Redeems
<1>4. CASE \E o \in Outcomes(c, u) : a = o.id /\ redeemed' = o.rows
  BY <1>1, <1>2, <1>4 DEF Redeems
<1>5. CASE \E o \in Outcomes(c, u) : a = Lost /\ redeemed' = o.rows
  BY <1>1, <1>3, <1>5
<1>6. CASE a \in {Limited, Lost} /\ UNCHANGED redeemed
  BY <1>1, <1>6
<1>7. CASE a = Refused /\ Outcomes(c, u) = {} /\ UNCHANGED redeemed
  <2>1. ~Repeated(c, u)
    BY <1>7, OutcomesOf
  <2>2. ~Allowed(c, u)
    BY <1>7, OutcomesOf
  <2> QED
    BY <1>1, <1>7, <2>1, <2>2
<1> QED
  BY <1>4, <1>5, <1>6, <1>7 DEF Reserve

-----------------------------------------------------------------------------
(* GameServer: what the service keeps                                      *)

LEMMA NewUserKept ==
    ASSUME ticks \in Nat, ticks' \in {ticks, ticks + 1}
    PROVE  /\ NewUser \in Nat /\ NewUser' \in Nat /\ FirstRacer <= NewUser
           /\ NewUser' = IF ticks' = ticks THEN NewUser ELSE NewUser + BurstCount
<1>1. PICK x \in Nat : x = ticks * BurstCount
  BY GameConstants
<1>2. (ticks + 1) * BurstCount = x + BurstCount
  BY <1>1, GameConstants
<1>3. NewUser = FirstRacer + x
  BY <1>1 DEF NewUser
<1>4. NewUser' = IF ticks' = ticks THEN FirstRacer + x ELSE FirstRacer + x + BurstCount
  <2>1. NewUser' = FirstRacer + ticks' * BurstCount
    BY DEF NewUser
  <2>2. CASE ticks' = ticks
    BY <1>1, <2>1, <2>2
  <2>3. CASE ticks' = ticks + 1
    <3>1. ticks' # ticks /\ ticks' * BurstCount = x + BurstCount
      BY <1>2, <2>3
    <3>2. NewUser' = FirstRacer + (x + BurstCount)
      BY <2>1, <3>1
    <3> QED
      BY <1>1, <3>1, <3>2, GameConstants
  <2> QED
    BY <2>2, <2>3
<1> QED
  BY <1>1, <1>3, <1>4, GameConstants

LEMMA NewUserTyped ==
    ASSUME World
    PROVE  NewUser \in Nat /\ FirstRacer <= NewUser
<1>1. PICK x \in Nat : x = ticks * BurstCount
  BY GameConstants DEF World
<1> QED
  BY <1>1, GameConstants DEF NewUser

LEMMA RepeatsStays ==
    ASSUME ServiceTyped, NEW c, NEW u, NEW n, Repeats(c, u, n), offer'.limit = offer.limit,
           \/ redeemed' = redeemed
           \/ \E r \in Rows : redeemed' = Append(redeemed, r)
    PROVE  Repeats(c, u, n)'
<1>1. PICK m \in Nat : m = Len(redeemed) /\ Uses(c, u) \subseteq 1..m
  BY RowsFinite
<1>2. Uses(c, u)' = Uses(c, u) \/ Uses(c, u)' = Uses(c, u) \cup {m + 1}
  BY <1>1, SameRows, UsesAdded
<1>3. PICK T : T = Uses(c, u)'
  OBVIOUS
<1>4. T # {} /\ Earliest(T) = Earliest(Uses(c, u))
  BY <1>1, <1>2, <1>3, EarliestStays DEF Repeats
<1> QED
  BY <1>3, <1>4 DEF Repeats

LEMMA WorldKept ==
    ASSUME World, UNCHANGED <<offer, redeemed, memory, foreign>>, ticks' \in {ticks, ticks + 1},
           calm' \in Nat, calm' <= foreign
    PROVE  World'
<1>1. ServiceTyped'
  BY DEF World, ServiceTyped, CodesHere
<1>2. NewUser \in Nat /\ NewUser' \in Nat /\ NewUser <= NewUser'
  BY NewUserKept, GameConstants DEF World
<1>3. \A i \in DOMAIN redeemed : redeemed[i].user \in Nat
  BY RowsFinite DEF World, Rows
<1>4. UsersFresh'
  BY <1>2, <1>3 DEF World, UsersFresh
<1>5. MemorySound'
  BY DEF World, MemorySound, EntrySound, Repeats, Uses, CodesHere
<1> QED
  BY <1>1, <1>4, <1>5 DEF World

LEMMA WorldRedeems ==
    ASSUME World, NEW c \in CodesHere, NEW u \in Nat, u < NewUser,
           redeemed' = redeemed \/ Redeems(c, u), UNCHANGED <<offer, foreign, calm, ticks>>,
           memory' \in Seq(Entries),
           \A m : (\E i \in DOMAIN memory' : memory'[i] = m) =>
                    EntrySound(m)' \/ \E j \in DOMAIN memory : memory[j] = m
    PROVE  World'
<1>1. PICK r \in Rows : r = [code |-> c, user |-> u] /\ r.code = c /\ r.user = u
  BY RowOf
<1>2. redeemed' = redeemed \/ (redeemed' = Append(redeemed, r) /\ Len(redeemed) < Quantity)
  BY <1>1 DEF Redeems, Allowed
<1>3. MemorySound'
  <2> SUFFICES ASSUME NEW m, \E i \in DOMAIN memory' : memory'[i] = m
               PROVE  EntrySound(m)'
    BY DEF MemorySound
  <2>1. CASE \E j \in DOMAIN memory : memory[j] = m
    <3>1. EntrySound(m)
      BY <2>1 DEF World, MemorySound
    <3>2. Repeats(m.code, m.user, m.id) => Repeats(m.code, m.user, m.id)'
      BY <1>1, <1>2, RepeatsStays DEF World
    <3> QED
      BY <3>1, <3>2 DEF EntrySound, CodesHere
  <2> QED
    BY <2>1
<1>4. CASE redeemed' = redeemed
  <2>1. ServiceTyped' /\ UsersFresh'
    BY <1>4 DEF World, ServiceTyped, CodesHere, UsersFresh, NewUser
  <2> QED
    BY <1>3, <2>1 DEF World
<1>5. CASE redeemed' = Append(redeemed, r) /\ Len(redeemed) < Quantity
  <2>1. PICK n \in Nat : n = Len(redeemed) + 1 /\ Len(redeemed') = n /\ n <= Quantity
    <3>1. Len(redeemed) \in Nat /\ Len(redeemed') = Len(redeemed) + 1
      BY <1>5, RowAdded, RowsFinite DEF World
    <3> QED
      BY <1>5, <3>1, GameConstants
  <2>2. /\ redeemed' \in Seq(Rows) /\ DOMAIN redeemed' = DOMAIN redeemed \cup {n}
        /\ redeemed'[n] = r /\ \A i \in DOMAIN redeemed : redeemed'[i] = redeemed[i]
    BY <1>5, <2>1, RowAdded DEF World
  <2>3. ServiceTyped'
    <3>1. CodesHere' = CodesHere /\ r.code \in CodesHere
      BY <1>1 DEF CodesHere
    <3>2. \A i \in DOMAIN redeemed' : redeemed'[i].code \in CodesHere
      BY <2>2, <3>1 DEF World, ServiceTyped
    <3> QED
      BY <2>1, <2>2, <3>1, <3>2 DEF World, ServiceTyped
  <2>4. UsersFresh'
    <3>1. NewUser' = NewUser
      BY DEF NewUser
    <3> QED
      BY <1>1, <2>2, <3>1 DEF World, UsersFresh
  <2> QED
    BY <1>3, <2>3, <2>4 DEF World
<1> QED
  BY <1>2, <1>4, <1>5

\* What the others do
LEMMA ForeignRedeems ==
    ASSUME World, Foreign
    PROVE  /\ foreign' = foreign + 1
           /\ UNCHANGED <<ticks, memory, work, alarm, calm>>
           /\ \/ /\ offer' = offer
                 /\ \E c \in CodesHere, u \in Players : redeemed' = redeemed \/ Redeems(c, u)
              \/ /\ redeemed' = redeemed /\ offer'.fixed = offer.fixed
                 /\ offer' \in [fixed : BOOLEAN, limit : {1, 2}, open : BOOLEAN,
                                elsewhere : BOOLEAN]
                 /\ ~offer.fixed => offer'.limit = offer.limit
<1>1. foreign' = foreign + 1 /\ UNCHANGED <<ticks, memory, work, alarm, calm>>
  BY DEF Foreign, process
<1>2. ASSUME NEW c \in CodesHere, NEW u \in Players, NEW o \in Outcomes(c, u), redeemed' = o.rows
      PROVE  redeemed' = redeemed \/ Redeems(c, u)
  BY <1>2, OutcomesOf DEF Redeems
<1>3. ASSUME offer' = [offer EXCEPT !.open = ~offer.open]
      PROVE  /\ offer'.fixed = offer.fixed /\ offer'.limit = offer.limit
             /\ offer' \in [fixed : BOOLEAN, limit : {1, 2}, open : BOOLEAN, elsewhere : BOOLEAN]
  BY <1>3 DEF World, ServiceTyped
<1>4. ASSUME offer' = [offer EXCEPT !.limit = 3 - @]
      PROVE  /\ offer'.fixed = offer.fixed
             /\ offer' \in [fixed : BOOLEAN, limit : {1, 2}, open : BOOLEAN, elsewhere : BOOLEAN]
  <2>1. 3 - offer.limit \in {1, 2}
    BY DEF World, ServiceTyped
  <2> QED
    BY <1>4, <2>1 DEF World, ServiceTyped
<1>5. \/ offer' = offer /\ \E c \in CodesHere, u \in Players : \E o \in Outcomes(c, u) :
                              redeemed' = o.rows
      \/ offer' = [offer EXCEPT !.open = ~offer.open] /\ redeemed' = redeemed
      \/ offer.fixed /\ offer' = [offer EXCEPT !.limit = 3 - @] /\ redeemed' = redeemed
  BY DEF Foreign
<1> QED
  BY <1>1, <1>2, <1>3, <1>4, <1>5

LEMMA WorldForeign ==
    ASSUME World, Foreign
    PROVE  World'
<1>1. foreign' = foreign + 1 /\ UNCHANGED <<ticks, memory, work, alarm, calm>>
  BY ForeignRedeems
<1>2. MemorySound'
  <2> SUFFICES ASSUME NEW i \in DOMAIN memory
               PROVE  /\ memory[i].at <= foreign + 1 /\ memory[i].at # foreign + 1
                      /\ memory[i].user \in Players /\ memory[i].code \in CodesHere'
    BY <1>1 DEF MemorySound, EntrySound
  <2>1. memory[i].at <= foreign /\ memory[i].at \in Nat /\ foreign \in Nat
    <3>1. memory[i] \in Entries
      BY LenProperties DEF World
    <3> QED
      BY <3>1 DEF World, MemorySound, EntrySound, ServiceTyped, Entries
  <2>2. CodesHere' = CodesHere
    BY ForeignRedeems DEF CodesHere
  <2> QED
    BY <2>1, <2>2 DEF World, MemorySound, EntrySound
<1>3. CASE redeemed' = redeemed
  <2>1. ServiceTyped'
    <3>1. CodesHere' = CodesHere
      BY ForeignRedeems DEF CodesHere
    <3>2. /\ offer' \in [fixed : BOOLEAN, limit : {1, 2}, open : BOOLEAN, elsewhere : BOOLEAN]
          /\ ~offer'.fixed => offer'.limit = 1
      BY ForeignRedeems DEF World, ServiceTyped
    <3> QED
      BY <1>1, <1>3, <3>1, <3>2 DEF World, ServiceTyped
  <2>2. UsersFresh'
    BY <1>1, <1>3 DEF World, UsersFresh, NewUser
  <2> QED
    BY <1>1, <1>2, <2>1, <2>2 DEF World
<1>4. ASSUME NEW c \in CodesHere, NEW u \in Players, Redeems(c, u), offer' = offer
      PROVE  World'
  <2>1. PICK r \in Rows : r = [code |-> c, user |-> u] /\ r.code = c /\ r.user = u
    <3>1. u \in Nat
      BY GameConstants
    <3> QED
      BY <3>1, RowOf
  <2>2. redeemed' = Append(redeemed, r) /\ Len(redeemed) < Quantity
    BY <1>4, <2>1 DEF Redeems, Allowed
  <2>3. PICK n \in Nat : n = Len(redeemed) + 1 /\ Len(redeemed') = n /\ n <= Quantity
    <3>1. Len(redeemed) \in Nat /\ Len(redeemed') = Len(redeemed) + 1
      BY <2>2, RowAdded, RowsFinite DEF World
    <3> QED
      BY <2>2, <3>1, GameConstants
  <2>4. /\ redeemed' \in Seq(Rows) /\ DOMAIN redeemed' = DOMAIN redeemed \cup {n}
        /\ redeemed'[n] = r /\ \A i \in DOMAIN redeemed : redeemed'[i] = redeemed[i]
    BY <2>2, <2>3, RowAdded DEF World
  <2>5. ServiceTyped'
    <3>1. \A i \in DOMAIN redeemed' : redeemed'[i].code \in CodesHere
      BY <2>1, <2>4 DEF World, ServiceTyped
    <3>2. CodesHere' = CodesHere
      BY <1>4 DEF CodesHere
    <3> QED
      BY <1>1, <1>4, <2>3, <2>4, <3>1, <3>2 DEF World, ServiceTyped
  <2>6. UsersFresh'
    <3>1. NewUser' = NewUser /\ u < NewUser
      BY <1>1, NewUserKept, GameConstants DEF NewUser, World
    <3> QED
      BY <2>1, <2>4, <3>1 DEF World, UsersFresh
  <2> QED
    BY <1>1, <1>2, <2>5, <2>6 DEF World
<1> QED
  BY <1>3, <1>4, ForeignRedeems

-----------------------------------------------------------------------------
(* GameServer: the scenarios                                               *)

LEMMA TaskKept ==
    ASSUME TaskInv, UNCHANGED <<offer, redeemed, work, alarm, foreign, calm, ticks>>
    PROVE  TaskInv'
BY DEF TaskInv, WorkSound, NoFalseAlarm, RaceSound, RacedRandom, RacedFixed, Judged, Unknown,
       CodeRows, UsesOf, Uses, Taken, Repeats, CodesHere, NewUser

LEMMA Ends ==
    ASSUME NEW raised, End(raised), raised \in BOOLEAN,
           raised => foreign' # calm' \/ Len(redeemed') = Quantity \/ ~offer'.open
    PROVE  TaskInv' /\ ticks' = ticks
BY DEF End, TaskInv, WorkSound, NoFalseAlarm

\* A scenario under way, whose campaign has not changed since it began
LEMMA WorkTyped ==
    ASSUME TaskInv, work # NULL
    PROVE  work \in Scenarios /\ alarm = FALSE
BY DEF TaskInv, WorkSound

LEMMA UnknownStays ==
    ASSUME World, NEW u, Unknown(u), NEW c, NEW v, v # u, c \in CodesHere, v \in Nat,
           redeemed' = redeemed \/ Redeems(c, v)
    PROVE  Unknown(u)'
<1>1. CASE redeemed' = redeemed
  BY <1>1, SameRows DEF Unknown
<1>2. CASE Redeems(c, v)
  <2>1. PICK r \in Rows : r = [code |-> c, user |-> v] /\ r.code = c /\ r.user = v
    BY RowOf
  <2>2. redeemed' = Append(redeemed, r)
    BY <1>2, <2>1 DEF Redeems
  <2>3. UsesOf(u)' = UsesOf(u)
    BY <2>1, <2>2, UsesAdded DEF World
  <2> QED
    BY <2>3 DEF Unknown
<1> QED
  BY <1>1, <1>2

LEMMA TakenStays ==
    ASSUME World, NEW k, Taken(k), NEW c \in CodesHere, NEW v \in Nat,
           redeemed' = redeemed \/ Redeems(c, v)
    PROVE  Taken(k)'
<1>1. CASE redeemed' = redeemed
  BY <1>1, SameRows
<1>2. CASE Redeems(c, v)
  <2>1. PICK r \in Rows : r = [code |-> c, user |-> v]
    BY RowOf
  <2>2. redeemed' = Append(redeemed, r)
    BY <1>2, <2>1 DEF Redeems
  <2> QED
    BY <2>2, UsesAdded DEF World
<1> QED
  BY <1>1, <1>2

LEMMA TaskForeign ==
    ASSUME GameInv, Foreign
    PROVE  TaskInv'
<1>1. foreign' = foreign + 1 /\ UNCHANGED <<ticks, memory, work, alarm, calm>>
  BY ForeignRedeems DEF GameInv
<1>2. foreign' # calm'
  BY <1>1 DEF GameInv, World, ServiceTyped
<1>3. offer'.fixed = offer.fixed /\ CodesHere' = CodesHere
  BY ForeignRedeems DEF GameInv, CodesHere
<1>4. \A u : Unknown(u) => Unknown(u)'
  <2> SUFFICES ASSUME NEW u, Unknown(u)
               PROVE  Unknown(u)'
    OBVIOUS
  <2>1. CASE redeemed' = redeemed
    BY <2>1, SameRows DEF Unknown
  <2>2. CASE \E c \in CodesHere, v \in Players : redeemed' = redeemed \/ Redeems(c, v)
    <3>1. PICK c \in CodesHere, v \in Players : redeemed' = redeemed \/ Redeems(c, v)
      BY <2>2
    <3>2. v \in Nat /\ v # u
      BY GameConstants DEF Unknown
    <3> QED
      BY <3>1, <3>2, UnknownStays DEF GameInv
  <2> QED
    BY <2>1, <2>2, ForeignRedeems DEF GameInv
<1>5. \A k : Taken(k) => Taken(k)'
  <2> SUFFICES ASSUME NEW k, Taken(k)
               PROVE  Taken(k)'
    OBVIOUS
  <2>1. CASE redeemed' = redeemed
    BY <2>1, SameRows
  <2>2. CASE \E c \in CodesHere, v \in Players : redeemed' = redeemed \/ Redeems(c, v)
    <3>1. PICK c \in CodesHere, v \in Players : redeemed' = redeemed \/ Redeems(c, v)
      BY <2>2
    <3>2. v \in Nat
      BY GameConstants
    <3> QED
      BY <3>1, <3>2, TakenStays DEF GameInv
  <2> QED
    BY <2>1, <2>2, ForeignRedeems DEF GameInv
<1>6. PICK w : w = work /\ work' = w
  BY <1>1
<1>7. w = NULL \/ w \in Scenarios
  BY <1>6 DEF GameInv, TaskInv
<1>8. w # NULL /\ w.scenario = "race" => RaceSound'
  <2> SUFFICES ASSUME w # NULL, w.scenario = "race"
               PROVE  RaceSound'
    OBVIOUS
  <2>1. RaceSound
    BY <1>6 DEF GameInv, TaskInv, WorkSound
  <2>2. NewUser' = NewUser
    BY <1>1 DEF NewUser
  <2> QED
    BY <1>2, <1>3, <1>4, <1>6, <2>1, <2>2 DEF RaceSound
<1>9. NewUser' = NewUser
  BY <1>1 DEF NewUser
<1>10. WorkSound'
  BY <1>1, <1>2, <1>3, <1>4, <1>5, <1>6, <1>7, <1>8, <1>9 DEF GameInv, TaskInv, WorkSound
<1> QED
  BY <1>2, <1>6, <1>7, <1>10 DEF TaskInv, NoFalseAlarm

\* Ticks that do not judge, or judge what they know
LEMMA ConfirmSays ==
    ASSUME NEW c, NEW u, NEW a, Confirm(c, u, a)
    PROVE  /\ Uses(c, u) = {} => a \in {Limited, Lost, Refused}
           /\ Uses(c, u) # {} => a \in {Limited, Lost, Earliest(Uses(c, u))}
BY DEF Confirm

LEMMA AnswersDiffer ==
    /\ Limited \notin Ids /\ Lost \notin Ids /\ Refused \notin Ids
    /\ Limited # Refused /\ Lost # Refused /\ Limited # Lost
BY GameConstants DEF Limited, Lost, Refused, Ids

LEMMA QuietEnds ==
    ASSUME GameInv,
           NotThisCampaign \/ NormalConfirm \/ ReconcileEnds \/ ErrorMissing \/ RetryConfirm
    PROVE  GameInv'
<1>1. UNCHANGED <<offer, redeemed, memory, foreign, calm>>
  BY DEF NotThisCampaign, NormalConfirm, ReconcileEnds, ErrorMissing, RetryConfirm, service
<1>2. ASSUME NotThisCampaign \/ NormalConfirm \/ ReconcileEnds
      PROVE  TaskInv' /\ ticks' = ticks
  BY <1>2, Ends DEF NotThisCampaign, NormalConfirm, ReconcileEnds
<1>3. ASSUME ErrorMissing
      PROVE  TaskInv' /\ ticks' = ticks
  <2>1. work.thrown = FALSE
    BY <1>3, WorkTyped DEF ErrorMissing, GameInv, TaskInv, WorkSound, Scenarios
  <2> QED
    BY <1>3, <2>1, Ends DEF ErrorMissing
<1>4. ASSUME RetryConfirm
      PROVE  TaskInv' /\ ticks' = ticks
  <2>1. PICK a : /\ Confirm(work.code, work.user, a)
                 /\ End(work.thrown \/ a = Refused \/ (a \in Ids /\ a # work.id))
    BY <1>4 DEF RetryConfirm
  <2>2. PICK t \in BOOLEAN : t = work.thrown
    BY <1>4, WorkTyped DEF RetryConfirm, GameInv, Scenarios
  <2>3. calm = foreign => ~(t \/ a = Refused \/ (a \in Ids /\ a # work.id))
    <3> SUFFICES ASSUME calm = foreign
                 PROVE  ~(t \/ a = Refused \/ (a \in Ids /\ a # work.id))
      OBVIOUS
    <3>1. Repeats(work.code, work.user, work.id) /\ ~t
      BY <1>4, <2>2 DEF RetryConfirm, GameInv, TaskInv, WorkSound
    <3>2. a \in {Limited, Lost, work.id}
      BY <2>1, <3>1, ConfirmSays DEF Repeats
    <3>3. work.id # Refused
      <4>1. PICK S : S = Uses(work.code, work.user) /\ S \subseteq Nat \ {0} /\ S # {}
        BY <3>1, RowsFinite DEF Repeats, GameInv, World
      <4>2. S \subseteq Nat
        BY <4>1
      <4> QED
        BY <3>1, <4>1, <4>2, EarliestOf DEF Repeats, Refused
    <3> QED
      BY <3>1, <3>2, <3>3, AnswersDiffer
  <2>4. PICK b \in BOOLEAN : b = (t \/ a = Refused \/ (a \in Ids /\ a # work.id))
    OBVIOUS
  <2>5. End(b) /\ (b => foreign' # calm')
    BY <1>1, <2>1, <2>2, <2>3, <2>4
  <2> QED
    BY <2>5, Ends
<1>5. TaskInv' /\ ticks' = ticks
  BY <1>2, <1>3, <1>4
<1>6. World'
  BY <1>1, <1>5, WorldKept DEF GameInv, World, ServiceTyped
<1> QED
  BY <1>5, <1>6 DEF GameInv

\* A scenario begins
LEMMA Begins ==
    ASSUME World, NEW w, Begin(w), UNCHANGED <<offer, redeemed, memory, foreign>>,
           calm' \in Nat, calm' <= foreign
    PROVE  /\ World' /\ NoFalseAlarm' /\ work' = w /\ alarm' = FALSE
           /\ NewUser' = NewUser + BurstCount /\ NewUser \in Nat /\ CodesHere' = CodesHere
           /\ FirstRacer <= NewUser
           /\ \A u : UsesOf(u)' = UsesOf(u) /\ (Unknown(u)' <=> Unknown(u))
           /\ \A c, u : Uses(c, u)' = Uses(c, u)
           /\ \A c : (Taken(c)' <=> Taken(c)) /\ CodeRows(c)' = CodeRows(c)
<1>1. ticks' = ticks + 1 /\ work' = w /\ alarm' = FALSE
  BY DEF Begin
<1>2. World'
  BY <1>1, WorldKept
<1>3. NewUser' = NewUser + BurstCount /\ NewUser \in Nat /\ FirstRacer <= NewUser
  BY <1>1, NewUserKept DEF World
<1> QED
  BY <1>1, <1>2, <1>3 DEF NoFalseAlarm, CodesHere, UsesOf, Unknown, Uses, Taken, CodeRows

\* Nobody has redeemed for a user of a burst to come
LEMMA NewIsUnknown ==
    ASSUME World, NEW u \in Nat, u >= NewUser
    PROVE  Unknown(u)
<1>1. NewUser \in Nat /\ FirstRacer <= NewUser
  BY NewUserTyped
<1>2. \A i \in DOMAIN redeemed : redeemed[i].user \in Nat
  BY RowsFinite DEF World, Rows
<1>3. UsesOf(u) = {}
  BY <1>1, <1>2 DEF World, UsersFresh, UsesOf
<1> QED
  BY <1>1, <1>3, GameConstants DEF Unknown

LEMMA NormalBegins ==
    ASSUME GameInv, NEW c \in GameCodes, NEW u \in Players, NormalFlow(c, u)
    PROVE  GameInv'
<1>1. PICK w : /\ w = [Blank EXCEPT !.scenario = "normal", !.step = "reserve", !.code = c,
                                    !.user = u, !.limit = offer.limit]
               /\ Begin(w)
  BY DEF NormalFlow
<1>2. /\ UNCHANGED <<offer, redeemed, memory, foreign>> /\ calm' = foreign
      /\ c \in CodesHere
  BY DEF NormalFlow, service, Usable
<1>3. PICK l \in {1, 2} : l = offer.limit
  BY DEF GameInv, World, ServiceTyped
<1>4. w = [scenario |-> "normal", step |-> "reserve", code |-> c, user |-> u, id |-> 0,
           left |-> 0, wins |-> {}, won |-> 0, limit |-> l, limited |-> FALSE,
           thrown |-> FALSE, items |-> {}, expects |-> OK]
  BY <1>1, <1>3 DEF Blank
<1>5. w \in Scenarios
  BY <1>4, GameConstants DEF Scenarios
<1>6. World' /\ NoFalseAlarm' /\ work' = w /\ alarm' = FALSE /\ CodesHere' = CodesHere
  <2>1. World /\ calm' \in Nat /\ calm' <= foreign
    BY <1>2 DEF GameInv, World, ServiceTyped
  <2> QED
    BY <1>1, <1>2, <2>1, Begins
<1>7. WorkSound'
  BY <1>2, <1>3, <1>4, <1>6 DEF WorkSound
<1> QED
  BY <1>5, <1>6, <1>7 DEF GameInv, TaskInv

LEMMA RetryBegins ==
    ASSUME GameInv, NEW i \in DOMAIN memory, IdempotentRetry(i)
    PROVE  GameInv'
<1>1. PICK m \in Entries : m = memory[i]
  BY LenProperties DEF GameInv, World
<1>2. PICK w : /\ w = [Blank EXCEPT !.scenario = "idempotent", !.step = "reserve",
                                    !.code = m.code, !.user = m.user, !.id = m.id]
               /\ Begin(w)
  BY <1>1 DEF IdempotentRetry
<1>3. /\ UNCHANGED <<offer, redeemed, memory, foreign>> /\ calm' = m.at /\ m.limit = 1
  BY <1>1 DEF IdempotentRetry, service
<1>4. w = [scenario |-> "idempotent", step |-> "reserve", code |-> m.code, user |-> m.user,
           id |-> m.id, left |-> 0, wins |-> {}, won |-> 0, limit |-> 0, limited |-> FALSE,
           thrown |-> FALSE, items |-> {}, expects |-> OK]
  BY <1>2 DEF Blank
<1>5. w \in Scenarios
  BY <1>4 DEF Scenarios, Entries
<1>6. /\ m.at <= foreign /\ m.at \in Nat /\ m.user \in Players /\ m.code \in CodesHere
      /\ m.at = foreign => Repeats(m.code, m.user, m.id)
  BY <1>1, <1>3 DEF GameInv, World, MemorySound, EntrySound, Entries
<1>7. /\ World' /\ NoFalseAlarm' /\ work' = w /\ alarm' = FALSE /\ CodesHere' = CodesHere
      /\ NewUser' = NewUser + BurstCount /\ NewUser \in Nat /\ FirstRacer <= NewUser
      /\ Uses(m.code, m.user)' = Uses(m.code, m.user)
  BY <1>2, <1>3, <1>6, Begins DEF GameInv, World, ServiceTyped
<1>8. m.user < NewUser'
  BY <1>6, <1>7, GameConstants
<1>9. Repeats(m.code, m.user, m.id)' <=> Repeats(m.code, m.user, m.id)
  BY <1>3 DEF Repeats, Uses
<1>10. WorkSound'
  <2>1. work'.code = m.code /\ work'.user = m.user /\ work'.id = m.id
        /\ work'.scenario = "idempotent" /\ work'.thrown = FALSE
    BY <1>4, <1>7
  <2>2. calm' = foreign' => Repeats(work.code, work.user, work.id)'
    BY <1>3, <1>6, <1>9, <2>1 DEF Repeats, Uses
  <2> QED
    BY <1>3, <1>6, <1>7, <1>8, <2>1, <2>2 DEF WorkSound
<1> QED
  BY <1>5, <1>7, <1>10 DEF GameInv, TaskInv

LEMMA RaceBegins ==
    ASSUME GameInv, NEW c \in GameCodes, ConcurrencyRace(c)
    PROVE  GameInv'
<1>1. PICK w : /\ w = [Blank EXCEPT !.scenario = "race", !.step = "burst", !.code = c,
                           !.user = FirstRacer + ticks * BurstCount, !.left = BurstCount,
                           !.limit = offer.limit]
               /\ Begin(w)
  BY DEF ConcurrencyRace
<1>2. /\ UNCHANGED <<offer, redeemed, memory, foreign>> /\ calm' = foreign
      /\ c \in CodesHere /\ offer.open /\ (~offer.fixed => ~Taken(c))
  BY DEF ConcurrencyRace, service, Usable
<1>3. PICK l \in {1, 2}, u \in Nat : l = offer.limit /\ u = NewUser
  <2>1. NewUser \in Nat
    BY NewUserTyped DEF GameInv
  <2> QED
    BY <2>1 DEF GameInv, World, ServiceTyped
<1>4. w = [scenario |-> "race", step |-> "burst", code |-> c, user |-> u, id |-> 0,
           left |-> BurstCount, wins |-> {}, won |-> 0, limit |-> l, limited |-> FALSE,
           thrown |-> FALSE, items |-> {}, expects |-> OK]
  BY <1>1, <1>3 DEF Blank, NewUser
<1>5. w \in Scenarios
  BY <1>4, GameConstants DEF Scenarios
<1>6. /\ World' /\ NoFalseAlarm' /\ work' = w /\ alarm' = FALSE /\ CodesHere' = CodesHere
      /\ NewUser' = NewUser + BurstCount
      /\ \A v : UsesOf(v)' = UsesOf(v) /\ (Unknown(v)' <=> Unknown(v))
      /\ CodeRows(c)' = CodeRows(c)
  <2>1. World /\ calm' \in Nat /\ calm' <= foreign
    BY <1>2 DEF GameInv, World, ServiceTyped
  <2> QED
    BY <1>1, <1>2, <2>1, Begins
<1>7. \A v \in u..(u + BurstCount - 1) : Unknown(v)'
  BY <1>3, <1>6, NewIsUnknown, GameConstants DEF GameInv
<1>8. Cardinality(UsesOf(u)') = 0
  <2>1. UsesOf(u) = {}
    BY <1>3, NewIsUnknown DEF GameInv, Unknown
  <2> QED
    BY <1>6, <2>1, FS_EmptySet
<1>9. ~offer.fixed => Cardinality(CodeRows(c)') = 0
  <2>1. ~offer.fixed => CodeRows(c) = {}
    BY <1>2 DEF CodeRows, Taken
  <2> QED
    BY <1>6, <2>1, FS_EmptySet
<1>10. /\ work'.code = c /\ work'.user = u /\ work'.left = BurstCount /\ work'.wins = {}
       /\ work'.won = 0 /\ work'.limit = l /\ work'.scenario = "race"
  BY <1>4, <1>6
<1>11. Judged' = 0 /\ Smaller(0, 1) = 0 /\ Smaller(0, l) = 0 /\ Smaller(0, 2) = 0
  BY <1>10, GameConstants DEF Judged, Smaller
<1>12. IF offer.fixed THEN RacedFixed' ELSE RacedRandom'
  <2>1. RacedFixed'
    BY <1>8, <1>10, <1>11 DEF RacedFixed
  <2>2. ~offer.fixed => RacedRandom'
    BY <1>9, <1>10, <1>11 DEF RacedRandom
  <2> QED
    BY <2>1, <2>2
<1>13. RaceSound'
  BY <1>2, <1>3, <1>6, <1>7, <1>10, <1>12, GameConstants DEF RaceSound
<1>14. WorkSound'
  BY <1>6, <1>10, <1>13 DEF WorkSound
<1> QED
  BY <1>5, <1>6, <1>14 DEF GameInv, TaskInv

LEMMA OtherBegins ==
    ASSUME GameInv, Reconcile \/ ErrorCases
    PROVE  GameInv'
<1>1. PICK w \in Scenarios : /\ Begin(w) /\ w.scenario \in {"reconcile", "error"}
                             /\ w.scenario = "error" => w.thrown = FALSE /\ w.step = "reserve"
  <2>1. CASE Reconcile
    <3>1. PICK S \in SUBSET Nat : S = DOMAIN redeemed \ given
      <4>1. DOMAIN redeemed \subseteq Nat
        BY RowsFinite DEF GameInv, World
      <4> QED
        BY <4>1
    <3>2. PICK w : w = [Blank EXCEPT !.scenario = "reconcile", !.items = S] /\ Begin(w)
      BY <2>1, <3>1 DEF Reconcile
    <3>3. w = [scenario |-> "reconcile", step |-> NULL, code |-> NULL, user |-> 0, id |-> 0,
               left |-> 0, wins |-> {}, won |-> 0, limit |-> 0, limited |-> FALSE,
               thrown |-> FALSE, items |-> S, expects |-> OK]
      BY <3>2 DEF Blank
    <3>4. w \in Scenarios
      BY <3>3 DEF Scenarios
    <3> QED
      BY <3>2, <3>3, <3>4
  <2>2. CASE ErrorCases
    <3>1. PICK w : w = [Blank EXCEPT !.scenario = "error", !.step = "reserve"] /\ Begin(w)
      BY <2>2 DEF ErrorCases
    <3>2. w = [scenario |-> "error", step |-> "reserve", code |-> NULL, user |-> 0, id |-> 0,
               left |-> 0, wins |-> {}, won |-> 0, limit |-> 0, limited |-> FALSE,
               thrown |-> FALSE, items |-> {}, expects |-> OK]
      BY <3>1 DEF Blank
    <3>3. w \in Scenarios
      BY <3>2 DEF Scenarios
    <3>4. w.scenario = "error" /\ w.thrown = FALSE /\ w.step = "reserve"
      BY <3>2
    <3> QED
      BY <3>1, <3>3, <3>4
  <2> QED
    BY <2>1, <2>2
<1>2. UNCHANGED <<offer, redeemed, memory, foreign>> /\ calm' = foreign
  BY DEF Reconcile, ErrorCases, service
<1>3. World' /\ NoFalseAlarm' /\ work' = w /\ alarm' = FALSE
  <2>1. World /\ calm' \in Nat /\ calm' <= foreign
    BY <1>2 DEF GameInv, World, ServiceTyped
  <2> QED
    BY <1>1, <1>2, <2>1, Begins
<1>4. WorkSound'
  BY <1>1, <1>3 DEF WorkSound
<1> QED
  BY <1>1, <1>3, <1>4 DEF GameInv, TaskInv

LEMMA ExhaustedBegins ==
    ASSUME GameInv, NEW c \in CodesHere, NEW u \in Nat, NEW answer \in {CODE_CONSUMED, USER_LIMIT},
           ExhaustedRetry(c, u, answer), u < NewUser + BurstCount,
           ~offer.fixed => Unknown(u) /\ Taken(c) /\ answer = CODE_CONSUMED,
           offer.fixed => /\ offer.limit = 2 /\ Cardinality(UsesOf(u)) >= 2
                          /\ answer = USER_LIMIT
    PROVE  GameInv'
<1>1. PICK w : /\ w = [Blank EXCEPT !.scenario = "exhausted", !.step = "reserve", !.code = c,
                           !.user = u, !.expects = answer]
               /\ Begin(w)
  BY DEF ExhaustedRetry
<1>2. UNCHANGED <<offer, redeemed, memory, foreign>> /\ calm' = foreign
  BY DEF ExhaustedRetry, service
<1>3. w = [scenario |-> "exhausted", step |-> "reserve", code |-> c, user |-> u, id |-> 0,
           left |-> 0, wins |-> {}, won |-> 0, limit |-> 0, limited |-> FALSE,
           thrown |-> FALSE, items |-> {}, expects |-> answer]
  BY <1>1 DEF Blank
<1>4. w \in Scenarios
  BY <1>3, CodesOfGame DEF Scenarios
<1>5. /\ World' /\ NoFalseAlarm' /\ work' = w /\ alarm' = FALSE /\ CodesHere' = CodesHere
      /\ NewUser' = NewUser + BurstCount
      /\ UsesOf(u)' = UsesOf(u) /\ (Unknown(u)' <=> Unknown(u)) /\ (Taken(c)' <=> Taken(c))
  <2>1. World /\ calm' \in Nat /\ calm' <= foreign
    BY <1>2 DEF GameInv, World, ServiceTyped
  <2> QED
    BY <1>1, <1>2, <2>1, Begins
<1>6. /\ work'.code = c /\ work'.user = u /\ work'.scenario = "exhausted"
      /\ work'.expects = answer
  BY <1>3, <1>5
<1>7. WorkSound'
  BY <1>2, <1>5, <1>6 DEF WorkSound
<1> QED
  BY <1>4, <1>5, <1>7 DEF GameInv, TaskInv

LEMMA TargetBegins ==
    ASSUME GameInv,
           \/ \E c \in GameCodes : ExhaustedRandom(c)
           \/ \E i \in DOMAIN redeemed : ExhaustedFixed(redeemed[i].user)
    PROVE  GameInv'
<1>1. NewUser \in Nat /\ FirstRacer <= NewUser
  BY NewUserTyped DEF GameInv
<1>2. ASSUME NEW c \in GameCodes, ExhaustedRandom(c)
      PROVE  GameInv'
  <2>1. c \in CodesHere
    BY <1>2 DEF ExhaustedRandom, CodesHere
  <2>2. Unknown(NewUser)
    BY <1>1, NewIsUnknown DEF GameInv
  <2>3. /\ ~offer.fixed /\ Taken(c) /\ ExhaustedRetry(c, NewUser, CODE_CONSUMED)
    BY <1>2 DEF ExhaustedRandom, NewUser
  <2> QED
    BY <1>1, <2>1, <2>2, <2>3, ExhaustedBegins, GameConstants
<1>3. ASSUME NEW i \in DOMAIN redeemed, ExhaustedFixed(redeemed[i].user)
      PROVE  GameInv'
  <2>1. PICK u \in Nat : u = redeemed[i].user /\ u < NewUser
    BY RowsFinite DEF GameInv, World, UsersFresh, Rows
  <2>2. PICK c \in CodesHere : ExhaustedRetry(c, u, USER_LIMIT)
    BY <1>3, <2>1 DEF ExhaustedFixed
  <2>3. offer.fixed /\ offer.limit = 2 /\ Cardinality(UsesOf(u)) >= 2
    BY <1>3, <2>1 DEF ExhaustedFixed, GameInv, World, ServiceTyped
  <2>4. u < NewUser + BurstCount
    BY <1>1, <2>1, GameConstants
  <2> QED
    BY <2>2, <2>3, <2>4, ExhaustedBegins
<1> QED
  BY <1>2, <1>3

\* A reserve of a tick, and what it leaves of the service
LEMMA Calls ==
    ASSUME World, NEW c \in CodesHere, NEW u \in Nat, u < NewUser, NEW a, Reserve(c, u, a),
           UNCHANGED <<offer, memory, foreign, calm, ticks>>
    PROVE  World' /\ (redeemed' = redeemed \/ Redeems(c, u))
<1>1. redeemed' = redeemed \/ Redeems(c, u)
  BY ReserveSays DEF World
<1>2. memory' \in Seq(Entries)
  BY DEF World
<1> QED
  BY <1>1, <1>2, WorldRedeems

\* The id of a first reserve is the first use, and stays it
LEMMA FirstUse ==
    ASSUME ServiceTyped, NEW c \in CodesHere, NEW u \in Nat, NEW a \in Ids, Reserve(c, u, a),
           offer.limit = 1, offer' = offer
    PROVE  Repeats(c, u, a)'
<1>1. CASE Repeated(c, u) /\ redeemed' = redeemed /\ a = Earliest(Uses(c, u))
  BY <1>1 DEF Repeated, Repeats, Uses
<1>2. CASE Redeems(c, u) /\ a = Len(redeemed) + 1
  <2>1. PICK r : r = [code |-> c, user |-> u] /\ r \in Rows /\ r.code = c /\ r.user = u
    BY RowOf
  <2>2. Uses(c, u) = {} /\ redeemed' = Append(redeemed, r)
    BY <1>2, <2>1 DEF Redeems, Allowed, Repeated
  <2>3. Uses(c, u)' = {a}
    BY <1>2, <2>1, <2>2, UsesAdded
  <2>4. a \in Nat
    BY GameConstants DEF Ids
  <2>5. Earliest({a}) = a
    BY <2>4, EarliestOf
  <2> QED
    BY <2>3, <2>5 DEF Repeats
<1> QED
  BY <1>1, <1>2, ReserveSays

LEMMA RecordOf ==
    ASSUME NEW m \in Seq(Entries), NEW e \in Entries
    PROVE  /\ Record(m, e) \in Seq(Entries)
           /\ \A i \in DOMAIN Record(m, e) :
                Record(m, e)[i] = e \/ \E j \in DOMAIN m : Record(m, e)[i] = m[j]
<1>1. PICK x \in Seq(Entries) : x = Append(m, e)
  BY AppendProperties
<1>2. PICK n \in Nat : n = Len(m) /\ Len(x) = n + 1 /\ DOMAIN m = 1..n /\ DOMAIN x = 1..(n + 1)
  BY <1>1, AppendProperties, LenProperties
<1>3. \A i \in 1..(n + 1) : x[i] = e \/ (i \in 1..n /\ x[i] = m[i])
  <2>1. x[n + 1] = e /\ \A i \in 1..n : x[i] = m[i]
    BY <1>1, <1>2, AppendProperties
  <2> QED
    BY <2>1
<1>4. CASE Record(m, e) = x
  BY <1>2, <1>3, <1>4
<1>5. CASE Record(m, e) = Tail(x)
  <2>1. x # <<>>
    BY <1>1, AppendProperties
  <2>2. /\ Tail(x) \in Seq(Entries) /\ Len(Tail(x)) = n
        /\ \A i \in 1..Len(Tail(x)) : Tail(x)[i] = x[i + 1]
    BY <1>2, <2>1, HeadTailProperties
  <2>3. DOMAIN Tail(x) = 1..n
    BY <2>2, LenProperties
  <2>4. \A i \in 1..n : i + 1 \in 1..(n + 1)
    BY <1>2
  <2> QED
    BY <1>2, <1>3, <1>5, <2>2, <2>3, <2>4
<1> QED
  BY <1>1, <1>4, <1>5 DEF Record

LEMMA NormalReserves ==
    ASSUME GameInv, NormalReserve
    PROVE  GameInv'
<1>1. PICK w \in Scenarios : /\ w = work /\ w.scenario = "normal" /\ w.code \in CodesHere
                             /\ w.limit # 0 /\ w.user \in Players
                             /\ calm = foreign => w.limit = offer.limit
  BY WorkTyped DEF NormalReserve, GameInv, TaskInv, WorkSound
<1>2. PICK a \in Answers :
        /\ Reserve(w.code, w.user, a)
        /\ IF a \in Ids
           THEN /\ memory' = Record(memory, [code |-> w.code, user |-> w.user, id |-> a,
                                             limit |-> w.limit, at |-> calm])
                /\ \/ Continue([w EXCEPT !.step = "confirm", !.id = a])
                   \/ End(FALSE)
           ELSE End(FALSE) /\ UNCHANGED memory
  BY <1>1 DEF NormalReserve
<1>3. UNCHANGED <<offer, foreign, calm, ticks>>
  BY <1>2 DEF NormalReserve, Continue, End, process
<1>4. PICK c \in CodesHere, u \in Nat : c = w.code /\ u = w.user /\ u \in Players /\ u < NewUser
  BY <1>1, NewUserTyped, GameConstants DEF GameInv
<1>5. TaskInv'
  <2>1. CASE End(FALSE)
    BY <2>1, Ends
  <2>2. CASE a \in Ids /\ Continue([w EXCEPT !.step = "confirm", !.id = a])
    <3>1. PICK v : v = [w EXCEPT !.step = "confirm", !.id = a] /\ work' = v
      BY <2>2 DEF Continue
    <3>2. a \in Nat
      BY <2>2, GameConstants DEF Ids
    <3>3. v \in Scenarios
      BY <3>1, <3>2 DEF Scenarios
    <3>4. /\ v.scenario = w.scenario /\ v.code = w.code /\ v.user = w.user
          /\ v.limit = w.limit
      BY <3>1 DEF Scenarios
    <3>5. CodesHere' = CodesHere
      BY <1>3 DEF CodesHere
    <3>6. alarm' = FALSE
      BY <2>2, <1>1, WorkTyped DEF Continue, GameInv, NormalReserve
    <3>7. WorkSound'
      BY <1>1, <1>3, <3>1, <3>4, <3>5, <3>6 DEF WorkSound
    <3> QED
      BY <3>1, <3>3, <3>6, <3>7 DEF TaskInv, NoFalseAlarm
  <2> QED
    BY <1>2, <2>1, <2>2
<1>6. CASE a \notin Ids
  BY <1>2, <1>3, <1>4, <1>5, <1>6, Calls DEF GameInv
<1>7. CASE a \in Ids
  <2>1. PICK e : e = [code |-> c, user |-> u, id |-> a, limit |-> w.limit, at |-> calm]
    OBVIOUS
  <2>2. e \in Entries
    <3>1. a \in Nat /\ calm \in Nat /\ w.limit \in {1, 2} /\ c \in GameCodes
      BY <1>1, <1>7, CodesOfGame, GameConstants DEF Ids, GameInv, World, ServiceTyped, Scenarios
    <3> QED
      BY <2>1, <3>1 DEF Entries
  <2>3. memory' = Record(memory, e)
    BY <1>2, <1>4, <1>7, <2>1
  <2>4. memory' \in Seq(Entries) /\ \A i \in DOMAIN memory' :
          memory'[i] = e \/ \E j \in DOMAIN memory : memory'[i] = memory[j]
    BY <2>2, <2>3, RecordOf DEF GameInv, World
  <2>5. redeemed' = redeemed \/ Redeems(c, u)
    BY <1>2, <1>4, ReserveSays DEF GameInv, World
  <2>6. EntrySound(e)'
    <3>1. e.at = calm /\ e.user = u /\ e.code = c /\ e.limit = w.limit /\ e.id = a
      BY <2>1
    <3>2. calm = foreign /\ w.limit = 1 => Repeats(c, u, a)'
      BY <1>1, <1>2, <1>3, <1>4, <1>7, FirstUse DEF GameInv, World
    <3>3. calm <= foreign
      BY DEF GameInv, World, ServiceTyped
    <3> QED
      BY <1>3, <1>4, <3>1, <3>2, <3>3 DEF EntrySound, CodesHere
  <2>7. \A m : (\E i \in DOMAIN memory' : memory'[i] = m) =>
                EntrySound(m)' \/ \E j \in DOMAIN memory : memory[j] = m
    <3> SUFFICES ASSUME NEW m, NEW i \in DOMAIN memory', memory'[i] = m
                 PROVE  m = e \/ \E j \in DOMAIN memory : memory[j] = m
      BY <2>6
    <3> QED
      BY <2>4
  <2>8. World'
    BY <1>3, <1>4, <2>4, <2>5, <2>7, WorldRedeems DEF GameInv
  <2> QED
    BY <1>5, <2>8 DEF GameInv
<1> QED
  BY <1>6, <1>7

LEMMA RetryReserves ==
    ASSUME GameInv, RetryReserve
    PROVE  GameInv'
<1>1. PICK w \in Scenarios :
        /\ w = work /\ w.scenario = "idempotent" /\ w.code \in CodesHere /\ w.user < NewUser
        /\ calm = foreign => Repeats(w.code, w.user, w.id) /\ ~w.thrown
  BY WorkTyped DEF RetryReserve, GameInv, TaskInv, WorkSound
<1>2. PICK a \in Answers :
        /\ Reserve(w.code, w.user, a)
        /\ IF a \in Ids THEN Continue([w EXCEPT !.step = "confirm", !.thrown = (a # w.id)])
           ELSE End(a = Refused)
  BY <1>1 DEF RetryReserve
<1>3. UNCHANGED <<offer, memory, foreign, calm, ticks>>
  BY <1>2 DEF RetryReserve, Continue, End, process
<1>4. PICK c \in CodesHere, u \in Nat : c = w.code /\ u = w.user /\ u < NewUser
  BY <1>1 DEF Scenarios
<1>5. World' /\ (redeemed' = redeemed \/ Redeems(c, u))
  BY <1>2, <1>3, <1>4, Calls DEF GameInv
<1>6. calm = foreign => /\ Repeated(c, u) /\ Earliest(Uses(c, u)) = w.id
                        /\ Repeats(c, u, w.id)' /\ a # Refused /\ (a \in Ids => a = w.id)
  <2> SUFFICES ASSUME calm = foreign
               PROVE  /\ Repeated(c, u) /\ Earliest(Uses(c, u)) = w.id
                      /\ Repeats(c, u, w.id)' /\ a # Refused /\ (a \in Ids => a = w.id)
    OBVIOUS
  <2>1. Repeated(c, u) /\ Earliest(Uses(c, u)) = w.id /\ Repeats(c, u, w.id)
    BY <1>1, <1>4 DEF Repeats, Repeated
  <2>2. a # Refused /\ (a \in Ids => a = w.id) /\ redeemed' = redeemed
    BY <1>2, <1>4, <2>1, ReserveSays DEF GameInv, World, Redeems, Allowed
  <2> QED
    BY <1>3, <2>1, <2>2 DEF Repeats, Uses
<1>7. CASE a \notin Ids
  <2>1. TaskInv'
    BY <1>2, <1>3, <1>6, <1>7, Ends
  <2> QED
    BY <1>5, <2>1 DEF GameInv
<1>8. CASE a \in Ids
  <2>1. PICK t \in BOOLEAN : t = (a # w.id)
    OBVIOUS
  <2>2. PICK v : v = [w EXCEPT !.step = "confirm", !.thrown = t] /\ work' = v
    BY <1>2, <1>8, <2>1 DEF Continue
  <2>3. v \in Scenarios
    BY <2>2 DEF Scenarios
  <2>4. /\ v.scenario = "idempotent" /\ v.code = c /\ v.user = u /\ v.id = w.id
        /\ v.thrown = t
    BY <1>1, <1>4, <2>2 DEF Scenarios
  <2>5. alarm' = FALSE
    BY <1>1, <1>2, <1>8, WorkTyped DEF Continue, GameInv, RetryReserve
  <2>6. CodesHere' = CodesHere /\ NewUser' = NewUser
    BY <1>3 DEF CodesHere, NewUser
  <2>7. calm' = foreign' => Repeats(work.code, work.user, work.id)' /\ ~v.thrown
    <3>1. Repeats(work.code, work.user, work.id)' <=> Repeats(c, u, w.id)'
      BY <2>2, <2>4 DEF Repeats, Uses
    <3> QED
      BY <1>3, <1>6, <1>8, <2>1, <2>4, <3>1
  <2>8. WorkSound'
    BY <1>4, <2>2, <2>4, <2>5, <2>6, <2>7 DEF WorkSound
  <2> QED
    BY <1>5, <2>2, <2>3, <2>5, <2>8 DEF GameInv, TaskInv, NoFalseAlarm
<1> QED
  BY <1>7, <1>8

LEMMA ExhaustedReserves ==
    ASSUME GameInv, ExhaustedReserve
    PROVE  GameInv'
<1>1. PICK w \in Scenarios :
        /\ w = work /\ w.scenario = "exhausted" /\ w.code \in CodesHere /\ w.user < NewUser
        /\ ~offer.fixed => Unknown(w.user) /\ Taken(w.code) /\ w.expects = CODE_CONSUMED
        /\ offer.fixed /\ calm = foreign =>
             /\ offer.limit = 2 /\ Cardinality(UsesOf(w.user)) >= 2 /\ w.expects = USER_LIMIT
  BY WorkTyped DEF ExhaustedReserve, GameInv, TaskInv, WorkSound
<1>2. PICK a \in Answers :
        /\ Reserve(w.code, w.user, a)
        /\ End(a \in Ids \/ (a = Refused /\ Reason(w.code) # w.expects))
  BY <1>1 DEF ExhaustedReserve
<1>3. UNCHANGED <<offer, memory, foreign, calm, ticks>>
  BY <1>2 DEF ExhaustedReserve, End
<1>4. PICK c \in CodesHere, u \in Nat : c = w.code /\ u = w.user /\ u < NewUser
  BY <1>1 DEF Scenarios
<1>5. World' /\ (redeemed' = redeemed \/ Redeems(c, u))
  BY <1>2, <1>3, <1>4, Calls DEF GameInv
<1>6. ~offer.fixed => ~Repeated(c, u) /\ ~Allowed(c, u) /\ Reason(c) = w.expects
  <2> SUFFICES ASSUME ~offer.fixed
               PROVE  ~Repeated(c, u) /\ ~Allowed(c, u) /\ Reason(c) = w.expects
    OBVIOUS
  <2>1. Uses(c, u) = {}
    BY <1>1, <1>4, RowsFinite DEF GameInv, World, Unknown
  <2> QED
    BY <1>1, <1>4, <2>1 DEF Repeated, Allowed, Reason
<1>7. offer.fixed /\ calm = foreign =>
        /\ ~Repeated(c, u) /\ ~Allowed(c, u)
        /\ offer.open /\ Len(redeemed) # Quantity => Reason(c) = w.expects
  <2> SUFFICES ASSUME offer.fixed, calm = foreign
               PROVE  /\ ~Repeated(c, u) /\ ~Allowed(c, u)
                      /\ offer.open /\ Len(redeemed) # Quantity => Reason(c) = w.expects
    OBVIOUS
  <2>1. PICK k \in Nat : k = Cardinality(UsesOf(u)) /\ k >= 2
    BY <1>1, <1>4, RowsFinite DEF GameInv, World
  <2> QED
    BY <1>1, <1>4, <2>1 DEF Repeated, Allowed, Reason
<1>8. a \in Ids => Repeated(c, u) \/ Allowed(c, u)
  BY <1>2, <1>4, ReserveSays DEF GameInv, World, Redeems
<1>9. a = Refused => redeemed' = redeemed
  BY <1>2, <1>4, ReserveSays DEF GameInv, World
<1>10. PICK b \in BOOLEAN : b = (a \in Ids \/ (a = Refused /\ Reason(w.code) # w.expects))
  OBVIOUS
<1>11. b => foreign' # calm' \/ Len(redeemed') = Quantity \/ ~offer'.open
  BY <1>3, <1>4, <1>6, <1>7, <1>8, <1>9, <1>10
<1>12. TaskInv'
  <2>1. End(b)
    BY <1>2, <1>10
  <2> QED
    BY <1>11, <2>1, Ends
<1> QED
  BY <1>5, <1>12 DEF GameInv

LEMMA NotIn ==
    ASSUME NEW x, NEW S, x \notin S
    PROVE  (x \in S) = FALSE
OBVIOUS

LEMMA ErrorGoesOn ==
    ASSUME GameInv, ErrorReserve \/ ErrorConfirm
    PROVE  GameInv'
<1>1. PICK w \in Scenarios :
        /\ w = work /\ w.scenario = "error" /\ w.thrown = FALSE /\ alarm = FALSE
        /\ ErrorConfirm => Unknown(w.user)
  BY WorkTyped DEF ErrorReserve, ErrorConfirm, GameInv, TaskInv, WorkSound, Scenarios
<1>2. UNCHANGED <<offer, redeemed, memory, foreign, calm>>
  BY DEF ErrorReserve, ErrorConfirm, service
<1>3. \/ End(FALSE)
      \/ \E v \in Scenarios : /\ Continue(v) /\ v.scenario = "error" /\ v.thrown = FALSE
                              /\ v.step = "confirm" => Unknown(v.user)
  <2>1. CASE ErrorReserve
    <3>1. ASSUME NEW c \in Usable,
                 Continue([w EXCEPT !.step = "confirm", !.code = c,
                                    !.user = FirstRacer + ticks * BurstCount])
          PROVE  \E v \in Scenarios : /\ Continue(v) /\ v.scenario = "error"
                                      /\ v.thrown = FALSE
                                      /\ v.step = "confirm" => Unknown(v.user)
      <4>1. PICK u \in Nat : u = NewUser /\ Unknown(u)
        BY NewUserTyped, NewIsUnknown DEF GameInv
      <4>2. c \in GameCodes
        BY CodesOfGame DEF Usable
      <4>3. PICK v : v = [w EXCEPT !.step = "confirm", !.code = c, !.user = u]
        OBVIOUS
      <4>4. v \in Scenarios
        BY <4>2, <4>3 DEF Scenarios
      <4>5. v.scenario = "error" /\ v.thrown = FALSE /\ v.user = u
        BY <1>1, <4>3 DEF Scenarios
      <4>6. Continue(v)
        BY <3>1, <4>1, <4>3 DEF NewUser
      <4> QED
        BY <4>1, <4>4, <4>5, <4>6
    <3> QED
      BY <1>1, <2>1, <3>1 DEF ErrorReserve
  <2>2. CASE ErrorConfirm
    <3>1. PICK a : /\ Confirm(w.code, w.user, a)
                   /\ IF a = Lost THEN End(FALSE)
                      ELSE Continue([w EXCEPT !.step = "missing", !.thrown = (a \in Ids)])
      BY <1>1, <2>2 DEF ErrorConfirm
    <3>2. Uses(w.code, w.user) = {}
      BY <1>1, <2>2, RowsFinite DEF Unknown, GameInv, World
    <3>3. a \notin Ids
      BY <3>1, <3>2, ConfirmSays, AnswersDiffer
    <3>4. PICK v : v = [w EXCEPT !.step = "missing", !.thrown = FALSE]
      OBVIOUS
    <3>5. v \in Scenarios
      BY <3>4 DEF Scenarios
    <3>6. v.scenario = "error" /\ v.thrown = FALSE /\ v.step = "missing"
      BY <1>1, <3>4 DEF Scenarios
    <3>7. a # Lost => Continue(v)
      <4>1. (a \in Ids) = FALSE
        BY <3>3, NotIn
      <4> QED
        BY <3>1, <3>4, <4>1
    <3> QED
      BY <3>1, <3>5, <3>6, <3>7
  <2> QED
    BY <2>1, <2>2
<1>4. CASE End(FALSE)
  <2>1. TaskInv' /\ ticks' = ticks
    BY <1>4, Ends
  <2> QED
    BY <1>2, <2>1, WorldKept DEF GameInv, World, ServiceTyped
<1>5. ASSUME NEW v \in Scenarios, Continue(v), v.scenario = "error", v.thrown = FALSE,
             v.step = "confirm" => Unknown(v.user)
      PROVE  GameInv'
  <2>1. work' = v /\ alarm' = FALSE /\ ticks' = ticks
    BY <1>1, <1>5 DEF Continue, process
  <2>2. Unknown(v.user)' <=> Unknown(v.user)
    BY <1>2 DEF Unknown, UsesOf
  <2>3. WorkSound'
    BY <1>5, <2>1, <2>2 DEF WorkSound
  <2>4. World'
    BY <1>2, <2>1, WorldKept DEF GameInv, World, ServiceTyped
  <2> QED
    BY <2>1, <2>3, <2>4 DEF GameInv, TaskInv, NoFalseAlarm
<1> QED
  BY <1>3, <1>4, <1>5

LEMMA ItemReconciled ==
    ASSUME GameInv, NEW i, ReconcileItem(i)
    PROVE  GameInv'
<1>1. PICK w \in Scenarios : w = work /\ w.scenario = "reconcile" /\ alarm = FALSE
  BY WorkTyped DEF ReconcileItem, GameInv
<1>2. UNCHANGED <<offer, redeemed, memory, foreign, calm>>
  BY DEF ReconcileItem
<1>3. End(FALSE) \/ Continue([w EXCEPT !.items = @ \ {i}])
  BY <1>1 DEF ReconcileItem
<1>4. CASE End(FALSE)
  <2>1. TaskInv' /\ ticks' = ticks
    BY <1>4, Ends
  <2> QED
    BY <1>2, <2>1, WorldKept DEF GameInv, World, ServiceTyped
<1>5. CASE Continue([w EXCEPT !.items = @ \ {i}])
  <2>1. PICK v : v = [w EXCEPT !.items = @ \ {i}] /\ work' = v /\ alarm' = FALSE
    BY <1>1, <1>5 DEF Continue
  <2>2. v \in Scenarios
    <3>1. PICK S \in SUBSET Nat : S = w.items \ {i}
      BY DEF Scenarios
    <3>2. v = [w EXCEPT !.items = S]
      BY <2>1, <3>1
    <3> QED
      BY <3>2 DEF Scenarios
  <2>3. v.scenario = "reconcile"
    BY <1>1, <2>1 DEF Scenarios
  <2>4. WorkSound'
    BY <2>1, <2>3 DEF WorkSound
  <2>5. World'
    BY <1>2, <1>5, WorldKept DEF GameInv, World, ServiceTyped, Continue, process
  <2> QED
    BY <2>1, <2>2, <2>4, <2>5 DEF GameInv, TaskInv, NoFalseAlarm
<1> QED
  BY <1>3, <1>4, <1>5

-----------------------------------------------------------------------------
(* GameServer: the burst                                                   *)

\* A FIXED campaign has one code, so a user's uses are uses of it
LEMMA FixedUses ==
    ASSUME ServiceTyped, offer.fixed, NEW c \in CodesHere, NEW u
    PROVE  Uses(c, u) = UsesOf(u)
<1>1. PICK d : CodesHere = {d}
  BY DEF CodesHere
<1>2. \A i \in DOMAIN redeemed : redeemed[i].code = c
  BY <1>1 DEF ServiceTyped
<1> QED
  BY <1>2 DEF Uses, UsesOf

LEMMA EmptyOrTaken ==
    ASSUME ServiceTyped, NEW c
    PROVE  Cardinality(CodeRows(c)) = 0 <=> ~Taken(c)
<1>1. CodeRows(c) = {} <=> ~Taken(c)
  BY DEF CodeRows, Taken
<1> QED
  BY <1>1, RowsFinite, FS_EmptySet

\* The n-th call of a burst for a RANDOM code: the first of them gets it
LEMMA RandomCall ==
    ASSUME ServiceTyped, ~offer.fixed, offer.open, Len(redeemed) < Quantity,
           NEW c \in CodesHere, NEW u \in Nat, Unknown(u), NEW a, Reserve(c, u, a),
           a \in Ids \/ a = Refused, NEW n \in Nat, Cardinality(CodeRows(c)) = Smaller(n, 1)
    PROVE  /\ Cardinality(CodeRows(c)') = Smaller(n + 1, 1)
           /\ a \in Ids <=> n = 0
<1>1. offer.limit = 1
  BY DEF ServiceTyped
<1>2. Uses(c, u) = {} /\ Cardinality(UsesOf(u)) = 0
  BY RowsFinite, FS_EmptySet DEF Unknown
<1>3. ~Repeated(c, u)
  BY <1>2 DEF Repeated
<1>4. a # Refused \/ a \notin Ids
  BY AnswersDiffer
<1>5. CASE n = 0
  <2>1. ~Taken(c) /\ Cardinality(CodeRows(c)) = 0
    BY <1>5, EmptyOrTaken DEF Smaller
  <2>2. Allowed(c, u)
    BY <1>1, <1>2, <1>3, <2>1 DEF Allowed
  <2>3. a \in Ids /\ Redeems(c, u)
    BY <1>3, <2>2, ReserveSays
  <2>4. PICK r \in Rows : r = [code |-> c, user |-> u] /\ r.code = c /\ r.user = u
    BY RowOf
  <2>5. Cardinality(CodeRows(c)') = 1
    BY <2>1, <2>3, <2>4, OneMore DEF Redeems
  <2> QED
    BY <1>5, <2>3, <2>5 DEF Smaller
<1>6. CASE n > 0
  <2>1. Cardinality(CodeRows(c)) = 1
    BY <1>6 DEF Smaller
  <2>2. Taken(c)
    BY <2>1, EmptyOrTaken
  <2>3. ~Allowed(c, u)
    BY <2>2 DEF Allowed
  <2>4. a \notin Ids /\ redeemed' = redeemed
    BY <1>3, <2>3, ReserveSays DEF Redeems
  <2>5. CodeRows(c)' = CodeRows(c)
    BY <2>4, SameRows
  <2> QED
    BY <1>6, <2>1, <2>4, <2>5 DEF Smaller
<1> QED
  BY <1>5, <1>6

\* The n-th call of a burst of one user: the first ones redeem, up to the limit;
\* at a limit of 1 the others are told the same id
LEMMA FixedCall ==
    ASSUME ServiceTyped, offer.fixed, offer.open, Len(redeemed) < Quantity,
           NEW c \in CodesHere, NEW u \in Nat, NEW a, Reserve(c, u, a),
           a \in Ids \/ a = Refused,
           NEW n \in Nat, Cardinality(UsesOf(u)) = Smaller(n, offer.limit)
    PROVE  /\ Cardinality(UsesOf(u)') = Smaller(n + 1, offer.limit)
           /\ offer.limit = 1 => UsesOf(u) \subseteq UsesOf(u)' /\ (a \in Ids => a \in UsesOf(u)')
           /\ offer.limit = 2 => (a \in Ids <=> n < 2)
<1>1. offer.limit \in {1, 2} /\ offer.fixed
  BY DEF ServiceTyped
<1>2. Uses(c, u) = UsesOf(u) /\ IsFiniteSet(UsesOf(u))
  BY FixedUses, RowsFinite
<1>3. a # Refused \/ a \notin Ids
  BY AnswersDiffer
<1>4. PICK k \in Nat : k = Cardinality(UsesOf(u)) /\ k = Smaller(n, offer.limit)
  BY RowsFinite
<1>5. PICK r \in Rows : r = [code |-> c, user |-> u] /\ r.code = c /\ r.user = u
  BY RowOf
<1>6. CASE n < offer.limit
  <2>1. k = n
    BY <1>4, <1>6 DEF Smaller
  <2>2. ~Repeated(c, u)
    <3>1. offer.limit = 1 => UsesOf(u) = {}
      BY <1>2, <1>4, <1>6, <2>1, FS_EmptySet
    <3> QED
      BY <1>2, <3>1 DEF Repeated
  <2>3. Allowed(c, u)
    BY <1>1, <1>4, <1>6, <2>1, <2>2 DEF Allowed
  <2>4. a \in Ids /\ Redeems(c, u) /\ a = Len(redeemed) + 1
    BY <2>2, <2>3, ReserveSays
  <2>5. redeemed' = Append(redeemed, r)
    BY <1>5, <2>4 DEF Redeems
  <2>6. Cardinality(UsesOf(u)') = k + 1 /\ UsesOf(u)' = UsesOf(u) \cup {a}
    BY <1>4, <1>5, <2>4, <2>5, OneMore, UsesAdded
  <2>7. Smaller(n + 1, offer.limit) = n + 1
    BY <1>1, <1>6 DEF Smaller
  <2> QED
    BY <1>1, <1>6, <2>1, <2>4, <2>6, <2>7
<1>7. CASE n >= offer.limit
  <2>1. k = offer.limit /\ Smaller(n + 1, offer.limit) = offer.limit
    BY <1>1, <1>4, <1>7 DEF Smaller
  <2>2. ~Allowed(c, u)
    BY <1>4, <2>1 DEF Allowed
  <2>3. redeemed' = redeemed
    BY <2>2, ReserveSays DEF Redeems
  <2>4. UsesOf(u)' = UsesOf(u)
    BY <2>3, SameRows
  <2>5. a \in Ids => Repeated(c, u) /\ a = Earliest(Uses(c, u))
    BY <2>2, ReserveSays DEF Redeems
  <2>6. a \in Ids => offer.limit = 1 /\ a \in UsesOf(u)
    <3>1. UsesOf(u) \subseteq Nat
      BY RowsFinite
    <3> QED
      BY <1>2, <2>5, <3>1, EarliestOf DEF Repeated
  <2> QED
    BY <1>1, <1>4, <1>7, <2>1, <2>4, <2>6
<1> QED
  BY <1>1, <1>6, <1>7

LEMMA BurstCalls ==
    ASSUME GameInv, BurstCall
    PROVE  GameInv'
<1>1. PICK w \in Scenarios :
        /\ w = work /\ w.scenario = "race" /\ w.left > 0 /\ RaceSound /\ alarm = FALSE
  BY WorkTyped DEF BurstCall, GameInv, TaskInv, WorkSound
<1>2. PICK c \in CodesHere, u \in Nat, l \in {0, 1, 2}, b, s \in BOOLEAN, W \in SUBSET Nat,
           k \in Nat :
        /\ c = w.code /\ u = w.user /\ l = w.limit
        /\ b = w.thrown /\ s = w.limited /\ W = w.wins /\ k = w.won
  <2>1. w.code \in CodesHere /\ w.user \in Nat /\ w.limit \in {0, 1, 2}
    BY <1>1 DEF Scenarios, RaceSound
  <2>2. w.thrown \in BOOLEAN /\ w.limited \in BOOLEAN /\ w.wins \in SUBSET Nat /\ w.won \in Nat
    BY <1>1 DEF Scenarios
  <2> QED
    BY <2>1, <2>2, Zenon
<1>3. PICK n \in Nat, j \in Nat : w.left = n + 1 /\ BurstCount = j + n + 1
  <2>1. w.left \in Nat /\ w.left <= BurstCount
    BY <1>1 DEF Scenarios, RaceSound
  <2>2. PICK h \in Nat : h = w.left /\ h > 0 /\ h <= BurstCount
    BY <1>1, <2>1
  <2>3. PICK n \in Nat : h = n + 1
    BY <2>2
  <2>4. PICK j \in Nat : BurstCount = j + n + 1
    BY <2>2, <2>3, GameConstants
  <2> QED
    BY <2>2, <2>3, <2>4
<1>4. PICK v \in Nat : v = IF offer.fixed THEN u ELSE u + n
  OBVIOUS
<1>5. PICK a \in Answers :
        /\ Reserve(c, v, a)
        /\ Continue([work EXCEPT !.left = @ - 1,
                  !.won = IF a \in Ids THEN @ + 1 ELSE @,
                  !.wins = IF a \in Ids THEN @ \cup {a} ELSE @,
                  !.limited = (@ \/ a = Limited), !.thrown = (@ \/ a = Lost)])
  <2>1. v = IF offer.fixed THEN work.user ELSE work.user + work.left - 1
    BY <1>1, <1>2, <1>3, <1>4 DEF Scenarios
  <2>2. c = work.code
    BY <1>1, <1>2
  <2> QED
    BY <2>1, <2>2, Zenon DEF BurstCall
<1>6. UNCHANGED <<offer, memory, foreign, calm, ticks, alarm>>
  BY <1>5 DEF BurstCall, Continue, process
<1>7. v < NewUser /\ u + BurstCount = NewUser
  <2>1. u + BurstCount = NewUser
    BY <1>1, <1>2, <1>3 DEF RaceSound
  <2>2. v <= u + n
    BY <1>4
  <2> QED
    BY <1>2, <1>3, <2>1, <2>2, GameConstants
<1>8. World' /\ (redeemed' = redeemed \/ Redeems(c, v))
  BY <1>5, <1>6, <1>7, Calls DEF GameInv
<1>9. PICK x \in Scenarios :
        /\ x = work' /\ x.scenario = "race" /\ x.code = c /\ x.user = u /\ x.left = n /\ x.limit = l
        /\ x.thrown = FALSE => b = FALSE /\ a # Lost
        /\ x.limited = FALSE => s = FALSE /\ a # Limited
        /\ x.won = IF a \in Ids THEN k + 1 ELSE k
        /\ x.wins = IF a \in Ids THEN W \cup {a} ELSE W
  <2>1. PICK h \in Nat, H \in SUBSET Nat :
          /\ h = IF a \in Ids THEN k + 1 ELSE k
          /\ H = IF a \in Ids THEN W \cup {a} ELSE W
    <3>1. a \in Ids => a \in Nat
      BY GameConstants DEF Ids
    <3>2. PICK h \in Nat : h = IF a \in Ids THEN k + 1 ELSE k
      OBVIOUS
    <3>3. (IF a \in Ids THEN W \cup {a} ELSE W) \in SUBSET Nat
      BY <3>1
    <3> QED
      BY <3>2, <3>3
  <2>2. PICK t \in BOOLEAN : t = (b \/ a = Lost)
    OBVIOUS
  <2>3. PICK m \in BOOLEAN : m = (s \/ a = Limited)
    OBVIOUS
  <2>4. PICK x : x = [w EXCEPT !.left = n, !.won = h, !.wins = H, !.limited = m, !.thrown = t]
    OBVIOUS
  <2>5. work' = x
    <3>1. work' = [w EXCEPT !.left = @ - 1,
                  !.won = IF a \in Ids THEN @ + 1 ELSE @,
                  !.wins = IF a \in Ids THEN @ \cup {a} ELSE @,
                  !.limited = (@ \/ a = Limited), !.thrown = (@ \/ a = Lost)]
      BY <1>1, <1>5 DEF Continue
    <3>2. /\ w.left - 1 = n
          /\ (IF a \in Ids THEN w.won + 1 ELSE w.won) = h
          /\ (IF a \in Ids THEN w.wins \cup {a} ELSE w.wins) = H
          /\ (w.limited \/ a = Limited) = m /\ (w.thrown \/ a = Lost) = t
      BY <1>2, <1>3, <2>1, <2>2, <2>3
    <3>3. work' = [w EXCEPT !.left = n, !.won = h, !.wins = H, !.limited = m, !.thrown = t]
      BY <3>1, <3>2, Zenon
    <3> QED
      BY <2>4, <3>3
  <2>6. x \in Scenarios
    BY <2>4 DEF Scenarios
  <2>7. /\ x.scenario = "race" /\ x.code = c /\ x.user = u /\ x.left = n /\ x.limit = l
        /\ x.thrown = t /\ x.limited = m /\ x.won = h /\ x.wins = H
    BY <1>1, <1>2, <1>3, <2>4 DEF Scenarios
  <2> QED
    BY <2>1, <2>2, <2>3, <2>5, <2>6, <2>7
<1>10. ~offer.fixed => \A y \in u..(u + n - 1) : Unknown(y)'
  <2> SUFFICES ASSUME ~offer.fixed, NEW y \in u..(u + n - 1)
               PROVE  Unknown(y)'
    OBVIOUS
  <2>1. y \in u..(u + n) /\ y # v
    BY <1>2, <1>3, <1>4
  <2>2. u..(u + n) = w.user..(w.user + w.left - 1)
    BY <1>2, <1>3
  <2>3. Unknown(y)
    BY <1>1, <2>1, <2>2 DEF RaceSound
  <2> QED
    BY <1>8, <2>1, <2>3, UnknownStays DEF GameInv
<1>11. ASSUME calm = foreign, Len(redeemed') < Quantity, x.thrown = FALSE, x.limited = FALSE
       PROVE  IF offer.fixed THEN RacedFixed' ELSE RacedRandom'
  <2>1. /\ offer.open /\ l = offer.limit /\ b = FALSE /\ s = FALSE
    BY <1>1, <1>2, <1>3, <1>9, <1>11 DEF RaceSound
  <2>2. Len(redeemed) < Quantity
    <3>1. CASE redeemed' = redeemed
      BY <1>11, <3>1
    <3>2. CASE Redeems(c, v)
      BY <3>2 DEF Redeems, Allowed
    <3> QED
      BY <1>8, <3>1, <3>2
  <2>3. a \in Ids \/ a = Refused
    BY <1>9, <1>11, GameConstants DEF Answers, Ids, Refused, Limited, Lost
  <2>4. Judged = j /\ Judged' = j + 1
    <3>1. Judged = BurstCount - (n + 1) /\ Judged' = BurstCount - n
      BY <1>1, <1>2, <1>3, <1>9 DEF Judged
    <3> QED
      BY <1>2, <1>3, <3>1
  <2>5. CASE ~offer.fixed
    <3>1. RacedRandom
      BY <1>1, <1>2, <1>3, <1>11, <2>1, <2>2, <2>5 DEF RaceSound
    <3>2. k = Smaller(j, 1) /\ Cardinality(CodeRows(c)) = Smaller(j, 1)
      BY <1>1, <1>2, <1>3, <2>4, <3>1 DEF RacedRandom
    <3>3. Unknown(v)
      BY <1>1, <1>2, <1>3, <1>4, <2>5 DEF RaceSound
    <3>4. Cardinality(CodeRows(c)') = Smaller(j + 1, 1) /\ (a \in Ids <=> j = 0)
      BY <1>5, <2>1, <2>2, <2>3, <2>5, <3>2, <3>3, RandomCall DEF GameInv, World
    <3>5. x.won = Smaller(j + 1, 1)
      BY <1>9, <3>2, <3>4 DEF Smaller
    <3>6. RacedRandom'
      BY <1>9, <2>4, <3>4, <3>5 DEF RacedRandom, CodeRows
    <3> QED
      BY <2>5, <3>6
  <2>6. CASE offer.fixed
    <3>1. RacedFixed
      BY <1>1, <1>2, <1>3, <1>11, <2>1, <2>2, <2>6 DEF RaceSound
    <3>2. /\ Cardinality(UsesOf(u)) = Smaller(j, offer.limit)
          /\ l = 1 => W \subseteq UsesOf(u)
          /\ l = 2 => k = Smaller(j, 2)
      BY <1>1, <1>2, <1>3, <2>1, <2>4, <3>1 DEF RacedFixed
    <3>3. v = u
      BY <1>4, <2>6
    <3>4. /\ Cardinality(UsesOf(u)') = Smaller(j + 1, offer.limit)
          /\ l = 1 => UsesOf(u) \subseteq UsesOf(u)' /\ (a \in Ids => a \in UsesOf(u)')
          /\ l = 2 => (a \in Ids <=> j < 2)
      BY <1>5, <2>1, <2>2, <2>3, <2>6, <3>2, <3>3, FixedCall DEF GameInv, World
    <3>5. l = 1 => x.wins \subseteq UsesOf(u)'
      BY <1>9, <3>2, <3>4
    <3>6. l = 2 => x.won = Smaller(j + 1, 2)
      BY <1>9, <3>2, <3>4 DEF Smaller
    <3>7. RacedFixed'
      BY <1>9, <2>1, <2>4, <3>4, <3>5, <3>6 DEF RacedFixed, UsesOf
    <3> QED
      BY <2>6, <3>7
  <2> QED
    BY <2>5, <2>6
<1>12. RaceSound'
  <2>1. NewUser' = NewUser /\ CodesHere' = CodesHere
    BY <1>6 DEF NewUser, CodesHere
  <2>2. n <= BurstCount
    BY <1>2, <1>3
  <2>3. calm = foreign => offer.open /\ l = offer.limit
    BY <1>1, <1>2, <1>3 DEF RaceSound
  <2>4. x.thrown \in BOOLEAN /\ x.limited \in BOOLEAN
    BY DEF Scenarios
  <2> QED
    BY <1>6, <1>7, <1>9, <1>10, <1>11, <2>1, <2>2, <2>3, <2>4 DEF RaceSound
<1>13. WorkSound'
  BY <1>1, <1>6, <1>9, <1>12 DEF WorkSound
<1> QED
  BY <1>1, <1>6, <1>8, <1>9, <1>13 DEF GameInv, TaskInv, NoFalseAlarm

\* What the burst has done is what is expected of it
LEMMA JudgedRight ==
    ASSUME GameInv, Judge, calm = foreign, Len(redeemed) < Quantity, ~work.thrown, ~work.limited
    PROVE  ~Miscounted
<1>1. PICK w \in Scenarios : /\ w = work /\ w.scenario = "race" /\ w.left = 0 /\ RaceSound
  BY WorkTyped DEF Judge, GameInv, TaskInv, WorkSound
<1>2. Judged = BurstCount /\ BurstCount >= 1
  BY <1>1, GameConstants DEF Judged
<1>3. w.limit = offer.limit /\ offer.limit \in {1, 2} /\ w.code \in CodesHere
  BY <1>1 DEF RaceSound, GameInv, World, ServiceTyped
<1>4. CASE ~offer.fixed
  <2>1. RacedRandom
    BY <1>1, <1>4 DEF RaceSound
  <2>2. Smaller(BurstCount, 1) = 1
    BY <1>2, GameConstants DEF Smaller
  <2>3. w.won = 1 /\ Counted = 1 /\ Expected = 1
    BY <1>1, <1>2, <1>4, <2>1, <2>2 DEF RacedRandom, CodeRows, Counted, Expected
  <2> QED
    BY <1>1, <1>4, <2>3 DEF Miscounted
<1>5. CASE offer.fixed
  <2>1. RacedFixed
    BY <1>1, <1>5 DEF RaceSound
  <2>2. Expected = Smaller(BurstCount, w.limit)
    BY <1>1, <1>5 DEF Expected
  <2>3. Counted = Expected /\ Cardinality(UsesOf(w.user)) = Smaller(BurstCount, w.limit)
    <3>1. Uses(w.code, w.user) = UsesOf(w.user)
      BY <1>3, <1>5, FixedUses DEF GameInv, World
    <3> QED
      BY <1>1, <1>2, <1>5, <2>1, <2>2, <3>1 DEF RacedFixed, Counted
  <2>4. w.limit = 2 => w.won = Expected
    BY <1>1, <1>2, <2>1, <2>2 DEF RacedFixed
  <2>5. w.limit = 1 => ~(Cardinality(w.wins) > 1)
    <3> SUFFICES ASSUME w.limit = 1
                 PROVE  ~(Cardinality(w.wins) > 1)
      OBVIOUS
    <3>1. Cardinality(UsesOf(w.user)) = 1
      BY <1>2, <2>3, GameConstants DEF Smaller
    <3>2. w.wins \in SUBSET UsesOf(w.user)
      BY <1>1, <2>1 DEF RacedFixed
    <3>3. IsFiniteSet(UsesOf(w.user))
      BY RowsFinite DEF GameInv, World
    <3>4. IsFiniteSet(w.wins) /\ Cardinality(w.wins) <= 1
      BY <3>1, <3>2, <3>3, FS_Subset
    <3>5. Cardinality(w.wins) \in Nat
      BY <3>4, FS_CardinalityType
    <3> QED
      BY <3>4, <3>5
  <2> QED
    BY <1>1, <1>3, <1>5, <2>3, <2>4, <2>5 DEF Miscounted
<1> QED
  BY <1>4, <1>5

LEMMA JudgeEnds ==
    ASSUME GameInv, Judge
    PROVE  GameInv'
<1>1. UNCHANGED <<offer, redeemed, memory, foreign, calm>>
  BY DEF Judge, service
<1>2. PICK b \in BOOLEAN : b = (~work.thrown /\ ~work.limited /\ Miscounted)
  OBVIOUS
<1>3. Len(redeemed) \in Nat /\ Len(redeemed) <= Quantity /\ Quantity \in Nat
  BY RowsFinite, GameConstants DEF GameInv, World, ServiceTyped
<1>4. b => foreign # calm \/ Len(redeemed) = Quantity
  <2> SUFFICES ASSUME b, foreign = calm, Len(redeemed) # Quantity
               PROVE  FALSE
    OBVIOUS
  <2>1. Len(redeemed) < Quantity
    BY <1>3
  <2>2. ~work.thrown /\ ~work.limited /\ Miscounted
    BY <1>2
  <2> QED
    BY <2>1, <2>2, JudgedRight
<1>5. End(b)
  BY <1>2 DEF Judge
<1>6. TaskInv' /\ ticks' = ticks
  BY <1>1, <1>4, <1>5, Ends
<1> QED
  BY <1>1, <1>6, WorldKept DEF GameInv, World, ServiceTyped

LEMMA GameStarts == GameInit => GameInv
<1> SUFFICES ASSUME GameInit
             PROVE  GameInv
  OBVIOUS
<1>1. redeemed = << >> /\ memory = << >> /\ DOMAIN redeemed = {} /\ DOMAIN memory = {}
  BY DEF GameInit
<1>2. ServiceTyped
  <2>1. redeemed \in Seq(Rows) /\ Len(redeemed) = 0
    BY <1>1
  <2>2. offer \in [fixed : BOOLEAN, limit : {1, 2}, open : BOOLEAN, elsewhere : BOOLEAN]
    BY DEF GameInit
  <2> QED
    BY <1>1, <2>1, <2>2, GameConstants DEF GameInit, ServiceTyped
<1>3. World
  <2>1. memory \in Seq(Entries) /\ ticks \in Nat
    BY <1>1 DEF GameInit
  <2> QED
    BY <1>1, <1>2, <2>1 DEF World, UsersFresh, MemorySound
<1>4. TaskInv
  BY DEF GameInit, TaskInv, WorkSound, NoFalseAlarm
<1> QED
  BY <1>3, <1>4 DEF GameInv

LEMMA QuietGoesOn ==
    ASSUME GameInv, TimerFires \/ Signal \/ ClosePool \/ UNCHANGED gameVars
    PROVE  GameInv'
<1>1. UNCHANGED <<offer, redeemed, work, alarm, foreign, calm, ticks, memory>>
  BY DEF TimerFires, Signal, ClosePool, gameVars, service
<1>2. calm' \in Nat /\ calm' <= foreign
  BY <1>1 DEF GameInv, World, ServiceTyped
<1>3. World'
  BY <1>1, <1>2, WorldKept DEF GameInv
<1>4. TaskInv'
  BY <1>1, TaskKept DEF GameInv
<1> QED
  BY <1>3, <1>4 DEF GameInv

LEMMA GameGoesOn == GameInv /\ [GameNext]_gameVars => GameInv'
<1> SUFFICES ASSUME GameInv, [GameNext]_gameVars
             PROVE  GameInv'
  OBVIOUS
<1>1. CASE TimerFires \/ Signal \/ ClosePool \/ UNCHANGED gameVars
  BY <1>1, QuietGoesOn
<1>2. CASE Foreign
  <2>1. World'
    BY <1>2, WorldForeign DEF GameInv
  <2>2. TaskInv'
    BY <1>2, TaskForeign
  <2> QED
    BY <2>1, <2>2 DEF GameInv
<1>3. CASE NotThisCampaign \/ NormalConfirm \/ ReconcileEnds \/ ErrorMissing \/ RetryConfirm
  BY <1>3, QuietEnds
<1>4. CASE NormalReserve
  BY <1>4, NormalReserves
<1>5. CASE RetryReserve
  BY <1>5, RetryReserves
<1>6. CASE BurstCall
  BY <1>6, BurstCalls
<1>7. CASE Judge
  BY <1>7, JudgeEnds
<1>8. CASE Reconcile \/ ErrorCases
  BY <1>8, OtherBegins
<1>9. CASE ExhaustedReserve
  BY <1>9, ExhaustedReserves
<1>10. CASE ErrorReserve \/ ErrorConfirm
  BY <1>10, ErrorGoesOn
<1>11. CASE \E c \in GameCodes : ConcurrencyRace(c)
  BY <1>11, RaceBegins
<1>12. CASE \/ \E c \in GameCodes : ExhaustedRandom(c)
            \/ \E i \in DOMAIN redeemed : ExhaustedFixed(redeemed[i].user)
  BY <1>12, TargetBegins
<1>13. CASE \E c \in GameCodes, u \in Players : NormalFlow(c, u)
  BY <1>13, NormalBegins
<1>14. CASE \E i \in DOMAIN memory : IdempotentRetry(i)
  BY <1>14, RetryBegins
<1>15. CASE \E i \in DOMAIN redeemed : ReconcileItem(i)
  BY <1>15, ItemReconciled
<1> QED
  BY <1>1, <1>2, <1>3, <1>4, <1>5, <1>6, <1>7, <1>8, <1>9, <1>10, <1>11, <1>12, <1>13,
     <1>14, <1>15 DEF GameNext

(* A MISMATCH is logged only when something else explains it, whatever     *)
(* order the calls of a burst, a throttled or lost answer, the other game  *)
(* server and the administrators come in.                                  *)
THEOREM VerdictsAgree == GameSpec => []NoFalseAlarm
<1>1. GameInv => NoFalseAlarm
  BY DEF GameInv, TaskInv
<1> QED
  BY <1>1, GameStarts, GameGoesOn, PTL DEF GameSpec

-----------------------------------------------------------------------------
(* GameServer: the types                                                   *)

ShellTyped ==
    /\ daemon \in {"running", "waiting", "idle"} /\ database \in {"open", "closed"}
    /\ stopping \in BOOLEAN /\ alarm \in BOOLEAN
RowsTyped ==
    /\ \A i \in DOMAIN redeemed : redeemed[i].user # 0
    /\ given \subseteq DOMAIN redeemed
\* Whoever is about to redeem is somebody
Redeeming == {"normal", "idempotent", "race", "exhausted"}
WorkNamed == work # NULL /\ work.scenario \in Redeeming => work.user # 0
\* The entries are in the order of what the others had done when they were
\* recorded, and the next one will not be older
InOrder(m) == \A i, j \in DOMAIN m : i < j => m[i].at <= m[j].at
MemoryTyped ==
    /\ Len(memory) <= MaxHistory /\ InOrder(memory)
    /\ work # NULL /\ work.scenario = "normal" => \A i \in DOMAIN memory : memory[i].at <= calm
GameTypeInv == GameInv /\ ShellTyped /\ RowsTyped /\ WorkNamed /\ MemoryTyped

LEMMA ShellStays ==
    ASSUME GameInv, ShellTyped, [GameNext]_gameVars
    PROVE  ShellTyped'
<1>1. ASSUME NEW a \in BOOLEAN, End(a)
      PROVE  ShellTyped'
  BY <1>1 DEF End, ShellTyped
<1>2. ASSUME NEW w, Continue(w)
      PROVE  ShellTyped'
  BY <1>2 DEF Continue, process, ShellTyped
<1>3. ASSUME NEW w, Begin(w), UNCHANGED <<daemon, stopping, database>>
      PROVE  ShellTyped'
  BY <1>3 DEF Begin, ShellTyped
<1>4. CASE TimerFires \/ Signal \/ ClosePool \/ Foreign \/ UNCHANGED gameVars
  BY <1>4 DEF TimerFires, Signal, ClosePool, Foreign, gameVars, process, ShellTyped
<1>5. CASE NotThisCampaign \/ NormalConfirm \/ ReconcileEnds
  BY <1>1, <1>5 DEF NotThisCampaign, NormalConfirm, ReconcileEnds
<1>6. CASE NormalReserve \/ ErrorReserve \/ ErrorConfirm
  BY <1>1, <1>2, <1>6 DEF NormalReserve, ErrorReserve, ErrorConfirm
<1>7. CASE RetryReserve \/ BurstCall
  <2>1. ASSUME RetryReserve
        PROVE  ShellTyped'
    <3>1. PICK a : \/ Continue([work EXCEPT !.step = "confirm", !.thrown = (a # work.id)])
                   \/ End(a = Refused)
      BY <2>1 DEF RetryReserve
    <3>2. PICK b \in BOOLEAN : b = (a = Refused)
      OBVIOUS
    <3> QED
      BY <1>1, <1>2, <3>1, <3>2
  <2> QED
    BY <1>2, <1>7, <2>1 DEF BurstCall
<1>8. CASE RetryConfirm
  <2>1. PICK a : End(work.thrown \/ a = Refused \/ (a \in Ids /\ a # work.id))
    BY <1>8 DEF RetryConfirm
  <2>2. PICK b \in BOOLEAN : b = (work.thrown \/ a = Refused \/ (a \in Ids /\ a # work.id))
    OBVIOUS
  <2> QED
    BY <1>1, <2>1, <2>2
<1>9. CASE Judge
  <2>1. PICK b \in BOOLEAN : b = (~work.thrown /\ ~work.limited /\ Miscounted)
    OBVIOUS
  <2> QED
    BY <1>1, <1>9, <2>1 DEF Judge
<1>10. CASE ExhaustedReserve
  <2>1. PICK a : End(a \in Ids \/ (a = Refused /\ Reason(work.code) # work.expects))
    BY <1>10 DEF ExhaustedReserve
  <2>2. PICK b \in BOOLEAN : b = (a \in Ids \/ (a = Refused /\ Reason(work.code) # work.expects))
    OBVIOUS
  <2> QED
    BY <1>1, <2>1, <2>2
<1>11. CASE ErrorMissing
  <2>1. PICK b \in BOOLEAN : b = work.thrown
    BY <1>11, WorkTyped DEF ErrorMissing, GameInv, Scenarios
  <2> QED
    BY <1>1, <1>11, <2>1 DEF ErrorMissing
<1>12. CASE Reconcile \/ ErrorCases
  BY <1>3, <1>12 DEF Reconcile, ErrorCases
<1>13. ASSUME NEW c, NEW u, NormalFlow(c, u) \/ ConcurrencyRace(c) \/ ExhaustedRandom(c)
                              \/ ExhaustedFixed(u)
       PROVE  ShellTyped'
  BY <1>3, <1>13 DEF NormalFlow, ConcurrencyRace, ExhaustedRandom, ExhaustedFixed, ExhaustedRetry
<1>14. ASSUME NEW i, IdempotentRetry(i) \/ ReconcileItem(i)
       PROVE  ShellTyped'
  BY <1>1, <1>2, <1>3, <1>14 DEF IdempotentRetry, ReconcileItem
<1> QED
  BY <1>4, <1>5, <1>6, <1>7, <1>8, <1>9, <1>10, <1>11, <1>12, <1>13, <1>14 DEF GameNext

-----------------------------------------------------------------------------
\* A redemption of somebody, and a confirmation of one there is
LEMMA RowsRedeemed ==
    ASSUME GameInv, RowsTyped, NEW c \in CodesHere, NEW u \in Nat \ {0},
           redeemed' = redeemed \/ Redeems(c, u), given' = given
    PROVE  RowsTyped'
<1>1. CASE redeemed' = redeemed
  BY <1>1 DEF RowsTyped
<1>2. CASE Redeems(c, u)
  <2>1. PICK r \in Rows : r = [code |-> c, user |-> u] /\ r.user = u
    BY RowOf
  <2>2. redeemed' = Append(redeemed, r)
    BY <1>2, <2>1 DEF Redeems
  <2>3. PICK n : n = Len(redeemed) + 1 /\ DOMAIN redeemed' = DOMAIN redeemed \cup {n}
                 /\ redeemed'[n] = r /\ \A i \in DOMAIN redeemed : redeemed'[i] = redeemed[i]
    BY <2>2, RowAdded DEF GameInv, World
  <2> QED
    BY <2>1, <2>3 DEF RowsTyped
<1> QED
  BY <1>1, <1>2

LEMMA RowsConfirmed ==
    ASSUME GameInv, RowsTyped, NEW c, NEW u, NEW a, Confirm(c, u, a), redeemed' = redeemed
    PROVE  RowsTyped'
<1>1. CASE given' = given
  BY <1>1 DEF RowsTyped
<1>2. CASE Uses(c, u) # {} /\ given' = given \cup {Earliest(Uses(c, u))}
  <2>1. PICK S : S = Uses(c, u) /\ S \subseteq DOMAIN redeemed /\ S \subseteq Nat /\ S # {}
    <3>1. Uses(c, u) \subseteq UsesOf(u) /\ UsesOf(u) \subseteq 1..Len(redeemed)
          /\ DOMAIN redeemed = 1..Len(redeemed) /\ Len(redeemed) \in Nat
      BY RowsFinite DEF GameInv, World
    <3>2. 1..Len(redeemed) \subseteq Nat
      BY <3>1
    <3> QED
      BY <1>2, <3>1, <3>2
  <2>2. Earliest(S) \in S
    BY <2>1, EarliestOf
  <2> QED
    BY <1>2, <2>1, <2>2 DEF RowsTyped
<1> QED
  BY <1>1, <1>2 DEF Confirm

LEMMA RowsStay ==
    ASSUME GameTypeInv, [GameNext]_gameVars
    PROVE  RowsTyped'
<1>1. GameInv /\ RowsTyped /\ WorkNamed /\ ServiceTyped
  BY DEF GameTypeInv, GameInv, World
<1>2. ASSUME UNCHANGED <<redeemed, given>>
      PROVE  RowsTyped'
  BY <1>1, <1>2 DEF RowsTyped
<1>3. ASSUME NEW c \in CodesHere, NEW u \in Nat \ {0}, NEW a, Reserve(c, u, a), given' = given
      PROVE  RowsTyped'
  <2>1. redeemed' = redeemed \/ Redeems(c, u)
    BY <1>1, <1>3, ReserveSays
  <2> QED
    BY <1>1, <1>3, <2>1, RowsRedeemed
<1>4. CASE NormalReserve \/ RetryReserve \/ ExhaustedReserve
  <2>1. PICK w \in Scenarios : w = work /\ w.scenario \in {"normal", "idempotent", "exhausted"}
                               /\ w.code \in CodesHere
    BY <1>1, <1>4, WorkTyped DEF NormalReserve, RetryReserve, ExhaustedReserve, GameInv, TaskInv,
                                 WorkSound
  <2>2. w.user \in Nat \ {0}
    <3>1. w.user \in Nat
      BY DEF Scenarios
    <3>2. w.user # 0
      BY <1>1, <1>4, <2>1 DEF WorkNamed, Redeeming, NormalReserve, RetryReserve, ExhaustedReserve
    <3> QED
      BY <3>1, <3>2
  <2>3. PICK a : Reserve(w.code, w.user, a)
    BY <1>4, <2>1 DEF NormalReserve, RetryReserve, ExhaustedReserve
  <2>4. given' = given
    BY <1>4 DEF NormalReserve, RetryReserve, ExhaustedReserve
  <2> QED
    BY <1>3, <2>1, <2>2, <2>3, <2>4
<1>5. CASE BurstCall
  <2>1. PICK w \in Scenarios : w = work /\ w.scenario = "race" /\ w.left > 0
                               /\ w.code \in CodesHere
    BY <1>1, <1>5, WorkTyped DEF BurstCall, GameInv, TaskInv, WorkSound, RaceSound
  <2>2. PICK u, a : /\ u = IF offer.fixed THEN w.user ELSE w.user + w.left - 1
                    /\ Reserve(w.code, u, a)
    BY <1>5, <2>1 DEF BurstCall
  <2>3. u \in Nat \ {0}
    <3>1. w.user # 0
      BY <1>1, <1>5, <2>1 DEF WorkNamed, Redeeming, BurstCall
    <3>2. PICK x \in Nat, l \in Nat : x = w.user /\ l = w.left
      BY DEF Scenarios
    <3>3. u = x \/ u = x + l - 1
      BY <2>2, <3>2
    <3> QED
      BY <2>1, <3>1, <3>2, <3>3
  <2>4. given' = given
    BY <1>5 DEF BurstCall
  <2> QED
    BY <1>3, <2>1, <2>2, <2>3, <2>4
<1>6. CASE NormalConfirm \/ RetryConfirm \/ ErrorConfirm
  <2>1. PICK a : Confirm(work.code, work.user, a)
    BY <1>6 DEF NormalConfirm, RetryConfirm, ErrorConfirm
  <2>2. redeemed' = redeemed
    BY <1>6 DEF NormalConfirm, RetryConfirm, ErrorConfirm
  <2> QED
    BY <1>1, <2>1, <2>2, RowsConfirmed
<1>7. ASSUME NEW i, ReconcileItem(i)
      PROVE  RowsTyped'
  <2>1. redeemed' = redeemed
    BY <1>7 DEF ReconcileItem
  <2>2. given' = given \/ \E a : Confirm(redeemed[i].code, redeemed[i].user, a)
    BY <1>7 DEF ReconcileItem
  <2> QED
    BY <1>1, <1>2, <2>1, <2>2, RowsConfirmed
<1>8. CASE Foreign
  <2>1. given' = given
    BY <1>8 DEF Foreign
  <2>2. redeemed' = redeemed \/ \E c \in CodesHere, u \in Players : redeemed' = redeemed \/ Redeems(c, u)
    BY <1>1, <1>8, ForeignRedeems DEF GameInv
  <2>3. Players \subseteq Nat \ {0}
    BY GameConstants
  <2> QED
    BY <1>1, <1>2, <2>1, <2>2, <2>3, RowsRedeemed
<1>9. CASE TimerFires \/ NotThisCampaign \/ Judge \/ ReconcileEnds \/ Signal \/ ClosePool
             \/ UNCHANGED gameVars
  BY <1>2, <1>9 DEF TimerFires, NotThisCampaign, Judge, ReconcileEnds, Signal, ClosePool, service,
                    gameVars
<1>10. CASE Reconcile \/ ErrorCases \/ ErrorReserve \/ ErrorMissing
  BY <1>2, <1>10 DEF Reconcile, ErrorCases, ErrorReserve, ErrorMissing, service
<1>11. ASSUME NEW c, NEW u, NormalFlow(c, u) \/ ConcurrencyRace(c) \/ ExhaustedRandom(c)
                              \/ ExhaustedFixed(u)
       PROVE  RowsTyped'
  BY <1>2, <1>11 DEF NormalFlow, ConcurrencyRace, ExhaustedRandom, ExhaustedFixed, ExhaustedRetry,
                     service
<1>12. ASSUME NEW i, IdempotentRetry(i)
       PROVE  RowsTyped'
  BY <1>2, <1>12 DEF IdempotentRetry, service
<1> QED
  BY <1>4, <1>5, <1>6, <1>7, <1>8, <1>9, <1>10, <1>11, <1>12 DEF GameNext

-----------------------------------------------------------------------------
\* What the daemon goes on with keeps its scenario and its user
LEMMA TaskGoesOn ==
    ASSUME GameInv,
           NormalReserve \/ RetryReserve \/ BurstCall \/ ErrorReserve \/ ErrorConfirm
             \/ \E i : ReconcileItem(i)
    PROVE  work # NULL /\
           (work' = NULL \/ (/\ work'.scenario = work.scenario
                             /\ work'.user = work.user \/ work.scenario = "error"))
<1>1. PICK w \in Scenarios : w = work /\ w # NULL
  BY WorkTyped DEF NormalReserve, RetryReserve, BurstCall, ErrorReserve, ErrorConfirm,
                   ReconcileItem, GameInv
<1> DEFINE Keeps(v) == v.scenario = w.scenario /\ (v.user = w.user \/ w.scenario = "error")
<1>2. CASE NormalReserve
  <2>1. PICK a : work' = NULL \/ work' = [w EXCEPT !.step = "confirm", !.id = a]
    BY <1>1, <1>2 DEF NormalReserve, End, Continue
  <2>2. PICK v : v = [w EXCEPT !.step = "confirm", !.id = a]
    OBVIOUS
  <2>3. Keeps(v)
    BY <2>2 DEF Scenarios
  <2> QED
    BY <1>1, <2>1, <2>2, <2>3
<1>3. CASE RetryReserve
  <2>1. PICK a : work' = NULL \/ work' = [w EXCEPT !.step = "confirm", !.thrown = (a # w.id)]
    BY <1>1, <1>3 DEF RetryReserve, End, Continue
  <2>2. PICK v : v = [w EXCEPT !.step = "confirm", !.thrown = (a # w.id)]
    OBVIOUS
  <2>3. Keeps(v)
    BY <2>2 DEF Scenarios
  <2> QED
    BY <1>1, <2>1, <2>2, <2>3
<1>4. CASE BurstCall
  <2>1. PICK a : Continue([work EXCEPT !.left = @ - 1,
                  !.won = IF a \in Ids THEN @ + 1 ELSE @,
                  !.wins = IF a \in Ids THEN @ \cup {a} ELSE @,
                  !.limited = (@ \/ a = Limited), !.thrown = (@ \/ a = Lost)])
    BY <1>4, Zenon DEF BurstCall
  <2>2. PICK v : v = [w EXCEPT !.left = @ - 1,
                  !.won = IF a \in Ids THEN @ + 1 ELSE @,
                  !.wins = IF a \in Ids THEN @ \cup {a} ELSE @,
                  !.limited = (@ \/ a = Limited), !.thrown = (@ \/ a = Lost)]
    OBVIOUS
  <2>3. work' = v
    BY <1>1, <2>1, <2>2 DEF Continue
  <2>4. Keeps(v)
    BY <2>2 DEF Scenarios
  <2> QED
    BY <1>1, <2>3, <2>4
<1>5. CASE ErrorReserve
  <2>1. w.scenario = "error"
    BY <1>1, <1>5 DEF ErrorReserve
  <2>2. PICK c, u : work' = NULL \/ work' = [w EXCEPT !.step = "confirm", !.code = c, !.user = u]
    BY <1>1, <1>5 DEF ErrorReserve, End, Continue
  <2>3. PICK v : v = [w EXCEPT !.step = "confirm", !.code = c, !.user = u]
    OBVIOUS
  <2>4. v.scenario = w.scenario
    BY <2>3 DEF Scenarios
  <2> QED
    BY <1>1, <2>1, <2>2, <2>3, <2>4
<1>6. CASE ErrorConfirm
  <2>1. PICK a : work' = NULL \/ work' = [w EXCEPT !.step = "missing", !.thrown = (a \in Ids)]
    BY <1>1, <1>6 DEF ErrorConfirm, End, Continue
  <2>2. PICK v : v = [w EXCEPT !.step = "missing", !.thrown = (a \in Ids)]
    OBVIOUS
  <2>3. Keeps(v)
    BY <2>2 DEF Scenarios
  <2> QED
    BY <1>1, <2>1, <2>2, <2>3
<1>7. ASSUME NEW i, ReconcileItem(i)
      PROVE  work' = NULL \/ Keeps(work')
  <2>1. work' = NULL \/ work' = [w EXCEPT !.items = @ \ {i}]
    BY <1>1, <1>7 DEF ReconcileItem, End, Continue
  <2>2. PICK v : v = [w EXCEPT !.items = @ \ {i}]
    OBVIOUS
  <2>3. Keeps(v)
    BY <2>2 DEF Scenarios
  <2> QED
    BY <2>1, <2>2, <2>3
<1> QED
  BY <1>1, <1>2, <1>3, <1>4, <1>5, <1>6, <1>7

LEMMA NameStays ==
    ASSUME GameTypeInv, [GameNext]_gameVars
    PROVE  WorkNamed'
<1>1. GameInv /\ RowsTyped /\ WorkNamed
  BY DEF GameTypeInv
<1>2. ASSUME work' = NULL \/ work' = work
      PROVE  WorkNamed'
  BY <1>1, <1>2 DEF WorkNamed
<1>3. CASE TimerFires \/ Signal \/ ClosePool \/ Foreign \/ UNCHANGED gameVars \/ NotThisCampaign
             \/ NormalConfirm \/ RetryConfirm \/ Judge \/ ReconcileEnds \/ ExhaustedReserve
             \/ ErrorMissing
  BY <1>2, <1>3 DEF TimerFires, Signal, ClosePool, Foreign, gameVars, NotThisCampaign,
                    NormalConfirm, RetryConfirm, Judge, ReconcileEnds, ExhaustedReserve,
                    ErrorMissing, End
<1>4. CASE NormalReserve \/ RetryReserve \/ BurstCall \/ ErrorReserve \/ ErrorConfirm
             \/ \E i : ReconcileItem(i)
  BY <1>1, <1>4, TaskGoesOn DEF WorkNamed, Redeeming
<1>5. ASSUME NEW v, Begin(v), v.scenario \notin Redeeming \/ v.user # 0
      PROVE  WorkNamed'
  BY <1>5 DEF Begin, WorkNamed
<1>6. CASE Reconcile \/ ErrorCases
  <2>1. PICK v : Begin(v) /\ (v = [Blank EXCEPT !.scenario = "error", !.step = "reserve"]
                    \/ v = [Blank EXCEPT !.scenario = "reconcile", !.items = DOMAIN redeemed \ given])
    BY <1>6 DEF Reconcile, ErrorCases
  <2>2. v.scenario \in {"reconcile", "error"}
    BY <2>1 DEF Blank
  <2>3. v.scenario \notin Redeeming
    BY <2>2 DEF Redeeming
  <2> QED
    BY <1>5, <2>1, <2>3
<1>7. NewUser # 0
  BY <1>1, NewUserTyped, GameConstants DEF GameInv
<1>8. ASSUME NEW c, NEW u, NEW answer, u # 0, ExhaustedRetry(c, u, answer)
      PROVE  WorkNamed'
  <2>1. PICK v : Begin(v) /\ v = [Blank EXCEPT !.scenario = "exhausted", !.step = "reserve",
                                    !.code = c, !.user = u, !.expects = answer]
    BY <1>8 DEF ExhaustedRetry
  <2>2. v.user = u
    BY <2>1 DEF Blank
  <2> QED
    BY <1>5, <1>8, <2>1, <2>2
<1>9. ASSUME NEW c \in GameCodes, ConcurrencyRace(c)
      PROVE  WorkNamed'
  <2>1. PICK v : Begin(v) /\ v = [Blank EXCEPT !.scenario = "race", !.step = "burst", !.code = c,
                           !.user = NewUser, !.left = BurstCount, !.limit = offer.limit]
    BY <1>9 DEF ConcurrencyRace, NewUser
  <2>2. v.user = NewUser
    BY <2>1 DEF Blank
  <2> QED
    BY <1>5, <1>7, <2>1, <2>2
<1>10. ASSUME NEW c \in GameCodes, ExhaustedRandom(c)
       PROVE  WorkNamed'
  BY <1>7, <1>8, <1>10 DEF ExhaustedRandom, NewUser
<1>11. ASSUME NEW c \in GameCodes, NEW u \in Players, NormalFlow(c, u)
       PROVE  WorkNamed'
  <2>1. PICK v : Begin(v) /\ v = [Blank EXCEPT !.scenario = "normal", !.step = "reserve",
                                    !.code = c, !.user = u, !.limit = offer.limit]
    BY <1>11 DEF NormalFlow
  <2>2. v.user = u
    BY <2>1 DEF Blank
  <2>3. u # 0
    BY GameConstants
  <2> QED
    BY <1>5, <2>1, <2>2, <2>3
<1>12. ASSUME NEW i \in DOMAIN redeemed, ExhaustedFixed(redeemed[i].user)
       PROVE  WorkNamed'
  <2>1. redeemed[i].user # 0
    BY <1>1 DEF RowsTyped
  <2> QED
    BY <1>8, <1>12, <2>1 DEF ExhaustedFixed
<1>13. ASSUME NEW i \in DOMAIN memory, IdempotentRetry(i)
       PROVE  WorkNamed'
  <2>1. PICK m : m = memory[i] /\ m.user \in Players
    BY <1>1 DEF GameInv, World, MemorySound, EntrySound
  <2>2. PICK v : Begin(v) /\ v = [Blank EXCEPT !.scenario = "idempotent", !.step = "reserve",
                                    !.code = m.code, !.user = m.user, !.id = m.id]
    BY <1>13, <2>1 DEF IdempotentRetry
  <2>3. v.user = m.user
    BY <2>2 DEF Blank
  <2>4. m.user # 0
    BY <2>1, GameConstants
  <2> QED
    BY <1>5, <2>2, <2>3, <2>4
<1> QED
  BY <1>3, <1>4, <1>6, <1>9, <1>10, <1>11, <1>12, <1>13 DEF GameNext

-----------------------------------------------------------------------------
\* A record that is full forgets its first entry; the order stays
LEMMA RecordInOrder ==
    ASSUME NEW m \in Seq(Entries), NEW e \in Entries, Len(m) <= MaxHistory, InOrder(m),
           \A i \in DOMAIN m : m[i].at <= e.at
    PROVE  Len(Record(m, e)) <= MaxHistory /\ InOrder(Record(m, e))
<1>1. PICK x \in Seq(Entries) : x = Append(m, e)
  BY AppendProperties
<1>2. PICK n \in Nat : n = Len(m) /\ Len(x) = n + 1 /\ DOMAIN m = 1..n /\ DOMAIN x = 1..(n + 1)
  BY <1>1, AppendProperties, LenProperties
<1>3. x[n + 1] = e /\ \A i \in 1..n : x[i] = m[i]
  BY <1>1, <1>2, AppendProperties
<1>4. ASSUME NEW i \in 1..(n + 1), NEW j \in 1..(n + 1), i < j
      PROVE  x[i].at <= x[j].at
  <2>1. i \in 1..n
    BY <1>4
  <2>2. CASE j = n + 1
    BY <1>2, <1>3, <2>1, <2>2
  <2>3. CASE j # n + 1
    <3>1. j \in 1..n
      BY <2>3
    <3> QED
      BY <1>2, <1>3, <1>4, <2>1, <3>1 DEF InOrder
  <2> QED
    BY <2>2, <2>3
<1>5. CASE Len(x) <= MaxHistory
  <2>1. Record(m, e) = x
    BY <1>1, <1>2, <1>5, GameConstants DEF Record
  <2> QED
    BY <1>2, <1>4, <1>5, <2>1 DEF InOrder
<1>6. CASE Len(x) > MaxHistory
  <2>1. Record(m, e) = Tail(x)
    BY <1>1, <1>6 DEF Record
  <2>2. x # <<>>
    BY <1>1, AppendProperties
  <2>3. /\ Tail(x) \in Seq(Entries) /\ Len(Tail(x)) = n
        /\ \A i \in 1..Len(Tail(x)) : Tail(x)[i] = x[i + 1]
    BY <1>2, <2>2, HeadTailProperties
  <2>4. DOMAIN Tail(x) = 1..n
    BY <2>3, LenProperties
  <2>5. ASSUME NEW i \in 1..n, NEW j \in 1..n, i < j
        PROVE  Tail(x)[i].at <= Tail(x)[j].at
    <3>1. i + 1 \in 1..(n + 1) /\ j + 1 \in 1..(n + 1) /\ i + 1 < j + 1
      BY <2>5
    <3> QED
      BY <1>4, <2>3, <3>1
  <2> QED
    BY <1>2, <2>1, <2>3, <2>4, <2>5 DEF InOrder
<1> QED
  BY <1>2, <1>5, <1>6, GameConstants

LEMMA MemoryStays ==
    ASSUME GameTypeInv, [GameNext]_gameVars
    PROVE  MemoryTyped'
<1>1. GameInv /\ MemoryTyped /\ memory \in Seq(Entries)
  BY DEF GameTypeInv, GameInv, World
<1>2. ASSUME UNCHANGED <<memory, calm>>, \/ work' = NULL \/ work' = work
                                         \/ work'.scenario = "normal" => work # NULL /\ work.scenario = "normal"
      PROVE  MemoryTyped'
  BY <1>1, <1>2 DEF MemoryTyped, InOrder
<1>3. ASSUME memory' = memory, \/ work'.scenario # "normal"
                               \/ \A i \in DOMAIN memory : memory[i].at <= calm'
      PROVE  MemoryTyped'
  BY <1>1, <1>3 DEF MemoryTyped, InOrder
<1>4. CASE TimerFires \/ Signal \/ ClosePool \/ Foreign \/ UNCHANGED gameVars \/ NotThisCampaign
             \/ NormalConfirm \/ RetryConfirm \/ Judge \/ ReconcileEnds \/ ExhaustedReserve
             \/ ErrorMissing
  BY <1>2, <1>4 DEF TimerFires, Signal, ClosePool, Foreign, gameVars, NotThisCampaign,
                    NormalConfirm, RetryConfirm, Judge, ReconcileEnds, ExhaustedReserve,
                    ErrorMissing, End
<1>5. CASE RetryReserve \/ BurstCall \/ ErrorReserve \/ ErrorConfirm \/ \E i : ReconcileItem(i)
  <2>1. UNCHANGED <<memory, calm>>
    BY <1>5 DEF RetryReserve, BurstCall, ErrorReserve, ErrorConfirm, ReconcileItem
  <2>2. work # NULL /\ (work' = NULL \/ work'.scenario = work.scenario)
    BY <1>1, <1>5, TaskGoesOn
  <2> QED
    BY <1>2, <2>1, <2>2
<1>6. CASE NormalReserve
  <2>1. PICK w \in Scenarios : /\ w = work /\ w # NULL /\ w.scenario = "normal" /\ w.limit # 0
                               /\ w.code \in CodesHere
    BY <1>1, <1>6, WorkTyped DEF NormalReserve, GameInv, TaskInv, WorkSound
  <2>2. calm' = calm /\ \A i \in DOMAIN memory : memory[i].at <= calm
    BY <1>1, <1>6, <2>1 DEF NormalReserve, MemoryTyped
  <2>3. CASE memory' = memory
    BY <1>3, <2>2, <2>3
  <2>4. ASSUME NEW a \in Ids, NEW e,
               e = [code |-> w.code, user |-> w.user, id |-> a, limit |-> w.limit, at |-> calm],
               memory' = Record(memory, e)
        PROVE  MemoryTyped'
    <3>1. e \in Entries
      <4>1. a \in Nat /\ calm \in Nat /\ w.limit \in {1, 2} /\ w.code \in GameCodes
            /\ w.user \in Nat
        BY <1>1, <2>1, CodesOfGame, GameConstants DEF Ids, GameInv, World, ServiceTyped, Scenarios
      <4> QED
        BY <2>4, <4>1 DEF Entries
    <3>2. e.at = calm
      BY <2>4
    <3>3. Len(memory') <= MaxHistory /\ InOrder(memory')
      BY <1>1, <2>2, <2>4, <3>1, <3>2, RecordInOrder DEF MemoryTyped
    <3>4. \A i \in DOMAIN memory' : memory'[i] = e \/ \E j \in DOMAIN memory : memory'[i] = memory[j]
      BY <1>1, <2>4, <3>1, RecordOf
    <3>5. calm \in Nat
      BY <1>1 DEF GameInv, World, ServiceTyped
    <3>6. \A i \in DOMAIN memory' : memory'[i].at <= calm'
      BY <2>2, <3>2, <3>4, <3>5
    <3> QED
      BY <3>3, <3>6 DEF MemoryTyped, InOrder
  <2>5. memory' = memory
        \/ \E a \in Ids : memory' = Record(memory, [code |-> w.code, user |-> w.user, id |-> a,
                                                   limit |-> w.limit, at |-> calm])
    BY <1>6, <2>1 DEF NormalReserve
  <2> QED
    BY <2>3, <2>4, <2>5
<1>7. \A i \in DOMAIN memory : memory[i].at <= foreign
  BY <1>1 DEF GameInv, World, MemorySound, EntrySound
<1>8. CASE Reconcile \/ ErrorCases
  BY <1>3, <1>7, <1>8 DEF Reconcile, ErrorCases
<1>9. ASSUME NEW c, NEW u, NormalFlow(c, u) \/ ConcurrencyRace(c) \/ ExhaustedRandom(c)
                              \/ ExhaustedFixed(u)
       PROVE  MemoryTyped'
  BY <1>3, <1>7, <1>9 DEF NormalFlow, ConcurrencyRace, ExhaustedRandom, ExhaustedFixed,
                            ExhaustedRetry
<1>10. ASSUME NEW i, IdempotentRetry(i)
       PROVE  MemoryTyped'
  <2>1. memory' = memory
    BY <1>10 DEF IdempotentRetry
  <2>2. PICK m : m = memory[i]
    OBVIOUS
  <2>3. PICK v : Begin(v) /\ v = [Blank EXCEPT !.scenario = "idempotent", !.step = "reserve",
                                    !.code = m.code, !.user = m.user, !.id = m.id]
    BY <1>10, <2>2 DEF IdempotentRetry
  <2>4. v.scenario = "idempotent"
    BY <2>3 DEF Blank
  <2>5. work'.scenario = "idempotent"
    BY <2>3, <2>4 DEF Begin
  <2> QED
    BY <1>3, <2>1, <2>5
<1> QED
  BY <1>4, <1>5, <1>6, <1>8, <1>9, <1>10 DEF GameNext

-----------------------------------------------------------------------------
LEMMA GameTypes == GameTypeInv => GameTypeOK
<1> SUFFICES ASSUME GameTypeInv PROVE GameTypeOK
  OBVIOUS
<1>1. World /\ ShellTyped /\ RowsTyped /\ MemoryTyped
  BY DEF GameTypeInv, GameInv
<1>2. redeemed \in Seq(Rows) /\ Len(redeemed) <= Quantity
  BY <1>1 DEF World, ServiceTyped
<1>3. redeemed \in Seq([code : GameCodes, user : Nat \ {0}])
  <2> DEFINE Named == [code : GameCodes, user : Nat \ {0}]
  <2>1. PICK n \in Nat : DOMAIN redeemed = 1..n /\ redeemed \in [1..n -> Rows]
    BY <1>2, LenProperties
  <2>2. ASSUME NEW i \in 1..n
        PROVE  redeemed[i] \in Named
    <3>1. PICK r \in Rows : r = redeemed[i] /\ r.user # 0
      BY <1>1, <2>1 DEF RowsTyped
    <3> QED
      BY <3>1 DEF Rows
  <2>3. redeemed \in [1..n -> Named]
    BY <2>1, <2>2
  <2> HIDE DEF Named
  <2>4. redeemed \in Seq(Named)
    BY <2>3, SeqDef
  <2> QED
    BY <2>4 DEF Named
<1> QED
  BY <1>1, <1>2, <1>3 DEF GameTypeOK, ShellTyped, RowsTyped, MemoryTyped, InOrder

\* The daemon and the service keep their types: nobody is redeemed for who is no
\* player, only redemptions are confirmed, and ReserveHistoryStore holds reserves in
\* their order, at most as many as it may.
THEOREM GameTyped == GameSpec => []GameTypeOK
<1>1. GameInit => GameTypeInv
  <2> SUFFICES ASSUME GameInit PROVE GameTypeInv
    OBVIOUS
  <2>1. redeemed = << >> /\ memory = << >> /\ DOMAIN redeemed = {} /\ DOMAIN memory = {}
        /\ Len(memory) = 0 /\ given = {} /\ work = NULL
    BY DEF GameInit
  <2>2. ShellTyped
    BY DEF GameInit, ShellTyped
  <2>3. RowsTyped /\ WorkNamed
    BY <2>1 DEF RowsTyped, WorkNamed
  <2>4. MemoryTyped
    BY <2>1, GameConstants DEF MemoryTyped, InOrder
  <2> QED
    BY <2>2, <2>3, <2>4, GameStarts DEF GameTypeInv
<1>2. GameTypeInv /\ [GameNext]_gameVars => GameTypeInv'
  <2> SUFFICES ASSUME GameTypeInv, [GameNext]_gameVars PROVE GameTypeInv'
    OBVIOUS
  <2>1. GameInv' /\ ShellTyped'
    BY GameGoesOn, ShellStays DEF GameTypeInv
  <2> QED
    BY <2>1, RowsStay, NameStays, MemoryStays DEF GameTypeInv
<1> QED
  BY <1>1, <1>2, GameTypes, PTL DEF GameSpec

-----------------------------------------------------------------------------
(* MCTraffic: the four side by side                                        *)

LEMMA TrafficApart ==
    ASSUME [TrafficNext]_<<part, limitVars, poolVars, gameVars, readingVars>>
    PROVE  /\ [LimitNext]_limitVars /\ [PoolNext]_poolVars
           /\ [GameNext]_gameVars /\ [ReadingNext]_readingVars
BY DEF TrafficNext, Only

\* Limiters, pools, game server and unconfirmed list keep their types, whichever
\* of the four a behaviour explores.
THEOREM TrafficTyped == TrafficSpec => []TrafficTypeOK
<1>1. TrafficInit => LimitInit /\ PoolInit /\ GameInit /\ ReadingInit
  BY DEF TrafficInit
<1>2. TrafficSpec => LimitSpec /\ PoolSpec /\ GameSpec /\ ReadingSpec
  BY <1>1, TrafficApart, PTL DEF TrafficSpec, LimitSpec, PoolSpec, GameSpec, ReadingSpec
<1>3. LimitTypeOK /\ PoolTypeOK /\ GameTypeOK /\ ReadingTypeOK => TrafficTypeOK
  BY DEF TrafficTypeOK
<1> QED
  BY <1>2, <1>3, LimitsTyped, PoolTyped, GameTyped, ReadingTyped, PTL
=============================================================================
