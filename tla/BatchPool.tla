------------------------------ MODULE BatchPool ------------------------------
(***************************************************************************)
(* The connection pools of the replicas and the batches that run in one of *)
(* them at a time: SpExecutorService. A run of a batch keeps one pooled    *)
(* connection, whose session owns the batch's lock, while its procedure    *)
(* takes another from the same pool.                                       *)
(***************************************************************************)
EXTENDS Naturals, Sequences, FiniteSets, NoValue

CONSTANTS
    Replicas, Conns, Batches, Tasks,
    ReplicaOf, \* of a connection or a task
    BatchOf    \* of a task; NULL: it serves a call of the API, or is a code
               \* generation's loop

ConnsOf(r) == {c \in Conns : ReplicaOf[c] = r}

\* DB_CONNECTION_LIMIT is 10 by default and there are five batches; nothing in
\* env.validation.ts keeps it from being set lower
ASSUME PoolAssumption ==
    /\ \A x \in Conns \cup Tasks : ReplicaOf[x] \in Replicas
    /\ \A t \in Tasks : BatchOf[t] \in Batches \cup {NULL}
    /\ IsFiniteSet(Conns) /\ IsFiniteSet(Batches)
    /\ \A r \in Replicas : Cardinality(ConnsOf(r)) > Cardinality(Batches)
    /\ NULL \notin Conns \cup Tasks \cup Batches

VARIABLES
    conn,  \* who holds each connection
    queue, \* who waits for a connection of each pool
    task,  \* pc; own: the connection a run keeps, alive: whether its session is
    lock   \* the connection whose session owns GET_LOCK of each batch

poolVars == <<conn, queue, task, lock>>

Resting == [pc |-> "idle", own |-> NULL, alive |-> TRUE]
Doing(t, pc) == task[t].pc = pc
Become(t, pc) == task' = [task EXCEPT ![t].pc = pc]
Rest(t) == task' = [task EXCEPT ![t] = Resting]
Held(t) == {c \in Conns : conn[c] = t}
OwnsLock(t) == lock[BatchOf[t]] = task[t].own
\* conn.release
Released(cs) == [c \in Conns |-> IF c \in cs THEN NULL ELSE conn[c]]
Wait(t) == queue' = [queue EXCEPT ![ReplicaOf[t]] = Append(@, t)]

PoolInit ==
    /\ conn = [c \in Conns |-> NULL]
    /\ queue = [r \in Replicas |-> <<>>]
    /\ task = [t \in Tasks |-> Resting]
    /\ lock = [b \in Batches |-> NULL]

-----------------------------------------------------------------------------
\* The cron fires, although the run before may still be under way, or a call
\* arrives: pool.getConnection, pool.query
Fire(t) ==
    /\ Doing(t, "idle")
    /\ Wait(t) /\ Become(t, "first")
    /\ UNCHANGED <<conn, lock>>

\* The pool serves those who wait in their order, with any free connection
Free(r) == {c \in ConnsOf(r) : conn[c] = NULL}
Grant(r) ==
    LET q == queue[r] IN
    /\ Free(r) # {} /\ q # <<>>
    /\ conn' = [conn EXCEPT ![CHOOSE c \in Free(r) : TRUE] = Head(q)]
    /\ queue' = [queue EXCEPT ![r] = Tail(q)]
    /\ Become(Head(q), IF Doing(Head(q), "first") /\ BatchOf[Head(q)] # NULL THEN "acquire"
                       ELSE "query")
    /\ UNCHANGED lock

Obtain(t, c) ==
    /\ lock' = [lock EXCEPT ![BatchOf[t]] = c]
    /\ task' = [task EXCEPT ![t] = [pc |-> "second", own |-> c, alive |-> TRUE]]
    /\ Wait(t)
    /\ UNCHANGED conn

\* Mutant: the locks of two replicas are two locks
AcquirePerReplica(t) ==
    /\ Doing(t, "acquire")
    /\ \E c \in Held(t) :
        /\ lock[BatchOf[t]] \notin ConnsOf(ReplicaOf[c])
        /\ Obtain(t, c)
\* SP_LOCK_ACQUIRE on the connection that is held, without waiting
Acquire(t) ==
    /\ Doing(t, "acquire")
    /\ \E c \in Held(t) : lock[BatchOf[t]] \in {NULL, c} /\ Obtain(t, c)

\* Mutant: the early return goes past the finally
RefuseKeeping(t) ==
    /\ Doing(t, "acquire")
    /\ Rest(t) /\ UNCHANGED <<conn, queue, lock>>
\* Another run owns the lock, or the procedure failed; the next turn will come
Refuse(t) ==
    /\ Doing(t, "acquire")
    /\ conn' = Released(Held(t)) /\ Rest(t)
    /\ UNCHANGED <<queue, lock>>

\* The query of a call ends, and so does the procedure of a batch, in whatever way
EndQuery(t) ==
    /\ Doing(t, "query")
    /\ conn' = Released(Held(t) \ {task[t].own})
    /\ IF BatchOf[t] = NULL THEN Rest(t) ELSE Become(t, "release")
    /\ UNCHANGED <<queue, lock>>

\* SP_LOCK_RELEASE, then conn.release
Release(t) ==
    /\ Doing(t, "release")
    /\ lock' = IF OwnsLock(t) THEN [lock EXCEPT ![BatchOf[t]] = NULL] ELSE lock
    /\ conn' = Released(Held(t)) /\ Rest(t)
    /\ UNCHANGED queue

\* MySQL ends a session that was idle while the procedure ran: its lock is free,
\* and nobody is told
SessionEnds(t) ==
    /\ task[t].pc \in {"query", "release"} /\ BatchOf[t] # NULL /\ task[t].alive
    /\ lock' = [lock EXCEPT ![BatchOf[t]] = NULL]
    /\ task' = [task EXCEPT ![t].alive = FALSE]
    /\ UNCHANGED <<conn, queue>>

Step(t) == Acquire(t) \/ Refuse(t) \/ EndQuery(t) \/ Release(t)

PoolNext ==
    \/ \E t \in Tasks : Fire(t) \/ Step(t) \/ SessionEnds(t)
    \/ \E r \in Replicas : Grant(r)

PoolSpec == PoolInit /\ [][PoolNext]_poolVars

-----------------------------------------------------------------------------
\* Types; whoever rests holds nothing
PoolTypeOK ==
    /\ conn \in [Conns -> Tasks \cup {NULL}]
    /\ lock \in [Batches -> Conns \cup {NULL}]
    /\ \A r \in Replicas : queue[r] \in Seq(Tasks)
    /\ \A t \in Tasks :
        /\ task[t].pc \in {"idle", "first", "acquire", "second", "query", "release"}
        /\ task[t].pc \in {"idle", "first"} <=> Held(t) = {}
        /\ task[t].own \in Held(t) \cup {NULL}
        /\ Held(t) \subseteq ConnsOf(ReplicaOf[t])

\* A batch runs in one replica, and once in it, however often its cron fires,
\* unless the session that owns the lock ended meanwhile (runExclusive).
RunsExclusively ==
    \A t, u \in Tasks :
        /\ t # u /\ BatchOf[t] # NULL /\ BatchOf[t] = BatchOf[u]
        /\ {task[t].pc, task[u].pc} \subseteq {"second", "query"}
        => ~task[t].alive \/ ~task[u].alive

\* The batches never hold a whole pool while they wait for a connection of it:
\* some connection is free, or held by someone who needs no other to finish.
PoolNeverWedged ==
    \A r \in Replicas : \E c \in ConnsOf(r) : conn[c] = NULL \/ ~Doing(conn[c], "second")

\* One run of a batch at a time, and none that starves the pool it runs in
BatchesSound == RunsExclusively /\ PoolNeverWedged
=============================================================================
