------------------------------ MODULE MCTraffic ------------------------------
(* What stands around the calls of game servers, for TLC: the rate         *)
(* limiters, the connection pool the batches share with the calls, the     *)
(* list of unconfirmed redemptions, and the test game server. A behaviour  *)
(* explores one of the four and leaves the others as they begin.           *)
EXTENDS RateLimiters, BatchPool, GameServer, UnconfirmedPages, TLC

CONSTANTS r1, r2, n1, n2, n3, m1, m2, m3, b1, b2, t1, t2, t3, t4, v1, w1, w2, k1, k2
VARIABLE part

\* Two batches of a replica, a second run of the first, a call of the API, and
\* the first batch of the other replica
PoolReplica == [x \in {n1, n2, n3, t1, t2, t3, t4} |-> r1] @@ [x \in {m1, m2, m3, v1} |-> r2]
PoolBatch == (t1 :> b1) @@ (t2 :> b1) @@ (t3 :> b2) @@ (t4 :> NULL) @@ (v1 :> b1)

\* Two redemptions of one user, in two campaigns, and one of another
Owners == << [user |-> w1, campaign |-> k1], [user |-> w2, campaign |-> k1],
             [user |-> w1, campaign |-> k2] >>

TrafficInit ==
    /\ part \in {"limits", "pool", "game", "pages"}
    /\ LimitInit
    /\ PoolInit
    /\ GameInit
    /\ ReadingInit
    /\ part # "game" => ~offer.fixed /\ offer.elsewhere
Only(p) ==
    /\ part = p
    /\ part' = p
    /\ p # "limits" => UNCHANGED limitVars
    /\ p # "pool"   => UNCHANGED poolVars
    /\ p # "game"   => UNCHANGED gameVars
    /\ p # "pages"  => UNCHANGED readingVars
TrafficNext ==
    \/ Only("limits") /\ LimitNext
    \/ Only("pool")   /\ PoolNext
    \/ Only("game")   /\ GameNext
    \/ Only("pages")  /\ ReadingNext
TrafficSpec ==
    TrafficInit /\ [][TrafficNext]_<<part, limitVars, poolVars, gameVars, readingVars>>

\* The types of the four
TrafficTypeOK == LimitTypeOK /\ PoolTypeOK /\ GameTypeOK /\ ReadingTypeOK

Symmetric == Permutations(Arrivals)
=============================================================================
