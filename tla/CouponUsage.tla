---------------------------- MODULE CouponUsage -----------------------------
(***************************************************************************)
(* SP_COUPON_RESERVE and SP_COUPON_CONFIRM, statement by statement, run by *)
(* concurrent database sessions on behalf of the game servers, while       *)
(* administrators change the campaign and time passes.                     *)
(*                                                                         *)
(* Transactions.  A session keeps its uncommitted work in its own record;  *)
(* COMMIT moves it into the tables and ROLLBACK forgets it.  The row locks *)
(* a transaction holds follow from how far it has come (HoldsCode,         *)
(* HoldsCampaign), and a statement that would need a lock another session  *)
(* holds is not enabled.  Plain SELECTs read the committed tables.         *)
(***************************************************************************)
EXTENDS CouponSchema, Integers, FiniteSets

CONSTANTS
  Sessions,     \* database connections serving S2S calls
  Users,        \* spellings of game_user_id that game servers send
  FoldOf,       \* FoldOf[u]: the key u compares by (utf8mb4_0900_ai_ci)
  Codes,        \* coupon_code.code_value within one project
  Campaigns,
  CampaignOf,   \* the campaign a code belongs to
  CodeType,     \* coupon_campaign.code_type
  FixedQty,     \* requested_qty of a FIXED campaign: how often its code may be used
  Qtys,         \* the values administrators give usable_qty
  Limits        \* the values administrators give use_limit_per_user

ASSUME UsageAssumption ==
  /\ Users /= {} /\ Codes /= {}
  /\ CampaignOf \in [Codes -> Campaigns]
  /\ CodeType \in [Campaigns -> CodeTypes]
  /\ FixedQty \in Nat \ {0} /\ Qtys \subseteq Nat /\ Limits \subseteq Nat \ {0}

VARIABLES
  campaign,     \* coupon_campaign rows
  codeStatus,   \* coupon_code.status
  usage,        \* coupon_code_usage rows
  maxLimit,     \* ghost: the highest use_limit_per_user a campaign ever had
  sess          \* what each session is executing

vars == <<campaign, codeStatus, usage, maxLimit, sess>>
-----------------------------------------------------------------------------
SameUser(u, v) == FoldOf[u] = FoldOf[v]

IsRandom(c) == CodeType[CampaignOf[c]] = RANDOM

RowsOf(k)       == {r \in usage : CampaignOf[r.code] = k}
RowsOfCode(c)   == {r \in usage : r.code = c}
RowsOfUser(k,u) == {r \in RowsOf(k) : SameUser(r.user, u)}
RowsFor(c, u)   == {r \in RowsOfCode(c) : SameUser(r.user, u)}

\* LIMIT 1 without ORDER BY: index ix_code_id yields the oldest row first
FirstRow(R) == CHOOSE r \in R : \A q \in R : r.id <= q.id

\* Once its conditional UPDATE of a RANDOM code has matched, a session holds
\* the X lock on the code row until it commits or rolls back
HoldsCode(s, c) ==
  sess[s].code = c /\ IsRandom(c) /\ sess[s].pc \in {"quota", "insert", "count"}

HoldsCampaign(s, k) ==
  sess[s].pc \in {"insert", "count"} /\ CampaignOf[sess[s].code] = k

\* Mutant: the claim of the code is a plain read that takes no lock
CodeUnlocked(c) == c \in Codes

CodeFree(c)     == \A t \in Sessions : ~HoldsCode(t, c)
CampaignFree(k) == \A t \in Sessions : ~HoldsCampaign(t, k)
-----------------------------------------------------------------------------
\* A session that is executing nothing
Idle == [pc |-> "idle", op |-> "none", code |-> CHOOSE c \in Codes : TRUE,
         user |-> CHOOSE u \in Users : TRUE, limit |-> 0, owned |-> FALSE,
         row |-> 0, result |-> OK]

Init ==
  /\ campaign \in [Campaigns -> [status : {ACTIVE}, inPeriod : {TRUE},
                                 generated : {0}, usable : {0}, used : {0},
                                 limit : Limits]]
  /\ codeStatus = [c \in Codes |-> ABSENT]
  /\ usage = {}
  /\ maxLimit = [k \in Campaigns |-> campaign[k].limit]
  /\ sess = [s \in Sessions |-> Idle]

Goto(s, fields) == sess' = [sess EXCEPT ![s] = fields]

\* The procedure returns; an open transaction is rolled back
Answer(s, result) ==
  /\ Goto(s, [sess[s] EXCEPT !.pc = "reply", !.result = result])
  /\ UNCHANGED <<campaign, codeStatus, usage, maxLimit>>
-----------------------------------------------------------------------------
\* A game server's call reaches the database.  owned is a ghost: the user
\* had already redeemed this code when the call began.
Call(s, op, c, u) ==
  /\ sess[s].pc = "idle"
  /\ Goto(s, [Idle EXCEPT !.pc = "lookup", !.op = op, !.code = c, !.user = u,
                          !.owned = RowsFor(c, u) /= {}])
  /\ UNCHANGED <<campaign, codeStatus, usage, maxLimit>>

\* Mutant: the idempotency check is skipped
LookupNotIdempotent(s) ==
  /\ sess[s].pc = "lookup"
  /\ IF codeStatus[sess[s].code] = ABSENT
       THEN Answer(s, CODE_NOT_FOUND)
       ELSE /\ Goto(s, [sess[s] EXCEPT !.limit = campaign[CampaignOf[sess[s].code]].limit,
                          !.pc = IF sess[s].op = "reserve" THEN "claim" ELSE "find"])
            /\ UNCHANGED <<campaign, codeStatus, usage, maxLimit>>

\* The first SELECT of either procedure
Lookup(s) ==
  LET c == sess[s].code
      l == campaign[CampaignOf[c]].limit
  IN  /\ sess[s].pc = "lookup"
      /\ \/ /\ codeStatus[c] = ABSENT
            /\ Answer(s, CODE_NOT_FOUND)
         \/ /\ codeStatus[c] /= ABSENT
            /\ sess[s].op = "reserve"
            /\ Goto(s, [sess[s] EXCEPT !.limit = l,
                          !.pc = IF l = 1 THEN "existing" ELSE "claim"])
            /\ UNCHANGED <<campaign, codeStatus, usage, maxLimit>>
         \/ /\ codeStatus[c] /= ABSENT
            /\ sess[s].op = "confirm"
            /\ Goto(s, [sess[s] EXCEPT !.pc = "find"])
            /\ UNCHANGED <<campaign, codeStatus, usage, maxLimit>>

\* Mutant: the idempotency check forgets whose redemption it looks for
FindAnyExisting(s) ==
  LET rows == RowsOfCode(sess[s].code)
  IN  /\ sess[s].pc = "existing"
      /\ Goto(s, IF rows = {}
                   THEN [sess[s] EXCEPT !.pc = "claim"]
                   ELSE [sess[s] EXCEPT !.pc = "reply", !.result = OK,
                                        !.row = FirstRow(rows).id])
      /\ UNCHANGED <<campaign, codeStatus, usage, maxLimit>>

\* reserve, the idempotency check made before the transaction starts
FindExisting(s) ==
  LET rows == RowsFor(sess[s].code, sess[s].user)
  IN  /\ sess[s].pc = "existing"
      /\ Goto(s, IF rows = {}
                   THEN [sess[s] EXCEPT !.pc = "claim"]
                   ELSE [sess[s] EXCEPT !.pc = "reply", !.result = OK,
                                        !.row = FirstRow(rows).id])
      /\ UNCHANGED <<campaign, codeStatus, usage, maxLimit>>

\* Mutant: a locked code counts as consumed (NOWAIT, SKIP LOCKED)
ClaimCodeNoWait(s) ==
  LET free == IsRandom(sess[s].code) =>
                CodeFree(sess[s].code) /\ codeStatus[sess[s].code] = UNUSED
  IN  /\ sess[s].pc = "claim"
      /\ \/ /\ free
            /\ Goto(s, [sess[s] EXCEPT !.pc = "quota"])
            /\ UNCHANGED <<campaign, codeStatus, usage, maxLimit>>
         \/ /\ ~free
            /\ Answer(s, CODE_CONSUMED)

\* START TRANSACTION and the conditional UPDATE of coupon_code.  A FIXED code
\* takes no lock and its status, read by Lookup, is never anything but UNUSED.
ClaimCode(s) ==
  LET c == sess[s].code
  IN  /\ sess[s].pc = "claim"
      /\ IsRandom(c) => CodeFree(c)
      /\ \/ /\ IsRandom(c) => codeStatus[c] = UNUSED
            /\ Goto(s, [sess[s] EXCEPT !.pc = "quota"])
            /\ UNCHANGED <<campaign, codeStatus, usage, maxLimit>>
         \/ /\ IsRandom(c) /\ codeStatus[c] /= UNUSED
            /\ Answer(s, CODE_CONSUMED)

\* What the conditional UPDATE of coupon_campaign asks of the row
Redeemable(k) ==
  /\ campaign[k].used < campaign[k].usable
  /\ campaign[k].status = ACTIVE
  /\ campaign[k].inPeriod

\* Mutant: the first SELECT has locked the campaign FOR SHARE, and the UPDATE
\* must wait for every other reader to finish
TakeQuotaUpgrading(s) ==
  /\ sess[s].pc = "quota"
  /\ \A t \in Sessions \ {s} :
       sess[t].code = sess[s].code => sess[t].pc \notin {"claim", "quota", "insert", "count"}
  /\ \/ /\ Redeemable(CampaignOf[sess[s].code])
        /\ Goto(s, [sess[s] EXCEPT !.pc = "insert"])
        /\ UNCHANGED <<campaign, codeStatus, usage, maxLimit>>
     \/ /\ ~Redeemable(CampaignOf[sess[s].code])
        /\ Answer(s, CAMPAIGN_CLOSED)

\* UPDATE coupon_campaign SET used_qty = used_qty + 1
TakeQuota(s) ==
  LET k == CampaignOf[sess[s].code]
  IN  /\ sess[s].pc = "quota"
      /\ CampaignFree(k)
      /\ \/ /\ Redeemable(k)
            /\ Goto(s, [sess[s] EXCEPT !.pc = "insert"])
            /\ UNCHANGED <<campaign, codeStatus, usage, maxLimit>>
         \/ /\ ~Redeemable(k)
            /\ Answer(s, CAMPAIGN_CLOSED)

\* INSERT INTO coupon_code_usage, still uncommitted
InsertUsage(s) ==
  /\ sess[s].pc = "insert"
  /\ Goto(s, [sess[s] EXCEPT !.pc = "count"])
  /\ UNCHANGED <<campaign, codeStatus, usage, maxLimit>>

\* AUTO_INCREMENT.  Rows of one campaign are inserted under its row lock, so
\* their ids have the order of their commits.
NewRow(s) == [id |-> Cardinality(usage) + 1, code |-> sess[s].code,
              user |-> sess[s].user, confirmed |-> FALSE]

\* Mutant: counts as if the session's own row were not inserted yet
WithinLimitBefore(s) ==
  Cardinality(RowsOfUser(CampaignOf[sess[s].code], sess[s].user)) <= sess[s].limit

\* SELECT COUNT(*) ... FOR UPDATE counts the committed rows and the session's own
WithinLimit(s) ==
  Cardinality(RowsOfUser(CampaignOf[sess[s].code], sess[s].user)) + 1 <= sess[s].limit

CountAndCommit(s) ==
  LET c == sess[s].code
      k == CampaignOf[c]
  IN  /\ sess[s].pc = "count"
      /\ \/ /\ WithinLimit(s)
            /\ usage' = usage \cup {NewRow(s)}
            /\ campaign' = [campaign EXCEPT ![k].used = @ + 1]
            /\ codeStatus' = IF IsRandom(c) THEN [codeStatus EXCEPT ![c] = USED]
                                            ELSE codeStatus
            /\ Goto(s, [sess[s] EXCEPT !.pc = "reply", !.result = OK,
                                       !.row = NewRow(s).id])
            /\ UNCHANGED maxLimit
         \/ /\ ~WithinLimit(s)
            /\ Answer(s, USER_LIMIT)
-----------------------------------------------------------------------------

\* confirm, the SELECT of the usage row
FindUsage(s) ==
  LET rows == RowsFor(sess[s].code, sess[s].user)
  IN  /\ sess[s].pc = "find"
      /\ \/ /\ rows = {}
            /\ Answer(s, USAGE_NOT_FOUND)
         \/ /\ rows /= {}
            /\ Goto(s, LET r == FirstRow(rows) IN
                 [sess[s] EXCEPT !.row = r.id, !.result = OK,
                                 !.pc = IF r.confirmed THEN "reply" ELSE "confirm"])
            /\ UNCHANGED <<campaign, codeStatus, usage, maxLimit>>

\* confirm, UPDATE ... SET confirmed_at = NOW() WHERE ... confirmed_at IS NULL.
\* Losing the race to another confirm is not an error.
WriteConfirm(s) ==
  /\ sess[s].pc = "confirm"
  /\ usage' = {IF r.id = sess[s].row THEN [r EXCEPT !.confirmed = TRUE] ELSE r
                 : r \in usage}
  /\ Goto(s, [sess[s] EXCEPT !.pc = "reply", !.result = OK])
  /\ UNCHANGED <<campaign, codeStatus, maxLimit>>

InSql == {"lookup", "existing", "claim", "quota", "insert", "count", "find", "confirm"}

\* Mutant: the handler hands the quota back although it rolls back anyway
SqlErrorCompensated(s) ==
  /\ sess[s].pc \in InSql
  /\ Goto(s, [sess[s] EXCEPT !.pc = "reply", !.result = DATABASE_ERROR])
  /\ campaign' = [campaign EXCEPT ![CampaignOf[sess[s].code]].used = @ - 1]
  /\ UNCHANGED <<codeStatus, usage, maxLimit>>

\* EXIT HANDLER FOR SQLEXCEPTION: lock wait timeout, deadlock victim, lost
\* connection.  The transaction is rolled back.
SqlError(s) ==
  /\ sess[s].pc \in InSql
  /\ Answer(s, DATABASE_ERROR)

\* The answer reaches the game server, or is lost on the way: to the database
\* both are the end of the call
Return(s) ==
  /\ sess[s].pc = "reply"
  /\ Goto(s, Idle)
  /\ UNCHANGED <<campaign, codeStatus, usage, maxLimit>>

Step(s) ==
  \/ Lookup(s) \/ FindExisting(s) \/ ClaimCode(s) \/ TakeQuota(s)
  \/ InsertUsage(s) \/ CountAndCommit(s)
  \/ FindUsage(s) \/ WriteConfirm(s)
-----------------------------------------------------------------------------
\* Code generation inserts a code; a FIXED campaign has only one
IssueCode(c) ==
  LET k == CampaignOf[c]
  IN  /\ codeStatus[c] = ABSENT
      /\ campaign[k].status /= ENDED
      /\ CampaignFree(k)
      /\ CodeType[k] = FIXED => campaign[k].generated = 0
      /\ codeStatus' = [codeStatus EXCEPT ![c] = UNUSED]
      /\ campaign' = [campaign EXCEPT ![k].generated =
                        IF CodeType[k] = FIXED THEN FixedQty ELSE @ + 1]
      /\ UNCHANGED <<usage, maxLimit, sess>>

\* SP_CAMPAIGN_UPDATE, as far as reserve can see it
PatchCampaign(k, qty, limit) ==
  /\ CampaignFree(k)
  /\ campaign[k].status /= ENDED
  /\ qty <= campaign[k].generated
  /\ campaign' = [campaign EXCEPT ![k].usable = qty, ![k].limit = limit]
  /\ maxLimit' = [maxLimit EXCEPT ![k] = IF limit > @ THEN limit ELSE @]
  /\ UNCHANGED <<codeStatus, usage, sess>>

\* Mutant: the status is not kept in the row that reserve locks
ChangeStatusUnlocked(k, to) ==
  /\ campaign[k].status \in {ACTIVE, PAUSED} /\ to \in {PAUSED, ACTIVE, ENDED}
  /\ campaign' = [campaign EXCEPT ![k].status = to]
  /\ UNCHANGED <<codeStatus, usage, maxLimit, sess>>

\* SP_CAMPAIGN_CHANGE_STATUS and SP_CAMPAIGN_EXPIRE, as far as reserve can see them
ChangeStatus(k, to) ==
  /\ CampaignFree(k)
  /\ <<campaign[k].status, to>> \in
        {<<ACTIVE, PAUSED>>, <<PAUSED, ACTIVE>>, <<ACTIVE, ENDED>>, <<PAUSED, ENDED>>}
  /\ campaign' = [campaign EXCEPT ![k].status = to]
  /\ UNCHANGED <<codeStatus, usage, maxLimit, sess>>

\* NOW() passes campaign_start or campaign_end, or an administrator moves them.
\* Time waits for no lock.
PassTime(k) ==
  /\ campaign' = [campaign EXCEPT ![k].inPeriod = ~@]
  /\ UNCHANGED <<codeStatus, usage, maxLimit, sess>>

Next ==
  \/ \E s \in Sessions :
       \/ \E op \in {"reserve", "confirm"}, c \in Codes, u \in Users : Call(s, op, c, u)
       \/ Step(s) \/ SqlError(s) \/ Return(s)
  \/ \E c \in Codes : IssueCode(c)
  \/ \E k \in Campaigns :
       \/ \E qty \in Qtys, limit \in Limits : PatchCampaign(k, qty, limit)
       \/ \E to \in CampaignStatus : ChangeStatus(k, to)
       \/ PassTime(k)

Spec == Init /\ [][Next]_vars
-----------------------------------------------------------------------------
ResultCodes == {OK, CODE_NOT_FOUND, USAGE_NOT_FOUND, CODE_CONSUMED,
                CAMPAIGN_CLOSED, USER_LIMIT, DATABASE_ERROR}

UsageRow == [id : Nat \ {0}, code : Codes, user : Users, confirmed : BOOLEAN]

CampaignRow == [status : CampaignStatus, inPeriod : BOOLEAN, generated : Nat,
                usable : Nat, used : Nat, limit : Nat \ {0}]

SessionState == [pc : InSql \cup {"idle", "reply"}, op : {"none", "reserve", "confirm"},
                 code : Codes, user : Users, limit : Nat, owned : BOOLEAN,
                 row : Nat, result : ResultCodes]

\* Every variable has the shape of the table or procedure state it stands for.
TypeOK ==
  /\ campaign \in [Campaigns -> CampaignRow]
  /\ codeStatus \in [Codes -> CodeStatus]
  /\ usage \subseteq UsageRow /\ IsFiniteSet(usage)
  /\ maxLimit \in [Campaigns -> Nat \ {0}]
  /\ sess \in [Sessions -> SessionState]

\* The counter used_qty, maintained by the conditional UPDATE of reserve, is
\* exactly the number of redemptions recorded: no interleaving of commits,
\* rollbacks and administrators' updates makes the two drift apart.
UsedMatchesLedger ==
  \A k \in Campaigns : campaign[k].used = Cardinality(RowsOf(k))

\* A RANDOM code is marked USED exactly when one redemption of it is recorded,
\* and never has two: the row lock taken by the conditional UPDATE holds off
\* every rival until the outcome is known (SP_COUPON_RESERVE, step 3).
RandomRedeemedOnce ==
  \A c \in Codes : IsRandom(c) =>
    Cardinality(RowsOfCode(c)) = IF codeStatus[c] = USED THEN 1 ELSE 0

\* What a transaction has verified under a lock stays true until it commits or
\* rolls back: a claimed code is still unused and claimed by nobody else, and
\* the campaign whose quota it took is still active with quota left, whatever
\* the administrators and the other sessions try meanwhile.
PremisesHold ==
  \A s \in Sessions :
    /\ \A c \in Codes : HoldsCode(s, c) =>
         /\ codeStatus[c] = UNUSED
         /\ \A t \in Sessions \ {s} : ~HoldsCode(t, c)
    /\ \A k \in Campaigns : HoldsCampaign(s, k) =>
         /\ campaign[k].status = ACTIVE
         /\ campaign[k].used < campaign[k].usable
         /\ \A t \in Sessions \ {s} : ~HoldsCampaign(t, k)

\* A campaign is never redeemed more often than it has generated codes (RANDOM)
\* or uses (FIXED), although usable_qty is raised and lowered meanwhile, even
\* below used_qty.
NoOversell ==
  \A k \in Campaigns : campaign[k].used <= campaign[k].generated

\* Nobody redeems in a campaign more often than the highest limit per user it
\* ever had, although the limit a call enforces was read before its
\* transaction began and calls of one user run concurrently.
UserCeiling ==
  \A k \in Campaigns, u \in Users : Cardinality(RowsOfUser(k, u)) <= maxLimit[k]

\* A game server told "already consumed" can believe it: the redemption that
\* consumed the code is committed, not one that may still roll back.
RejectionIsFinal ==
  \A s \in Sessions :
    sess[s].pc = "reply" /\ sess[s].result = CODE_CONSUMED
      => RowsOfCode(sess[s].code) /= {}

\* docs/08 1.2: while the limit is one, a retry sent after the original call
\* committed is answered with the original redemption, whatever happened to the
\* campaign meanwhile (paused, ended, out of its period, sold out).
RetrySucceeds ==
  \A s \in Sessions :
    LET t == sess[s]
    IN  t.pc = "reply" /\ t.owned /\ t.result /= DATABASE_ERROR
        /\ (t.op = "reserve" => t.limit = 1)
          => t.result = OK

\* A success names a committed redemption of this code by this user, and the
\* success of a confirm names a confirmed one.
SuccessIsRecorded ==
  \A s \in Sessions :
    sess[s].pc = "reply" /\ sess[s].result = OK =>
      \E r \in RowsFor(sess[s].code, sess[s].user) :
        r.id = sess[s].row /\ (sess[s].op = "confirm" => r.confirmed)

\* test_game_server/src/scenarios/concurrencyRace.ts:11 and docs/08 section 4:
\* of the game users who compete for a RANDOM code exactly one is told it
\* succeeded.
OneWinnerPerRandomCode ==
  LET Won(s) == sess[s].pc = "reply" /\ sess[s].op = "reserve" /\ sess[s].result = OK
  IN  \A s, t \in Sessions :
        Won(s) /\ Won(t) /\ sess[s].code = sess[t].code /\ IsRandom(sess[s].code)
          => sess[s].user = sess[t].user

\* The tables say the truth in every state, whatever interleaving, rollback or
\* change by an administrator led there (SP_COUPON_RESERVE).
TablesSound ==
  TypeOK /\ UsedMatchesLedger /\ RandomRedeemedOnce /\ NoOversell /\ UserCeiling

\* A game server can believe every answer, also to a retry and to a confirm
\* (docs/08 1.2, SP_COUPON_RESERVE, SP_COUPON_CONFIRM).
AnswersSound == RejectionIsFinal /\ RetrySucceeds /\ SuccessIsRecorded

\* Reserve, confirm and the administrators' updates together implement the
\* atomic ledger: usage is the ledger, and the counter, the code status and the
\* locks are how it is kept.
Ledger == INSTANCE CouponLedger WITH
  ledger <- usage,
  policy <- [k \in Campaigns |-> [status |-> campaign[k].status,
                                  usable |-> campaign[k].usable,
                                  ceiling |-> maxLimit[k]]],
  issued <- {c \in Codes : codeStatus[c] /= ABSENT}

ImplementsLedger == Ledger!LedgerSpec
=============================================================================
