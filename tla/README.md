# TLA+ models of the coupon platform

This directory holds the specifications kept beside `coupon_platform`: TLA+
modules translated from its stored procedures, services, console and test game
server, configurations that check them with TLC on small instances, and proofs
that TLAPS checks for instances of every size. Source paths below are relative
to the repository.

## 1. The system

A NestJS backend (`backend/src`) serves an admin console (`frontend/src`) and
game servers (S2S; `test_game_server/src` is one). Most rules live in MySQL
stored procedures (`database/procedures`) over InnoDB tables; the services call
one procedure per request, translate its `RESULT` and log. Several replicas of
the backend may run, each with node-cron batches and with background loops that
generate codes. They meet in the database and in Redis, so row locks,
conditional UPDATEs, unique keys and expiring keys are what makes the system
correct.

| Component | State | Operations | What is hard | What makes it correct |
|---|---|---|---|---|
| Redemption (`SP_COUPON_RESERVE`, `_CONFIRM`, `coupon-usage.service.ts`) | `coupon_code.status`, `coupon_campaign.used_qty`, `coupon_code_usage` | reserve, confirm | concurrent calls for one code or the last quantity, failures in the middle, lost answers and retries, rewards edited meanwhile | a code redeemed once, counter = ledger, no oversell, limit per user, final answers |
| Unconfirmed list (`SP_COUPON_UNCONFIRMED_LIST`) | reads `coupon_code_usage` | list, page, reconcile | confirms that are never sent, rows that move between pages | every redemption can be found and settled |
| Campaign lifecycle (`SP_CAMPAIGN_*`, `campaign.service.ts`) | `coupon_campaign.status`, `approval_status`, `edit_count`, content | create, edit, change status, approve, reject | administrators acting on old versions, the order of assignments in a SET, approval and activity as two axes | nothing unapproved live, no lost update, an ended campaign is frozen |
| Expiry batch (`SP_CAMPAIGN_EXPIRE`) | the same rows | expire | races with administrators | over campaigns end |
| Code generation (`SP_CAMPAIGN_CODE_*`, `campaign-code.service.ts`) | `generation_status`, `generated_qty`, `updated_at`, `coupon_code` rows, loops in memory | issue, retry, abort, background loop, FIXED issue | lost answers, crashes, zombies of aborted jobs | counter = codes, never too many, complete means all, never stuck |
| Stale monitor (`code-generation-stale-monitor`) | none | warn about stalled jobs | judging a job dead | stalled jobs can be aborted |
| Sessions (`auth`, `jwt-auth`, `session-cache`, `redis`) | `user`, `user_session`, cached sessions, a generation number per user | login, refresh, logout, passwords, suspension, validate | a cached session that was invalidated meanwhile | an invalidated session stops working |
| S2S authentication (`s2s-auth`, `SP_NONCE_INSERT`, `SP_PROJECT_API_SECRET_ROTATE`) | project row with two secrets, nonces in Redis and in the database | authenticate, rotate, edit, clean up | repeated calls, a store that fails, old and new secret | a call passes once, a replaced secret goes on working |
| Rate limiters (`coupon-usage/*limiter.ts`), identity cache (`project-identity-cache.service.ts`) | buckets in memory, counters and identities in Redis | consume, log a rejection | edges of windows, fractions, failing Redis | bounded rates, named rejections |
| Batch lock and pool (`sp-executor.service.ts`) | advisory locks, pooled connections | runExclusive, callProcedure | a batch holds one connection and asks for another; sessions that end | one replica at a time, nobody waits for ever |
| Companies, projects, users, roles | `company`, `project`, `user_role`, audit log | create, update, assign, revoke, read | simultaneous creation, stale tokens, audit rows of overlapping changes | created once, revocations bite, truthful audit |
| Admin console | stores and component state of one tab | login, boot, select, load, poll, edit, decide, list, export | overlapping requests answered in any order, forms older than what they are saved over | what is shown, saved and decided belongs together |
| Test game server | player history, scenario under way, its own pool | six scenarios, shutdown | bursts partly throttled or lost, signals | no false alarm, graceful stop |
| Log database | `log_*` | best-effort inserts | rows lost or late | what a row says is true |

The components interact through shared rows. `coupon_campaign` is written by
redemption (`used_qty`), by the lifecycle, by the expiry batch and by the
generation; redemption relies on the lifecycle's promise that an active
campaign is approved, and on the generation's promise that `generated_qty`
counts codes; the abort of a generation relies on `updated_at`, which all of
them refresh. The guards in front of the API rely on Redis, and each names a
fallback for when it fails. The console and the game servers act on answers
that are already old when they arrive; `edit_count`, request numbers and
effect cleanups are there to notice.

## 2. Modules

| Module | Models | Extended or used by |
|---|---|---|
| `CouponSchema`, `NoValue` | status columns and result codes; the program's null | most |
| `CouponLedger` | abstract: an atomic ledger of redemptions | `CouponUsage` (refinement) |
| `CouponUsage` | reserve and confirm, statement by statement | `UsageRecovery`, `CouponUsageProofs` |
| `UsageRecovery` | the reconciling game server, fairness and liveness | `MCCouponUsage` |
| `CampaignLifecycle` | status, approval, optimistic lock, expiry | `MCCampaignLifecycle`, `RewardAnswers`, `CampaignLifecycleProofs` |
| `RewardAnswers` | composition: redemptions of a code while its campaign lives and is edited | `MCRewardAnswers` |
| `CodeGeneration` | issuing the codes of one campaign | `MCCodeGeneration` (twice), `CodeGenerationProofs` |
| `S2sGate` | the guard of S2S calls, nonces, secrets, both cleanups | `MCS2sGate`, `S2sGateProofs` |
| `RateLimiters` | both middlewares, the identity cache, the logged row | `MCTraffic` |
| `BatchPool` | `runExclusive` and the pools of the replicas | `MCTraffic` |
| `UnconfirmedPages` | paging through the unconfirmed list | `MCTraffic` |
| `GameServer` | the test game server | `MCTraffic` |
| `AdminSession` | sessions and their cache | `MCAdministration` |
| `Organisation` | companies, projects, roles, audit | `MCAdministration` |
| `DetailForms` | detail screens of project, company, user | `MCAdministration` |
| `ConsoleSession` | session, token renewal and header of a browser tab | `MCConsole` |
| `CampaignScreen` | campaign detail screen | `MCConsole`, `MCCampaignScreen` |
| `ConsoleLists` | the list screens | `MCConsole` |
| `CodeExport` | the CSV export | `MCConsole` |
| `CouponUsageProofs`, `CampaignLifecycleProofs`, `CodeGenerationProofs`, `S2sGateProofs` | theorems about the module they are named for | - |
| `FixedIssueProofs` | the theorems of `CodeGenerationProofs` at the FIXED half of `MCCodeGeneration` | - |
| `AdministrationProofs`, `TrafficProofs`, `ConsoleProofs` | theorems about the modules of `MCAdministration`, `MCTraffic`, `MCConsole`, and of their composition | - |

`MCConsole`, `MCAdministration`, `MCTraffic` and `MCCodeGeneration` put modules
side by side that share no state: a behaviour explores one of them (`part`) and
leaves the others as they begin, so that the run visits the sum of the state
spaces and not their product. The modules of one such run have separate
variables; each has its own specification and can be checked alone.

### CouponUsage

`campaign`, `codeStatus` and `usage` are the committed rows of
`coupon_campaign`, `coupon_code` and `coupon_code_usage`; `sess[s]` is the
procedure a database session executes, with `pc` naming its next statement. A
transaction's writes stay in its session until `CountAndCommit`, which moves
them into the tables in one step; an `Answer` before that is the `ROLLBACK`.
Row locks are not stored, they follow from `pc`: after the conditional UPDATE of
the code has matched, the session `HoldsCode`; after that of the campaign, it
`HoldsCampaign`. A statement that would need a row held by another session is
not enabled. Plain SELECTs (the lookup, the idempotency check, all of confirm's
reads) read committed rows and take no lock.

| Action | Code |
|---|---|
| `Call`, `Return` | the S2S call arrives; its answer leaves, or is lost |
| `Lookup`, `FindExisting` | `SP_COUPON_RESERVE.sql` 70-99, before START TRANSACTION |
| `ClaimCode` | 101-118: claim a RANDOM code, or 33001 |
| `TakeQuota` | 120-131: `used_qty + 1` if the campaign is open, or 33002 |
| `InsertUsage`, `CountAndCommit` | 133-151: insert, count with FOR UPDATE, 33003 or COMMIT |
| `FindUsage`, `WriteConfirm` | `SP_COUPON_CONFIRM.sql` 51-69 |
| `SqlError` | both handlers for SQL errors (50001), at any statement |
| `IssueCode`, `PatchCampaign`, `ChangeStatus`, `PassTime` | what the other components and the clock do to the rows meanwhile |

`owned` and `maxLimit` are ghosts: whether the user already owned the code when
the call began, and the highest limit per user there ever was. `FoldOf` is the
collation: users whose ids differ only in case have the same fold.

One detail is abstracted: the `COUNT(*) ... FOR UPDATE` also locks the user's
index range. All sessions that count in a campaign hold its row lock already, so
this lock excludes nobody that the campaign's lock does not.

### CampaignLifecycle and RewardAnswers

`row` is the campaign, `admin[a]` what an administrator was last shown and the
call it has under way. Each procedure is one autocommitted conditional UPDATE
(`Update`, `ChangeStatus`, `Approve`, `Reject`, through `Apply` or `Refuse`)
followed by a separate SELECT: of the row that is answered and logged
(`ReadBack`) or of the reason for the refusal (`Diagnose`). Other calls fit in
between. `Updated` keeps the left-to-right evaluation of MySQL's SET. `over`
stands for `campaign_end <= NOW()`; an edit may move it either way. Contents are
model values. `vetted` is a ghost: an approver has written the content as it is,
or approved it while looking at it.

`RewardAnswers` adds the calls that redeem one code for one user. The reward is
part of the campaign's content; `FindCode` reads it in the first SELECT, as
`SP_COUPON_RESERVE` does, and `Redeem` answers it after the transaction.

### CodeGeneration

One campaign. `job[j]` is a background loop (RANDOM) or a FIXED issue in some
process: `start` (claimed), `loop`, `read` (the code is committed, its answer
outstanding), `fail`, `release`. `Generate` is the transaction of
`SP_CAMPAIGN_CODE_GENERATE_ONE`, `ReadBack` its closing SELECT, which other
transactions may precede. `RetryableError` and `FatalError` hit a call before or
after its commit. `quiet` is the age of `updated_at` in ticks, capped at the
threshold; `stalled` is a ghost, the time since the *generation* last wrote the
row. `Abort` needs `quiet = StaleAfter`, as the procedure does. `Crash` is the
end of the process, or of a call that nobody repeats.

`Punctual` says whether a live job may outlive the threshold. The threshold is
computed from the longest chain of retry delays
(`code-generation-stale-threshold.util.ts`), not from how long a statement may
wait, so `FALSE` is the faithful choice for RANDOM; the FIXED half of
`MCCodeGeneration` and the theorem `HandoverCorrect` state what holds under
`TRUE`.

### S2sGate

`signed[c]` is a call with the secret it was signed with and the age of its
timestamp (negative while the game server's clock is ahead); `Deliver` may hand
the same call to any guard at any time. `guard[p]` is one execution of
`S2sAuthGuard`: `LookupProject` copies the row, so what follows works on a copy;
`VerifySignature` tries both of its secrets; `RedisNonce` is SET NX EX,
`RedisFails` the fallback to `InsertNonce`. `redisNonce` and `dbNonce` are what
the two stores remember, as time to live and as age. `click[k]` is a request of
an administrator: shown a row (`Show`), then `Execute` with that `edit_count`.
`CleanSecret` and `CleanNonces` are the batches, with their thresholds. `served`
is a ghost, how often each store let a call pass. Time (`Tick`) passes only
between guards: a unit is long against a call.

### RateLimiters

One bucket and one user's window. `Arrive` is the project middleware (lazy
refill in parts of a token, refusal with Retry-After); `Count` and `Weigh` are
the two round trips of the user's middleware, between which other calls count;
`LetPass` is every way past it (no `game_user_id`, Redis disabled or failing).
`record` is the row being logged of a rejection, looked up through the identity
cache (`ReadCache`, `Lookup`, `WriteRow`), while `CreateProject` may run.
`byProject`, `byUser` and `told` are ghosts that remember what was let pass.

### BatchPool

`conn`, `queue` per replica, `lock` of MySQL's named locks, and a `task` per
cron run or API call. `Fire`, `Acquire` or `Refuse`, `EndQuery`, `Release` are
the statements of `runExclusive` with its `finally`; `Grant` is the pool.
`SessionEnds` is MySQL ending the session that owns the lock.

### UnconfirmedPages and GameServer

`entry[x]` is a redemption's row with the second of its INSERT; `CommitEntry`
may come later than that of a younger row. `ReadPage` is one call of the list,
by OFFSET; `scan` remembers what was listed when it began and what was confirmed
since. `GameServer` has one scenario under way in `work`, the API as one atomic
step per call that may answer 40001 or get lost, a second game server and
administrators (`foreign`), and the signal handler. Each scenario's guards and
verdicts are those of its file.

### AdminSession and Organisation

`row` is `user_session`, `token` the access tokens, `cache` and `counter` the
two kinds of keys in Redis. The guard is `ReadEntry`, `CompareGeneration`,
`Validate`; the cache's tasks that nobody awaits (`ReadGeneration`,
`WriteEntry`, `CheckGeneration`, `Evict`, `Bump`) are steps of their own, each
of which may fail (`Fail`). `off` is a ghost, for how long the database has
refused a token.

`Organisation` knows a row by the number of the change that wrote it. A call
goes through the role of the token (`Call`), the procedure's own check
(`Authorise`), the existence check (`Probe`), and then `Insert`, `Replace` (under
SELECT ... FOR UPDATE) or `ReadBefore` and `Compare` (a project); `ReadAfter` is
the closing SELECT and the audit row, which may be lost.

### The console

`ConsoleSession`: one tab. `calls` are requests under way with the token they
carry; `AwaitRefresh`, `SettleRefresh` and `GiveUp` are the interceptor of
`api/client.ts` with its shared promise, `Reload` loses the memory but not what
is persisted, `RoleArrived` is the continuation of `useProjectRoleSync`.
`CampaignScreen`: `requests` are loads and writes under way, with `latest` as
the page's `requestIdRef`; `form` holds what is typed and, as a ghost, what the
administrator has seen. `ConsoleLists`: all list screens are one machine with
two parameters (whether the effect cancels, and what resets the page).
`CodeExport`: OFFSET pages against a growing list. `DetailForms`: three screens
with the same life, of which only the project's saves carry `edit_count`.

## 3. Runs

| Run | Checks | Instance |
|---|---|---|
| `usage_random` | `TablesSound`, `PremisesHold`, `AnswersSound`, `OneWinnerPerRandomCode` | 2 sessions, 2 users, 2 codes; 0.8 million states |
| `usage_fixed` | `TablesSound`, `AnswersSound`, refinement of `CouponLedger` | 2 sessions, 2 users, one code good for 3 uses, limits 1 and 2; 1.8 million states |
| `usage_live` | `EveryCallAnswered`, `EveryRedemptionConfirmed` | 2 sessions, 1 user, 1 RANDOM code; 8,678 states |
| `lifecycle` | `LiveIsApproved`, `NothingOverwrittenUnseen`, `EndedIsFrozen`, `ExpiredCampaignsEnd` | 1 approver, 1 operator, 2 contents, 4 changes; 1.9 million states |
| `generation` | `CountSound`, `EndedGetsNoCodes`, `GenerationRecovers`; `FixedHandoverSound`, `FixedIssueRecovers` | 2 loops, 3 codes, 1 retry, unpunctual; 2 FIXED calls, punctual; 74,310 states |
| `gate` | `CallsSound`, `ReplacedSecretWorks`, `ChangedKnowingly` | 1 call delivered to 2 guards, 2 administrators' requests, 2 changes; 4.4 million states |
| `traffic` | `TrafficTypeOK`, `LimitersSound`, `BatchesSound`, `ScanIsComplete`, `StopsGracefully`, `NoFalseAlarm` | see below; 1.6 million states |
| `administration` | `AdministrationTypeOK`, `RefusalsReachTheGuard`, `BeforeIsReplaced`, `CreatedOnce`, `RevocationsBite`, `SavesAreInformed` | see below; 2.5 million states |
| `console` | `ConsoleTypeOK`, `SelectionSound`, `RowsAreSound`, `ExportIsComplete`, `StoredTokenIsNewest`, `LoadsNeverGoBack`, `DecidedAsShown` | see below; 4.8 million states |
| `usage_repeated`, `console_edit`, `reward_edited` | one statement of the repository each that the code does not meet (section 5) | |

Properties whose names end in `Sound` are conjunctions; the modules state each
conjunct with its own comment. What they come to:

* `TablesSound`: counter = ledger, a RANDOM code redeemed once, never more than
  the quantity, never more per user than the highest limit there was.
  `AnswersSound`: a refusal is final, a retry of a success succeeds, a success is
  recorded. `PremisesHold`: who is past a statement still has what it found.
* `LiveIsApproved`: an active campaign is approved, and its content was vetted.
* `CountSound`: counter = codes, and complete means all. `HandoverSound`: one
  call at a time, one FIXED code.
* `RefusalsReachTheGuard`: a token that the database refuses passes the guard
  for less than the cache's TTL; raising a user's generation turns every entry
  written before into a miss.
* `CallsSound` (with the types): each store of nonces lets a call pass once.
  `ReplacedSecretWorks`: no signature with the running secret, or with the
  previous one within the grace period, is refused.
* `LimitersSound`: both limiters bound the calls of *every* stretch of time, not
  only of their own windows; Retry-After is exact; a rejection names its project.
* `BatchesSound`: a batch runs once at a time, and no pool is held whole by runs
  that wait for a connection of it.
* `RevocationsBite`: a revoked SUPER_ADMIN changes nothing more, and is answered
  as one for less than an access token's life.
* `SelectionSound`, `RowsAreSound`: role, selection, rows and page on the screen
  belong together, in whatever order the answers came.

**Bounds.** `MaxEdits` bounds the changes administrators make: four suffice in
the lifecycle for approve, activate, edit by the operator and a further decision,
the longest sequence the approval rules distinguish; two suffice in the gate,
where the third of three secrets pushes the first out of its slot.
`MaxTouches` bounds how often redemptions and edits refresh the row during a
generation. `FixedQty`, `Qtys` and `Limits` are small enough to be reached:
quantity, limit and generated quantity are all exhausted in some state. Two
sessions suffice for every race of a pair; the rules compare a call with one
rival, and the theorems cover any number. Redemptions need no bound of their
own, as the quantity bounds them. Campaigns do not interact; the proofs take any
number.

The gate: `Tolerance` 1 and `Grace` 2, so that a timestamp is accepted before,
at and after its second, and a batch can come early or late; one call suffices,
as calls meet only in the row. Traffic: a bucket of 3 tokens of 2 parts, windows
of 3, histories of 2, 3 arrivals per unit, so that capacity, limit and the edge
of a window are all passed; two replicas with three connections each against two
batches, two runs of one of them and one call of the API, so that the pool of the
first is full; 3 redemptions of 2 users in 2 campaigns over 3 seconds, pages of
1, so that each page boundary falls between two rows; a burst of 2 against a
quantity of 4, three scenarios in a row. Administration: cache 2, counter 3 and
token 3 units, so that each outlives the one before it; one user with one session
and two tokens that replace each other; two calls on a company, a project and a
role; forms with two changes of others between their own. Console: three
renewals, two calls under way, two users of which one is assigned across
companies; two contents, three loads, two under way; three fetches of two
selections, filters and pages; five codes on pages of two.

**Symmetry** is used only in runs without liveness properties: sessions, guards,
clicks, arrivals, tokens, handlers, contents and calls, none of which any
definition or constant tells apart.

**Deadlock** is checked, except for `generation`, `console`, `console_edit`,
`administration`, `gate` and `traffic`. There the system may really stop: a
generation is complete, a browser tab is closed with its bounded requests spent,
a daemon has ended, or a bound on changes or time is used up.

**Fairness.** `usage_live`: a session whose statement is enabled again and again
executes it (InnoDB queues lock requests), an answered call returns, and the
reconciliation comes round to every listed redemption and is not hit by an SQL
error at the same statement for ever (`reconcile.ts` runs on a schedule and
lists what is unconfirmed each time). Nothing is assumed about the game server's
other calls or about administrators. `lifecycle`: only the cron batch is fair.
`generation`: a live loop takes its next step, time passes, and an administrator
aborts what the monitor reports; nobody has to retry. The other runs check
safety and assume no fairness.

## 4. Theorems

Proved with TLAPS for every value of the constants that the named assumptions
of the modules (`UsageAssumption`, `LifecycleAssumption`, `GenerationAssumption`,
...; one ASSUME per module) allow. TLC evaluates the assumptions in each run. No
proof uses anything else, but for `OneWinnerCorrect`, whose statement names its
own hypothesis.

| Module | Theorem | Says |
|---|---|---|
| `CouponUsageProofs` | `TypeCorrect` | `[]TypeOK` |
| | `TablesCorrect` | `[]TablesSound` |
| | `LocksCorrect` | `[]PremisesHold` |
| | `AnswersCorrect` | `[]AnswersSound` |
| | `LedgerImplemented` | `Spec => ImplementsLedger` |
| | `OneWinnerCorrect` | `[]OneWinnerPerRandomCode`, if no two user ids fold together |
| `CampaignLifecycleProofs` | `LifecycleCorrect` | the inductive invariant |
| | `ActiveCorrect` | `[]LiveIsApproved` |
| | `NoLostUpdate`, `EndedForGood` | `NothingOverwrittenUnseen`, `EndedIsFrozen` |
| `CodeGenerationProofs` | `CountCorrect` | `[]CountSound`, with the types |
| | `HandoverCorrect` | `Punctual => HandoverSound` |
| | `EndedCorrect` | `EndedGetsNoCodes` |
| `FixedIssueProofs` | `FixedHandoverCorrect` | `IssueSpec => []FixedHandoverSound` |
| `S2sGateProofs` | `CallsCorrect` | `[]CallsSound` |
| | `KeysCorrect` | `[]ReplacedSecretWorks` |
| | `ClicksCorrect` | `ChangedKnowingly` |
| `AdministrationProofs` | `SessionsTyped`, `SessionsCorrect` | `[]TypeOK` of the sessions, `[]RefusalsReachTheGuard` |
| | `OrganisationTyped`, `AuditCorrect` | `[]OrgTypeOK`, `[]BeforeIsReplaced` |
| | `CreationCorrect`, `RevocationCorrect` | `CreatedOnce`, `RevocationsBite` |
| | `DetailTyped`, `DetailSavesInformed` | `[]DetailTypeOK`, `SavesAreInformed` |
| | `AdministrationTyped` | `[]AdministrationTypeOK` of the composition |
| `TrafficProofs` | `PoolTyped`, `BatchesCorrect` | `[]PoolTypeOK`, `[]BatchesSound` |
| | `LimitsTyped`, `LimitersCorrect` | `[]LimitTypeOK`, `[]LimitersSound` |
| | `ReadingTyped`, `ScansCorrect` | `[]ReadingTypeOK`, `[]ScanIsComplete` |
| | `GameTyped`, `DaemonStopsGracefully`, `VerdictsAgree` | `[]GameTypeOK`, `[]StopsGracefully`, `[]NoFalseAlarm` |
| | `TrafficTyped` | `[]TrafficTypeOK` of the composition |
| `ConsoleProofs` | `TabTyped`, `SelectionIsSound`, `NewestIsStored` | `[]TypeOK`, `[]SelectionSound`, `StoredTokenIsNewest` of the session |
| | `ScreenTyped`, `ScreenLoadsInOrder`, `DecisionsAreInformed` | `[]ScreenTypeOK`, `LoadsNeverGoBack`, `DecidedAsShown` |
| | `ListsTyped`, `ListsCorrect` | `[]ListTypeOK`, `[]RowsAreSound` |
| | `ExportTypes`, `ExportCorrect` | `[]ExportTypeOK`, `[]ExportIsComplete` |
| | `ConsoleTyped` | `[]ConsoleTypeOK` of the composition |

**CouponUsage.** No single property is inductive: that the counter equals the
ledger needs that the counted row is new, that a code is redeemed once needs
that a session past `ClaimCode` still holds the only claim on an unused code.
The invariant joins the table properties with what each `pc` guarantees about
the session's locks, its answer, and the limit it read. The ids of usage rows
are `1..Cardinality(usage)`, which makes a new row new. Refinement then follows
step by step: `CountAndCommit` is `Redeem`, `WriteConfirm` is `Confirm` or a
stutter, administrators' actions are `Issue` and `Publish`, and all else
stutters.

**CampaignLifecycle.** The strengthening says that an administrator whose view
carries the current `edit_count` has seen the current status, approval and
content. Only a step that raises `edit_count` changes these, so `Apply`, which
compares the counters, changes only what was seen.

**CodeGeneration.** `TypeOK` carries the key fact, that no loop knows of more
codes than there are; a loop that calls COMPLETE has therefore seen them all,
whoever else generates. For the handover, `Owned` says that under a punctual
schedule a live job owns a running generation that is younger than the
threshold, so neither a claim nor an abort meets it. `FixedIssueProofs` takes
this over to the FIXED half of the composed run: it instantiates the proofs with
that half's constants and variables, and shows that both instances of
`CodeGeneration` take the same steps.

**S2sGate.** That a call passes once per store says nothing about the stores, so
it is not inductive. The invariant `IInv` adds why they remember long enough: a
nonce in the database is never older than its call's timestamp, so the batch,
which deletes by the same tolerance, comes only after the timestamp is refused;
in Redis, time to live and age of the timestamp together reach the tolerance;
and a guard is only ever at a call that is still accepted, as time passes only
between guards. `GraceSound`, for the row and for every copy a guard has read,
says that a row whose previous secret is gone was rotated long enough ago;
`KeysSound` lifts it to the guards, and `KeysCorrect` follows. For
`ClicksCorrect`, `SeenSound` says that a request whose `edit_count` is the
current one was shown the current secret and status.

**AdminSession.** What passes the guard now was decided earlier, so the property
is not inductive. `AgeSound` adds how long the database has refused a token to
how long its cache entry will last: the sum never exceeds the TTL, as both move
together, and an entry is only written while its token has not been refused
(`TaskSound`). A guard that has read an entry therefore holds a token refused for
less than the TTL (`CallSound`). `GenerationSound` orders the generations: an
entry is not ahead of its user's counter until that expires, so raising the
counter leaves every entry behind. Both rest on the unit of time being long
against a call; a call that outlived a unit would extend the TTL by its length.
The types need `BoundsSound`: a user has at most one task that raises the
counter, and it finds room below `MaxGeneration`.

**Organisation.** The project's `before_json` is read without a lock, so the
invariant `LogInv` says what the `edit_count` gives instead: a call about to
compare has either read the row as it still is, or the row has moved beyond the
stamp the caller was shown, and the comparison fails. Stamps are never reused,
which `TablesTyped` carries: the counter of changes bounds all of them. For
revocations, `PowerSound` says that a call a procedure has let through is not
older than the revocation; `LagSound` adds the age of the revocation to what is
left of the token that ignores it, and bounds the sum by the token's lifetime.
`StampsSound` adds, for the types, that an answer is read no earlier than the
change it answers: the audit row never shows an `after_json` that is older.

**BatchPool.** `RunSound`: a run past `SP_LOCK_ACQUIRE` keeps its connection,
which owns the lock while its session lives, so two live runs of one batch are
one. `HoldSound`: a run that waits for its second connection holds exactly that
one. `PoolNeverWedged` follows by the pigeonhole principle
(`FS_PigeonHole`): were all connections of a pool held by waiting runs, two of
them would run the same batch, as `PoolAssumption` gives a pool more connections
than there are batches. `QueueSound` keeps a run from waiting twice.

**RateLimiters.** That every stretch of time is bounded is not inductive: it
needs to know what is left. `BucketInv` says that the calls of the last `d`
units, together with the tokens that are in the bucket now, are paid for by a
full bucket and `d` units of refill (`Paid`); `Promised` keeps the answer in
Retry-After true while time passes. For the user's window, the two round trips
matter: `CountsSound` gives each call that still weighs a count of its own,
`Passable` are the counts that nobody weighs any more, and `PassesCounted` says
that those who passed in this window are not more than these, and those of the
previous one not more than its key counted, nor than the limit. `KeysLive` says
that no key expires before it is read for the last time. The types ask how many
calls either log may hold: `HistoryInv` bounds it by the calls that arrived, and
leaves room in the user's log for those between their two round trips.

**UnconfirmedPages.** A row that is still to be seen is `Ahead`: at least as many
listed rows are older than it as the pages read so far had room for.
`NoneSkipped` says that every row listed all along has been seen, is ahead, or is
excused. A confirmation takes a row off the list, and whoever loses a
predecessor by it `MovedForward`. That a page of a list in any order that agrees
with `created_at` contains whoever is at its place needs the sequences of the
list as bijections, not an induction over them.

**GameServer.** `World` is what the scenarios rely on: users of the next burst
are nobody's yet, and a remembered reserve is the one a retry repeats, as long
as only the daemon has acted since. `WorkSound` is what each scenario knows
between its calls *while it is calm*, that is, while `foreign` has not moved since
it read its candidates; for a burst (`RaceSound`), the counts of rows and of
successes that the answered calls must have led to. A verdict that deviates then
contradicts one of them. For the types, `MemoryTyped` adds that the remembered
reserves are in order, and `WorkNamed` that whoever is about to redeem is a player.

**The console.** `TabSessionInv`: at most one renewal is live, its token is the
newest of its session unless a reload has orphaned another, and a role that is
still to arrive belongs to the selection. `ScreenInv`: loads are numbered, an answer holds a row there has been
(`Heard`), and with the current `edit_count` the current content (`Told`), so the
one UPDATE that compares it decides on what was shown. `ListInv`: live fetches
ask for what is on display, and (`Awaited`) a list that shows itself loading has
one under way. `ExportInv`: every page so far was full, so the file of an export
without a filter is the first `n` codes, in order. With a filter, `ExportTyped`
says only that the file has room for as many full pages: ids take the places of
the list without a gap, so the list is no longer than the codes are many
(`ListedTyped`, by `FS_Injection`), and a page beyond its end is not full, which
ends the loop. `DetailInv` ties the `edit_count` of a save to what the form has
met.

**The compositions.** The modules of a composed run share no variable, so each of
its steps is a step of one module and leaves the others as they are
(`PartsApart`, `TrafficApart`, `ConsoleApart`). Its specification implies
those of the modules, and its type invariant is the conjunction of theirs.

**Only model-checked.** The five properties under fairness (`EveryCallAnswered`,
`EveryRedemptionConfirmed`, `ExpiredCampaignsEnd`, `GenerationRecovers`,
`FixedIssueRecovers`), since TLAPS proves neither liveness nor ENABLED. Every
invariant and action property of the passing runs is a theorem. No proof needs
induction over data or a RECURSIVE operator; `SelectSeq`, which is one in the
library, is avoided in `CodeExport`, where the n-th listed code is the one with n
codes up to it.

## 5. Where code and documents disagree

Shown by a run:

| Run | Statement | What the code does |
|---|---|---|
| `usage_repeated` | an unconfirmed redemption can be detected and handled (`docs/08_COUPON_USAGE_SCENARIO.md` 1.1) | with `use_limit_per_user` > 1, `SP_COUPON_CONFIRM` (LIMIT 1, no condition on `confirmed_at`) finds a user's first redemption of the code again; the second stays unconfirmed for ever |
| `console_edit` | a save on the basis of an older `edit_count` is refused (`docs/19_CAMPAIGN_API.md:264`) | `CampaignInfoTab.tsx:111` takes `edit_count` at submit from the campaign that a poll, or the reload after 30005, has refreshed behind the form: another administrator's change is overwritten unseen |
| `reward_edited` | a retry repeats the first answer, reward included (`docs/20_COUPON_USAGE_API.md:81`) | a redemption keeps no copy of its reward; the retry names the campaign's reward of that moment |

Stated in a module, refuted by TLC, and to be reproduced by adding the property
to a configuration:

| Property | Configuration | What the code does |
|---|---|---|
| `OneWinnerPerRandomCode` | `MCUsageRandom.cfg`, with `FoldOf <- Alike` | `game_user_id` has a case-insensitive collation: `Kim` and `kim` are one user to the idempotency check, and both succeed (`concurrencyRace.ts:10` says exactly one does) |
| `RejectedResubmits` | `MCLifecycle.cfg` | only an OPERATOR's edit submits a rejected campaign again (`docs/19_CAMPAIGN_API.md:458`: any edit) |
| `LogShowsAction` | `MCLifecycle.cfg` | the logged snapshot is read after the UPDATE committed, and may show a later change (`docs/17_SCREEN_LIST.md:265`) |
| `AbortedJobStops` | `MCGeneration.cfg` | once the generation is retried, `generation_status` is 2 again and the aborted loop goes on beside the new one (`SP_CAMPAIGN_CODE_GENERATE_ONE.sql:30`). The quantity is still right (`CountCorrect`) |
| `StalledIsAbortable` | `MCGeneration.cfg` | redemptions and edits refresh `updated_at` too, so a dead generation is refused as alive (`SP_CAMPAIGN_CODE_ABORT.sql:98`) |
| `RewardWasVetted` | `MCRewardEdited.cfg`, with `MaxEdits = 3` | reserve reads the reward before it checks the status, and retries read it again: a game server may be told a reward that no approver let pass (`docs/19_CAMPAIGN_API.md:305`) |
| `ExhaustedIsRecognised` | `MCTraffic.cfg` | the target of the scenario may be in a campaign that is paused or over; reserve answers 33002 first, and a mismatch is logged (`docs/21_TEST_GAME_SERVER.md:211`) |

Further observations, which the properties name as exceptions:

* The generation counter of a user's cached sessions expires itself. An entry
  written under a number that is used again after the expiry hits although it
  was invalidated (`session-cache.service.ts:66`). `InvalidatedMisses` excludes
  such lapsed entries, TLC shows that it has to, and `RefusedWithinTtl` bounds
  what remains.
* `DB_CONNECTION_LIMIT` may be set to 1 (`env.validation.ts:24`), below what one
  batch needs; `PoolAssumption` asks for more connections than batches. Without
  it, batches that hold the whole pool wait for each other for ever.
* A scan of all unconfirmed redemptions can miss a row when an older one is
  confirmed while it pages, or when two rows share a second
  (`SP_COUPON_UNCONFIRMED_LIST.sql:67`, ORDER BY `created_at` alone). The next
  scan finds it, unless the same happens again.
* A batch whose MySQL session ended while its procedure ran has lost its lock
  without noticing; a second replica may run the batch at the same time. The
  procedures are safe to repeat, and `RunsExclusively` excludes such runs.
* The codes tab and a filtered export show rows of an older query, or skip a
  code that is redeemed between two pages.

## 6. Not modelled

* Sign-up and the creation forms of the console, the role table of a user, and
  everything that is only displayed. The procedures behind them are in
  `Organisation` and `AdminSession`.
* The columns and filters of read-only queries; only their order and paging are
  modelled, where a screen or a game server depends on them.
* Who may see which project or company: the models fix the administrators and
  what they are assigned to. Roles matter where they change while they are used
  (`Organisation`, `ConsoleSession`).
* Content of answers and logs, personal data, passwords and signatures. A
  signature is correct exactly for the secret it was made with.
* The request pipeline (formatting, timeouts, static checks); a call that timed
  out is a lost answer. The per-IP limit of the login is a library's.
* Statistics, seed data, privacy scan and other scripts.

Hazards that were considered and left out of `PROJECT.json`: last write wins on
the company and user forms, which carry no `edit_count` by design; the answer to
a rotation, or to the creation of a campaign, that is lost; lists ordered by
columns that are not unique; answers slower than the 3 s poll; generation loops
without a limit on their number; a cached identity of an api key nobody has yet.

## 7. Plan

Done: redemption, lifecycle, generation, sessions, S2S authentication,
organisation, pool, limiters, paging, console and test game server, all with
proofs of their safety properties; the composition of lifecycle and redemption
for rewards.

Next, in order of importance:

1. The composition of lifecycle, usage and generation over one campaign row, in
   which `PatchCampaign`, `ChangeStatus` and `IssueCode` of `CouponUsage` become
   the actions of the other two modules.
2. The creation forms and the role table of the console.
