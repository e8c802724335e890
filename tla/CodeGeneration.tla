--------------------------- MODULE CodeGeneration ---------------------------
(***************************************************************************)
(* Issuing the codes of one campaign.  SP_CAMPAIGN_CODE_ISSUE claims the   *)
(* generation.  The one code of a FIXED campaign is inserted by the same   *)
(* procedure; the codes of a RANDOM campaign by a loop that a server       *)
(* process runs in the background (generateRandomCodes), one transaction   *)
(* of SP_CAMPAIGN_CODE_GENERATE_ONE per code.  A process may die, a call   *)
(* may fail before or after it committed, and a generation that seems dead *)
(* is aborted by an administrator and, if RANDOM, retried.                 *)
(*                                                                         *)
(* Every transaction begins with a conditional UPDATE of the campaign row  *)
(* and keeps its lock, so each is one step.                                *)
(***************************************************************************)
EXTENDS CouponSchema, Integers, FiniteSets

CONSTANTS
  Jobs,         \* bound: places for loops (RANDOM) and calls (FIXED) at a time
  Type,         \* coupon_campaign.code_type
  Requested,    \* coupon_campaign.requested_qty
  MaxRetries,   \* CODE_GENERATION_MAX_DB_RETRIES
  StaleAfter,   \* the staleness threshold, in clock ticks
  Punctual,     \* no live job ever takes longer than the threshold
  MaxTouches    \* bound: how often others update the row of the campaign

ASSUME GenerationAssumption ==
  /\ Jobs /= {} /\ Type \in CodeTypes
  /\ Requested \in Nat \ {0} /\ MaxRetries \in Nat /\ StaleAfter \in Nat \ {0}
  /\ Punctual \in BOOLEAN /\ MaxTouches \in Nat

VARIABLES
  row,          \* coupon_campaign: status, generation_status, generated_qty
  codes,        \* how many coupon_code rows the campaign has
  quiet,        \* ticks since updated_at, at most StaleAfter
  stalled,      \* ghost: ticks since the generation last wrote the row
  touches,
  job           \* what each loop or call is doing

vars == <<row, codes, quiet, stalled, touches, job>>
-----------------------------------------------------------------------------
NoJob == [pc |-> "none", known |-> 0, retries |-> 0, aborted |-> FALSE]

Init ==
  /\ row = [status |-> ACTIVE, generation |-> GEN_WAITING, generated |-> 0]
  /\ codes = 0 /\ quiet = 0 /\ stalled = 0 /\ touches = 0
  /\ job = [j \in Jobs |-> NoJob]

Alive(j) == job[j].pc /= "none"

\* Mutant: the WHERE clauses do not look at status
RunningOnly == row.generation = GEN_RUNNING

Running == row.generation = GEN_RUNNING /\ row.status /= ENDED

Goto(j, fields) == job' = [job EXCEPT ![j] = fields]

\* The generation writes the row; updated_at changes with it
WriteRow(new) == row' = new /\ quiet' = 0 /\ stalled' = 0 /\ UNCHANGED touches

KeepRow == UNCHANGED <<row, codes, quiet, stalled, touches>>
-----------------------------------------------------------------------------
\* SP_CAMPAIGN_CODE_ISSUE claims the generation, SP_CAMPAIGN_CODE_RETRY claims
\* a failed one; the job starts in the process that called
Claim(j, from) ==
  /\ ~Alive(j)
  /\ row.generation = from /\ row.status /= ENDED
  /\ WriteRow([row EXCEPT !.generation = GEN_RUNNING])
  /\ Goto(j, [NoJob EXCEPT !.pc = "start"])
  /\ UNCHANGED codes

Issue(j) == Claim(j, GEN_WAITING)
Retry(j) == Claim(j, GEN_FAILED)

\* The procedure reads back the row it claimed, and the loop begins
Begin(j) ==
  /\ Type = RANDOM /\ job[j].pc = "start"
  /\ Goto(j, [job[j] EXCEPT !.pc = "loop", !.known = row.generated])
  /\ KeepRow

\* Mutant: the code is inserted before the slot is taken
GenerateInsertFirst(j) ==
  /\ job[j].pc = "loop" /\ job[j].known < Requested /\ Running
  /\ Goto(j, [job[j] EXCEPT !.pc = "read"])
  /\ WriteRow([row EXCEPT !.generated = IF @ < Requested THEN @ + 1 ELSE @])
  /\ codes' = codes + 1

\* SP_CAMPAIGN_CODE_GENERATE_ONE takes a slot and inserts a code, or finds that
\* there is nothing (more) to do.  A duplicate value (32001) rolls both back and
\* the loop draws another: nothing changes.
Generate(j) ==
  /\ job[j].pc = "loop" /\ job[j].known < Requested
  /\ Goto(j, [job[j] EXCEPT !.pc = "read"])
  /\ \/ /\ Running /\ row.generated < Requested
        /\ WriteRow([row EXCEPT !.generated = @ + 1])
        /\ codes' = codes + 1
     \/ /\ ~(Running /\ row.generated < Requested)
        /\ KeepRow

\* Its closing SELECT, which others may have preceded.  A loop whose generation
\* is no longer running ends without a word.
ReadBack(j) ==
  /\ job[j].pc = "read"
  /\ Goto(j, IF Running THEN [job[j] EXCEPT !.pc = "loop", !.known = row.generated,
                                            !.retries = 0]
                        ELSE NoJob)
  /\ KeepRow

\* The call fails before or after its commit: a deadlock, a lock timeout or a
\* broken connection is retried after a delay while retries are left
RetryableError(j) ==
  /\ (job[j].pc = "loop" /\ job[j].known < Requested) \/ job[j].pc = "read"
  /\ Goto(j, IF job[j].retries < MaxRetries
               THEN [job[j] EXCEPT !.pc = "loop", !.retries = @ + 1]
               ELSE [job[j] EXCEPT !.pc = "fail"])
  /\ KeepRow

FatalError(j) ==
  /\ (job[j].pc = "loop" /\ job[j].known < Requested) \/ job[j].pc = "read"
  /\ Goto(j, [job[j] EXCEPT !.pc = "fail"])
  /\ KeepRow

\* SP_CAMPAIGN_CODE_GENERATION_COMPLETE and _FAIL; both look at
\* generation_status only, and the loop ends even if the call fails
Finish(j, outcome) ==
  /\ Goto(j, NoJob)
  /\ UNCHANGED codes
  /\ IF row.generation = GEN_RUNNING
       THEN WriteRow([row EXCEPT !.generation = outcome])
       ELSE UNCHANGED <<row, quiet, stalled, touches>>

Complete(j) == job[j].pc = "loop" /\ job[j].known >= Requested /\ Finish(j, GEN_DONE)

Fail(j)     == job[j].pc = "fail" /\ Finish(j, GEN_FAILED)
-----------------------------------------------------------------------------

\* FIXED: one transaction completes the generation and inserts the code, unless
\* the campaign has ended; it does not look at generation_status again
InsertFixed(j) ==
  /\ Type = FIXED /\ job[j].pc = "start"
  /\ \/ /\ row.status /= ENDED
        /\ WriteRow([row EXCEPT !.generated = Requested, !.generation = GEN_DONE])
        /\ codes' = codes + 1
        /\ Goto(j, NoJob)
     \/ /\ row.status = ENDED
        /\ Goto(j, NoJob)
        /\ KeepRow

\* The administrator's code_value is taken: the transaction is rolled back ...
RejectFixed(j) ==
  /\ Type = FIXED /\ job[j].pc = "start" /\ row.status /= ENDED
  /\ Goto(j, [job[j] EXCEPT !.pc = "release"])
  /\ KeepRow

\* ... and the claim given up, whatever has become of it
Release(j) ==
  /\ job[j].pc = "release"
  /\ WriteRow([row EXCEPT !.generation = GEN_WAITING])
  /\ Goto(j, NoJob)
  /\ UNCHANGED codes
-----------------------------------------------------------------------------
\* The process dies, or the call of a job fails for good: its answer to the
\* claim, the report of its outcome, or any statement of a FIXED issue
Crash(j) ==
  /\ Alive(j)
  /\ Goto(j, NoJob)
  /\ KeepRow

\* Mutant: the administrator is believed that the generation is dead
AbortAnyTime ==
  /\ Running
  /\ WriteRow([row EXCEPT !.generation = IF Type = RANDOM THEN GEN_FAILED ELSE GEN_WAITING])
  /\ UNCHANGED <<codes, job>>

\* Mutant: only what has begun can be aborted
AbortBegun ==
  /\ Running /\ quiet = StaleAfter /\ row.generated > 0
  /\ WriteRow([row EXCEPT !.generation = GEN_FAILED])
  /\ UNCHANGED <<codes, job>>

\* SP_CAMPAIGN_CODE_ABORT, for a generation that seems dead.  aborted is a
\* ghost: the jobs this abort was meant for.
Abort ==
  /\ Running /\ quiet = StaleAfter
  /\ WriteRow([row EXCEPT !.generation = IF Type = RANDOM THEN GEN_FAILED ELSE GEN_WAITING])
  /\ job' = [j \in Jobs |-> IF Alive(j) THEN [job[j] EXCEPT !.aborted = TRUE] ELSE job[j]]
  /\ UNCHANGED codes

\* An administrator ends the campaign, or the expiry batch does
End ==
  /\ row.status /= ENDED
  /\ row' = [row EXCEPT !.status = ENDED]
  /\ quiet' = 0
  /\ UNCHANGED <<codes, stalled, touches, job>>

\* Another UPDATE of the row: a redemption counts used_qty, an administrator
\* edits the campaign.  updated_at is ON UPDATE CURRENT_TIMESTAMP.
Touch ==
  /\ row.status /= ENDED /\ touches < MaxTouches
  /\ touches' = touches + 1 /\ quiet' = 0
  /\ UNCHANGED <<row, codes, stalled, job>>

Upto(n) == IF n < StaleAfter THEN n + 1 ELSE n

\* Time passes
Tick ==
  /\ Running /\ quiet < StaleAfter
  /\ Punctual => stalled + 1 < StaleAfter \/ \A j \in Jobs : ~Alive(j)
  /\ quiet' = Upto(quiet) /\ stalled' = Upto(stalled)
  /\ UNCHANGED <<row, codes, touches, job>>

JobStep(j) ==
  \/ Begin(j) \/ Generate(j) \/ ReadBack(j) \/ RetryableError(j) \/ FatalError(j)
  \/ Complete(j) \/ Fail(j) \/ InsertFixed(j) \/ RejectFixed(j) \/ Release(j)

Next ==
  \/ \E j \in Jobs : Issue(j) \/ Retry(j) \/ JobStep(j) \/ Crash(j)
  \/ Abort \/ End \/ Touch \/ Tick

Spec == Init /\ [][Next]_vars

\* A live job goes on, time passes, and an administrator aborts what the
\* monitor reports as stalled (StaleCodeGenerationMonitorService)
FairSpec == /\ Spec
            /\ \A j \in Jobs : WF_vars(JobStep(j))
            /\ WF_vars(Tick) /\ WF_vars(Abort)
-----------------------------------------------------------------------------
JobState == [pc : {"none", "start", "loop", "read", "fail", "release"},
             known : 0..Requested, retries : 0..MaxRetries, aborted : BOOLEAN]

\* Every variable has its shape, and no loop knows of more codes than there are.
TypeOK ==
  /\ row \in [status : {ACTIVE, ENDED}, generation : GenerationStatus, generated : 0..Requested]
  /\ codes \in Nat
  /\ quiet \in 0..StaleAfter /\ stalled \in 0..StaleAfter /\ quiet <= stalled
  /\ touches \in 0..MaxTouches
  /\ job \in [Jobs -> JobState]
  /\ \A j \in Jobs : job[j].known <= row.generated

\* RANDOM: generated_qty counts the codes that exist, and never passes the quantity the
\* administrator asked for: also with a zombie loop beside the retried one, with
\* lost acknowledgements that make a loop repeat a call, and after crashes
\* (SP_CAMPAIGN_CODE_GENERATE_ONE, reserving the slot before the insert).
GeneratedMatchesCodes == Type = RANDOM => codes = row.generated

\* A generation reported as complete is complete: whoever called COMPLETE, and
\* whatever other loops, aborts and retries went on meanwhile.
CompleteMeansAll == row.generation = GEN_DONE => row.generated = Requested

\* The quantities of the row can be believed at any moment
\* (SP_CAMPAIGN_CODE_GENERATE_ONE, SP_CAMPAIGN_CODE_COMPLETE).
CountSound == TypeOK /\ GeneratedMatchesCodes /\ CompleteMeansAll

\* While live jobs keep within the threshold, a campaign has at most one: the
\* claim, the abort and the retry hand the generation over without overlap.
OneJobAtATime ==
  \A i, j \in Jobs : Alive(i) /\ Alive(j) => i = j

\* coupon_campaign.sql:16: a FIXED campaign gets a single code, however often
\* its issue fails, is aborted and is repeated.
OneFixedCode == Type = FIXED => codes <= 1

\* However a generation changes hands, by claim, failure, abort and retry, it
\* is in one hand (SP_CAMPAIGN_CODE_ISSUE, _ABORT).
HandoverSound == OneJobAtATime /\ OneFixedCode

\* An ended campaign gets no more codes (SP_CAMPAIGN_CODE_GENERATE_ONE, fix 3).
EndedGetsNoCodes == [][row.status = ENDED => codes' = codes]_vars

\* docs/07 2.4: no crash, lost answer or exhausted retry leaves a generation
\* running for ever: it completes, fails, or can be aborted, or the campaign ends.
GenerationRecovers == Running ~> ~Running

\* SP_CAMPAIGN_CODE_GENERATE_ONE.sql:26-31: a loop that was aborted although it
\* was alive creates no more codes.
AbortedJobStops ==
  [][\A j \in Jobs : job[j].aborted /\ job'[j] /= job[j] => codes' = codes]_vars

\* SP_CAMPAIGN_CODE_ABORT.sql:97-101: an abort is refused as too early only if
\* the generation has made progress within the threshold.
StalledIsAbortable == Running /\ stalled = StaleAfter => quiet = StaleAfter
=============================================================================
