------------------------ MODULE CodeGenerationProofs ------------------------
(***************************************************************************)
(* For every number of jobs, quantity, retry budget and threshold: the     *)
(* counter counts the codes and never passes the quantity, a complete      *)
(* generation has them all, and an ended campaign gets no more.  While     *)
(* live jobs keep within the threshold, at most one is alive and a FIXED   *)
(* campaign has at most one code.                                          *)
(***************************************************************************)
EXTENDS CodeGeneration, TLAPS

\* Under a punctual schedule a live job owns the running generation
Owned ==
  Punctual => /\ \A j \in Jobs : Alive(j) => row.generation = GEN_RUNNING
              /\ (\E j \in Jobs : Alive(j)) => stalled < StaleAfter
              /\ OneJobAtATime

\* A FIXED campaign has its code once the generation is complete, not before
FixedSound ==
  Type = FIXED =>
    /\ \A j \in Jobs : job[j].pc \in {"none", "start", "release"}
    /\ Punctual => codes <= 1 /\ (row.generation /= GEN_DONE => codes = 0)

IInv == TypeOK /\ GeneratedMatchesCodes /\ CompleteMeansAll

HandoverInv == IInv /\ Owned /\ FixedSound

USE GenerationAssumption

Statuses == {ACTIVE, ENDED}
RowType  == [status : Statuses, generation : GenerationStatus, generated : 0..Requested]
-----------------------------------------------------------------------------
LEMMA StatusesDiffer ==
  /\ ACTIVE # ENDED
  /\ GEN_WAITING # GEN_RUNNING /\ GEN_DONE # GEN_RUNNING /\ GEN_FAILED # GEN_RUNNING
  /\ GEN_DONE # GEN_WAITING /\ GEN_DONE # GEN_FAILED
  /\ {GEN_WAITING, GEN_RUNNING, GEN_DONE, GEN_FAILED} \subseteq GenerationStatus
  /\ RANDOM # FIXED
BY DEF ACTIVE, ENDED, GEN_WAITING, GEN_RUNNING, GEN_DONE, GEN_FAILED, GenerationStatus,
   RANDOM, FIXED

LEMMA BoundsInRange == 0 \in 0..MaxRetries /\ Requested \in 0..Requested /\ 0 \in 0..Requested
OBVIOUS

LEMMA RowTyped == TypeOK => row \in RowType
BY DEF TypeOK, RowType, Statuses

LEMMA NoJobTyped == NoJob \in JobState /\ NoJob.pc = "none" /\ NoJob.known = 0
BY DEF NoJob, JobState

LEMMA InitCorrect == Init => HandoverInv
<1> SUFFICES ASSUME Init PROVE HandoverInv
  OBVIOUS
<1>1. \A j \in Jobs : job[j] = NoJob
  BY DEF Init
<1>2. TypeOK
  BY <1>1, NoJobTyped, StatusesDiffer DEF Init, TypeOK
<1>3. GeneratedMatchesCodes /\ CompleteMeansAll
  BY StatusesDiffer DEF Init, GeneratedMatchesCodes, CompleteMeansAll
<1>4. Owned /\ FixedSound
  BY <1>1, NoJobTyped DEF Init, Owned, FixedSound, Alive, OneJobAtATime
<1> QED
  BY <1>2, <1>3, <1>4 DEF HandoverInv, IInv
-----------------------------------------------------------------------------
\* A step of one job that leaves the row alone
LEMMA KeepCorrect ==
  ASSUME HandoverInv, NEW j \in Jobs, NEW fields \in JobState, Goto(j, fields), KeepRow,
         fields.known <= row.generated, Alive(j),
         Type = FIXED => fields.pc \in {"none", "start", "release"}
  PROVE  HandoverInv'
<1>1. /\ job' \in [Jobs -> JobState] /\ job'[j] = fields
      /\ \A i \in Jobs \ {j} : job'[i] = job[i]
  BY DEF Goto, HandoverInv, IInv, TypeOK
<1>2. IInv'
  BY <1>1 DEF KeepRow, HandoverInv, IInv, TypeOK, GeneratedMatchesCodes, CompleteMeansAll
<1>3. \A i \in Jobs : Alive(i)' => Alive(i)
  BY <1>1 DEF Alive
<1>4. Owned'
  BY <1>3 DEF KeepRow, HandoverInv, Owned, OneJobAtATime
<1>5. FixedSound'
  BY <1>1 DEF KeepRow, HandoverInv, FixedSound
<1> QED
  BY <1>2, <1>4, <1>5 DEF HandoverInv

\* A step that ends a job and writes the row
LEMMA EndJobCorrect ==
  ASSUME HandoverInv, NEW j \in Jobs, Goto(j, NoJob), Alive(j), NEW new \in RowType,
         WriteRow(new), row.generated <= new.generated, codes' \in Nat,
         Type = RANDOM => codes' = new.generated,
         new.generation = GEN_DONE => new.generated = Requested,
         Type = FIXED /\ Punctual
           => codes' <= 1 /\ (new.generation /= GEN_DONE => codes' = 0)
  PROVE  HandoverInv'
<1>1. /\ job' \in [Jobs -> JobState] /\ job'[j] = NoJob
      /\ \A i \in Jobs \ {j} : job'[i] = job[i]
  BY NoJobTyped DEF Goto, HandoverInv, IInv, TypeOK
<1>2. row' \in RowType /\ row' = new
  BY DEF WriteRow
<1>3. \A i \in Jobs : job'[i].known <= row'.generated
  <2> SUFFICES ASSUME NEW i \in Jobs PROVE job'[i].known <= row'.generated
    OBVIOUS
  <2>1. CASE i = j
    BY <1>1, <1>2, <2>1, NoJobTyped DEF RowType
  <2>2. CASE i # j
    <3>1. job[i].known \in Int /\ row.generated \in Int /\ job[i].known <= row.generated
      BY DEF HandoverInv, IInv, TypeOK, JobState
    <3>2. new.generated \in Int
      BY DEF RowType
    <3> QED
      BY <1>1, <1>2, <2>2, <3>1, <3>2
  <2> QED
    BY <2>1, <2>2
<1>4. TypeOK'
  BY <1>1, <1>2, <1>3 DEF TypeOK, WriteRow, RowType, Statuses, HandoverInv, IInv
<1>5. GeneratedMatchesCodes' /\ CompleteMeansAll'
  BY <1>2 DEF GeneratedMatchesCodes, CompleteMeansAll
<1>6. Punctual => \A i \in Jobs : ~Alive(i)'
  BY <1>1, NoJobTyped DEF HandoverInv, Owned, OneJobAtATime, Alive
<1>7. Owned'
  BY <1>6 DEF Owned, OneJobAtATime
<1>8. FixedSound'
  BY <1>1, <1>2, NoJobTyped DEF FixedSound, HandoverInv
<1> QED
  BY <1>4, <1>5, <1>7, <1>8 DEF HandoverInv, IInv
-----------------------------------------------------------------------------
\* A claim finds no live job: the generation is not running
LEMMA ClaimCorrect ==
  ASSUME HandoverInv, NEW j \in Jobs, NEW from \in {GEN_WAITING, GEN_FAILED}, Claim(j, from)
  PROVE  HandoverInv'
<1> DEFINE fields == [NoJob EXCEPT !.pc = "start"]
<1> DEFINE new == [row EXCEPT !.generation = GEN_RUNNING]
<1>1. fields \in JobState /\ fields.pc = "start" /\ fields.known = 0
  <2>1. NoJob \in JobState
    BY NoJobTyped
  <2> QED
    BY <2>1, NoJobTyped DEF JobState
<1>2. /\ new \in RowType /\ new.generated = row.generated
      /\ new.generation = GEN_RUNNING /\ row.generated \in 0..Requested
  BY RowTyped, StatusesDiffer DEF HandoverInv, IInv, RowType
<1>3. row' = new /\ quiet' = 0 /\ stalled' = 0 /\ touches' = touches /\ codes' = codes
  BY DEF Claim, WriteRow
<1>4. /\ job' \in [Jobs -> JobState] /\ job'[j] = fields
      /\ \A i \in Jobs \ {j} : job'[i] = job[i]
  BY <1>1 DEF Claim, Goto, HandoverInv, IInv, TypeOK
<1> HIDE DEF fields, new
<1>5. TypeOK'
  BY <1>1, <1>2, <1>3, <1>4 DEF TypeOK, RowType, Statuses, HandoverInv, IInv
<1>6. GeneratedMatchesCodes' /\ CompleteMeansAll'
  BY <1>2, <1>3, StatusesDiffer DEF GeneratedMatchesCodes, CompleteMeansAll, HandoverInv, IInv
<1>7. Punctual => \A i \in Jobs : ~Alive(i)
  BY StatusesDiffer DEF Claim, HandoverInv, Owned
<1>8. Owned'
  BY <1>2, <1>3, <1>4, <1>7 DEF Owned, OneJobAtATime, Alive
<1>9. FixedSound'
  <2>1. row.generation # GEN_DONE
    BY StatusesDiffer DEF Claim
  <2> QED
    BY <1>1, <1>3, <1>4, <2>1 DEF FixedSound, HandoverInv
<1> QED
  BY <1>5, <1>6, <1>8, <1>9 DEF HandoverInv, IInv

LEMMA GenerateCorrect ==
  ASSUME HandoverInv, NEW j \in Jobs, Generate(j)
  PROVE  HandoverInv'
<1> DEFINE fields == [job[j] EXCEPT !.pc = "read"]
<1>1. job[j] \in JobState /\ row \in RowType /\ row.generated \in 0..Requested
  BY RowTyped DEF HandoverInv, IInv, TypeOK, RowType
<1>2. fields \in JobState /\ fields.known = job[j].known /\ fields.pc = "read"
  BY <1>1 DEF JobState
<1>3. Type # FIXED /\ Alive(j)
  BY DEF HandoverInv, FixedSound, Generate, Alive
<1>4. Goto(j, fields)
  BY DEF Generate
<1>5. fields.known <= row.generated
  BY <1>2 DEF HandoverInv, IInv, TypeOK
<1> HIDE DEF fields
<1>6. CASE KeepRow
  BY <1>2, <1>3, <1>4, <1>5, <1>6, KeepCorrect
<1>7. CASE /\ Running /\ row.generated < Requested
           /\ WriteRow([row EXCEPT !.generated = @ + 1]) /\ codes' = codes + 1
  <2>1. row.generated + 1 \in 0..Requested
    BY <1>1, <1>7
  <2>2. /\ row' \in RowType /\ row'.generated = row.generated + 1
        /\ row'.generation = row.generation
    BY <1>1, <1>7, <2>1 DEF WriteRow, RowType
  <2>3. /\ job' \in [Jobs -> JobState] /\ job'[j] = fields
        /\ \A i \in Jobs \ {j} : job'[i] = job[i]
    BY <1>2, <1>4 DEF Goto, HandoverInv, IInv, TypeOK
  <2>4. \A i \in Jobs : job'[i].known \in Int /\ job'[i].known <= row.generated
    BY <1>2, <1>5, <2>3 DEF HandoverInv, IInv, TypeOK, JobState
  <2>5. \A i \in Jobs : job'[i].known <= row'.generated
    BY <1>1, <2>2, <2>4
  <2>6. TypeOK'
    BY <1>7, <2>2, <2>3, <2>5 DEF TypeOK, WriteRow, RowType, Statuses, HandoverInv, IInv
  <2>7. GeneratedMatchesCodes'
    BY <1>7, <2>2 DEF GeneratedMatchesCodes, HandoverInv, IInv
  <2>8. CompleteMeansAll'
    BY <1>7, <2>2, StatusesDiffer DEF CompleteMeansAll, Running
  <2>9. \A i \in Jobs : Alive(i)' => Alive(i)
    BY <1>3, <2>3 DEF Alive
  <2>10. Owned'
    BY <1>7, <2>2, <2>9 DEF Owned, OneJobAtATime, HandoverInv, WriteRow
  <2> QED
    BY <1>3, <2>6, <2>7, <2>8, <2>10 DEF HandoverInv, IInv, FixedSound
<1> QED
  BY <1>6, <1>7 DEF Generate

\* COMPLETE is only called by a loop that has seen every code
LEMMA FinishCorrect ==
  ASSUME HandoverInv, NEW j \in Jobs, Alive(j), NEW outcome \in {GEN_DONE, GEN_FAILED},
         Finish(j, outcome), outcome = GEN_DONE => job[j].known >= Requested,
         Type # FIXED
  PROVE  HandoverInv'
<1>1. job[j] \in JobState /\ row \in RowType /\ row.generated \in 0..Requested /\ codes \in Nat
      /\ job[j].known <= row.generated
  BY RowTyped DEF HandoverInv, IInv, TypeOK, RowType
<1>2. CASE row.generation = GEN_RUNNING
  <2> DEFINE new == [row EXCEPT !.generation = outcome]
  <2>1. new \in RowType /\ new.generation = outcome /\ new.generated = row.generated
    BY <1>1, StatusesDiffer DEF RowType
  <2>2. outcome = GEN_DONE => row.generated = Requested
    BY <1>1 DEF JobState
  <2>3. WriteRow(new) /\ Goto(j, NoJob) /\ codes' = codes
    BY <1>2 DEF Finish
  <2> HIDE DEF new
  <2>4. Type = RANDOM => codes' = new.generated
    BY <2>1, <2>3 DEF HandoverInv, IInv, GeneratedMatchesCodes
  <2>5. row.generated <= new.generated
    BY <1>1, <2>1
  <2> QED
    BY <1>1, <2>1, <2>2, <2>3, <2>4, <2>5, EndJobCorrect
<1>3. CASE row.generation # GEN_RUNNING
  <2>1. KeepRow /\ Goto(j, NoJob)
    BY <1>3 DEF Finish, KeepRow
  <2> QED
    BY <1>1, <2>1, NoJobTyped, KeepCorrect DEF RowType
<1> QED
  BY <1>2, <1>3

LEMMA InsertFixedCorrect ==
  ASSUME HandoverInv, NEW j \in Jobs, InsertFixed(j)
  PROVE  HandoverInv'
<1>1. row \in RowType /\ row.generated \in 0..Requested /\ codes \in Nat /\ Alive(j)
  BY RowTyped DEF HandoverInv, IInv, TypeOK, RowType, InsertFixed, Alive
<1>2. CASE row.status = ENDED
  <2>1. KeepRow /\ Goto(j, NoJob)
    BY <1>2 DEF InsertFixed
  <2> QED
    BY <1>1, <2>1, NoJobTyped, KeepCorrect
<1>3. CASE row.status # ENDED
  <2> DEFINE new == [row EXCEPT !.generated = Requested, !.generation = GEN_DONE]
  <2>1. new \in RowType /\ new.generation = GEN_DONE /\ new.generated = Requested
    BY <1>1, StatusesDiffer, BoundsInRange DEF RowType
  <2>2. WriteRow(new) /\ Goto(j, NoJob) /\ codes' = codes + 1 /\ Type = FIXED
    BY <1>3 DEF InsertFixed
  <2> HIDE DEF new
  <2>3. Punctual => codes = 0
    BY <1>1, <2>2, StatusesDiffer DEF HandoverInv, Owned, FixedSound
  <2>4. row.generated <= new.generated /\ codes' \in Nat
    BY <1>1, <2>1, <2>2
  <2> QED
    BY <1>1, <2>1, <2>2, <2>3, <2>4, StatusesDiffer, EndJobCorrect
<1> QED
  BY <1>2, <1>3

LEMMA ReleaseCorrect ==
  ASSUME HandoverInv, NEW j \in Jobs, Release(j)
  PROVE  HandoverInv'
<1> DEFINE new == [row EXCEPT !.generation = GEN_WAITING]
<1>1. row \in RowType /\ row.generated \in 0..Requested /\ codes \in Nat /\ Alive(j)
  BY RowTyped DEF HandoverInv, IInv, TypeOK, RowType, Release, Alive
<1>2. new \in RowType /\ new.generation = GEN_WAITING /\ new.generated = row.generated
  BY <1>1, StatusesDiffer DEF RowType
<1>3. WriteRow(new) /\ Goto(j, NoJob) /\ codes' = codes
  BY DEF Release
<1> HIDE DEF new
<1>4. Type = FIXED /\ Punctual => codes = 0
  BY <1>1, StatusesDiffer DEF HandoverInv, Owned, FixedSound
<1>5. Type = RANDOM => codes' = new.generated
  BY <1>2, <1>3 DEF HandoverInv, IInv, GeneratedMatchesCodes
<1>6. row.generated <= new.generated
  BY <1>1, <1>2
<1> QED
  BY <1>1, <1>2, <1>3, <1>4, <1>5, <1>6, StatusesDiffer, EndJobCorrect

\* The remaining steps of a job do not write the row
LEMMA WaitCorrect ==
  ASSUME HandoverInv, NEW j \in Jobs,
         Begin(j) \/ ReadBack(j) \/ RetryableError(j) \/ FatalError(j)
           \/ RejectFixed(j) \/ Crash(j)
  PROVE  HandoverInv'
<1>1. /\ job[j] \in JobState /\ row.generated \in 0..Requested
      /\ job[j].known \in 0..Requested /\ job[j].known <= row.generated
      /\ job[j].retries \in 0..MaxRetries
      /\ Type = FIXED => job[j].pc \in {"none", "start", "release"}
  BY DEF HandoverInv, IInv, TypeOK, JobState, FixedSound
<1>2. Alive(j) /\ KeepRow
  BY DEF Begin, ReadBack, RetryableError, FatalError, RejectFixed, Crash, Alive
<1>3. CASE Begin(j)
  <2> DEFINE f == [job[j] EXCEPT !.pc = "loop", !.known = row.generated]
  <2>1. f \in JobState /\ f.known = row.generated
    BY <1>1 DEF JobState
  <2>2. Goto(j, f) /\ Type # FIXED
    BY <1>3, StatusesDiffer DEF Begin
  <2> HIDE DEF f
  <2>3. f.known <= row.generated
    BY <1>1, <2>1
  <2> QED
    BY <2>3, <1>1, <1>2, <2>1, <2>2, KeepCorrect
<1>4. CASE ReadBack(j) /\ Running
  <2> DEFINE f == [job[j] EXCEPT !.pc = "loop", !.known = row.generated, !.retries = 0]
  <2>1. f \in JobState /\ f.known = row.generated
    BY <1>1, BoundsInRange DEF JobState
  <2>2. Goto(j, f) /\ Type # FIXED
    BY <1>1, <1>4 DEF ReadBack
  <2> HIDE DEF f
  <2>3. f.known <= row.generated
    BY <1>1, <2>1
  <2> QED
    BY <2>3, <1>1, <1>2, <2>1, <2>2, KeepCorrect
<1>5. CASE (ReadBack(j) /\ ~Running) \/ Crash(j)
  <2>1. Goto(j, NoJob)
    BY <1>5 DEF ReadBack, Crash
  <2> QED
    BY <1>1, <1>2, <2>1, NoJobTyped, KeepCorrect
<1>6. CASE RetryableError(j) /\ job[j].retries < MaxRetries
  <2> DEFINE f == [job[j] EXCEPT !.pc = "loop", !.retries = @ + 1]
  <2>1. job[j].retries + 1 \in 0..MaxRetries
    BY <1>1, <1>6
  <2>2. f \in JobState /\ f.known = job[j].known
    BY <1>1, <2>1 DEF JobState
  <2>3. Goto(j, f) /\ Type # FIXED
    BY <1>1, <1>6 DEF RetryableError
  <2> QED
    BY <1>1, <1>2, <2>2, <2>3, KeepCorrect
<1>7. CASE (RetryableError(j) /\ ~(job[j].retries < MaxRetries)) \/ FatalError(j)
  <2> DEFINE f == [job[j] EXCEPT !.pc = "fail"]
  <2>1. f \in JobState /\ f.known = job[j].known
    BY <1>1 DEF JobState
  <2>2. Goto(j, f) /\ Type # FIXED
    BY <1>1, <1>7 DEF RetryableError, FatalError
  <2> QED
    BY <1>1, <1>2, <2>1, <2>2, KeepCorrect
<1>8. CASE RejectFixed(j)
  <2> DEFINE f == [job[j] EXCEPT !.pc = "release"]
  <2>1. f \in JobState /\ f.known = job[j].known /\ f.pc = "release"
    BY <1>1 DEF JobState
  <2>2. Goto(j, f)
    BY <1>8 DEF RejectFixed
  <2> QED
    BY <1>1, <1>2, <2>1, <2>2, KeepCorrect
<1> QED
  BY <1>3, <1>4, <1>5, <1>6, <1>7, <1>8
-----------------------------------------------------------------------------
\* An abort that a punctual schedule allows meets no live job
LEMMA AbortCorrect == ASSUME HandoverInv, Abort PROVE HandoverInv'
<1> DEFINE new == [row EXCEPT !.generation = IF Type = RANDOM THEN GEN_FAILED ELSE GEN_WAITING]
<1>1. row \in RowType /\ row.generated \in 0..Requested
  BY RowTyped DEF HandoverInv, IInv, RowType
<1>2. new \in RowType /\ new.generation # GEN_DONE /\ new.generated = row.generated
  BY <1>1, StatusesDiffer DEF RowType
<1>3. row' = new /\ quiet' = 0 /\ stalled' = 0 /\ touches' = touches /\ codes' = codes
  BY DEF Abort, WriteRow
<1> HIDE DEF new
<1>4. \A j \in Jobs : job[j] \in JobState
  BY DEF HandoverInv, IInv, TypeOK
<1>5. /\ job' \in [Jobs -> JobState]
      /\ \A j \in Jobs : job'[j].pc = job[j].pc /\ job'[j].known = job[j].known
  <2>1. \A j \in Jobs : /\ [job[j] EXCEPT !.aborted = TRUE] \in JobState
                        /\ [job[j] EXCEPT !.aborted = TRUE].pc = job[j].pc
                        /\ [job[j] EXCEPT !.aborted = TRUE].known = job[j].known
    BY <1>4 DEF JobState
  <2> QED
    BY <1>4, <2>1 DEF Abort
<1>6. TypeOK'
  BY <1>1, <1>2, <1>3, <1>5 DEF TypeOK, RowType, Statuses, HandoverInv, IInv
<1>7. GeneratedMatchesCodes' /\ CompleteMeansAll'
  BY <1>2, <1>3 DEF GeneratedMatchesCodes, CompleteMeansAll, HandoverInv, IInv
<1>8. Punctual => \A j \in Jobs : ~Alive(j)
  BY DEF Abort, HandoverInv, Owned, IInv, TypeOK
<1>9. Owned'
  BY <1>5, <1>8 DEF Owned, OneJobAtATime, Alive
<1>10. FixedSound'
  BY <1>3, <1>5, StatusesDiffer DEF FixedSound, HandoverInv, Abort, Running
<1> QED
  BY <1>6, <1>7, <1>9, <1>10 DEF HandoverInv, IInv

LEMMA EnvironmentCorrect == ASSUME HandoverInv, End \/ Touch \/ Tick PROVE HandoverInv'
<1>1. row \in RowType
  BY RowTyped DEF HandoverInv, IInv
<1>2. row' \in RowType /\ row'.generation = row.generation /\ row'.generated = row.generated
  BY <1>1 DEF End, Touch, Tick, RowType, Statuses
<1>3. UNCHANGED <<codes, job>>
  BY DEF End, Touch, Tick
<1>4. /\ quiet' \in 0..StaleAfter /\ stalled' \in 0..StaleAfter /\ quiet' <= stalled'
      /\ touches' \in 0..MaxTouches
  BY DEF End, Touch, Tick, Upto, HandoverInv, IInv, TypeOK
<1>5. IInv'
  BY <1>2, <1>3, <1>4 DEF HandoverInv, IInv, TypeOK, GeneratedMatchesCodes, CompleteMeansAll,
     RowType, Statuses
<1>6. \A j \in Jobs : Alive(j)' <=> Alive(j)
  BY <1>3 DEF Alive
<1>7. Punctual /\ (\E j \in Jobs : Alive(j)) => stalled' < StaleAfter
  <2>1. stalled \in Nat
    BY DEF HandoverInv, IInv, TypeOK
  <2> QED
    BY <2>1 DEF End, Touch, Tick, Upto, HandoverInv, Owned
<1>8. Owned'
  BY <1>2, <1>6, <1>7 DEF HandoverInv, Owned, OneJobAtATime
<1>9. FixedSound'
  BY <1>2, <1>3 DEF HandoverInv, FixedSound
<1> QED
  BY <1>5, <1>8, <1>9 DEF HandoverInv

LEMMA NextCorrect == HandoverInv /\ [Next]_vars => HandoverInv'
<1> SUFFICES ASSUME HandoverInv, [Next]_vars PROVE HandoverInv'
  OBVIOUS
<1>1. CASE UNCHANGED vars
  BY <1>1 DEF vars, HandoverInv, IInv, TypeOK, GeneratedMatchesCodes, CompleteMeansAll,
     Owned, OneJobAtATime, Alive, FixedSound
<1>2. ASSUME NEW j \in Jobs, Issue(j) \/ Retry(j) PROVE HandoverInv'
  BY <1>2, ClaimCorrect DEF Issue, Retry
<1>3. ASSUME NEW j \in Jobs, Complete(j) \/ Fail(j) PROVE HandoverInv'
  <2>1. Alive(j) /\ Type # FIXED
    BY <1>3 DEF Complete, Fail, Alive, HandoverInv, FixedSound
  <2> QED
    BY <1>3, <2>1, FinishCorrect, StatusesDiffer DEF Complete, Fail
<1> QED
  BY <1>1, <1>2, <1>3, GenerateCorrect, InsertFixedCorrect, ReleaseCorrect, WaitCorrect,
     AbortCorrect, EnvironmentCorrect DEF Next, JobStep

LEMMA GenerationCorrect == Spec => []HandoverInv
<1>1. Init => HandoverInv
  BY InitCorrect
<1>2. HandoverInv /\ [Next]_vars => HandoverInv'
  BY NextCorrect
<1> QED
  BY <1>1, <1>2, PTL DEF Spec
-----------------------------------------------------------------------------
\* For every number of zombie loops, retries, lost answers and crashes: the
\* types, generated_qty equals the codes of a RANDOM campaign, never exceeds
\* the requested quantity, and equals it once the generation is complete.
THEOREM CountCorrect == Spec => []CountSound
<1>1. HandoverInv => CountSound
  BY DEF HandoverInv, IInv, CountSound
<1> QED
  BY <1>1, GenerationCorrect, PTL

\* While no live job takes longer than the threshold, claim, abort and retry
\* never leave two jobs alive, and a FIXED campaign gets one code.
THEOREM HandoverCorrect ==
  Spec => [](Punctual => HandoverSound)
<1>1. HandoverInv => (Punctual => HandoverSound)
  BY DEF HandoverInv, Owned, FixedSound, OneFixedCode, HandoverSound
<1> QED
  BY <1>1, GenerationCorrect, PTL

\* Every statement that adds a code checks under the row lock that the campaign
\* has not ended.
THEOREM EndedCorrect == Spec => EndedGetsNoCodes
<1>1. Next => (row.status = ENDED => codes' = codes)
  BY DEF Next, JobStep, Issue, Retry, Claim, Begin, Generate, ReadBack, RetryableError,
     FatalError, Complete, Fail, Finish, InsertFixed, RejectFixed, Release, Crash, Abort,
     End, Touch, Tick, KeepRow, Running
<1> QED
  BY <1>1, PTL DEF Spec, EndedGetsNoCodes
=============================================================================
