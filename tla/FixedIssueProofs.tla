-------------------------- MODULE FixedIssueProofs --------------------------
(***************************************************************************)
(* The FIXED issue of MCCodeGeneration, which runs beside the RANDOM one:  *)
(* what CodeGenerationProofs shows of every issue is taken over at the     *)
(* constants and variables of this one.                                    *)
(***************************************************************************)
EXTENDS MCCodeGeneration, TLAPS

Proved == INSTANCE CodeGenerationProofs WITH
  Type <- FIXED, Requested <- 2, StaleAfter <- 3, Punctual <- TRUE, MaxTouches <- 3,
  row <- fixedRow, codes <- fixedCodes, quiet <- fixedQuiet, stalled <- fixedStalled,
  touches <- fixedTouches, job <- fixedJob

\* The constants of the FIXED issue satisfy the assumption of the proofs
LEMMA FixedAllowed ==
  /\ Jobs /= {} /\ FIXED \in Proved!CodeTypes
  /\ 2 \in Nat \ {0} /\ MaxRetries \in Nat /\ 3 \in Nat \ {0}
  /\ TRUE \in BOOLEAN
BY GenerationAssumption DEF FIXED, Proved!CodeTypes, Proved!RANDOM, Proved!FIXED

\* Both instances of CodeGeneration take the same steps
LEMMA FixedSteps == Fixed!Next => Proved!Next
BY DEF Fixed!GEN_WAITING, Fixed!GEN_RUNNING, Fixed!GEN_DONE, Fixed!GEN_FAILED,
   Fixed!ENDED, Fixed!RANDOM, Fixed!FIXED,
   Fixed!Next, Fixed!JobStep, Fixed!Issue, Fixed!Retry, Fixed!Claim, Fixed!Begin,
   Fixed!Generate, Fixed!ReadBack, Fixed!RetryableError, Fixed!FatalError,
   Fixed!Complete, Fixed!Fail, Fixed!Finish, Fixed!InsertFixed, Fixed!RejectFixed,
   Fixed!Release, Fixed!Crash, Fixed!Abort, Fixed!End, Fixed!Touch, Fixed!Tick,
   Fixed!KeepRow, Fixed!Running, Fixed!WriteRow, Fixed!Goto, Fixed!Alive, Fixed!Upto,
   Fixed!NoJob,
   Proved!GEN_WAITING, Proved!GEN_RUNNING, Proved!GEN_DONE, Proved!GEN_FAILED,
   Proved!ENDED, Proved!RANDOM, Proved!FIXED,
   Proved!Next, Proved!JobStep, Proved!Issue, Proved!Retry, Proved!Claim, Proved!Begin,
   Proved!Generate, Proved!ReadBack, Proved!RetryableError, Proved!FatalError,
   Proved!Complete, Proved!Fail, Proved!Finish, Proved!InsertFixed, Proved!RejectFixed,
   Proved!Release, Proved!Crash, Proved!Abort, Proved!End, Proved!Touch, Proved!Tick,
   Proved!KeepRow, Proved!Running, Proved!WriteRow, Proved!Goto, Proved!Alive,
   Proved!Upto, Proved!NoJob

\* A FIXED issue whose calls keep within the threshold is in one hand and gives one
\* code, also with calls that fail, claims that are released and aborts between them
\* (SP_CAMPAIGN_CODE_ISSUE, _ABORT).
THEOREM FixedHandoverCorrect == IssueSpec => []FixedHandoverSound
<1>1. IssueInit => Proved!Init
  BY DEF IssueInit, Fixed!Init, Fixed!NoJob, Fixed!ACTIVE, Fixed!GEN_WAITING,
     Proved!Init, Proved!NoJob, Proved!ACTIVE, Proved!GEN_WAITING
<1>2. [IssueNext]_issueVars => [Proved!Next]_Proved!vars
  BY FixedSteps DEF IssueNext, issueVars, fixedVars, Proved!vars
<1>3. Proved!Spec => [](TRUE => Proved!HandoverSound)
  BY FixedAllowed, Proved!HandoverCorrect
<1>4. Proved!HandoverSound => FixedHandoverSound
  BY DEF FixedHandoverSound, Fixed!HandoverSound, Fixed!OneJobAtATime,
     Fixed!OneFixedCode, Fixed!Alive, Fixed!FIXED,
     Proved!HandoverSound, Proved!OneJobAtATime, Proved!OneFixedCode, Proved!Alive,
     Proved!FIXED
<1> QED
  BY <1>1, <1>2, <1>3, <1>4, PTL DEF IssueSpec, Proved!Spec
=============================================================================
