-------------------------- MODULE MCCodeGeneration --------------------------
(* Two issues for TLC: the codes of a RANDOM campaign, by the constants of *)
(* the configuration, and the one code of a FIXED campaign, whose calls    *)
(* keep within the threshold. A behaviour explores one of the two.         *)
EXTENDS CodeGeneration, TLC

CONSTANTS j1, j2
VARIABLES part, fixedRow, fixedCodes, fixedQuiet, fixedStalled, fixedTouches, fixedJob

Fixed == INSTANCE CodeGeneration WITH
  Type <- FIXED, Requested <- 2, StaleAfter <- 3, Punctual <- TRUE, MaxTouches <- 3,
  row <- fixedRow, codes <- fixedCodes, quiet <- fixedQuiet, stalled <- fixedStalled,
  touches <- fixedTouches, job <- fixedJob
fixedVars == <<fixedRow, fixedCodes, fixedQuiet, fixedStalled, fixedTouches, fixedJob>>

IssueInit == part \in CodeTypes /\ Init /\ Fixed!Init
IssueNext ==
  \/ part = RANDOM /\ Next /\ UNCHANGED <<part, fixedVars>>
  \/ part = FIXED /\ Fixed!Next /\ UNCHANGED <<part, vars>>

issueVars == <<part, vars, fixedVars>>
Random(A) == part = RANDOM /\ A /\ UNCHANGED <<part, fixedVars>>
OfFixed(A) == part = FIXED /\ A /\ UNCHANGED <<part, vars>>
\* The fairness of FairSpec, for the campaign that is explored
IssueSpec ==
  /\ IssueInit /\ [][IssueNext]_issueVars
  /\ \A j \in Jobs : WF_issueVars(Random(JobStep(j))) /\ WF_issueVars(OfFixed(Fixed!JobStep(j)))
  /\ WF_issueVars(Random(Tick)) /\ WF_issueVars(Random(Abort))
  /\ WF_issueVars(OfFixed(Fixed!Tick)) /\ WF_issueVars(OfFixed(Fixed!Abort))

\* A FIXED issue, by calls that keep within the threshold, is in one hand and gives
\* one code (SP_CAMPAIGN_CODE_ISSUE, _ABORT).
FixedHandoverSound == Fixed!HandoverSound

\* It is never stuck: it completes, is released, aborted, or the campaign ends.
FixedIssueRecovers == Fixed!GenerationRecovers
=============================================================================
