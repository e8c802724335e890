------------------------- MODULE CouponUsageProofs --------------------------
(***************************************************************************)
(* TLAPS proofs about CouponUsage, for any number of sessions, users,      *)
(* codes and campaigns: its types, its safety invariants, and that it      *)
(* implements CouponLedger.                                                *)
(***************************************************************************)
EXTENDS CouponUsage, FiniteSetTheorems, WellFoundedInduction, TLAPS

USE UsageAssumption DEF CodeTypes, RANDOM, FIXED

\* An administrator can only open what has been generated
QtyBounded ==
  \A k \in Campaigns : /\ campaign[k].used <= campaign[k].generated
                      /\ campaign[k].usable <= campaign[k].generated

\* Row ids are unique and not above the number of rows; rows are of issued codes
RowsSound ==
  /\ \A r \in usage : r.id <= Cardinality(usage) /\ codeStatus[r.code] /= ABSENT
  /\ \A r, q \in usage : r.id = q.id => r = q

\* The policy in force is one an administrator chose, and the ceiling is above it
PolicySound ==
  \A k \in Campaigns : /\ campaign[k].usable \in Qtys \cup {0}
                       /\ campaign[k].limit \in Limits /\ maxLimit[k] \in Limits
                       /\ campaign[k].limit <= maxLimit[k]

\* What the tables say, whatever the sessions are doing
Tables ==
  UsedMatchesLedger /\ RandomRedeemedOnce /\ QtyBounded /\ UserCeiling /\ RowsSound

InTransaction == {"claim", "quota", "insert", "count"}

\* What a session may rely on about its own call: the code it looked up exists,
\* the limit it read has been in force, a redemption it was told of is there
Know(s) ==
  LET t == sess[s]
  IN  /\ t.pc /= "idle" /\ t.owned => RowsFor(t.code, t.user) /= {}
      /\ t.pc \in InTransaction \cup {"existing"} =>
            codeStatus[t.code] /= ABSENT /\ t.limit <= maxLimit[CampaignOf[t.code]]
      /\ t.pc \in InTransaction /\ t.owned => t.limit /= 1
      /\ t.pc \in InTransaction \cup {"existing"} => t.op = "reserve"
      /\ t.pc \in {"find", "confirm"} => t.op = "confirm"
      /\ t.pc = "confirm" => \E r \in RowsFor(t.code, t.user) : r.id = t.row
      /\ t.pc = "reply" /\ t.result = OK =>
            \E r \in RowsFor(t.code, t.user) :
              r.id = t.row /\ (t.op = "confirm" => r.confirmed)
      /\ t.pc = "reply" /\ t.result = CODE_CONSUMED => RowsOfCode(t.code) /= {}
      /\ t.pc = "reply" /\ t.owned /\ t.result /= DATABASE_ERROR
            /\ (t.op = "reserve" => t.limit = 1) => t.result = OK

IInv == TypeOK /\ Tables /\ PolicySound /\ PremisesHold /\ \A s \in Sessions : Know(s)
-----------------------------------------------------------------------------
\* A nonempty finite set of rows has a first one.  (The proof takes the least
\* of the sets of rows up to some row, ordered by inclusion.)
LEMMA FirstRowExists ==
  ASSUME NEW R \in SUBSET UsageRow, IsFiniteSet(R), R /= {}
  PROVE  FirstRow(R) \in R
<1> DEFINE UpTo(r) == {q \in R : q.id <= r.id}
           Family  == {UpTo(r) : r \in R}
<1>1. Family \subseteq FiniteSubsetsOf(R) /\ Family /= {}
  <2>1. ASSUME NEW r \in R
        PROVE  IsFiniteSet(UpTo(r))
    <3>1. UpTo(r) \in SUBSET R
      OBVIOUS
    <3> QED
      BY <3>1, FS_Subset
  <2>2. ASSUME NEW M \in Family
        PROVE  M \in SUBSET R /\ IsFiniteSet(M)
    <3>1. PICK r \in R : M = UpTo(r)
      OBVIOUS
    <3> QED
      BY <2>1, <3>1
  <2>3. Family /= {}
    <3>1. PICK r \in R : TRUE
      OBVIOUS
    <3>2. UpTo(r) \in Family
      BY <3>1
    <3> QED
      BY <3>2
  <2> HIDE DEF Family
  <2> QED
    BY <2>2, <2>3 DEF FiniteSubsetsOf
<1>2. PICK L \in Family : \A M \in Family : ~ (<<M, L>> \in StrictSubsetOrdering(R))
  BY <1>1, FS_StrictSubsetOrderingWellFounded, WFMin
<1>3. PICK m \in R : L = UpTo(m)
  BY <1>2
<1>4. ASSUME NEW q \in R, ~ (m.id <= q.id)
      PROVE  FALSE
  <2>1. UpTo(q) \subseteq UpTo(m) /\ m \in UpTo(m) /\ m \notin UpTo(q)
    BY <1>4 DEF UsageRow
  <2>2. <<UpTo(q), UpTo(m)>> \in StrictSubsetOrdering(R)
    BY <2>1 DEF StrictSubsetOrdering
  <2> QED
    BY <1>2, <1>3, <2>2
<1> QED
  BY <1>4 DEF FirstRow

\* Exchanging one member of a finite set for another keeps its size.
LEMMA ExchangeCardinality ==
  ASSUME NEW S, IsFiniteSet(S), NEW a \in S, NEW b, b \notin S \ {a}
  PROVE  /\ IsFiniteSet((S \ {a}) \cup {b})
         /\ Cardinality((S \ {a}) \cup {b}) = Cardinality(S)
<1>1. IsFiniteSet(S \ {a}) /\ Cardinality(S \ {a}) = Cardinality(S) - 1
  BY FS_RemoveElement
<1>2. Cardinality(S) \in Nat
  BY FS_CardinalityType
<1>3. /\ IsFiniteSet((S \ {a}) \cup {b})
      /\ Cardinality((S \ {a}) \cup {b}) = Cardinality(S \ {a}) + 1
  BY <1>1, FS_AddElement
<1> QED
  BY <1>1, <1>2, <1>3
-----------------------------------------------------------------------------
LEMMA IdleType == Idle \in SessionState
<1>1. (CHOOSE c \in Codes : TRUE) \in Codes /\ (CHOOSE u \in Users : TRUE) \in Users
  OBVIOUS
<1> QED
  BY <1>1 DEF Idle, SessionState, ResultCodes

LEMMA InitType == Init => TypeOK
<1> SUFFICES ASSUME Init
             PROVE  TypeOK
  OBVIOUS
<1>1. campaign \in [Campaigns -> CampaignRow] /\ maxLimit \in [Campaigns -> Nat \ {0}]
  <2>1. ASSUME NEW k \in Campaigns
        PROVE  campaign[k] \in CampaignRow /\ campaign[k].limit \in Nat \ {0}
    <3>1. campaign[k] \in [status : {ACTIVE}, inPeriod : {TRUE}, generated : {0},
                           usable : {0}, used : {0}, limit : Limits]
      BY DEF Init
    <3> DEFINE l == campaign[k].limit
    <3>2. l \in Nat \ {0}
      BY <3>1
    <3>3. campaign[k] = [status |-> ACTIVE, inPeriod |-> TRUE, generated |-> 0,
                         usable |-> 0, used |-> 0, limit |-> l]
      BY <3>1
    <3> HIDE DEF l
    <3>4. campaign[k] \in CampaignRow
      BY <3>2, <3>3 DEF CampaignRow, CampaignStatus
    <3> QED
      BY <3>2, <3>4 DEF l
  <2>2. campaign = [k \in Campaigns |-> campaign[k]]
    BY DEF Init
  <2>3. maxLimit = [k \in Campaigns |-> campaign[k].limit]
    BY DEF Init
  <2> QED
    BY <2>1, <2>2, <2>3
<1>2. usage \subseteq UsageRow /\ IsFiniteSet(usage)
  BY FS_EmptySet DEF Init
<1>3. codeStatus \in [Codes -> CodeStatus] /\ sess \in [Sessions -> SessionState]
  BY IdleType DEF Init, CodeStatus
<1> QED
  BY <1>1, <1>2, <1>3 DEF TypeOK

\* A step that only replaces one session's state by another of the right type.
LEMMA GotoType ==
  ASSUME TypeOK, NEW s \in Sessions, NEW fields \in SessionState, Goto(s, fields)
  PROVE  sess' \in [Sessions -> SessionState]
BY DEF TypeOK, Goto

LEMMA AnswerType ==
  ASSUME TypeOK, NEW s \in Sessions, NEW result \in ResultCodes, Answer(s, result)
  PROVE  TypeOK'
<1>0. sess[s] \in SessionState
  BY DEF TypeOK
<1>1. [sess[s] EXCEPT !.pc = "reply", !.result = result] \in SessionState
  BY <1>0 DEF SessionState
<1>2. sess' \in [Sessions -> SessionState]
  BY <1>1, GotoType DEF Answer
<1> QED
  BY <1>2 DEF Answer, TypeOK

\* The rows a session looks for: a finite part of usage.
LEMMA RowsForType ==
  ASSUME TypeOK, NEW c, NEW u
  PROVE  /\ RowsFor(c, u) \in SUBSET UsageRow /\ IsFiniteSet(RowsFor(c, u))
         /\ RowsFor(c, u) /= {} => /\ FirstRow(RowsFor(c, u)) \in RowsFor(c, u)
                                  /\ FirstRow(RowsFor(c, u)).id \in Nat
<1>1. RowsFor(c, u) \in SUBSET usage
  BY DEF RowsFor, RowsOfCode
<1>2. RowsFor(c, u) \in SUBSET UsageRow /\ IsFiniteSet(RowsFor(c, u))
  BY <1>1, FS_Subset DEF TypeOK
<1>3. RowsFor(c, u) /= {} => FirstRow(RowsFor(c, u)) \in RowsFor(c, u)
  BY <1>2, FirstRowExists
<1> QED
  BY <1>2, <1>3 DEF UsageRow

LEMMA SessionStepType ==
  ASSUME TypeOK, NEW s \in Sessions, Step(s) \/ SqlError(s) \/ Return(s)
  PROVE  TypeOK'
<1> DEFINE t == sess[s]
<1>0. t \in SessionState
  BY DEF TypeOK
<1> USE DEF ResultCodes, InSql
<1>1. CASE Lookup(s)
  <2>1. CASE Answer(s, CODE_NOT_FOUND)
    BY <2>1, AnswerType
  <2>2. CASE ~ Answer(s, CODE_NOT_FOUND)
    <3>1. /\ campaign[CampaignOf[t.code]].limit \in Nat
          /\ UNCHANGED <<campaign, codeStatus, usage, maxLimit>>
      BY <1>0, <1>1, <2>2 DEF Lookup, TypeOK, SessionState, CampaignRow
    <3>2. PICK fields \in SessionState : Goto(s, fields)
      <4>1. /\ [t EXCEPT !.limit = campaign[CampaignOf[t.code]].limit, !.pc = "existing"]
                  \in SessionState
            /\ [t EXCEPT !.limit = campaign[CampaignOf[t.code]].limit, !.pc = "claim"]
                  \in SessionState
            /\ [t EXCEPT !.pc = "find"] \in SessionState
        BY <1>0, <3>1 DEF SessionState
      <4> QED
        BY <1>1, <2>2, <4>1 DEF Lookup
    <3>3. sess' \in [Sessions -> SessionState]
      BY <3>2, GotoType
    <3> QED
      BY <3>1, <3>3 DEF TypeOK
  <2> QED
    BY <2>1, <2>2
<1>2. CASE FindExisting(s)
  <2>1. sess' \in [Sessions -> SessionState]
    BY <1>0, <1>2, RowsForType DEF FindExisting, Goto, TypeOK, SessionState
  <2> QED
    BY <1>2, <2>1 DEF FindExisting, TypeOK
<1>3. CASE ClaimCode(s)
  <2>1. CASE Answer(s, CODE_CONSUMED)
    BY <2>1, AnswerType
  <2>2. CASE ~ Answer(s, CODE_CONSUMED)
    BY <1>0, <1>3, <2>2 DEF ClaimCode, Goto, TypeOK, SessionState
  <2> QED
    BY <2>1, <2>2
<1>4. CASE TakeQuota(s)
  <2>1. CASE Answer(s, CAMPAIGN_CLOSED)
    BY <2>1, AnswerType
  <2>2. CASE ~ Answer(s, CAMPAIGN_CLOSED)
    BY <1>0, <1>4, <2>2 DEF TakeQuota, Goto, TypeOK, SessionState
  <2> QED
    BY <2>1, <2>2
<1>5. CASE InsertUsage(s)
  BY <1>0, <1>5 DEF InsertUsage, Goto, TypeOK, SessionState
<1>6. CASE CountAndCommit(s)
  <2>1. CASE Answer(s, USER_LIMIT)
    BY <2>1, AnswerType
  <2>2. CASE ~ Answer(s, USER_LIMIT)
    <3>1. NewRow(s) \in UsageRow
      BY <1>0, FS_CardinalityType DEF TypeOK, NewRow, UsageRow, SessionState
    <3>2. usage' \subseteq UsageRow /\ IsFiniteSet(usage')
      BY <1>6, <2>2, <3>1, FS_AddElement DEF CountAndCommit, TypeOK
    <3>3. campaign' \in [Campaigns -> CampaignRow]
      BY <1>0, <1>6, <2>2 DEF CountAndCommit, TypeOK, CampaignRow, SessionState
    <3>4. codeStatus' \in [Codes -> CodeStatus] /\ maxLimit' = maxLimit
      BY <1>0, <1>6, <2>2 DEF CountAndCommit, TypeOK, CodeStatus, SessionState
    <3>5. sess' \in [Sessions -> SessionState]
      <4>1. NewRow(s).id \in Nat
        BY <3>1 DEF UsageRow
      <4>2. [t EXCEPT !.pc = "reply", !.result = OK, !.row = NewRow(s).id] \in SessionState
        BY <1>0, <4>1 DEF SessionState
      <4> QED
        BY <1>6, <2>2, <4>2, GotoType DEF CountAndCommit
    <3> QED
      BY <3>2, <3>3, <3>4, <3>5 DEF TypeOK
  <2> QED
    BY <2>1, <2>2
<1>7. CASE FindUsage(s)
  <2>1. CASE Answer(s, USAGE_NOT_FOUND)
    BY <2>1, AnswerType
  <2>2. CASE ~ Answer(s, USAGE_NOT_FOUND)
    <3> DEFINE r == FirstRow(RowsFor(t.code, t.user))
    <3>1. sess' \in [Sessions -> SessionState]
      <4>1. r.id \in Nat
        BY <1>7, <2>2, RowsForType DEF FindUsage
      <4>2. [t EXCEPT !.row = r.id, !.result = OK,
                      !.pc = IF r.confirmed THEN "reply" ELSE "confirm"] \in SessionState
        BY <1>0, <4>1 DEF SessionState
      <4> QED
        BY <1>7, <2>2, <4>2, GotoType DEF FindUsage
    <3> QED
      BY <1>7, <2>2, <3>1 DEF FindUsage, TypeOK
  <2> QED
    BY <2>1, <2>2
<1>8. CASE WriteConfirm(s)
  <2>1. usage' \subseteq UsageRow
    <3>1. ASSUME NEW r \in UsageRow
          PROVE  [r EXCEPT !.confirmed = TRUE] \in UsageRow
      BY DEF UsageRow
    <3>2. usage \subseteq UsageRow
      BY DEF TypeOK
    <3> QED
      BY <1>8, <3>1, <3>2 DEF WriteConfirm
  <2>2. IsFiniteSet(usage')
    <3>0. IsFiniteSet(usage)
      BY DEF TypeOK
    <3> DEFINE Mark(r) == IF r.id = t.row THEN [r EXCEPT !.confirmed = TRUE] ELSE r
    <3>1. usage' = {Mark(r) : r \in usage}
      BY <1>8 DEF WriteConfirm
    <3> HIDE DEF Mark
    <3>2. [r \in usage |-> Mark(r)] \in Surjection(usage, usage')
      BY <3>1 DEF Surjection
    <3> QED
      BY <3>0, <3>2, FS_Surjection
  <2>3. sess' \in [Sessions -> SessionState]
    BY <1>0, <1>8 DEF WriteConfirm, Goto, TypeOK, SessionState
  <2> QED
    BY <1>8, <2>1, <2>2, <2>3 DEF WriteConfirm, TypeOK
<1>9. CASE SqlError(s)
  BY <1>9, AnswerType DEF SqlError
<1>10. CASE Return(s)
  BY <1>10, IdleType, GotoType DEF Return, TypeOK
<1> QED
  BY <1>1, <1>2, <1>3, <1>4, <1>5, <1>6, <1>7, <1>8, <1>9, <1>10 DEF Step

\* The administrators, the code generation and the clock
Environment ==
  \/ \E c \in Codes : IssueCode(c)
  \/ \E k \in Campaigns :
       \/ \E qty \in Qtys, limit \in Limits : PatchCampaign(k, qty, limit)
       \/ \E to \in CampaignStatus : ChangeStatus(k, to)
       \/ PassTime(k)

LEMMA EnvironmentType == TypeOK /\ Environment => TypeOK'
<1> SUFFICES ASSUME TypeOK, Environment
             PROVE  TypeOK'
  OBVIOUS
<1>1. ASSUME NEW c \in Codes, IssueCode(c)
      PROVE  TypeOK'
  <2> DEFINE k == CampaignOf[c]
             n == IF CodeType[k] = FIXED THEN FixedQty ELSE campaign[k].generated + 1
  <2>1. k \in Campaigns /\ campaign[k] \in CampaignRow
    BY UsageAssumption DEF TypeOK
  <2>2. n \in Nat
    BY <2>1, UsageAssumption DEF CampaignRow
  <2>3. /\ campaign' = [campaign EXCEPT ![k] = [campaign[k] EXCEPT !.generated = n]]
        /\ codeStatus' = [codeStatus EXCEPT ![c] = UNUSED]
        /\ UNCHANGED <<usage, maxLimit, sess>>
    BY <1>1 DEF IssueCode
  <2> HIDE DEF k, n
  <2>4. [campaign[k] EXCEPT !.generated = n] \in CampaignRow
    BY <2>1, <2>2 DEF CampaignRow
  <2>5. codeStatus' \in [Codes -> CodeStatus]
    BY <2>3 DEF TypeOK, CodeStatus
  <2>6. campaign' \in [Campaigns -> CampaignRow]
    BY <2>3, <2>4 DEF TypeOK
  <2> QED
    BY <2>3, <2>5, <2>6 DEF TypeOK
<1>2. ASSUME NEW k \in Campaigns, NEW qty \in Qtys, NEW limit \in Limits,
             PatchCampaign(k, qty, limit)
      PROVE  TypeOK'
  <2>1. qty \in Nat /\ limit \in Nat \ {0}
    BY UsageAssumption
  <2>a. campaign[k] \in CampaignRow
    BY DEF TypeOK
  <2>2. [campaign[k] EXCEPT !.usable = qty, !.limit = limit] \in CampaignRow
    BY <2>1, <2>a DEF CampaignRow
  <2>3. campaign' = [campaign EXCEPT ![k] = [campaign[k] EXCEPT !.usable = qty, !.limit = limit]]
    BY <1>2 DEF PatchCampaign
  <2>4. campaign' \in [Campaigns -> CampaignRow]
    BY <2>2, <2>3 DEF TypeOK
  <2>5. maxLimit' \in [Campaigns -> Nat \ {0}]
    BY <1>2, <2>1 DEF PatchCampaign, TypeOK
  <2> QED
    BY <1>2, <2>4, <2>5 DEF PatchCampaign, TypeOK
<1>3. ASSUME NEW k \in Campaigns, NEW to \in CampaignStatus, ChangeStatus(k, to)
      PROVE  TypeOK'
  <2>1. [campaign[k] EXCEPT !.status = to] \in CampaignRow
    BY DEF TypeOK, CampaignRow
  <2>2. campaign' = [campaign EXCEPT ![k] = [campaign[k] EXCEPT !.status = to]]
    BY <1>3 DEF ChangeStatus
  <2>3. campaign' \in [Campaigns -> CampaignRow]
    BY <2>1, <2>2 DEF TypeOK
  <2> QED
    BY <1>3, <2>3 DEF ChangeStatus, TypeOK
<1>4. ASSUME NEW k \in Campaigns, PassTime(k)
      PROVE  TypeOK'
  <2>a. campaign[k] \in CampaignRow
    BY DEF TypeOK
  <2>1. [campaign[k] EXCEPT !.inPeriod = ~@] \in CampaignRow
    <3>1. ASSUME NEW b \in BOOLEAN
          PROVE  [campaign[k] EXCEPT !.inPeriod = b] \in CampaignRow
      BY <2>a DEF CampaignRow
    <3> QED
      BY <3>1
  <2>2. campaign' = [campaign EXCEPT ![k] = [campaign[k] EXCEPT !.inPeriod = ~@]]
    BY <1>4 DEF PassTime
  <2>3. campaign' \in [Campaigns -> CampaignRow]
    BY <2>1, <2>2 DEF TypeOK
  <2> QED
    BY <1>4, <2>3 DEF PassTime, TypeOK
<1> QED
  BY <1>1, <1>2, <1>3, <1>4 DEF Environment

LEMMA TypeStep == TypeOK /\ [Next]_vars => TypeOK'
<1> SUFFICES ASSUME TypeOK, [Next]_vars
             PROVE  TypeOK'
  OBVIOUS
<1>1. ASSUME NEW s \in Sessions, NEW op \in {"reserve", "confirm"}, NEW c \in Codes,
             NEW u \in Users, Call(s, op, c, u)
      PROVE  TypeOK'
  <2>1. [Idle EXCEPT !.pc = "lookup", !.op = op, !.code = c, !.user = u,
                     !.owned = RowsFor(c, u) /= {}] \in SessionState
    BY IdleType DEF SessionState, InSql
  <2> QED
    BY <1>1, <2>1, GotoType DEF Call, TypeOK
<1>2. ASSUME NEW s \in Sessions, Step(s) \/ SqlError(s) \/ Return(s)
      PROVE  TypeOK'
  BY <1>2, SessionStepType
<1>3. CASE Environment
  BY <1>3, EnvironmentType
<1>4. CASE UNCHANGED vars
  BY <1>4 DEF TypeOK, vars
<1> QED
  BY <1>1, <1>2, <1>3, <1>4 DEF Next, Environment

\* The tables and the procedures' local state always have their types.
THEOREM TypeCorrect == Spec => []TypeOK
BY InitType, TypeStep, PTL DEF Spec
-----------------------------------------------------------------------------
\* A procedure that leaves the tables alone leaves what they say alone.
LEMMA TablesUnchanged ==
  ASSUME Tables, UNCHANGED <<campaign, codeStatus, usage, maxLimit>>
  PROVE  Tables'
BY DEF Tables, UsedMatchesLedger, RandomRedeemedOnce, QtyBounded, UserCeiling, RowsSound,
       RowsOf, RowsOfCode, RowsOfUser

\* The selections of rows are finite.
LEMMA SelectionsFinite ==
  ASSUME TypeOK, NEW k, NEW u, NEW c
  PROVE  /\ IsFiniteSet(RowsOf(k)) /\ Cardinality(RowsOf(k)) \in Nat
         /\ IsFiniteSet(RowsOfUser(k, u)) /\ Cardinality(RowsOfUser(k, u)) \in Nat
         /\ IsFiniteSet(RowsOfCode(c)) /\ Cardinality(RowsOfCode(c)) \in Nat
         /\ Cardinality(usage) \in Nat
<1>1. RowsOf(k) \in SUBSET usage /\ RowsOfUser(k, u) \in SUBSET usage
      /\ RowsOfCode(c) \in SUBSET usage
  BY DEF RowsOf, RowsOfUser, RowsOfCode
<1> QED
  BY <1>1, FS_Subset, FS_CardinalityType DEF TypeOK

\* The committing branch of CountAndCommit
Commits(s) == CountAndCommit(s) /\ WithinLimit(s)

LEMMA CommitEffect ==
  ASSUME IInv, NEW s \in Sessions, Commits(s)
  PROVE  LET c == sess[s].code
             k == CampaignOf[c]
             n == NewRow(s)
         IN  /\ c \in Codes /\ k \in Campaigns /\ sess[s].user \in Users
             /\ HoldsCampaign(s, k) /\ (IsRandom(c) => HoldsCode(s, c))
             /\ n \notin usage /\ n.id = Cardinality(usage) + 1 /\ n.code = c
             /\ n.user = sess[s].user
             /\ usage' = usage \cup {n}
             /\ campaign' = [campaign EXCEPT ![k].used = @ + 1]
             /\ codeStatus' = IF IsRandom(c) THEN [codeStatus EXCEPT ![c] = USED]
                                             ELSE codeStatus
             /\ maxLimit' = maxLimit
             /\ sess' = [sess EXCEPT ![s] = [sess[s] EXCEPT !.pc = "reply", !.result = OK,
                                                           !.row = n.id]]
<1>1. sess[s] \in SessionState /\ sess[s].pc = "count"
  BY DEF IInv, TypeOK, Commits, CountAndCommit
<1>2. sess[s].code \in Codes /\ CampaignOf[sess[s].code] \in Campaigns /\ sess[s].user \in Users
  BY <1>1 DEF SessionState
<1>3. Cardinality(usage) \in Nat
  BY SelectionsFinite DEF IInv
<1>4. NewRow(s) \notin usage
  BY <1>3 DEF NewRow, IInv, Tables, RowsSound
<1> QED
  BY <1>1, <1>2, <1>4 DEF Commits, CountAndCommit, HoldsCode, HoldsCampaign, NewRow, Goto

LEMMA CommitTables ==
  ASSUME IInv, NEW s \in Sessions, Commits(s)
  PROVE  Tables'
<1> DEFINE c == sess[s].code
           k == CampaignOf[c]
           n == NewRow(s)
<1>1. /\ c \in Codes /\ k \in Campaigns /\ sess[s].user \in Users
      /\ HoldsCampaign(s, k) /\ (IsRandom(c) => HoldsCode(s, c))
      /\ n \notin usage /\ n.id = Cardinality(usage) + 1 /\ n.code = c
      /\ n.user = sess[s].user
      /\ usage' = usage \cup {n}
      /\ campaign' = [campaign EXCEPT ![k].used = @ + 1]
      /\ codeStatus' = IF IsRandom(c) THEN [codeStatus EXCEPT ![c] = USED] ELSE codeStatus
      /\ maxLimit' = maxLimit
  BY CommitEffect
<1>2. TypeOK /\ Tables /\ PremisesHold /\ Know(s)
  BY DEF IInv
<1>3. IsFiniteSet(usage) /\ Cardinality(usage) \in Nat
  BY <1>2, SelectionsFinite DEF TypeOK
<1> HIDE DEF n
<1>4. UsedMatchesLedger'
  <2> SUFFICES ASSUME NEW j \in Campaigns
               PROVE  campaign'[j].used = Cardinality(RowsOf(j)')
    BY DEF UsedMatchesLedger
  <2>1. campaign[j] \in CampaignRow /\ campaign[j].used = Cardinality(RowsOf(j))
    BY <1>2 DEF TypeOK, Tables, UsedMatchesLedger
  <2>2. CASE j = k
    <3>1. RowsOf(j)' = RowsOf(j) \cup {n} /\ n \notin RowsOf(j)
      BY <1>1, <2>2 DEF RowsOf
    <3>2. Cardinality(RowsOf(j)') = Cardinality(RowsOf(j)) + 1
      BY <1>2, <3>1, SelectionsFinite, FS_AddElement
    <3>3. campaign'[j].used = campaign[j].used + 1
      BY <1>1, <1>2, <2>2 DEF TypeOK, CampaignRow
    <3> QED
      BY <2>1, <3>2, <3>3
  <2>3. CASE j /= k
    <3>1. RowsOf(j)' = RowsOf(j)
      BY <1>1, <2>3 DEF RowsOf
    <3> QED
      BY <1>1, <1>2, <2>1, <2>3, <3>1 DEF TypeOK
  <2> QED
    BY <2>2, <2>3
<1>5. RandomRedeemedOnce'
  <2> SUFFICES ASSUME NEW d \in Codes, IsRandom(d)
               PROVE  Cardinality(RowsOfCode(d)') = IF codeStatus'[d] = USED THEN 1 ELSE 0
    BY DEF RandomRedeemedOnce, IsRandom
  <2>1. Cardinality(RowsOfCode(d)) = IF codeStatus[d] = USED THEN 1 ELSE 0
    BY <1>2 DEF Tables, RandomRedeemedOnce
  <2>2. CASE d = c
    <3>1. codeStatus[c] = UNUSED
      BY <1>1, <1>2, <2>2 DEF PremisesHold
    <3>2. RowsOfCode(d)' = RowsOfCode(d) \cup {n} /\ n \notin RowsOfCode(d)
      BY <1>1, <2>2 DEF RowsOfCode
    <3>3. Cardinality(RowsOfCode(d)') = Cardinality(RowsOfCode(d)) + 1
      BY <1>2, <3>2, SelectionsFinite, FS_AddElement
    <3>4. codeStatus'[d] = USED
      BY <1>1, <1>2, <2>2 DEF TypeOK
    <3> QED
      BY <2>1, <2>2, <3>1, <3>3, <3>4 DEF UNUSED, USED
  <2>3. CASE d /= c
    <3>1. RowsOfCode(d)' = RowsOfCode(d) /\ codeStatus'[d] = codeStatus[d]
      BY <1>1, <1>2, <2>3 DEF RowsOfCode, TypeOK
    <3> QED
      BY <2>1, <3>1
  <2> QED
    BY <2>2, <2>3
<1>6. QtyBounded'
  <2>1. campaign[k].used < campaign[k].usable
    BY <1>1, <1>2 DEF PremisesHold
  <2> SUFFICES ASSUME NEW j \in Campaigns
               PROVE  /\ campaign'[j].used <= campaign'[j].generated
                      /\ campaign'[j].usable <= campaign'[j].generated
    BY DEF QtyBounded
  <2>2. campaign[j] \in CampaignRow /\ campaign[k] \in CampaignRow
    BY <1>1, <1>2 DEF TypeOK
  <2>3. /\ campaign[j].used <= campaign[j].generated
        /\ campaign[j].usable <= campaign[j].generated
    BY <1>2 DEF Tables, QtyBounded
  <2>4. CASE j = k
    <3>1. /\ campaign'[j].used = campaign[j].used + 1
          /\ campaign'[j].generated = campaign[j].generated
          /\ campaign'[j].usable = campaign[j].usable
      BY <1>1, <1>2, <2>2, <2>4 DEF TypeOK, CampaignRow
    <3> QED
      BY <2>1, <2>2, <2>3, <2>4, <3>1 DEF CampaignRow
  <2>5. CASE j /= k
    BY <1>1, <1>2, <2>3, <2>5 DEF TypeOK
  <2> QED
    BY <2>4, <2>5
<1>7. UserCeiling'
  <2>1. /\ Cardinality(RowsOfUser(k, sess[s].user)) + 1 <= sess[s].limit
        /\ sess[s].limit <= maxLimit[k]
    BY <1>2 DEF Know, Commits, CountAndCommit, WithinLimit, InTransaction
  <2>2. sess[s].limit \in Nat /\ maxLimit[k] \in Nat
    BY <1>1, <1>2 DEF TypeOK, SessionState
  <2> SUFFICES ASSUME NEW j \in Campaigns, NEW v \in Users
               PROVE  Cardinality(RowsOfUser(j, v)') <= maxLimit'[j]
    BY DEF UserCeiling
  <2>3. Cardinality(RowsOfUser(j, v)) <= maxLimit[j]
    BY <1>2 DEF Tables, UserCeiling
  <2>4. CASE j = k /\ SameUser(sess[s].user, v)
    <3>1. RowsOfUser(j, v) = RowsOfUser(k, sess[s].user)
      BY <2>4 DEF RowsOfUser, SameUser
    <3>2. RowsOfUser(j, v)' = RowsOfUser(j, v) \cup {n} /\ n \notin RowsOfUser(j, v)
      BY <1>1, <2>4 DEF RowsOfUser, RowsOf, SameUser
    <3>3. Cardinality(RowsOfUser(j, v)') = Cardinality(RowsOfUser(j, v)) + 1
      BY <1>2, <3>2, SelectionsFinite, FS_AddElement
    <3> QED
      BY <1>1, <1>2, <2>1, <2>2, <2>4, <3>1, <3>3, SelectionsFinite
  <2>5. CASE ~ (j = k /\ SameUser(sess[s].user, v))
    <3>1. RowsOfUser(j, v)' = RowsOfUser(j, v)
      BY <1>1, <2>5 DEF RowsOfUser, RowsOf, SameUser
    <3> QED
      BY <1>1, <2>3, <3>1
  <2> QED
    BY <2>4, <2>5
<1>8. RowsSound'
  <2>1. Cardinality(usage') = Cardinality(usage) + 1
    BY <1>1, <1>3, FS_AddElement
  <2>2. \A r \in usage : r.id \in Nat /\ r.code \in Codes
    BY <1>2 DEF TypeOK, UsageRow
  <2>3. codeStatus[c] /= ABSENT
    BY <1>2 DEF Know, Commits, CountAndCommit, InTransaction
  <2>4. \A d \in Codes : codeStatus[d] /= ABSENT => codeStatus'[d] /= ABSENT
    BY <1>1, <1>2 DEF TypeOK, USED, ABSENT
  <2>5. \A r \in usage : r.id <= Cardinality(usage) /\ codeStatus[r.code] /= ABSENT
    BY <1>2 DEF Tables, RowsSound
  <2>6. \A r \in usage' : r.id <= Cardinality(usage') /\ codeStatus'[r.code] /= ABSENT
    BY <1>1, <1>3, <2>1, <2>2, <2>3, <2>4, <2>5
  <2>7. \A r, q \in usage' : r.id = q.id => r = q
    BY <1>1, <1>2, <1>3, <2>2, <2>5 DEF Tables, RowsSound
  <2> QED
    BY <2>6, <2>7 DEF RowsSound
<1> QED
  BY <1>4, <1>5, <1>6, <1>7, <1>8 DEF Tables

\* Confirming exchanges one row for its confirmed copy.
LEMMA ConfirmEffect ==
  ASSUME IInv, NEW s \in Sessions, WriteConfirm(s)
  PROVE  \E r \in usage :
           /\ r.id = sess[s].row /\ r \in RowsFor(sess[s].code, sess[s].user)
           /\ usage' = (usage \ {r}) \cup {[r EXCEPT !.confirmed = TRUE]}
           /\ [r EXCEPT !.confirmed = TRUE] \notin usage \ {r}
<1>1. PICK r \in RowsFor(sess[s].code, sess[s].user) : r.id = sess[s].row
  BY DEF IInv, Know, WriteConfirm
<1>2. r \in usage /\ r \in UsageRow
  BY <1>1 DEF RowsFor, RowsOfCode, IInv, TypeOK
<1>3. \A q \in usage : q.id = sess[s].row <=> q = r
  BY <1>1, <1>2 DEF IInv, Tables, RowsSound
<1>4. usage' = (usage \ {r}) \cup {[r EXCEPT !.confirmed = TRUE]}
  BY <1>2, <1>3 DEF WriteConfirm
<1>5. [r EXCEPT !.confirmed = TRUE].id = r.id
  BY <1>2 DEF UsageRow
<1>6. [r EXCEPT !.confirmed = TRUE] \notin usage \ {r}
  BY <1>1, <1>3, <1>5
<1> QED
  BY <1>1, <1>2, <1>4, <1>6

LEMMA ConfirmTables ==
  ASSUME IInv, NEW s \in Sessions, WriteConfirm(s)
  PROVE  Tables'
<1>1. PICK r \in usage :
           /\ usage' = (usage \ {r}) \cup {[r EXCEPT !.confirmed = TRUE]}
           /\ [r EXCEPT !.confirmed = TRUE] \notin usage \ {r}
  BY ConfirmEffect
<1> DEFINE x == [r EXCEPT !.confirmed = TRUE]
<1>2. TypeOK /\ Tables /\ UNCHANGED <<campaign, codeStatus, maxLimit>>
  BY DEF IInv, WriteConfirm
<1>3. r \in UsageRow /\ x.id = r.id /\ x.code = r.code /\ x.user = r.user
  BY <1>2 DEF TypeOK, UsageRow
<1>4. usage' = (usage \ {r}) \cup {x} /\ x \notin usage \ {r}
  BY <1>1
<1> HIDE DEF x
<1>5. ASSUME NEW k \in Campaigns
      PROVE  Cardinality(RowsOf(k)') = Cardinality(RowsOf(k))
  <2>1. CASE CampaignOf[r.code] = k
    <3>1. r \in RowsOf(k) /\ RowsOf(k)' = (RowsOf(k) \ {r}) \cup {x}
      BY <1>3, <1>4, <2>1 DEF RowsOf
    <3>2. x \notin RowsOf(k) \ {r}
      BY <1>4 DEF RowsOf
    <3> QED
      BY <1>2, <3>1, <3>2, ExchangeCardinality, SelectionsFinite
  <2>2. CASE CampaignOf[r.code] /= k
    <3>1. RowsOf(k)' = RowsOf(k)
      BY <1>3, <1>4, <2>2 DEF RowsOf
    <3> QED
      BY <3>1
  <2> QED
    BY <2>1, <2>2
<1>6. ASSUME NEW c \in Codes
      PROVE  Cardinality(RowsOfCode(c)') = Cardinality(RowsOfCode(c))
  <2>1. CASE r.code = c
    <3>1. r \in RowsOfCode(c) /\ RowsOfCode(c)' = (RowsOfCode(c) \ {r}) \cup {x}
      BY <1>3, <1>4, <2>1 DEF RowsOfCode
    <3>2. x \notin RowsOfCode(c) \ {r}
      BY <1>4 DEF RowsOfCode
    <3> QED
      BY <1>2, <3>1, <3>2, ExchangeCardinality, SelectionsFinite
  <2>2. CASE r.code /= c
    <3>1. RowsOfCode(c)' = RowsOfCode(c)
      BY <1>3, <1>4, <2>2 DEF RowsOfCode
    <3> QED
      BY <3>1
  <2> QED
    BY <2>1, <2>2
<1>7. ASSUME NEW k \in Campaigns, NEW u \in Users
      PROVE  Cardinality(RowsOfUser(k, u)') = Cardinality(RowsOfUser(k, u))
  <2>1. CASE CampaignOf[r.code] = k /\ SameUser(r.user, u)
    <3>1. r \in RowsOfUser(k, u) /\ RowsOfUser(k, u)' = (RowsOfUser(k, u) \ {r}) \cup {x}
      BY <1>3, <1>4, <2>1 DEF RowsOfUser, RowsOf, SameUser
    <3>2. x \notin RowsOfUser(k, u) \ {r}
      BY <1>4 DEF RowsOfUser, RowsOf
    <3> QED
      BY <1>2, <3>1, <3>2, ExchangeCardinality, SelectionsFinite
  <2>2. CASE ~ (CampaignOf[r.code] = k /\ SameUser(r.user, u))
    <3>1. RowsOfUser(k, u)' = RowsOfUser(k, u)
      BY <1>3, <1>4, <2>2 DEF RowsOfUser, RowsOf, SameUser
    <3> QED
      BY <3>1
  <2> QED
    BY <2>1, <2>2
<1>8. UsedMatchesLedger' /\ QtyBounded'
  BY <1>2, <1>5 DEF Tables, UsedMatchesLedger, QtyBounded
<1>9. RandomRedeemedOnce'
  BY <1>2, <1>6 DEF Tables, RandomRedeemedOnce, IsRandom
<1>10. UserCeiling'
  BY <1>2, <1>7 DEF Tables, UserCeiling
<1>11. RowsSound'
  <2>1. Cardinality(usage') = Cardinality(usage)
    BY <1>2, <1>4, ExchangeCardinality DEF TypeOK
  <2>2. \A q \in usage' : q.id <= Cardinality(usage) /\ codeStatus[q.code] /= ABSENT
    BY <1>2, <1>3, <1>4 DEF Tables, RowsSound
  <2>3. \A p, q \in usage' : p.id = q.id => p = q
    BY <1>2, <1>3, <1>4 DEF Tables, RowsSound
  <2> QED
    BY <1>2, <2>1, <2>2, <2>3 DEF RowsSound
<1> QED
  BY <1>8, <1>9, <1>10, <1>11 DEF Tables

LEMMA EnvironmentTables ==
  ASSUME IInv, Environment
  PROVE  Tables'
<1>1. TypeOK /\ Tables
  BY DEF IInv
<1>2. usage' = usage
  BY DEF Environment, IssueCode, PatchCampaign, ChangeStatus, PassTime
<1>3. ASSUME NEW c \in Codes, IssueCode(c)
      PROVE  Tables'
  <2> DEFINE k == CampaignOf[c]
  <2>1. k \in Campaigns /\ \A j \in Campaigns : campaign[j] \in CampaignRow
    BY <1>1 DEF TypeOK
  <2>2. \A j \in Campaigns : /\ campaign'[j].used = campaign[j].used
                            /\ campaign'[j].usable = campaign[j].usable
                            /\ campaign[j].generated <= campaign'[j].generated
    BY <1>1, <1>3, <2>1 DEF IssueCode, TypeOK, CampaignRow
  <2>3. \A j \in Campaigns : campaign'[j].generated \in Nat
    BY <1>1, <1>3, <2>1 DEF IssueCode, TypeOK, CampaignRow
  <2>4. QtyBounded'
    BY <1>1, <2>1, <2>2, <2>3 DEF QtyBounded, Tables, CampaignRow
  <2>5. UsedMatchesLedger'
    BY <1>1, <1>2, <2>2 DEF UsedMatchesLedger, Tables, RowsOf
  <2>6. \A d \in Codes : /\ (codeStatus'[d] = USED <=> codeStatus[d] = USED)
                        /\ (codeStatus[d] /= ABSENT => codeStatus'[d] /= ABSENT)
    BY <1>1, <1>3 DEF IssueCode, TypeOK, ABSENT, UNUSED, USED
  <2>7. RandomRedeemedOnce'
    BY <1>1, <1>2, <2>6 DEF RandomRedeemedOnce, Tables, RowsOfCode, IsRandom
  <2>8. UserCeiling'
    BY <1>1, <1>2, <1>3 DEF IssueCode, UserCeiling, Tables, RowsOfUser, RowsOf
  <2>9. RowsSound'
    <3>1. \A r \in usage : r.code \in Codes
      BY <1>1 DEF TypeOK, UsageRow
    <3> QED
      BY <1>1, <1>2, <2>6, <3>1 DEF RowsSound, Tables
  <2> QED
    BY <2>4, <2>5, <2>7, <2>8, <2>9 DEF Tables
<1>4. ASSUME \A j \in Campaigns : /\ campaign'[j].used = campaign[j].used
                                /\ campaign'[j].generated = campaign[j].generated
                                /\ campaign'[j].usable <= campaign'[j].generated
                                /\ maxLimit[j] <= maxLimit'[j],
             TypeOK', codeStatus' = codeStatus
      PROVE  Tables'
  <2>1. UsedMatchesLedger' /\ QtyBounded'
    BY <1>1, <1>2, <1>4 DEF UsedMatchesLedger, QtyBounded, Tables, RowsOf
  <2>2. RandomRedeemedOnce' /\ RowsSound'
    BY <1>1, <1>2, <1>4 DEF RandomRedeemedOnce, RowsSound, Tables, RowsOfCode, IsRandom
  <2>3. UserCeiling'
    <3> SUFFICES ASSUME NEW j \in Campaigns, NEW v \in Users
                 PROVE  Cardinality(RowsOfUser(j, v)') <= maxLimit'[j]
      BY DEF UserCeiling
    <3>1. RowsOfUser(j, v)' = RowsOfUser(j, v) /\ Cardinality(RowsOfUser(j, v)) \in Nat
      BY <1>1, <1>2, SelectionsFinite DEF RowsOfUser, RowsOf
    <3>2. maxLimit[j] \in Nat /\ maxLimit'[j] \in Nat
      BY <1>1, <1>4 DEF TypeOK
    <3>3. Cardinality(RowsOfUser(j, v)) <= maxLimit[j]
      BY <1>1 DEF Tables, UserCeiling
    <3> QED
      BY <1>4, <3>1, <3>2, <3>3
  <2> QED
    BY <2>1, <2>2, <2>3 DEF Tables
<1>5. TypeOK'
  BY <1>1, EnvironmentType
<1>6. \A j \in Campaigns : /\ campaign[j] \in CampaignRow /\ maxLimit[j] \in Nat
                          /\ campaign[j].usable <= campaign[j].generated
  BY <1>1 DEF TypeOK, Tables, QtyBounded
<1>7. ASSUME NEW k \in Campaigns, NEW qty \in Qtys, NEW limit \in Limits,
             PatchCampaign(k, qty, limit)
      PROVE  Tables'
  <2>1. limit \in Nat /\ qty \in Nat
    OBVIOUS
  <2> QED
    BY <1>1, <1>4, <1>5, <1>6, <1>7, <2>1 DEF PatchCampaign, TypeOK, CampaignRow
<1>8. ASSUME NEW k \in Campaigns, NEW to \in CampaignStatus, ChangeStatus(k, to)
      PROVE  Tables'
  BY <1>1, <1>4, <1>5, <1>6, <1>8 DEF ChangeStatus, TypeOK, CampaignRow
<1>9. ASSUME NEW k \in Campaigns, PassTime(k)
      PROVE  Tables'
  BY <1>1, <1>4, <1>5, <1>6, <1>9 DEF PassTime, TypeOK, CampaignRow
<1> QED
  BY <1>3, <1>7, <1>8, <1>9 DEF Environment
-----------------------------------------------------------------------------
\* A step that gives nobody a lock, and changes nothing that is under one,
\* leaves the premises of the transactions alone.
LEMMA PremisesKept ==
  ASSUME PremisesHold,
         \A t \in Sessions, c \in Codes :
           HoldsCode(t, c)' => HoldsCode(t, c) /\ codeStatus'[c] = codeStatus[c],
         \A t \in Sessions, k \in Campaigns :
           HoldsCampaign(t, k)' => /\ HoldsCampaign(t, k)
                                   /\ campaign'[k].status = campaign[k].status
                                   /\ campaign'[k].used = campaign[k].used
                                   /\ campaign'[k].usable = campaign[k].usable
  PROVE  PremisesHold'
<1> SUFFICES ASSUME NEW s \in Sessions
             PROVE  (/\ \A c \in Codes : HoldsCode(s, c) =>
                         /\ codeStatus[c] = UNUSED
                         /\ \A t \in Sessions \ {s} : ~HoldsCode(t, c)
                     /\ \A k \in Campaigns : HoldsCampaign(s, k) =>
                         /\ campaign[k].status = ACTIVE
                         /\ campaign[k].used < campaign[k].usable
                         /\ \A t \in Sessions \ {s} : ~HoldsCampaign(t, k))'
  BY DEF PremisesHold
<1>1. ASSUME NEW c \in Codes, HoldsCode(s, c)'
      PROVE  codeStatus'[c] = UNUSED /\ \A t \in Sessions \ {s} : ~HoldsCode(t, c)'
  BY <1>1 DEF PremisesHold
<1>2. ASSUME NEW k \in Campaigns, HoldsCampaign(s, k)'
      PROVE  /\ campaign'[k].status = ACTIVE
             /\ campaign'[k].used < campaign'[k].usable
             /\ \A t \in Sessions \ {s} : ~HoldsCampaign(t, k)'
  BY <1>2 DEF PremisesHold
<1> QED
  BY <1>1, <1>2

\* A session that moves without a lock, to where it holds none.
LEMMA PremisesGoto ==
  ASSUME IInv, NEW s \in Sessions, NEW fields, Goto(s, fields),
         fields.pc \notin {"quota", "insert", "count"},
         UNCHANGED <<campaign, codeStatus>>
  PROVE  PremisesHold'
<1>1. \A t \in Sessions : t /= s => sess'[t] = sess[t]
  BY DEF Goto, IInv, TypeOK
<1>2. sess'[s] = fields
  BY DEF Goto, IInv, TypeOK
<1>3. ASSUME NEW t \in Sessions, NEW c \in Codes, HoldsCode(t, c)'
      PROVE  HoldsCode(t, c)
  BY <1>1, <1>2, <1>3 DEF HoldsCode, IsRandom
<1>4. ASSUME NEW t \in Sessions, NEW k \in Campaigns, HoldsCampaign(t, k)'
      PROVE  HoldsCampaign(t, k)
  BY <1>1, <1>2, <1>4 DEF HoldsCampaign
<1> QED
  BY <1>3, <1>4, PremisesKept DEF IInv

LEMMA PremisesAnswer ==
  ASSUME IInv, NEW s \in Sessions, NEW result, Answer(s, result)
  PROVE  PremisesHold'
<1>1. [sess[s] EXCEPT !.pc = "reply", !.result = result].pc = "reply"
  BY DEF IInv, TypeOK, SessionState
<1> QED
  BY <1>1, PremisesGoto DEF Answer

LEMMA StepPremises ==
  ASSUME IInv, NEW s \in Sessions, Step(s) \/ SqlError(s) \/ Return(s)
  PROVE  PremisesHold'
<1> DEFINE t == sess[s]
<1>0. t \in SessionState /\ PremisesHold /\ sess \in [Sessions -> SessionState]
  BY DEF IInv, TypeOK
<1>1. CASE Lookup(s)
  <2>1. CASE Answer(s, CODE_NOT_FOUND)
    BY <2>1, PremisesAnswer
  <2>2. CASE ~ Answer(s, CODE_NOT_FOUND)
    <3>1. UNCHANGED <<campaign, codeStatus>>
      BY <1>1, <2>2 DEF Lookup
    <3>2. PICK l : sess' = [sess EXCEPT ![s] = [t EXCEPT !.limit = l, !.pc = "existing"]]
                \/ sess' = [sess EXCEPT ![s] = [t EXCEPT !.limit = l, !.pc = "claim"]]
                \/ sess' = [sess EXCEPT ![s] = [t EXCEPT !.pc = "find"]]
      BY <1>1, <2>2 DEF Lookup, Goto
    <3>3. /\ [t EXCEPT !.limit = l, !.pc = "existing"].pc = "existing"
          /\ [t EXCEPT !.limit = l, !.pc = "claim"].pc = "claim"
          /\ [t EXCEPT !.pc = "find"].pc = "find"
      BY <1>0 DEF SessionState
    <3> QED
      BY <3>1, <3>2, <3>3, PremisesGoto DEF Goto
  <2> QED
    BY <2>1, <2>2
<1>2. CASE FindExisting(s)
  <2>1. PICK i : Goto(s, [t EXCEPT !.pc = "claim"])
              \/ Goto(s, [t EXCEPT !.pc = "reply", !.result = OK, !.row = i])
    BY <1>2 DEF FindExisting
  <2>2. /\ [t EXCEPT !.pc = "claim"].pc = "claim"
        /\ [t EXCEPT !.pc = "reply", !.result = OK, !.row = i].pc = "reply"
    BY <1>0 DEF SessionState
  <2>3. UNCHANGED <<campaign, codeStatus>>
    BY <1>2 DEF FindExisting
  <2> QED
    BY <2>1, <2>2, <2>3, PremisesGoto
<1>3. CASE ClaimCode(s)
  <2>1. CASE Answer(s, CODE_CONSUMED)
    BY <2>1, PremisesAnswer
  <2>2. CASE ~ Answer(s, CODE_CONSUMED)
    <3>1. /\ sess' = [sess EXCEPT ![s].pc = "quota"]
          /\ UNCHANGED <<campaign, codeStatus>>
          /\ IsRandom(t.code) => codeStatus[t.code] = UNUSED /\ CodeFree(t.code)
          /\ t.pc = "claim"
      BY <1>3, <2>2 DEF ClaimCode, Goto
    <3>2. ASSUME NEW x \in Sessions, NEW k \in Campaigns, HoldsCampaign(x, k)'
          PROVE  HoldsCampaign(x, k)
      BY <1>0, <3>1, <3>2 DEF HoldsCampaign, SessionState
    <3>3. ASSUME NEW x \in Sessions, NEW c \in Codes, HoldsCode(x, c)'
          PROVE  HoldsCode(x, c) \/ (x = s /\ c = t.code /\ IsRandom(c))
      BY <1>0, <3>1, <3>3 DEF HoldsCode, SessionState, IsRandom
    <3>4. ASSUME NEW x \in Sessions, NEW c \in Codes, HoldsCode(x, c)'
          PROVE  codeStatus'[c] = UNUSED
                 /\ \A y \in Sessions \ {x} : ~ HoldsCode(y, c)'
      BY <1>0, <3>1, <3>3, <3>4 DEF PremisesHold, CodeFree
    <3>5. ASSUME NEW x \in Sessions, NEW k \in Campaigns, HoldsCampaign(x, k)'
          PROVE  /\ campaign'[k].status = ACTIVE
                 /\ campaign'[k].used < campaign'[k].usable
                 /\ \A y \in Sessions \ {x} : ~HoldsCampaign(y, k)'
      BY <1>0, <3>1, <3>2, <3>5 DEF PremisesHold
    <3> QED
      BY <3>4, <3>5 DEF PremisesHold
  <2> QED
    BY <2>1, <2>2
<1>4. CASE TakeQuota(s)
  <2>1. CASE Answer(s, CAMPAIGN_CLOSED)
    BY <2>1, PremisesAnswer
  <2>2. CASE ~ Answer(s, CAMPAIGN_CLOSED)
    <3> DEFINE q == CampaignOf[t.code]
    <3>1. /\ sess' = [sess EXCEPT ![s].pc = "insert"]
          /\ UNCHANGED <<campaign, codeStatus>>
          /\ Redeemable(q) /\ CampaignFree(q)
          /\ t.pc = "quota"
      BY <1>4, <2>2 DEF TakeQuota, Goto
    <3>2. ASSUME NEW x \in Sessions, NEW c \in Codes, HoldsCode(x, c)'
          PROVE  HoldsCode(x, c)
      BY <1>0, <3>1, <3>2 DEF HoldsCode, SessionState, IsRandom
    <3>3. ASSUME NEW x \in Sessions, NEW k \in Campaigns, HoldsCampaign(x, k)'
          PROVE  HoldsCampaign(x, k) \/ (x = s /\ k = q)
      BY <1>0, <3>1, <3>3 DEF HoldsCampaign, SessionState
    <3>4. ASSUME NEW x \in Sessions, NEW c \in Codes, HoldsCode(x, c)'
          PROVE  codeStatus'[c] = UNUSED
                 /\ \A y \in Sessions \ {x} : ~ HoldsCode(y, c)'
      BY <1>0, <3>1, <3>2, <3>4 DEF PremisesHold
    <3>5. ASSUME NEW x \in Sessions, NEW k \in Campaigns, HoldsCampaign(x, k)'
          PROVE  /\ campaign'[k].status = ACTIVE
                 /\ campaign'[k].used < campaign'[k].usable
                 /\ \A y \in Sessions \ {x} : ~HoldsCampaign(y, k)'
      BY <1>0, <3>1, <3>3, <3>5 DEF PremisesHold, CampaignFree, Redeemable
    <3> QED
      BY <3>4, <3>5 DEF PremisesHold
  <2> QED
    BY <2>1, <2>2
<1>5. CASE InsertUsage(s)
  <2>1. /\ sess' = [sess EXCEPT ![s].pc = "count"] /\ t.pc = "insert"
        /\ UNCHANGED <<campaign, codeStatus>>
    BY <1>5 DEF InsertUsage, Goto
  <2>2. ASSUME NEW x \in Sessions, NEW c \in Codes, HoldsCode(x, c)'
        PROVE  HoldsCode(x, c)
    BY <1>0, <2>1, <2>2 DEF HoldsCode, SessionState, IsRandom
  <2>3. ASSUME NEW x \in Sessions, NEW k \in Campaigns, HoldsCampaign(x, k)'
        PROVE  HoldsCampaign(x, k)
    BY <1>0, <2>1, <2>3 DEF HoldsCampaign, SessionState
  <2> QED
    BY <1>0, <2>1, <2>2, <2>3, PremisesKept
<1>6. CASE CountAndCommit(s)
  <2>1. CASE Answer(s, USER_LIMIT)
    BY <2>1, PremisesAnswer
  <2>2. CASE ~ Answer(s, USER_LIMIT)
    <3> DEFINE q == CampaignOf[t.code]
    <3>1. Commits(s)
      BY <1>6, <2>2 DEF CountAndCommit, Commits
    <3>2. /\ HoldsCampaign(s, q) /\ (IsRandom(t.code) => HoldsCode(s, t.code))
          /\ t.code \in Codes /\ q \in Campaigns
          /\ campaign' = [campaign EXCEPT ![q].used = @ + 1]
          /\ codeStatus' = IF IsRandom(t.code) THEN [codeStatus EXCEPT ![t.code] = USED]
                                               ELSE codeStatus
          /\ \E i : sess' = [sess EXCEPT ![s] = [t EXCEPT !.pc = "reply", !.result = OK,
                                                         !.row = i]]
      BY <3>1, CommitEffect
    <3>3. ASSUME NEW x \in Sessions, NEW c \in Codes, HoldsCode(x, c)'
          PROVE  HoldsCode(x, c) /\ x /= s
      BY <1>0, <3>2, <3>3 DEF HoldsCode, SessionState, IsRandom
    <3>4. ASSUME NEW x \in Sessions, NEW k \in Campaigns, HoldsCampaign(x, k)'
          PROVE  HoldsCampaign(x, k) /\ x /= s
      BY <1>0, <3>2, <3>4 DEF HoldsCampaign, SessionState
    <3>5. ASSUME NEW x \in Sessions, NEW c \in Codes, HoldsCode(x, c)'
          PROVE  codeStatus'[c] = codeStatus[c]
      <4>1. ~ (IsRandom(t.code) /\ c = t.code)
        BY <1>0, <3>2, <3>3, <3>5 DEF PremisesHold
      <4> QED
        BY <3>2, <4>1 DEF IInv, TypeOK
    <3>6. ASSUME NEW x \in Sessions, NEW k \in Campaigns, HoldsCampaign(x, k)'
          PROVE  campaign'[k] = campaign[k]
      <4>1. k /= q
        BY <1>0, <3>2, <3>4, <3>6 DEF PremisesHold
      <4> QED
        BY <3>2, <4>1 DEF IInv, TypeOK
    <3> QED
      BY <1>0, <3>3, <3>4, <3>5, <3>6, PremisesKept
  <2> QED
    BY <2>1, <2>2
<1>7. CASE FindUsage(s)
  <2>1. CASE Answer(s, USAGE_NOT_FOUND)
    BY <2>1, PremisesAnswer
  <2>2. CASE ~ Answer(s, USAGE_NOT_FOUND)
    <3>1. PICK r : Goto(s, [t EXCEPT !.row = r.id, !.result = OK,
                                     !.pc = IF r.confirmed THEN "reply" ELSE "confirm"])
      BY <1>7, <2>2 DEF FindUsage
    <3>2. [t EXCEPT !.row = r.id, !.result = OK,
                    !.pc = IF r.confirmed THEN "reply" ELSE "confirm"].pc
            \in {"reply", "confirm"}
      BY <1>0 DEF SessionState
    <3>3. UNCHANGED <<campaign, codeStatus>>
      BY <1>7, <2>2 DEF FindUsage
    <3> QED
      BY <3>1, <3>2, <3>3, PremisesGoto
  <2> QED
    BY <2>1, <2>2
<1>8. CASE WriteConfirm(s)
  <2>1. [t EXCEPT !.pc = "reply", !.result = OK].pc = "reply"
    BY <1>0 DEF SessionState
  <2> QED
    BY <1>8, <2>1, PremisesGoto DEF WriteConfirm
<1>9. CASE SqlError(s)
  BY <1>9, PremisesAnswer DEF SqlError
<1>10. CASE Return(s)
  BY <1>10, PremisesGoto DEF Return, Idle
<1> QED
  BY <1>1, <1>2, <1>3, <1>4, <1>5, <1>6, <1>7, <1>8, <1>9, <1>10 DEF Step

LEMMA EnvironmentPremises ==
  ASSUME IInv, Environment
  PROVE  PremisesHold'
<1>1. TypeOK /\ PremisesHold
  BY DEF IInv
<1>2. sess' = sess
  BY DEF Environment, IssueCode, PatchCampaign, ChangeStatus, PassTime
<1>3. \A t \in Sessions, c \in Codes : HoldsCode(t, c)' => HoldsCode(t, c)
  BY <1>2 DEF HoldsCode, IsRandom
<1>4. \A t \in Sessions, k \in Campaigns : HoldsCampaign(t, k)' => HoldsCampaign(t, k)
  BY <1>2 DEF HoldsCampaign
<1>5. \A t \in Sessions, c \in Codes : HoldsCode(t, c) => codeStatus'[c] = codeStatus[c]
  <2>1. \A t \in Sessions, c \in Codes : HoldsCode(t, c) => codeStatus[c] = UNUSED
    BY <1>1 DEF PremisesHold
  <2>2. ASSUME NEW d \in Codes, IssueCode(d)
        PROVE  \A c \in Codes : codeStatus[c] = UNUSED => codeStatus'[c] = codeStatus[c]
    BY <1>1, <2>2 DEF IssueCode, TypeOK, ABSENT, UNUSED
  <2> QED
    BY <2>1, <2>2 DEF Environment, PatchCampaign, ChangeStatus, PassTime
<1>6. \A t \in Sessions, k \in Campaigns :
        HoldsCampaign(t, k) => /\ campaign'[k].status = campaign[k].status
                               /\ campaign'[k].used = campaign[k].used
                               /\ campaign'[k].usable = campaign[k].usable
  <2> SUFFICES ASSUME NEW t \in Sessions, NEW k \in Campaigns, HoldsCampaign(t, k)
               PROVE  /\ campaign'[k].status = campaign[k].status
                      /\ campaign'[k].used = campaign[k].used
                      /\ campaign'[k].usable = campaign[k].usable
    OBVIOUS
  <2>0. ~ CampaignFree(k) /\ campaign[k] \in CampaignRow
    BY <1>1 DEF CampaignFree, TypeOK
  <2>1. ASSUME NEW c \in Codes, IssueCode(c)
        PROVE  campaign'[k] = campaign[k]
    BY <1>1, <2>0, <2>1 DEF IssueCode, TypeOK
  <2>2. ASSUME NEW j \in Campaigns, NEW qty \in Qtys, NEW limit \in Limits,
               PatchCampaign(j, qty, limit)
        PROVE  campaign'[k] = campaign[k]
    BY <1>1, <2>0, <2>2 DEF PatchCampaign, TypeOK
  <2>3. ASSUME NEW j \in Campaigns, NEW to \in CampaignStatus, ChangeStatus(j, to)
        PROVE  campaign'[k] = campaign[k]
    BY <1>1, <2>0, <2>3 DEF ChangeStatus, TypeOK
  <2>4. ASSUME NEW j \in Campaigns, PassTime(j)
        PROVE  /\ campaign'[k].status = campaign[k].status
               /\ campaign'[k].used = campaign[k].used
               /\ campaign'[k].usable = campaign[k].usable
    BY <1>1, <2>0, <2>4 DEF PassTime, TypeOK, CampaignRow
  <2> QED
    BY <2>1, <2>2, <2>3, <2>4 DEF Environment
<1> QED
  BY <1>1, <1>3, <1>4, <1>5, <1>6, PremisesKept
-----------------------------------------------------------------------------
\* The tables only grow: no redemption is lost or loses its confirmation, no
\* code disappears, and the ceiling does not fall.
TablesGrow ==
  /\ \A r \in usage : \E q \in usage' :
       q.id = r.id /\ q.code = r.code /\ q.user = r.user /\ (r.confirmed => q.confirmed)
  /\ \A c \in Codes : codeStatus[c] /= ABSENT => codeStatus'[c] /= ABSENT
  /\ \A k \in Campaigns : maxLimit[k] <= maxLimit'[k]

LEMMA GrowUnchanged ==
  ASSUME TypeOK, UNCHANGED <<codeStatus, usage, maxLimit>>
  PROVE  TablesGrow
BY DEF TablesGrow, TypeOK

LEMMA GrowSession ==
  ASSUME IInv, NEW s \in Sessions, Step(s) \/ SqlError(s) \/ Return(s)
  PROVE  TablesGrow
<1>0. TypeOK
  BY DEF IInv
<1>1. CASE CountAndCommit(s)
  <2>1. CASE Answer(s, USER_LIMIT)
    BY <1>0, <2>1, GrowUnchanged DEF Answer
  <2>2. CASE ~ Answer(s, USER_LIMIT)
    <3>1. Commits(s)
      BY <1>1, <2>2 DEF CountAndCommit, Commits
    <3>2. /\ usage \subseteq usage' /\ maxLimit' = maxLimit
          /\ codeStatus' = IF IsRandom(sess[s].code)
                             THEN [codeStatus EXCEPT ![sess[s].code] = USED]
                             ELSE codeStatus
      BY <3>1, CommitEffect
    <3>3. \A c \in Codes : codeStatus[c] /= ABSENT => codeStatus'[c] /= ABSENT
      BY <1>0, <3>2 DEF TypeOK, USED, ABSENT
    <3> QED
      BY <1>0, <3>2, <3>3 DEF TablesGrow, TypeOK
  <2> QED
    BY <2>1, <2>2
<1>2. CASE WriteConfirm(s)
  <2>1. PICK r \in usage : usage' = (usage \ {r}) \cup {[r EXCEPT !.confirmed = TRUE]}
    BY <1>2, ConfirmEffect
  <2>2. \A q \in usage : /\ [q EXCEPT !.confirmed = TRUE].id = q.id
                         /\ [q EXCEPT !.confirmed = TRUE].code = q.code
                         /\ [q EXCEPT !.confirmed = TRUE].user = q.user
                         /\ [q EXCEPT !.confirmed = TRUE].confirmed
    BY <1>0 DEF TypeOK, UsageRow
  <2>3. \A q \in usage : \E p \in usage' :
          p.id = q.id /\ p.code = q.code /\ p.user = q.user /\ (q.confirmed => p.confirmed)
    BY <2>1, <2>2
  <2>4. UNCHANGED <<codeStatus, maxLimit>>
    BY <1>2 DEF WriteConfirm
  <2> QED
    BY <1>0, <2>3, <2>4 DEF TablesGrow, TypeOK
<1>3. CASE UNCHANGED <<codeStatus, usage, maxLimit>>
  BY <1>0, <1>3, GrowUnchanged
<1> QED
  BY <1>1, <1>2, <1>3 DEF Step, SqlError, Return, Lookup, FindExisting, ClaimCode,
     TakeQuota, InsertUsage, FindUsage, Answer

LEMMA GrowEnvironment == TypeOK /\ Environment => TablesGrow
<1> SUFFICES ASSUME TypeOK, Environment
             PROVE  TablesGrow
  OBVIOUS
<1>1. usage' = usage
  BY DEF Environment, IssueCode, PatchCampaign, ChangeStatus, PassTime
<1>2. \A c \in Codes : codeStatus[c] /= ABSENT => codeStatus'[c] /= ABSENT
  BY DEF Environment, IssueCode, PatchCampaign, ChangeStatus, PassTime, TypeOK, ABSENT, UNUSED
<1>3. ASSUME NEW k \in Campaigns, NEW qty \in Qtys, NEW limit \in Limits,
             PatchCampaign(k, qty, limit), NEW j \in Campaigns
      PROVE  maxLimit[j] <= maxLimit'[j]
  <2>1. limit \in Nat
    OBVIOUS
  <2> QED
    BY <1>3, <2>1 DEF PatchCampaign, TypeOK
<1>4. ASSUME maxLimit' = maxLimit
      PROVE  \A j \in Campaigns : maxLimit[j] <= maxLimit'[j]
  BY <1>4 DEF TypeOK
<1>5. \A j \in Campaigns : maxLimit[j] <= maxLimit'[j]
  BY <1>3, <1>4 DEF Environment, IssueCode, ChangeStatus, PassTime
<1> QED
  BY <1>1, <1>2, <1>5 DEF TablesGrow

\* What a session relies on survives every step of the others.
LEMMA KnowKept ==
  ASSUME TypeOK, TypeOK', TablesGrow, NEW s \in Sessions, Know(s), sess'[s] = sess[s]
  PROVE  Know(s)'
<1> DEFINE t == sess[s]
<1>1. t \in SessionState /\ CampaignOf[t.code] \in Campaigns /\ t.code \in Codes
  BY DEF TypeOK, SessionState
<1>2. \A r \in RowsFor(t.code, t.user) : \E q \in RowsFor(t.code, t.user)' :
        q.id = r.id /\ (r.confirmed => q.confirmed)
  BY DEF TablesGrow, RowsFor, RowsOfCode, SameUser
<1>3. RowsOfCode(t.code) /= {} => RowsOfCode(t.code)' /= {}
  BY DEF TablesGrow, RowsOfCode
<1>4. codeStatus[t.code] /= ABSENT => codeStatus'[t.code] /= ABSENT
  BY <1>1 DEF TablesGrow
<1>5. t.limit <= maxLimit[CampaignOf[t.code]] => t.limit <= maxLimit'[CampaignOf[t.code]]
  BY <1>1 DEF TablesGrow, TypeOK, SessionState
<1> QED
  BY <1>2, <1>3, <1>4, <1>5 DEF Know

\* The answers other than success and "already consumed".  A call of a user
\* who had redeemed the code gets one only by a database error, or in a
\* reserve that allows several redemptions.
LEMMA KnowAnswer ==
  ASSUME IInv, NEW s \in Sessions, NEW result, Answer(s, result), result /= OK,
         sess[s].pc /= "idle",
         result = CODE_CONSUMED => RowsOfCode(sess[s].code) /= {},
         sess[s].owned /\ result /= DATABASE_ERROR
           => sess[s].op = "reserve" /\ sess[s].limit /= 1
  PROVE  Know(s)'
<1>1. sess[s] \in SessionState /\ sess'[s] = [sess[s] EXCEPT !.pc = "reply", !.result = result]
  BY DEF IInv, TypeOK, Answer, Goto
<1>2. /\ sess'[s].pc = "reply" /\ sess'[s].result = result
      /\ sess'[s].code = sess[s].code /\ sess'[s].user = sess[s].user
      /\ sess'[s].owned = sess[s].owned /\ sess'[s].op = sess[s].op
      /\ sess'[s].limit = sess[s].limit
  BY <1>1 DEF SessionState
<1>3. usage' = usage
  BY DEF Answer
<1>4. Know(s)
  BY DEF IInv
<1> QED
  BY <1>2, <1>3, <1>4 DEF Know, RowsFor, RowsOfCode, SameUser, InTransaction

LEMMA KnowStep ==
  ASSUME IInv, NEW s \in Sessions, Step(s) \/ SqlError(s) \/ Return(s)
  PROVE  Know(s)'
<1> DEFINE t == sess[s]
<1>0. /\ TypeOK /\ Tables /\ PolicySound /\ Know(s)
      /\ t \in SessionState /\ t.code \in Codes /\ CampaignOf[t.code] \in Campaigns
      /\ sess \in [Sessions -> SessionState]
  BY DEF IInv, TypeOK, SessionState
<1> USE DEF InTransaction
<1>1. CASE Lookup(s)
  <2>1. CASE Answer(s, CODE_NOT_FOUND)
    <3>1. codeStatus[t.code] = ABSENT /\ t.pc = "lookup"
      <4>1. CASE codeStatus[t.code] = ABSENT
        BY <1>1, <4>1 DEF Lookup
      <4>2. CASE codeStatus[t.code] /= ABSENT
        <5>1. sess'[s].pc = "reply"
          BY <1>0, <2>1 DEF Answer, Goto, SessionState
        <5>2. PICK l : \/ sess'[s] = [t EXCEPT !.limit = l, !.pc = "existing"]
                       \/ sess'[s] = [t EXCEPT !.limit = l, !.pc = "claim"]
                       \/ sess'[s] = [t EXCEPT !.pc = "find"]
          BY <1>0, <1>1, <4>2 DEF Lookup, Goto
        <5>3. sess'[s].pc \in {"existing", "claim", "find"}
          BY <1>0, <5>2 DEF SessionState
        <5> QED
          BY <5>1, <5>3
      <4> QED
        BY <4>1, <4>2
    <3>2. RowsFor(t.code, t.user) = {}
      BY <1>0, <3>1 DEF Tables, RowsSound, RowsFor, RowsOfCode
    <3>3. ~ t.owned
      BY <1>0, <3>1, <3>2 DEF Know
    <3> QED
      BY <2>1, <3>1, <3>3, KnowAnswer DEF OK, CODE_NOT_FOUND, CODE_CONSUMED
  <2>2. CASE ~ Answer(s, CODE_NOT_FOUND)
    <3> DEFINE l == campaign[CampaignOf[t.code]].limit
    <3>1. /\ t.pc = "lookup" /\ codeStatus[t.code] /= ABSENT
          /\ UNCHANGED <<campaign, codeStatus, usage, maxLimit>>
          /\ \/ t.op = "reserve" /\ sess'[s] = [t EXCEPT !.limit = l,
                                      !.pc = IF l = 1 THEN "existing" ELSE "claim"]
             \/ t.op = "confirm" /\ sess'[s] = [t EXCEPT !.pc = "find"]
      BY <1>0, <1>1, <2>2 DEF Lookup, Goto
    <3>2. l <= maxLimit[CampaignOf[t.code]]
      BY <1>0 DEF PolicySound
    <3>3. /\ sess'[s].code = t.code /\ sess'[s].user = t.user
          /\ sess'[s].op = t.op /\ sess'[s].owned = t.owned
          /\ \/ t.op = "reserve" /\ sess'[s].limit = l /\ l = 1 /\ sess'[s].pc = "existing"
             \/ t.op = "reserve" /\ sess'[s].limit = l /\ l /= 1 /\ sess'[s].pc = "claim"
             \/ t.op = "confirm" /\ sess'[s].pc = "find"
      <4> HIDE DEF l
      <4> QED
        BY <1>0, <3>1 DEF SessionState
    <3> HIDE DEF l
    <3> QED
      BY <1>0, <3>1, <3>2, <3>3 DEF Know, RowsFor, RowsOfCode, SameUser
  <2> QED
    BY <2>1, <2>2
<1>2. CASE FindExisting(s)
  <2> DEFINE rows == RowsFor(t.code, t.user)
  <2>1. /\ t.pc = "existing" /\ UNCHANGED <<campaign, codeStatus, usage, maxLimit>>
    BY <1>2 DEF FindExisting
  <2>2. CASE rows = {}
    <3>1. sess'[s] = [t EXCEPT !.pc = "claim"]
      BY <1>0, <1>2, <2>2 DEF FindExisting, Goto
    <3>2. /\ sess'[s].code = t.code /\ sess'[s].user = t.user /\ sess'[s].limit = t.limit
          /\ sess'[s].op = t.op /\ sess'[s].owned = t.owned /\ sess'[s].pc = "claim"
      BY <1>0, <3>1 DEF SessionState
    <3>3. ~ t.owned
      BY <1>0, <2>1, <2>2 DEF Know
    <3> QED
      BY <1>0, <2>1, <3>2, <3>3 DEF Know
  <2>3. CASE rows /= {}
    <3> DEFINE i == FirstRow(rows).id
    <3>1. sess'[s] = [t EXCEPT !.pc = "reply", !.result = OK, !.row = i]
      BY <1>0, <1>2, <2>3 DEF FindExisting, Goto
    <3>2. \E r \in rows : r.id = i
      BY <1>0, <2>3, RowsForType
    <3> HIDE DEF i
    <3>3. /\ sess'[s].code = t.code /\ sess'[s].user = t.user
          /\ sess'[s].op = t.op /\ sess'[s].owned = t.owned /\ sess'[s].pc = "reply"
          /\ sess'[s].result = OK /\ sess'[s].row = i
      BY <1>0, <3>1 DEF SessionState
    <3>4. t.op = "reserve"
      BY <1>0, <2>1 DEF Know
    <3> QED
      BY <1>0, <2>1, <2>3, <3>2, <3>3, <3>4
      DEF Know, RowsFor, RowsOfCode, SameUser, OK, CODE_CONSUMED
  <2> QED
    BY <2>2, <2>3
<1>3. CASE ClaimCode(s)
  <2>1. t.pc = "claim" /\ (t.owned => t.op = "reserve" /\ t.limit /= 1)
    BY <1>0, <1>3 DEF ClaimCode, Know
  <2>2. CASE Answer(s, CODE_CONSUMED)
    <3>1. IsRandom(t.code) /\ codeStatus[t.code] /= UNUSED
      <4>1. sess'[s] = [t EXCEPT !.pc = "reply", !.result = CODE_CONSUMED]
        BY <1>0, <2>2 DEF Answer, Goto
      <4>2. \/ sess'[s] = [t EXCEPT !.pc = "quota"]
            \/ IsRandom(t.code) /\ codeStatus[t.code] /= UNUSED
        BY <1>0, <1>3 DEF ClaimCode, Goto
      <4>3. t \in SessionState
        BY <1>0
      <4>4. sess'[s].pc = "reply"
        BY <4>1, <4>3 DEF SessionState
      <4>5. ASSUME sess'[s] = [t EXCEPT !.pc = "quota"]
            PROVE  FALSE
        BY <4>3, <4>4, <4>5 DEF SessionState
      <4> QED
        BY <4>2, <4>5
    <3>2. codeStatus[t.code] = USED
      BY <1>0, <2>1, <3>1 DEF TypeOK, CodeStatus, Know
    <3>3. Cardinality(RowsOfCode(t.code)) = 1
      BY <1>0, <3>1, <3>2 DEF Tables, RandomRedeemedOnce
    <3>4. RowsOfCode(t.code) /= {}
      BY <3>3, FS_EmptySet
    <3>5. CODE_CONSUMED /= OK
      BY DEF OK, CODE_CONSUMED
    <3> QED
      BY <2>1, <2>2, <3>4, <3>5, KnowAnswer
  <2>3. CASE ~ Answer(s, CODE_CONSUMED)
    <3>1. /\ sess'[s] = [t EXCEPT !.pc = "quota"]
          /\ UNCHANGED <<campaign, codeStatus, usage, maxLimit>>
      BY <1>0, <1>3, <2>3 DEF ClaimCode, Goto
    <3>2. /\ sess'[s].code = t.code /\ sess'[s].user = t.user /\ sess'[s].limit = t.limit
          /\ sess'[s].op = t.op /\ sess'[s].owned = t.owned /\ sess'[s].pc = "quota"
      BY <1>0, <3>1 DEF SessionState
    <3> QED
      BY <1>0, <2>1, <3>1, <3>2 DEF Know, RowsFor, RowsOfCode, SameUser
  <2> QED
    BY <2>2, <2>3
<1>4. CASE TakeQuota(s)
  <2>1. t.pc = "quota" /\ (t.owned => t.op = "reserve" /\ t.limit /= 1)
    BY <1>0, <1>4 DEF TakeQuota, Know
  <2>2. CASE Answer(s, CAMPAIGN_CLOSED)
    BY <2>1, <2>2, KnowAnswer DEF OK, CODE_CONSUMED, CAMPAIGN_CLOSED
  <2>3. CASE ~ Answer(s, CAMPAIGN_CLOSED)
    <3>1. /\ sess'[s] = [t EXCEPT !.pc = "insert"]
          /\ UNCHANGED <<campaign, codeStatus, usage, maxLimit>>
      BY <1>0, <1>4, <2>3 DEF TakeQuota, Goto
    <3>2. /\ sess'[s].code = t.code /\ sess'[s].user = t.user /\ sess'[s].limit = t.limit
          /\ sess'[s].op = t.op /\ sess'[s].owned = t.owned /\ sess'[s].pc = "insert"
      BY <1>0, <3>1 DEF SessionState
    <3> QED
      BY <1>0, <2>1, <3>1, <3>2 DEF Know, RowsFor, RowsOfCode, SameUser
  <2> QED
    BY <2>2, <2>3
<1>5. CASE InsertUsage(s)
  <2>1. /\ t.pc = "insert" /\ sess'[s] = [t EXCEPT !.pc = "count"]
        /\ UNCHANGED <<campaign, codeStatus, usage, maxLimit>>
    BY <1>0, <1>5 DEF InsertUsage, Goto
  <2>2. /\ sess'[s].code = t.code /\ sess'[s].user = t.user /\ sess'[s].limit = t.limit
        /\ sess'[s].op = t.op /\ sess'[s].owned = t.owned /\ sess'[s].pc = "count"
    BY <1>0, <2>1 DEF SessionState
  <2> QED
    BY <1>0, <2>1, <2>2 DEF Know, RowsFor, RowsOfCode, SameUser
<1>6. CASE CountAndCommit(s)
  <2>1. t.pc = "count" /\ (t.owned => t.op = "reserve" /\ t.limit /= 1) /\ t.op = "reserve"
    BY <1>0, <1>6 DEF CountAndCommit, Know
  <2>2. CASE Answer(s, USER_LIMIT)
    BY <2>1, <2>2, KnowAnswer DEF OK, CODE_CONSUMED, USER_LIMIT
  <2>3. CASE ~ Answer(s, USER_LIMIT)
    <3> DEFINE n == NewRow(s)
    <3>1. Commits(s)
      BY <1>6, <2>3 DEF CountAndCommit, Commits
    <3>2. /\ n.code = t.code /\ n.user = t.user /\ usage' = usage \cup {n}
          /\ sess' = [sess EXCEPT ![s] = [t EXCEPT !.pc = "reply", !.result = OK,
                                                  !.row = n.id]]
      BY <3>1, CommitEffect
    <3> HIDE DEF n
    <3>3. /\ sess'[s].code = t.code /\ sess'[s].user = t.user /\ sess'[s].op = t.op
          /\ sess'[s].pc = "reply" /\ sess'[s].result = OK /\ sess'[s].row = n.id
      BY <1>0, <3>2 DEF SessionState
    <3>4. n \in RowsFor(sess[s].code, sess[s].user)'
      BY <3>2, <3>3 DEF RowsFor, RowsOfCode, SameUser
    <3> QED
      BY <2>1, <3>3, <3>4 DEF Know, OK, CODE_CONSUMED
  <2> QED
    BY <2>2, <2>3
<1>7. CASE FindUsage(s)
  <2> DEFINE rows == RowsFor(t.code, t.user)
  <2>1. t.pc = "find" /\ t.op = "confirm"
    BY <1>0, <1>7 DEF FindUsage, Know
  <2>2. CASE rows = {}
    <3>1. ~ t.owned
      BY <1>0, <2>1, <2>2 DEF Know
    <3>2. Answer(s, USAGE_NOT_FOUND)
      BY <1>7, <2>2 DEF FindUsage
    <3> QED
      BY <2>1, <3>1, <3>2, KnowAnswer DEF OK, CODE_CONSUMED, USAGE_NOT_FOUND
  <2>3. CASE rows /= {}
    <3>1. PICK r \in rows :
             /\ sess'[s] = [t EXCEPT !.row = r.id, !.result = OK,
                                     !.pc = IF r.confirmed THEN "reply" ELSE "confirm"]
             /\ UNCHANGED <<campaign, codeStatus, usage, maxLimit>>
      <4>1. FirstRow(rows) \in rows
        BY <1>0, <2>3, RowsForType
      <4> QED
        BY <1>0, <1>7, <2>3, <4>1 DEF FindUsage, Goto
    <3>2. r \in RowsFor(t.code, t.user)
      BY <3>1
    <3>3. /\ sess'[s].code = t.code /\ sess'[s].user = t.user /\ sess'[s].row = r.id
          /\ sess'[s].op = "confirm" /\ sess'[s].result = OK
          /\ \/ sess'[s].pc = "reply" /\ r.confirmed
             \/ sess'[s].pc = "confirm"
      BY <1>0, <2>1, <3>1 DEF SessionState
    <3>4. r \in RowsFor(sess[s].code, sess[s].user)'
      BY <3>1, <3>2, <3>3 DEF RowsFor, RowsOfCode, SameUser
    <3> QED
      BY <3>3, <3>4 DEF Know, OK, CODE_CONSUMED
  <2> QED
    BY <2>2, <2>3
<1>8. CASE WriteConfirm(s)
  <2>1. PICK r \in usage :
           /\ r.id = t.row /\ r \in RowsFor(t.code, t.user)
           /\ usage' = (usage \ {r}) \cup {[r EXCEPT !.confirmed = TRUE]}
    BY <1>8, ConfirmEffect
  <2> DEFINE x == [r EXCEPT !.confirmed = TRUE]
  <2>2. x.id = t.row /\ x.code = r.code /\ x.user = r.user /\ x.confirmed
    BY <1>0, <2>1 DEF TypeOK, UsageRow
  <2>3. x \in usage'
    BY <2>1
  <2> HIDE DEF x
  <2>4. sess'[s] = [t EXCEPT !.pc = "reply", !.result = OK]
    BY <1>0, <1>8 DEF WriteConfirm, Goto
  <2>5. /\ sess'[s].code = t.code /\ sess'[s].user = t.user /\ sess'[s].row = t.row
        /\ sess'[s].pc = "reply" /\ sess'[s].result = OK
    BY <1>0, <2>4 DEF SessionState
  <2>6. x \in RowsFor(sess[s].code, sess[s].user)'
    BY <2>1, <2>2, <2>3, <2>5 DEF RowsFor, RowsOfCode, SameUser
  <2> QED
    BY <2>2, <2>5, <2>6 DEF Know, OK, CODE_CONSUMED
<1>9. CASE SqlError(s)
  <2>1. t.pc /= "idle" /\ Answer(s, DATABASE_ERROR)
    BY <1>9 DEF SqlError, InSql
  <2> QED
    BY <2>1, KnowAnswer DEF OK, CODE_CONSUMED, DATABASE_ERROR
<1>10. CASE Return(s)
  <2>1. sess'[s].pc = "idle"
    BY <1>0, <1>10 DEF Return, Goto, Idle
  <2> QED
    BY <2>1 DEF Know
<1> QED
  BY <1>1, <1>2, <1>3, <1>4, <1>5, <1>6, <1>7, <1>8, <1>9, <1>10 DEF Step
-----------------------------------------------------------------------------
\* Steps of one session concern no other, and what the environment does no
\* session's own state.
LEMMA SessionsApart ==
  /\ \A s \in Sessions :
       TypeOK /\ (Step(s) \/ SqlError(s) \/ Return(s))
         => \A x \in Sessions \ {s} : sess'[x] = sess[x]
  /\ Environment => sess' = sess
<1>1. ASSUME NEW s \in Sessions, TypeOK, Step(s) \/ SqlError(s) \/ Return(s)
      PROVE  \A x \in Sessions \ {s} : sess'[x] = sess[x]
  <2>1. \E fields : Goto(s, fields)
    BY <1>1 DEF Step, SqlError, Return, Lookup, FindExisting, ClaimCode, TakeQuota,
       InsertUsage, CountAndCommit, FindUsage, WriteConfirm, Answer
  <2> QED
    BY <1>1, <2>1 DEF Goto, TypeOK
<1>2. Environment => sess' = sess
  BY DEF Environment, IssueCode, PatchCampaign, ChangeStatus, PassTime
<1> QED
  BY <1>1, <1>2

LEMMA StepTables ==
  ASSUME IInv, NEW s \in Sessions, Step(s) \/ SqlError(s) \/ Return(s)
  PROVE  Tables'
<1>1. CASE Commits(s)
  BY <1>1, CommitTables
<1>2. CASE WriteConfirm(s)
  BY <1>2, ConfirmTables
<1>3. CASE ~ Commits(s) /\ ~ WriteConfirm(s)
  <2>1. UNCHANGED <<campaign, codeStatus, usage, maxLimit>>
    BY <1>3 DEF Commits, Step, SqlError, Return, Lookup, FindExisting, ClaimCode,
       TakeQuota, InsertUsage, CountAndCommit, FindUsage, Answer
  <2> QED
    BY <2>1, TablesUnchanged DEF IInv
<1> QED
  BY <1>1, <1>2, <1>3

LEMMA PolicyKept ==
  ASSUME PolicySound, maxLimit' = maxLimit,
         \A k \in Campaigns : /\ campaign'[k].usable = campaign[k].usable
                              /\ campaign'[k].limit = campaign[k].limit
  PROVE  PolicySound'
BY DEF PolicySound

LEMMA PolicyStep ==
  ASSUME IInv, [Next]_vars
  PROVE  PolicySound'
<1>0. TypeOK /\ PolicySound /\ \A k \in Campaigns : campaign[k] \in CampaignRow
  BY DEF IInv, TypeOK
<1>1. CASE UNCHANGED <<campaign, maxLimit>>
  BY <1>0, <1>1 DEF PolicySound
<1>2. ASSUME NEW s \in Sessions, Commits(s)
      PROVE  PolicySound'
  <2>1. /\ campaign' = [campaign EXCEPT ![CampaignOf[sess[s].code]].used = @ + 1]
        /\ maxLimit' = maxLimit
    BY <1>2, CommitEffect
  <2>2. \A k \in Campaigns : /\ campaign'[k].usable = campaign[k].usable
                             /\ campaign'[k].limit = campaign[k].limit
    BY <1>0, <2>1 DEF TypeOK, CampaignRow
  <2> QED
    BY <1>0, <2>1, <2>2, PolicyKept
<1>3. ASSUME NEW s \in Sessions, Step(s) \/ SqlError(s) \/ Return(s), ~ Commits(s)
      PROVE  UNCHANGED <<campaign, maxLimit>>
  BY <1>3 DEF Commits, Step, SqlError, Return, Lookup, FindExisting, ClaimCode,
     TakeQuota, InsertUsage, CountAndCommit, FindUsage, WriteConfirm, Answer
<1>4. ASSUME NEW c \in Codes, IssueCode(c)
      PROVE  PolicySound'
  <2>1. \A k \in Campaigns : /\ campaign'[k].usable = campaign[k].usable
                             /\ campaign'[k].limit = campaign[k].limit
    BY <1>0, <1>4 DEF IssueCode, TypeOK, CampaignRow
  <2> QED
    BY <1>0, <1>4, <2>1, PolicyKept DEF IssueCode
<1>5. ASSUME NEW k \in Campaigns, NEW qty \in Qtys, NEW limit \in Limits,
             PatchCampaign(k, qty, limit)
      PROVE  PolicySound'
  <2> SUFFICES ASSUME NEW j \in Campaigns
               PROVE  /\ campaign'[j].usable \in Qtys \cup {0}
                      /\ campaign'[j].limit \in Limits /\ maxLimit'[j] \in Limits
                      /\ campaign'[j].limit <= maxLimit'[j]
    BY DEF PolicySound
  <2>1. limit \in Nat /\ maxLimit[k] \in Nat
    BY <1>0 DEF TypeOK
  <2>2. CASE j = k
    <3>1. campaign'[j].usable = qty /\ campaign'[j].limit = limit
      BY <1>0, <1>5, <2>2 DEF PatchCampaign, TypeOK, CampaignRow
    <3>2. maxLimit'[j] = IF limit > maxLimit[k] THEN limit ELSE maxLimit[k]
      BY <1>0, <1>5, <2>2 DEF PatchCampaign, TypeOK
    <3>3. maxLimit[k] \in Limits
      BY <1>0 DEF PolicySound
    <3> QED
      BY <2>1, <3>1, <3>2, <3>3
  <2>3. CASE j /= k
    <3>1. campaign'[j] = campaign[j] /\ maxLimit'[j] = maxLimit[j]
      BY <1>0, <1>5, <2>3 DEF PatchCampaign, TypeOK
    <3> QED
      BY <1>0, <3>1 DEF PolicySound
  <2> QED
    BY <2>2, <2>3
<1>6. ASSUME NEW k \in Campaigns, NEW to \in CampaignStatus, ChangeStatus(k, to)
      PROVE  PolicySound'
  <2>1. \A j \in Campaigns : /\ campaign'[j].usable = campaign[j].usable
                             /\ campaign'[j].limit = campaign[j].limit
    BY <1>0, <1>6 DEF ChangeStatus, TypeOK, CampaignRow
  <2> QED
    BY <1>0, <1>6, <2>1, PolicyKept DEF ChangeStatus
<1>7. ASSUME NEW k \in Campaigns, PassTime(k)
      PROVE  PolicySound'
  <2>1. \A j \in Campaigns : /\ campaign'[j].usable = campaign[j].usable
                             /\ campaign'[j].limit = campaign[j].limit
    BY <1>0, <1>7 DEF PassTime, TypeOK, CampaignRow
  <2> QED
    BY <1>0, <1>7, <2>1, PolicyKept DEF PassTime
<1>8. ASSUME NEW s \in Sessions, NEW op, NEW c, NEW u, Call(s, op, c, u)
      PROVE  UNCHANGED <<campaign, maxLimit>>
  BY <1>8 DEF Call
<1> QED
  BY <1>1, <1>2, <1>3, <1>4, <1>5, <1>6, <1>7, <1>8 DEF Next, vars

LEMMA InitInv == Init => IInv
<1> SUFFICES ASSUME Init
             PROVE  IInv
  OBVIOUS
<1>1. TypeOK
  BY InitType
<1>2. usage = {} /\ \A c \in Codes : codeStatus[c] = ABSENT
  BY DEF Init
<1>3. \A k \in Campaigns : /\ campaign[k].used = 0 /\ campaign[k].usable = 0
                          /\ campaign[k].generated = 0 /\ campaign[k].limit \in Limits
                          /\ maxLimit[k] = campaign[k].limit
  BY DEF Init
<1>4. \A s \in Sessions : sess[s].pc = "idle"
  BY DEF Init, Idle
<1>5. Tables
  <2>0. Cardinality({}) = 0
    BY FS_EmptySet
  <2>1. /\ \A k \in Campaigns : RowsOf(k) = {}
        /\ \A k \in Campaigns, u \in Users : RowsOfUser(k, u) = {}
        /\ \A c \in Codes : RowsOfCode(c) = {}
    BY <1>2 DEF RowsOf, RowsOfUser, RowsOfCode
  <2>2. UsedMatchesLedger
    BY <1>3, <2>0, <2>1 DEF UsedMatchesLedger
  <2>4. RandomRedeemedOnce
    BY <1>2, <2>0, <2>1 DEF RandomRedeemedOnce, ABSENT, USED
  <2>3. UserCeiling
    <3>1. \A k \in Campaigns : maxLimit[k] \in Nat
      BY <1>1 DEF TypeOK
    <3> QED
      BY <2>1, <3>1, FS_EmptySet DEF UserCeiling
  <2> QED
    BY <1>2, <1>3, <2>2, <2>3, <2>4 DEF Tables, QtyBounded, RowsSound
<1>6. PolicySound
  <2>1. \A k \in Campaigns : campaign[k].limit \in Nat
    BY <1>1 DEF TypeOK, CampaignRow
  <2> QED
    BY <1>3, <2>1 DEF PolicySound
<1>7. PremisesHold
  BY <1>4 DEF PremisesHold, HoldsCode, HoldsCampaign
<1>8. \A s \in Sessions : Know(s)
  BY <1>4 DEF Know, InTransaction
<1> QED
  BY <1>1, <1>5, <1>6, <1>7, <1>8 DEF IInv

LEMMA InvStep == IInv /\ [Next]_vars => IInv'
<1> SUFFICES ASSUME IInv, [Next]_vars
             PROVE  IInv'
  OBVIOUS
<1>1. TypeOK /\ TypeOK'
  BY TypeStep DEF IInv
<1>2. PolicySound'
  BY PolicyStep
<1>3. CASE UNCHANGED vars
  <2>1. Tables' /\ TablesGrow
    BY <1>1, <1>3, TablesUnchanged, GrowUnchanged DEF IInv, vars
  <2>2. PremisesHold'
    BY <1>3, PremisesKept DEF IInv, vars, HoldsCode, HoldsCampaign, IsRandom
  <2>3. \A s \in Sessions : Know(s)'
    BY <1>1, <1>3, <2>1, KnowKept DEF IInv, vars
  <2> QED
    BY <1>1, <1>2, <2>1, <2>2, <2>3 DEF IInv
<1>4. ASSUME NEW s \in Sessions, NEW op \in {"reserve", "confirm"}, NEW c \in Codes,
             NEW u \in Users, Call(s, op, c, u)
      PROVE  IInv'
  <2> DEFINE t == [Idle EXCEPT !.pc = "lookup", !.op = op, !.code = c, !.user = u,
                               !.owned = RowsFor(c, u) /= {}]
  <2>1. Goto(s, t) /\ UNCHANGED <<campaign, codeStatus, usage, maxLimit>>
    BY <1>4 DEF Call
  <2>2. t.pc = "lookup" /\ t.code = c /\ t.user = u /\ t.owned = (RowsFor(c, u) /= {})
    BY DEF Idle
  <2> HIDE DEF t
  <2>3. PremisesHold'
    BY <2>1, <2>2, PremisesGoto
  <2>4. Tables' /\ TablesGrow
    BY <1>1, <2>1, TablesUnchanged, GrowUnchanged DEF IInv
  <2>5. sess'[s] = t /\ \A x \in Sessions \ {s} : sess'[x] = sess[x]
    BY <1>1, <2>1 DEF Goto, TypeOK
  <2>6. Know(s)'
    BY <2>1, <2>2, <2>5 DEF Know, InTransaction, RowsFor, RowsOfCode, SameUser
  <2>7. \A x \in Sessions \ {s} : Know(x)'
    BY <1>1, <2>4, <2>5, KnowKept DEF IInv
  <2> QED
    BY <1>1, <1>2, <2>3, <2>4, <2>6, <2>7 DEF IInv
<1>5. ASSUME NEW s \in Sessions, Step(s) \/ SqlError(s) \/ Return(s)
      PROVE  IInv'
  <2>1. Tables' /\ PremisesHold' /\ Know(s)'
    BY <1>5, StepTables, StepPremises, KnowStep
  <2>2. \A x \in Sessions \ {s} : Know(x)'
    BY <1>1, <1>5, GrowSession, SessionsApart, KnowKept DEF IInv
  <2> QED
    BY <1>1, <1>2, <2>1, <2>2 DEF IInv
<1>6. CASE Environment
  <2>1. \A s \in Sessions : Know(s)'
    BY <1>1, <1>6, GrowEnvironment, SessionsApart, KnowKept DEF IInv
  <2> QED
    BY <1>1, <1>2, <1>6, <2>1, EnvironmentTables, EnvironmentPremises DEF IInv
<1> QED
  BY <1>3, <1>4, <1>5, <1>6 DEF Next, Environment

\* The inductive invariant holds in every reachable state.
THEOREM InvCorrect == Spec => []IInv
BY InitInv, InvStep, PTL DEF Spec

\* used_qty is the number of redemptions, a RANDOM code is redeemed at most
\* once and marked USED exactly then, no campaign is redeemed more often than
\* it was generated for, and no user more often than the highest limit.
THEOREM TablesCorrect == Spec => []TablesSound
<1>1. IInv => TablesSound
  BY DEF IInv, Tables, QtyBounded, NoOversell, TablesSound
<1> QED
  BY <1>1, InvCorrect, PTL

\* What a transaction verified under a lock is true when it commits.
THEOREM LocksCorrect == Spec => []PremisesHold
<1>1. IInv => PremisesHold
  BY DEF IInv
<1> QED
  BY <1>1, InvCorrect, PTL

\* Game servers can trust the answers: "consumed" is final, a retry of a
\* committed redemption succeeds, and a success names a committed row.
THEOREM AnswersCorrect == Spec => []AnswersSound
<1>1. IInv => AnswersSound
  BY DEF IInv, Know, RejectionIsFinal, RetrySucceeds, SuccessIsRecorded, AnswersSound
<1> QED
  BY <1>1, InvCorrect, PTL

\* Two who were told of a success for the same RANDOM code are the same user
\* to the database.
LEMMA WinnersFold ==
  ASSUME IInv, NEW s \in Sessions, NEW t \in Sessions,
         sess[s].pc = "reply" /\ sess[s].result = OK,
         sess[t].pc = "reply" /\ sess[t].result = OK,
         sess[s].code = sess[t].code, IsRandom(sess[s].code)
  PROVE  FoldOf[sess[s].user] = FoldOf[sess[t].user]
<1>1. PICK c \in Codes : c = sess[s].code /\ c = sess[t].code /\ IsRandom(c)
  BY DEF IInv, TypeOK, SessionState
<1>2. PICK r \in RowsOfCode(c) : SameUser(r.user, sess[s].user)
  BY <1>1 DEF IInv, Know, RowsFor
<1>3. PICK q \in RowsOfCode(c) : SameUser(q.user, sess[t].user)
  BY <1>1 DEF IInv, Know, RowsFor
<1>4. PICK R : R = RowsOfCode(c)
  OBVIOUS
<1>5. IsFiniteSet(R) /\ Cardinality(R) \in Nat /\ Cardinality(R) <= 1
  <2>1. IsFiniteSet(R) /\ Cardinality(R) \in Nat
    BY <1>4, SelectionsFinite DEF IInv
  <2>2. Cardinality(R) \in {0, 1}
    BY <1>1, <1>4 DEF IInv, Tables, RandomRedeemedOnce
  <2> QED
    BY <2>1, <2>2
<1>6. r = q
  <2> SUFFICES ASSUME r # q
               PROVE  FALSE
    OBVIOUS
  <2>1. {r, q} \in SUBSET R /\ Cardinality({r, q}) = 2
    <3>1. IsFiniteSet({r}) /\ Cardinality({r}) = 1 /\ q \notin {r}
      BY FS_Singleton
    <3>2. Cardinality({r} \cup {q}) = Cardinality({r}) + 1
      BY <3>1, FS_AddElement
    <3>3. {r} \cup {q} = {r, q}
      OBVIOUS
    <3> QED
      BY <1>2, <1>3, <1>4, <3>1, <3>2, <3>3
  <2>2. Cardinality({r, q}) <= Cardinality(R)
    BY <1>5, <2>1, FS_Subset
  <2> QED
    BY <1>5, <2>1, <2>2
<1> QED
  BY <1>2, <1>3, <1>6 DEF SameUser

\* If ids that differ are different users to the collation too, a RANDOM code
\* has one winner.
THEOREM OneWinnerCorrect ==
  ASSUME \A u, v \in Users : FoldOf[u] = FoldOf[v] => u = v
  PROVE  Spec => []OneWinnerPerRandomCode
<1>1. IInv => OneWinnerPerRandomCode
  <2> SUFFICES ASSUME IInv, NEW s \in Sessions, NEW t \in Sessions,
                      sess[s].pc = "reply" /\ sess[s].result = OK,
                      sess[t].pc = "reply" /\ sess[t].result = OK,
                      sess[s].code = sess[t].code, IsRandom(sess[s].code)
               PROVE  sess[s].user = sess[t].user
    BY DEF OneWinnerPerRandomCode
  <2>1. sess[s].user \in Users /\ sess[t].user \in Users
    BY DEF IInv, TypeOK, SessionState
  <2> QED
    BY <2>1, WinnersFold
<1> QED
  BY <1>1, InvCorrect, PTL
-----------------------------------------------------------------------------
\* The constants of CouponSchema that both modules extend
USE DEF ACTIVE, ENDED, ABSENT, Ledger!ACTIVE, Ledger!ENDED, Ledger!RANDOM

\* The policy a ledger reads off the campaign row
PolicyOf(k) == [status |-> campaign[k].status, usable |-> campaign[k].usable,
                ceiling |-> maxLimit[k]]

LEMMA LedgerInitially == Init => Ledger!LedgerInit
<1> SUFFICES ASSUME Init
             PROVE  Ledger!LedgerInit
  OBVIOUS
<1>1. \A k \in Campaigns : /\ campaign[k].status = ACTIVE /\ campaign[k].usable = 0
                          /\ maxLimit[k] \in Limits
  BY DEF Init
<1>2. usage = {} /\ {c \in Codes : codeStatus[c] /= ABSENT} = {}
  BY DEF Init
<1> QED
  BY <1>1, <1>2 DEF Ledger!LedgerInit

\* A step that leaves the policies, the codes and the redemptions is no step
\* of the ledger.
LEMMA LedgerStutters ==
  ASSUME usage' = usage, codeStatus' = codeStatus, maxLimit' = maxLimit,
         \A k \in Campaigns : /\ campaign'[k].status = campaign[k].status
                              /\ campaign'[k].usable = campaign[k].usable
  PROVE  UNCHANGED Ledger!ledgerVars
BY DEF Ledger!ledgerVars

\* The instance has its own copy of the operator.
LEMMA SameCardinality == \A S : Ledger!Cardinality(S) = Cardinality(S)
BY DEF Cardinality, Ledger!Cardinality

LEMMA RedeemEffect ==
  ASSUME NEW c, NEW u, NEW k, k = CampaignOf[c],
         c \in {d \in Codes : codeStatus[d] /= ABSENT},
         CodeType[k] = RANDOM => \A e \in usage : e.code /= c,
         [j \in Campaigns |-> PolicyOf(j)][k].status = ACTIVE,
         Cardinality(Ledger!EntriesOf(k)) < [j \in Campaigns |-> PolicyOf(j)][k].usable,
         Cardinality(Ledger!EntriesOfUser(k, u))
           < [j \in Campaigns |-> PolicyOf(j)][k].ceiling,
         usage' = usage \cup {[id |-> Cardinality(usage) + 1, code |-> c,
                              user |-> u, confirmed |-> FALSE]},
         UNCHANGED [j \in Campaigns |-> PolicyOf(j)],
         UNCHANGED {d \in Codes : codeStatus[d] /= ABSENT}
  PROVE  Ledger!Redeem(c, u)
<1>1. UNCHANGED <<[j \in Campaigns |-> PolicyOf(j)], {d \in Codes : codeStatus[d] /= ABSENT}>>
  OBVIOUS
<1> QED
  BY <1>1, SameCardinality DEF Ledger!Redeem, PolicyOf

LEMMA CommitRedeems ==
  ASSUME IInv, NEW s \in Sessions, Commits(s)
  PROVE  Ledger!Redeem(sess[s].code, sess[s].user)
<1> DEFINE c == sess[s].code
           u == sess[s].user
           k == CampaignOf[c]
           policy == [j \in Campaigns |-> PolicyOf(j)]
<1>1. /\ c \in Codes /\ k \in Campaigns /\ u \in Users
      /\ HoldsCampaign(s, k) /\ (IsRandom(c) => HoldsCode(s, c))
      /\ usage' = usage \cup {NewRow(s)}
      /\ campaign' = [campaign EXCEPT ![k].used = @ + 1]
      /\ codeStatus' = IF IsRandom(c) THEN [codeStatus EXCEPT ![c] = USED] ELSE codeStatus
      /\ maxLimit' = maxLimit
  BY CommitEffect
<1>2. TypeOK /\ Tables /\ PremisesHold /\ Know(s)
  BY DEF IInv
<1>3. codeStatus[c] /= ABSENT /\ sess[s].limit <= maxLimit[k] /\ WithinLimit(s)
  BY <1>2 DEF Know, Commits, CountAndCommit, InTransaction
<1>4. Ledger!EntriesOf(k) = RowsOf(k) /\ Ledger!EntriesOfUser(k, u) = RowsOfUser(k, u)
  BY DEF Ledger!EntriesOf, Ledger!EntriesOfUser, RowsOf, RowsOfUser, SameUser
<1>5. CodeType[k] = RANDOM => \A e \in usage : e.code /= c
  <2> SUFFICES ASSUME IsRandom(c)
               PROVE  \A e \in usage : e.code /= c
    BY DEF IsRandom
  <2>1. codeStatus[c] = UNUSED
    BY <1>1, <1>2 DEF PremisesHold
  <2>2. Cardinality(RowsOfCode(c)) = 0
    BY <1>1, <1>2, <2>1 DEF Tables, RandomRedeemedOnce, UNUSED, USED
  <2>3. RowsOfCode(c) = {}
    BY <1>2, <2>2, SelectionsFinite, FS_EmptySet
  <2> QED
    BY <2>3 DEF RowsOfCode
<1>6. /\ campaign[k].status = ACTIVE
      /\ Cardinality(RowsOf(k)) < campaign[k].usable
  BY <1>1, <1>2 DEF PremisesHold, Tables, UsedMatchesLedger
<1>7. Cardinality(RowsOfUser(k, u)) < maxLimit[k]
  <2>1. sess[s].limit \in Nat /\ maxLimit[k] \in Nat /\ Cardinality(RowsOfUser(k, u)) \in Nat
    BY <1>1, <1>2, SelectionsFinite DEF TypeOK, SessionState
  <2> QED
    BY <1>3, <2>1 DEF WithinLimit
<1>8. /\ policy[k].status = ACTIVE
      /\ Cardinality(Ledger!EntriesOf(k)) < policy[k].usable
      /\ Cardinality(Ledger!EntriesOfUser(k, u)) < policy[k].ceiling
  BY <1>1, <1>4, <1>6, <1>7 DEF PolicyOf
<1>9. policy' = policy
  <2>1. \A j \in Campaigns : /\ campaign'[j].status = campaign[j].status
                             /\ campaign'[j].usable = campaign[j].usable
    BY <1>1, <1>2 DEF TypeOK, CampaignRow
  <2> QED
    BY <1>1, <2>1 DEF PolicyOf
<1>10. {d \in Codes : codeStatus'[d] /= ABSENT} = {d \in Codes : codeStatus[d] /= ABSENT}
  BY <1>1, <1>2, <1>3 DEF TypeOK, USED, ABSENT
<1>11. usage' = usage \cup {[id |-> Cardinality(usage) + 1, code |-> c,
                             user |-> u, confirmed |-> FALSE]}
  BY <1>1 DEF NewRow
<1>12. c \in {d \in Codes : codeStatus[d] /= ABSENT}
  BY <1>1, <1>3
<1> QED
  BY <1>1, <1>5, <1>8, <1>9, <1>10, <1>11, <1>12, RedeemEffect

LEMMA PublishEffect ==
  ASSUME TypeOK, NEW k \in Campaigns, NEW status, NEW usable, NEW limit,
         campaign[k].status /= ENDED,
         usage' = usage, codeStatus' = codeStatus,
         \A j \in Campaigns \ {k} : /\ campaign'[j] = campaign[j]
                                    /\ maxLimit'[j] = maxLimit[j],
         campaign'[k].status = status, campaign'[k].usable = usable,
         maxLimit'[k] = IF limit > maxLimit[k] THEN limit ELSE maxLimit[k]
  PROVE  Ledger!Publish(k, status, usable, limit)
<1> DEFINE old == [j \in Campaigns |-> PolicyOf(j)]
           new == [status |-> status, usable |-> usable, ceiling |->
                     IF limit > old[k].ceiling THEN limit ELSE old[k].ceiling]
<1>1. old[k] = PolicyOf(k) /\ old[k].status /= ENDED /\ old[k].ceiling = maxLimit[k]
  BY DEF PolicyOf
<1>2. PolicyOf(k)' = new
  BY <1>1 DEF PolicyOf
<1>3. \A j \in Campaigns \ {k} : PolicyOf(j)' = PolicyOf(j)
  BY DEF PolicyOf
<1>4. [j \in Campaigns |-> PolicyOf(j)'] = [old EXCEPT ![k] = new]
  <2> HIDE DEF new
  <2> QED
    BY <1>2, <1>3
<1> QED
  BY <1>1, <1>4 DEF PolicyOf, Ledger!Publish

LEMMA SameStatuses == Ledger!CampaignStatus = CampaignStatus
BY DEF CampaignStatus, Ledger!CampaignStatus, WAITING, PAUSED, Ledger!WAITING, Ledger!PAUSED

LEMMA LedgerStep == IInv /\ [Next]_vars => [Ledger!LedgerNext]_Ledger!ledgerVars
<1> SUFFICES ASSUME IInv, [Next]_vars
             PROVE  Ledger!LedgerNext \/ UNCHANGED Ledger!ledgerVars
  OBVIOUS
<1>0. TypeOK /\ PolicySound /\ \A k \in Campaigns : campaign[k] \in CampaignRow
  BY DEF IInv, TypeOK
<1>1. ASSUME UNCHANGED <<campaign, codeStatus, usage, maxLimit>>
      PROVE  UNCHANGED Ledger!ledgerVars
  BY <1>1, LedgerStutters
<1>2. ASSUME NEW s \in Sessions, Step(s) \/ SqlError(s) \/ Return(s)
      PROVE  Ledger!LedgerNext \/ UNCHANGED Ledger!ledgerVars
  <2>1. CASE Commits(s)
    <3>1. sess[s].code \in Codes /\ sess[s].user \in Users
      BY <1>0 DEF TypeOK, SessionState
    <3> QED
      BY <2>1, <3>1, CommitRedeems DEF Ledger!LedgerNext
  <2>2. CASE WriteConfirm(s)
    <3>1. PICK r \in usage : usage' = (usage \ {r}) \cup {[r EXCEPT !.confirmed = TRUE]}
      BY <2>2, ConfirmEffect
    <3>2. UNCHANGED <<campaign, codeStatus, maxLimit>>
      BY <2>2 DEF WriteConfirm
    <3>3. Ledger!Confirm(r)
      BY <3>1, <3>2 DEF Ledger!Confirm
    <3> QED
      BY <3>3 DEF Ledger!LedgerNext
  <2>3. CASE ~ Commits(s) /\ ~ WriteConfirm(s)
    <3>1. UNCHANGED <<campaign, codeStatus, usage, maxLimit>>
      BY <1>2, <2>3 DEF Commits, Step, SqlError, Return, Lookup, FindExisting, ClaimCode,
         TakeQuota, InsertUsage, CountAndCommit, FindUsage, Answer
    <3> QED
      BY <1>1, <3>1
  <2> QED
    BY <2>1, <2>2, <2>3
<1>3. ASSUME NEW c \in Codes, IssueCode(c)
      PROVE  Ledger!LedgerNext
  <2>1. \A k \in Campaigns : /\ campaign'[k].status = campaign[k].status
                             /\ campaign'[k].usable = campaign[k].usable
    BY <1>0, <1>3 DEF IssueCode, TypeOK, CampaignRow
  <2>2. {d \in Codes : codeStatus'[d] /= ABSENT}
          = {d \in Codes : codeStatus[d] /= ABSENT} \cup {c}
    BY <1>0, <1>3 DEF IssueCode, TypeOK, UNUSED, ABSENT
  <2>3. Ledger!Issue(c)
    BY <1>3, <2>1, <2>2 DEF IssueCode, Ledger!Issue
  <2> QED
    BY <2>3 DEF Ledger!LedgerNext
<1>4. ASSUME NEW k \in Campaigns, NEW qty \in Qtys, NEW limit \in Limits,
             PatchCampaign(k, qty, limit)
      PROVE  Ledger!LedgerNext
  <2>1. /\ campaign'[k].status = campaign[k].status /\ campaign'[k].usable = qty
        /\ \A j \in Campaigns \ {k} : campaign'[j] = campaign[j] /\ maxLimit'[j] = maxLimit[j]
        /\ maxLimit'[k] = IF limit > maxLimit[k] THEN limit ELSE maxLimit[k]
    BY <1>0, <1>4 DEF PatchCampaign, TypeOK, CampaignRow
  <2>2. Ledger!Publish(k, campaign[k].status, qty, limit)
    BY <1>0, <1>4, <2>1, PublishEffect DEF PatchCampaign
  <2>3. campaign[k].status \in CampaignStatus
    BY <1>0 DEF CampaignRow
  <2> QED
    BY <2>2, <2>3, SameStatuses DEF Ledger!LedgerNext
<1>5. ASSUME NEW k \in Campaigns, NEW to \in CampaignStatus, ChangeStatus(k, to)
      PROVE  Ledger!LedgerNext
  <2>0. PICK usable, limit : usable = campaign[k].usable /\ limit = campaign[k].limit
    OBVIOUS
  <2>1. /\ campaign'[k].status = to /\ campaign'[k].usable = usable
        /\ campaign[k].status /= ENDED
        /\ \A j \in Campaigns \ {k} : campaign'[j] = campaign[j] /\ maxLimit'[j] = maxLimit[j]
        /\ UNCHANGED <<maxLimit, usage, codeStatus>>
    BY <1>0, <1>5, <2>0 DEF ChangeStatus, TypeOK, CampaignRow, ACTIVE, PAUSED, ENDED
  <2>2. /\ usable \in Qtys \cup {0} /\ limit \in Limits
        /\ limit \in Nat /\ maxLimit[k] \in Nat /\ limit <= maxLimit[k]
    BY <1>0, <2>0 DEF PolicySound, TypeOK
  <2>3. Ledger!Publish(k, to, usable, limit)
    <3>1. maxLimit'[k] = IF limit > maxLimit[k] THEN limit ELSE maxLimit[k]
      BY <2>1, <2>2
    <3>2. /\ campaign[k].status /= ENDED /\ usage' = usage /\ codeStatus' = codeStatus
          /\ campaign'[k].status = to /\ campaign'[k].usable = usable
          /\ \A j \in Campaigns \ {k} : campaign'[j] = campaign[j] /\ maxLimit'[j] = maxLimit[j]
      BY <2>1
    <3> QED
      BY <1>0, <3>1, <3>2, PublishEffect
  <2> QED
    BY <2>2, <2>3, SameStatuses DEF Ledger!LedgerNext
<1>6. ASSUME NEW k \in Campaigns, PassTime(k)
      PROVE  UNCHANGED Ledger!ledgerVars
  <2>1. \A j \in Campaigns : /\ campaign'[j].status = campaign[j].status
                             /\ campaign'[j].usable = campaign[j].usable
    BY <1>0, <1>6 DEF PassTime, TypeOK, CampaignRow
  <2> QED
    BY <1>6, <2>1, LedgerStutters DEF PassTime
<1>7. ASSUME NEW s \in Sessions, NEW op, NEW c, NEW u, Call(s, op, c, u)
      PROVE  UNCHANGED <<campaign, codeStatus, usage, maxLimit>>
  BY <1>7 DEF Call
<1> QED
  BY <1>1, <1>2, <1>3, <1>4, <1>5, <1>6, <1>7 DEF Next, vars

\* The statements of reserve and confirm, interleaved with each other and with
\* the administrators, implement the atomic ledger of CouponLedger.
THEOREM LedgerImplemented == Spec => ImplementsLedger
BY LedgerInitially, LedgerStep, InvCorrect, PTL
DEF Spec, ImplementsLedger, Ledger!LedgerSpec
=============================================================================
