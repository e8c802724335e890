----------------------------- MODULE CodeExport -----------------------------
(***************************************************************************)
(* The CSV export of the codes tab: it pages through the code list of a    *)
(* campaign by OFFSET, one request after the other, until it holds as many *)
(* codes as the last answer counted, while codes go on being generated and *)
(* redeemed.                                                               *)
(***************************************************************************)
EXTENDS Naturals, Sequences, FiniteSets, SequencesExt

CONSTANTS MaxCodes,  \* bound on the codes of the campaign
          PageSize   \* EXPORT_PAGE_SIZE

ASSUME ExportAssumption == MaxCodes \in Nat /\ PageSize \in Nat \ {0}

Unused == 1
Used == 2
Everything == 3     \* no status filter

VARIABLES
    codes,    \* status of each code, in the order of coupon_code_id
    filter,   \* the status filter of the tab
    file,     \* codeValues: the ids collected
    next,     \* currentPage
    total,    \* total_count of the last answer; MaxCodes + 1 stands for Infinity
    before,   \* the codes there were when the export began
    exporting

exportVars == <<codes, filter, file, next, total, before, exporting>>

-----------------------------------------------------------------------------
\* SP_CAMPAIGN_CODE_LIST: the ids that match the filter, if there is one, in
\* ascending order: as many match up to the n-th as its place says
Matching == {i \in 1..Len(codes) : filter \in {Everything, codes[i]}}
MatchingTo(i) == {j \in Matching : j <= i}
Listed == [n \in 1..Cardinality(Matching) |->
             CHOOSE i \in Matching : Cardinality(MatchingTo(i)) = n]
Slice(s, k) ==
    LET last == k * PageSize
    IN  SubSeq(s, last - PageSize + 1, IF last > Len(s) THEN Len(s) ELSE last)
\* Mutant: the newest code first, as in the lists of campaigns and usages.
PageNewestFirst(k) == Slice(Reverse(Listed), k)
\* LIMIT and OFFSET over coupon_code_id ASC
PageOf(k) == Slice(Listed, k)

Generate ==
    /\ Len(codes) < MaxCodes
    /\ codes' = Append(codes, Unused)
    /\ UNCHANGED <<filter, file, next, total, before, exporting>>
Redeem(i) ==
    /\ codes[i] = Unused
    /\ codes' = [codes EXCEPT ![i] = Used]
    /\ UNCHANGED <<filter, file, next, total, before, exporting>>

\* handleExportCsv, from the button to the first request
StartExport(f) ==
    /\ ~exporting
    /\ codes # << >>   \* the button asks the last total_count, which may be out of date
    /\ filter' = f /\ file' = << >> /\ next' = 1 /\ total' = MaxCodes + 1
    /\ before' = Len(codes) /\ exporting' = TRUE
    /\ UNCHANGED codes

\* One request of the loop and what is done with its answer
FetchPage ==
    /\ exporting
    /\ file' = file \o PageOf(next)
    /\ total' = Len(Listed)
    /\ next' = next + 1
    /\ exporting' = (PageOf(next) # << >> /\ Len(file') < total')
    /\ UNCHANGED <<codes, filter, before>>

\* A request fails: a message instead of a file
FailExport ==
    /\ exporting
    /\ exporting' = FALSE /\ file' = << >>
    /\ UNCHANGED <<codes, filter, next, total, before>>

ExportInit ==
    /\ codes \in {[i \in 1..n |-> Unused] : n \in 0..MaxCodes}
    /\ filter = Everything
    /\ file = << >> /\ next = 1 /\ total = 0 /\ before = 0 /\ exporting = FALSE
ExportNext ==
    \/ Generate \/ FetchPage \/ FailExport
    \/ \E i \in 1..Len(codes) : Redeem(i)
    \/ \E f \in {Unused, Used, Everything} : StartExport(f)
ExportSpec == ExportInit /\ [][ExportNext]_exportVars

-----------------------------------------------------------------------------
(* The variables have their types, and the loop ends: it asks for no page  *)
(* past the one that holds the last code there can be.                     *)
ExportTypeOK ==
    /\ codes \in Seq({Unused, Used}) /\ Len(codes) <= MaxCodes
    /\ filter \in {Unused, Used, Everything} /\ exporting \in BOOLEAN
    /\ file \in Seq(1..MaxCodes)
    /\ exporting => (next - 1) * PageSize <= MaxCodes

(* The file of an export without a status filter has every code there was  *)
(* when it began, and none twice, although codes are generated and         *)
(* redeemed between its pages. (With a filter, a redemption shortens the   *)
(* list under the export and the next OFFSET skips a code.)                *)
ExportIsComplete ==
    filter = Everything =>
        /\ IsInjective(file)
        /\ (~exporting /\ file # << >>) => 1..before \subseteq {file[i] : i \in DOMAIN file}
=============================================================================
