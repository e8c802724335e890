---------------------------- MODULE ConsoleLists ----------------------------
(***************************************************************************)
(* The list screens of the admin console. Each keeps a page number, some   *)
(* filters and the rows of its last answer, and fetches again whenever one *)
(* of them, or the company or project selected in the header, changes. The *)
(* fetches overlap and are answered in any order; React runs the cleanup   *)
(* of the previous fetch before it starts the next.                        *)
(***************************************************************************)
EXTENDS Naturals, FiniteSets, NoValue

CONSTANTS
    Selections,   \* companies or projects the header can select
    Filters,      \* combinations of the screen's filters
    Pages,        \* page numbers, 1 among them
    MaxFetches   \* bound on the fetches under way

ASSUME ListAssumption == /\ 1 \in Pages /\ Pages \subseteq Nat
                  /\ MaxFetches \in Nat \ {0, 1}
                  /\ NULL \notin Selections \cup Filters

VARIABLES
    screen,   \* which of the list screens this is
    asked,    \* its state: selection, filter, page
    fetches,  \* under way; live unless its cleanup has run
    rows,     \* the query whose answer is in the table, NULL before the first
    fetching, \* loading
    failed,   \* errorMessage # null
    chosen    \* the page the administrator chose, for which selection and filter

listVars == <<screen, asked, fetches, rows, fetching, failed, chosen>>

-----------------------------------------------------------------------------
(* The screens. follows: the header's selection is part of the query, and  *)
(* its change resets the page. cancels: the effect returns a cleanup that  *)
(* makes the answer of the fetch it started void.                          *)
List(name, follows) == [name |-> name, follows |-> follows, cancels |-> TRUE]

UserList      == List("users", TRUE)
ProjectList   == List("projects", TRUE)
CompanyList   == List("companies", FALSE)
CampaignList  == List("campaigns", TRUE)
AuditLogs     == List("audit-logs", TRUE)
RateLimitLogs == List("rate-limit-logs", TRUE)
CouponUseLogs == List("coupon-use-logs", TRUE)
UsagesTab     == List("usages", FALSE)
LogsTab       == List("logs", FALSE)
\* loadCodes is called by an effect without a cleanup, and by the handlers
CodesTab      == [name |-> "codes", follows |-> FALSE, cancels |-> FALSE]

Screens == {UserList, ProjectList, CompanyList, CampaignList, AuditLogs, RateLimitLogs,
            CouponUseLogs, UsagesTab, LogsTab, CodesTab}
Queries == [selection : Selections, filter : Filters, page : Pages]

-----------------------------------------------------------------------------
\* The fetches there are once the effect has run again
Cleaned(fs) == IF screen.cancels THEN {[f EXCEPT !.live = FALSE] : f \in fs} ELSE fs

Fetch(q) == [query |-> q, live |-> TRUE]
Refetch(q) ==
    /\ Cardinality(fetches) < MaxFetches
    /\ fetches' = {f \in Cleaned(fetches) : f.query # q \/ ~f.live} \cup {Fetch(q)}
    /\ fetching' = TRUE
    /\ failed' = FALSE

ChangeFilter(v) ==
    /\ v # asked.filter
    /\ asked' = [asked EXCEPT !.filter = v, !.page = 1]
    /\ Refetch(asked')
    /\ UNCHANGED <<screen, rows, chosen>>

ChangePage(p) ==
    /\ p # asked.page
    /\ asked' = [asked EXCEPT !.page = p]
    /\ chosen' = asked'
    /\ Refetch(asked')
    /\ UNCHANGED <<screen, rows>>

\* Mutant: the page number outlives the selection it was chosen for.
ChangeSelectionKeepingPage(s) ==
    /\ screen.follows /\ s # asked.selection
    /\ asked' = [asked EXCEPT !.selection = s]
    /\ Refetch(asked')
    /\ UNCHANGED <<screen, rows, chosen>>

\* The header selects another company or project: both effects run, so a fetch
\* of the old page number precedes the one of page 1
ChangeSelection(s) ==
    /\ screen.follows /\ s # asked.selection
    /\ asked' = [asked EXCEPT !.selection = s, !.page = 1]
    /\ Cardinality(fetches) + 1 < MaxFetches \/ asked.page = 1
    /\ Cardinality(fetches) < MaxFetches
    /\ LET early == IF asked.page = 1 THEN {}
                    ELSE {Fetch([asked EXCEPT !.selection = s])}
       IN  fetches' = Cleaned(fetches \cup early) \cup {Fetch(asked')}
    /\ fetching' = TRUE /\ failed' = FALSE
    /\ UNCHANGED <<screen, rows, chosen>>

\* The codes are loaded anew when the generation makes progress or a FIXED code
\* has been registered; the handler of the latter still sees filter and page as
\* they were when it was clicked
ReloadCodes ==
    /\ screen = CodesTab
    /\ \E q \in Queries : q.selection = asked.selection /\ Refetch(q)
    /\ UNCHANGED <<screen, asked, rows, chosen>>

Answer(f) ==
    /\ fetches' = fetches \ {f}
    /\ rows' = IF f.live THEN f.query ELSE rows
    /\ fetching' = (fetching /\ ~f.live)
    /\ UNCHANGED <<screen, asked, failed, chosen>>
Error(f) ==
    /\ fetches' = fetches \ {f}
    /\ failed' = (failed \/ f.live)
    /\ fetching' = (fetching /\ ~f.live)
    /\ UNCHANGED <<screen, asked, rows, chosen>>

-----------------------------------------------------------------------------
ListInit ==
    /\ screen \in Screens
    /\ asked \in [selection : Selections, filter : Filters, page : {1}]
    /\ chosen = asked
    /\ fetches = {Fetch(asked)}
    /\ rows = NULL /\ fetching = TRUE /\ failed = FALSE
ListNext ==
    \/ \E v \in Filters : ChangeFilter(v)
    \/ \E p \in Pages : ChangePage(p)
    \/ \E s \in Selections : ChangeSelection(s)
    \/ ReloadCodes
    \/ \E f \in fetches : Answer(f) \/ Error(f)
ListSpec == ListInit /\ [][ListNext]_listVars

-----------------------------------------------------------------------------
(* The variables have their types, and a screen that cleans up waits for   *)
(* exactly one answer while it shows itself loading.                       *)
ListTypeOK ==
    /\ screen \in Screens /\ asked \in Queries /\ chosen \in Queries
    /\ rows \in Queries \cup {NULL}
    /\ {fetching, failed} \subseteq BOOLEAN
    /\ fetches \subseteq [query : Queries, live : BOOLEAN]
    /\ screen.cancels =>
         Cardinality({f \in fetches : f.live}) = IF fetching THEN 1 ELSE 0

(* Once a list has stopped loading without an error, its rows are those of *)
(* the selection, filters and page the screen displays, in whatever order  *)
(* the answers came. (The codes tab, which has no cleanup, is excepted.)   *)
RowsAreOfQuery ==
    (screen.cancels /\ ~fetching /\ ~failed) => rows = asked

(* Neither the screen nor its rows are on a later page than the first      *)
(* unless the administrator chose it for this selection and these filters. *)
PageWasChosen ==
    \A q \in {asked, rows} \ {NULL} :
        (q.page # 1 /\ screen.cancels /\ ~fetching /\ ~failed) => q = chosen

(* What a list displays is the answer to what was asked last, and what was *)
(* asked is what the administrator chose.                                  *)
RowsAreSound == RowsAreOfQuery /\ PageWasChosen
=============================================================================
