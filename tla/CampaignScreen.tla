--------------------------- MODULE CampaignScreen ---------------------------
(***************************************************************************)
(* The campaign detail screen of the admin console: the page that holds    *)
(* the campaign, the tab that edits and decides it, and the codes tab,     *)
(* which keeps asking the page to load again while codes are generated.    *)
(* The tabs stay mounted side by side, so any of their requests can be     *)
(* under way together. The backend is reduced to one row that the screen,  *)
(* other administrators and the generation change (CampaignLifecycle and   *)
(* CodeGeneration model it).                                               *)
(***************************************************************************)
EXTENDS Naturals, FiniteSets, NoValue

CONSTANTS
    Contents,   \* what an edit can make of name, period, limits and reward
    MaxRev,     \* bound on the changes of the row
    MaxLoads,   \* bound on the loads of the page
    MaxUnderWay \* bound on the requests under way together

ASSUME ScreenAssumption ==
    /\ NULL \notin Contents
    /\ {MaxRev, MaxLoads, MaxUnderWay} \subseteq Nat \ {0}

VARIABLES
    row,      \* the campaign; rev counts its changes, edit those of edit_count
    me,       \* projectRoleCode of the administrator at the screen
    shown,    \* the page's campaign: a row once read, NULL before that
    gone,     \* notFound or forbidden: the page is a result page for good
    latest,   \* requestIdRef
    loading,
    requests, \* under way
    form,     \* the edit form: NULL, or the content typed and the contents the
              \* administrator has seen (what it was filled from, what they saved)
    applied   \* revision of the newest load the screen has taken

screenVars == <<row, me, shown, gone, latest, loading, requests, form, applied>>
page == <<me, shown, gone, latest, loading, form, applied>>

CampaignStatuses == {"PENDING", "ACTIVE", "PAUSED", "ENDED"}
Generations == {"WAITING", "RUNNING", "DONE", "FAILED"}
Rows == [rev : 0..MaxRev, edit : 0..MaxRev, content : Contents, status : CampaignStatuses,
         approval : {"PENDING", "APPROVED", "REJECTED"}, generation : Generations]

\* The writes of the tabs. Those that carry edit_count are decisions on what is
\* shown; the others start and abort the generation.
Locked == {"save", "status", "approve", "reject"}
Unlocked == {"generate", "abort"}

\* stage: "sent", "done" (a write that took effect), then what comes back
Request(kind) == [kind |-> kind, id |-> 0, edit |-> 0, on |-> NULL, to |-> NULL, seen |-> {},
                  stage |-> "sent", answer |-> NULL]
Roomy == Cardinality(requests) < MaxUnderWay
Sent(kind) == {q \in requests : q.kind = kind}
Swap(q, stage, answer) == (requests \ {q}) \cup {[q EXCEPT !.stage = stage, !.answer = answer]}

-----------------------------------------------------------------------------
\* load(): one more request, numbered, among the others
StartLoad(others) ==
    /\ latest < MaxLoads
    /\ latest' = latest + 1
    /\ loading' = TRUE
    /\ requests' = others \cup {[Request("load") EXCEPT !.id = latest + 1]}

Mounted == ~gone /\ shown # NULL

\* The codes tab's timer runs while the campaign shown is being generated
Polling == Mounted /\ shown.generation = "RUNNING"
Poll ==
    /\ Polling /\ Roomy
    /\ StartLoad(requests)
    /\ UNCHANGED <<row, me, shown, gone, form, applied>>

\* Mutant: edit_count is fetched anew by the request itself.
SendWriteRefreshed(kind, to, seen) ==
    /\ Mounted /\ Roomy
    /\ Sent(kind) = {}
    /\ requests' = requests \cup
         {[Request(kind) EXCEPT !.edit = row.edit, !.on = shown.content,
                                !.to = to, !.seen = seen]}
    /\ UNCHANGED <<row, me, shown, gone, latest, loading, applied>>

\* A write of a tab; its button spins until its answer is there. edit_count is
\* the one of the campaign shown when the request is sent.
SendWrite(kind, to, seen) ==
    /\ Mounted /\ Roomy
    /\ Sent(kind) = {}
    /\ requests' = requests \cup
         {[Request(kind) EXCEPT !.edit = shown.edit, !.on = shown.content,
                                !.to = to, !.seen = seen]}
    /\ UNCHANGED <<row, me, shown, gone, latest, loading, applied>>

StartEdit ==
    /\ Mounted
    /\ form = NULL
    /\ shown.status # "ENDED"
    /\ form' = [content |-> shown.content, seen |-> {shown.content}]
    /\ UNCHANGED <<row, me, shown, gone, latest, loading, requests, applied>>

Type(c) ==
    /\ Mounted /\ form # NULL
    /\ form.content # c
    /\ form' = [form EXCEPT !.content = c]
    /\ UNCHANGED <<row, me, shown, gone, latest, loading, requests, applied>>

CancelEdit ==
    /\ Mounted /\ form # NULL
    /\ form' = NULL
    /\ UNCHANGED <<row, me, shown, gone, latest, loading, requests, applied>>

\* The save button. The confirmation an operator may have to give first only
\* delays the request: it is composed of what was there when save was clicked.
SubmitUpdate ==
    /\ form # NULL
    /\ form' = [form EXCEPT !.seen = @ \cup {form.content}]
    /\ SendWrite("save", form.content, form.seen \cup {form.content})

Targets(status) ==
    CASE status = "PENDING" -> {"ACTIVE", "ENDED"}
      [] status = "ACTIVE"  -> {"PAUSED", "ENDED"}
      [] status = "PAUSED"  -> {"ACTIVE", "ENDED"}
      [] status = "ENDED"   -> {}
ChangeStatus ==
    /\ Mounted
    /\ \E s \in Targets(shown.status) : SendWrite("status", s, {})
    /\ UNCHANGED form

MayDecide == Mounted /\ me = "MANAGER" /\ shown.approval = "PENDING"
ClickApprove == MayDecide /\ SendWrite("approve", NULL, {}) /\ UNCHANGED form
\* The dialog for the reason was opened when MayDecide held, and stays open
\* whatever the poll shows behind it meanwhile
SubmitReject == Mounted /\ me = "MANAGER" /\ SendWrite("reject", NULL, {}) /\ UNCHANGED form

Issue ==
    /\ Mounted
    /\ shown.generation \in {"WAITING", "FAILED"} /\ shown.status # "ENDED"
    /\ SendWrite("generate", NULL, {})
    /\ UNCHANGED form
Abort ==
    /\ Mounted /\ me = "MANAGER"
    /\ shown.generation = "RUNNING" /\ shown.status # "ENDED"
    /\ SendWrite("abort", NULL, {})
    /\ UNCHANGED form

-----------------------------------------------------------------------------
\* The backend. Any request may be refused for reasons of its own or end without
\* an answer, the write done or not.
Bump(r) == [r EXCEPT !.rev = @ + 1, !.edit = @ + 1]
Effect(q) ==
    CASE q.kind = "save" ->
           IF me = "OPERATOR" /\ row.approval # "PENDING"
           THEN [Bump(row) EXCEPT !.content = q.to, !.approval = "PENDING",
                                  !.status = IF @ = "ACTIVE" THEN "PAUSED" ELSE @]
           ELSE [Bump(row) EXCEPT !.content = q.to]
      [] q.kind = "status"   -> [Bump(row) EXCEPT !.status = q.to]
      [] q.kind = "approve"  -> [Bump(row) EXCEPT !.approval = "APPROVED"]
      [] q.kind = "reject"   -> [Bump(row) EXCEPT !.approval = "REJECTED"]
      [] q.kind = "generate" -> [row EXCEPT !.rev = @ + 1, !.generation = "RUNNING"]
      [] q.kind = "abort"    -> [row EXCEPT !.rev = @ + 1, !.generation = "FAILED"]
Legal(q) ==
    CASE q.kind = "save"     -> row.status # "ENDED"
      [] q.kind = "status"   -> q.to \in Targets(row.status)
      [] q.kind \in {"approve", "reject"} -> row.approval = "PENDING" /\ row.status # "ENDED"
      [] q.kind = "generate" -> row.generation \in {"WAITING", "FAILED"} /\ row.status # "ENDED"
      [] q.kind = "abort"    -> row.generation = "RUNNING" /\ row.status # "ENDED"

Execute(q) ==
    /\ q.stage = "sent" /\ q.kind # "load"
    /\ row.rev < MaxRev
    /\ q.kind \in Locked => q.edit = row.edit
    /\ Legal(q)
    /\ row' = Effect(q)
    /\ requests' = Swap(q, "done", NULL)
    /\ UNCHANGED page
Conflict(q) ==
    /\ q.stage = "sent" /\ q.kind \in Locked
    /\ q.edit # row.edit
    /\ requests' = Swap(q, "CONFLICT", NULL)
    /\ UNCHANGED <<row, page>>
\* The row of the answer is selected after the write has been committed
Read(q) ==
    /\ q.stage = IF q.kind = "load" THEN "sent" ELSE "done"
    /\ requests' = Swap(q, "ROW", row)
    /\ UNCHANGED <<row, page>>
Fail(q) ==
    /\ q.stage \in {"sent", "done"}
    /\ \E a \in {"ERROR"} \cup IF q.kind = "load" THEN {"GONE"} ELSE {} :
         requests' = Swap(q, a, NULL)
    /\ UNCHANGED <<row, page>>

\* The other administrators, and the loop that generates the codes
Elsewhere ==
    /\ row.rev < MaxRev
    /\ \/ \E c \in Contents \ {row.content} :
            /\ row.status # "ENDED"
            /\ row' = [Bump(row) EXCEPT !.content = c]
       \/ \E s \in Targets(row.status) : row' = [Bump(row) EXCEPT !.status = s]
       \/ /\ row.generation = "RUNNING"
          /\ \E g \in {"RUNNING", "DONE", "FAILED"} :
               row' = [row EXCEPT !.rev = @ + 1, !.generation = g]
    /\ UNCHANGED <<requests, page>>

-----------------------------------------------------------------------------
\* Mutant: whichever answer comes is shown, like on the other detail pages.
CurrentAlways(q) == TRUE
\* An answer arrives. A load counts only while no later one has been sent.
Current(q) == q.id = latest

TakeLoad(q) ==
    /\ q.kind = "load" /\ q.stage \in {"ROW", "GONE", "ERROR"}
    /\ requests' = requests \ {q}
    /\ IF Current(q) /\ ~gone
       THEN /\ loading' = FALSE
            /\ gone' = (q.stage = "GONE")
            /\ shown' = IF q.stage = "ROW" THEN q.answer ELSE shown
            /\ applied' = IF q.stage = "ROW" THEN q.answer.rev ELSE applied
       ELSE UNCHANGED <<loading, gone, shown, applied>>
    /\ UNCHANGED <<row, me, latest, form>>

\* A locked write that was done brings the campaign itself
TakeRow(q) ==
    /\ q.kind \in Locked /\ q.stage = "ROW"
    /\ requests' = requests \ {q}
    /\ shown' = q.answer
    /\ form' = IF q.kind = "save" THEN NULL ELSE form
    /\ UNCHANGED <<row, me, gone, latest, loading, applied>>
\* After a conflict, and after the generation was started or aborted: onReload
TakeReload(q) ==
    /\ \/ q.stage = "CONFLICT"
       \/ q.kind \in Unlocked /\ q.stage = "ROW"
    /\ StartLoad(requests \ {q})
    /\ UNCHANGED <<row, me, shown, gone, form, applied>>
\* Any other refusal, or no answer: a message, and nothing else
TakeError(q) ==
    /\ q.kind # "load" /\ q.stage = "ERROR"
    /\ requests' = requests \ {q}
    /\ UNCHANGED <<row, page>>

-----------------------------------------------------------------------------
ScreenInit ==
    /\ me \in {"MANAGER", "OPERATOR"}
    /\ \E c \in Contents, fresh \in BOOLEAN :  \* just created, or approved and running
         row = [rev |-> 0, edit |-> 0, content |-> c,
                status     |-> IF fresh THEN "PENDING" ELSE "ACTIVE",
                approval   |-> IF fresh THEN "PENDING" ELSE "APPROVED",
                generation |-> IF fresh THEN "WAITING" ELSE "RUNNING"]
    /\ shown = NULL /\ gone = FALSE /\ form = NULL /\ applied = 0
    /\ latest = 1 /\ loading = TRUE
    /\ requests = {[Request("load") EXCEPT !.id = 1]}

ScreenNext ==
    \/ Poll \/ StartEdit \/ CancelEdit \/ SubmitUpdate \/ ChangeStatus
    \/ ClickApprove \/ SubmitReject \/ Issue \/ Abort \/ Elsewhere
    \/ \E c \in Contents : Type(c)
    \/ \E q \in requests : \/ Execute(q) \/ Conflict(q) \/ Read(q) \/ Fail(q)
                           \/ TakeLoad(q) \/ TakeRow(q) \/ TakeReload(q) \/ TakeError(q)
ScreenSpec == ScreenInit /\ [][ScreenNext]_screenVars

-----------------------------------------------------------------------------
(* The variables have their types, and the spinner turns exactly while the *)
(* newest load is under way: an answer that is ignored must not stop it.   *)
ScreenTypeOK ==
    /\ row \in Rows /\ me \in {"MANAGER", "OPERATOR"}
    /\ shown \in Rows \cup {NULL} /\ gone \in BOOLEAN
    /\ latest \in 1..MaxLoads /\ applied \in 0..MaxRev
    /\ form = NULL \/ form \in [content : Contents, seen : SUBSET Contents]
    /\ \A q \in requests :
         q.stage \in {"sent", "done", "ROW", "CONFLICT", "GONE", "ERROR"}
    /\ ~gone => (loading <=> \E q \in requests : q.kind = "load" /\ Current(q))

(* A load never replaces what a later state of the campaign was loaded     *)
(* from, although loads overlap and are answered in any order              *)
(* (CampaignDetailPage's requestIdRef).                                    *)
LoadsNeverGoBack == [][applied' >= applied]_screenVars

(* What is approved or rejected is the content that was on the screen when *)
(* the button was confirmed, although the poll and other administrators    *)
(* change row and screen in between.                                       *)
DecidedAsShown ==
    [][\A q \in requests :
         (q.kind \in {"approve", "reject"} /\ Execute(q)) => q.on = row.content]_screenVars

(* docs/19_CAMPAIGN_API.md 2.4: a save is applied only if nobody changed   *)
(* the campaign while it was being composed. Violated: the form keeps what *)
(* it was filled with, but edit_count comes from the campaign that the     *)
(* poll, or the reload after a conflict, has refreshed behind it.          *)
SavesBuildOnWhatWasSeen ==
    [][\A q \in requests :
         (q.kind = "save" /\ Execute(q)) => row.content \in q.seen]_screenVars
=============================================================================
