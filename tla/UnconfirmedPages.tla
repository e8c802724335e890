-------------------------- MODULE UnconfirmedPages --------------------------
(***************************************************************************)
(* The list of unconfirmed redemptions as game servers read it: whole for  *)
(* one of their users, page by page for all, while redemptions are added   *)
(* and confirmed (listUnconfirmed, SP_COUPON_UNCONFIRMED_LIST).            *)
(***************************************************************************)
EXTENDS Naturals, FiniteSetsExt, SequencesExt, NoValue

CONSTANTS GameUsers, GameCampaigns,
          OwnerOf,      \* the user and the campaign of each redemption
          ListPageSize, \* page_size; the API allows 20, 30, 50 and 100
          MaxUsages,    \* bound on the redemptions
          MaxSecond     \* bound on the clock

ASSUME ListAssumption ==
    /\ ListPageSize \in Nat \ {0} /\ {MaxUsages, MaxSecond} \subseteq Nat
    /\ NULL \notin GameUsers \cup GameCampaigns
    /\ OwnerOf \in [1..MaxUsages -> [user : GameUsers, campaign : GameCampaigns]]

VARIABLES
    entry,  \* the row of each redemption; "open" until its transaction commits
    second, \* what CURRENT_TIMESTAMP says
    scan    \* a game server's reading: user and campaign asked for, the next page,
            \* what it has seen; had: what was listed at its start, gone: what
            \* has been confirmed since

readingVars == <<entry, second, scan>>

Usages == 1..MaxUsages \* coupon_code_usage_id
States == {"none", "open", "listed", "confirmed"}
NoEntry == [state |-> "none", at |-> 0]
NotReading == [pc |-> "idle", user |-> NULL, campaign |-> NULL, page |-> 1,
               seen |-> {}, had |-> {}, gone |-> {}]

\* The WHERE of the procedure: a filter that is NULL lets everything pass
Matches(x, q) ==
    /\ entry[x].state = "listed"
    /\ q.user \in {NULL, OwnerOf[x].user}
    /\ q.campaign \in {NULL, OwnerOf[x].campaign}
Unconfirmed(q) == {x \in Usages : Matches(x, q)}

\* Mutant: LIMIT and OFFSET without an ORDER BY
OrdersUnsorted(S) == SetToSeqs(S)
\* ORDER BY created_at: rows of one second come in any order, and in another one
\* the next time
Orders(S) == {o \in SetToSeqs(S) :
    \A i, j \in DOMAIN o : i < j => entry[o[i]].at <= entry[o[j]].at}

\* No LIMIT for a single user
PageOf(o, q) ==
    IF q.user # NULL THEN o
    ELSE SubSeq(o, (q.page - 1) * ListPageSize + 1, Min({q.page * ListPageSize, Len(o)}))

ReadingInit ==
    /\ entry = [x \in Usages |-> NoEntry]
    /\ second = 0
    /\ scan = NotReading

-----------------------------------------------------------------------------
\* A reservation inserts its row, which gets the next id and the time of that
\* statement
InsertEntry(x) ==
    /\ entry[x].state = "none" /\ \A y \in 1..(x - 1) : entry[y].state # "none"
    /\ entry' = [entry EXCEPT ![x] = [state |-> "open", at |-> second]]
    /\ UNCHANGED <<second, scan>>

\* Its transaction commits, maybe seconds later; one that is rolled back is seen
\* by nobody, as one that stays open
CommitEntry(x) ==
    /\ entry[x].state = "open"
    /\ entry' = [entry EXCEPT ![x].state = "listed"]
    /\ UNCHANGED <<second, scan>>

\* A confirm, of this or any other game server
ConfirmEntry(x) ==
    /\ entry[x].state = "listed"
    /\ entry' = [entry EXCEPT ![x].state = "confirmed"]
    /\ scan' = [scan EXCEPT !.gone = IF scan.pc = "reading" THEN @ \cup {x} ELSE @]
    /\ UNCHANGED second

NextSecond == second < MaxSecond /\ second' = second + 1 /\ UNCHANGED <<entry, scan>>

\* A game server begins: after a login, for one user; in its batch, for all
BeginScan(u, c) ==
    /\ scan.pc = "idle"
    /\ scan' = [NotReading EXCEPT
         !.pc = "reading", !.user = u, !.campaign = c,
         !.had = Unconfirmed([user |-> u, campaign |-> c])]
    /\ UNCHANGED <<entry, second>>

\* One statement counts the rows and selects the page. The game server goes on
\* until page * page_size reaches total_count; a page beyond the end is empty,
\* but still has that count.
ReadPage ==
    /\ scan.pc = "reading"
    /\ \E o \in Orders(Unconfirmed(scan)) :
         scan' = [scan EXCEPT
           !.seen = @ \cup ToSet(PageOf(o, scan)),
           !.pc = IF scan.user # NULL \/ scan.page * ListPageSize >= Len(o)
                  THEN "done" ELSE "reading",
           !.page = @ + 1]
    /\ UNCHANGED <<entry, second>>

\* It grants and confirms what it has seen (ConfirmEntry), and begins anew later
EndScan ==
    /\ scan.pc = "done"
    /\ scan' = NotReading
    /\ UNCHANGED <<entry, second>>

ReadingNext ==
    \/ \E x \in Usages : InsertEntry(x) \/ CommitEntry(x) \/ ConfirmEntry(x)
    \/ NextSecond
    \/ \E u \in GameUsers \cup {NULL}, c \in GameCampaigns \cup {NULL} : BeginScan(u, c)
    \/ ReadPage \/ EndScan
ReadingSpec == ReadingInit /\ [][ReadingNext]_readingVars

-----------------------------------------------------------------------------
\* Types; a scan sees no more than was ever listed
ReadingTypeOK ==
    /\ \A x \in Usages :
        /\ entry[x].state \in States /\ entry[x].at \in 0..second
    /\ scan.pc \in {"idle", "reading", "done"}
    /\ \A x \in scan.seen \cup scan.had : entry[x].state \in {"listed", "confirmed"}

SharesSecond(x) ==
    \E y \in Usages \ {x} :
        entry[y].state \in {"listed", "confirmed"} /\ entry[y].at = entry[x].at
MovedForward(x) == \E y \in scan.gone : entry[y].at < entry[x].at

\* A scan that has ended saw everything that was unconfirmed all along, in spite
\* of rows that were added, or that appear late with an older time. It misses a
\* row only if it is one of all users and an older row was confirmed meanwhile,
\* which moves the row to the page before, or if another row was created in the
\* same second (docs/08_COUPON_USAGE_SCENARIO.md 3.2).
ScanIsComplete ==
    scan.pc = "done" =>
        \A x \in (scan.had \ scan.gone) \ scan.seen :
            scan.user = NULL /\ (MovedForward(x) \/ SharesSecond(x))
=============
