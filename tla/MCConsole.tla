----------------------------- MODULE MCConsole -----------------------------
(* The admin console for TLC: its session, the campaign screen, the list   *)
(* screens and the CSV export. They share no state, so a behaviour         *)
(* explores one of them and leaves the others as they begin.               *)
EXTENDS ConsoleSession, CampaignScreen, ConsoleLists, CodeExport, TLC

CONSTANTS root, ann, p1, p2, p3, s1  \* an administrator of everything, and a member
                                     \* of company 1 assigned to a project of company 2
VARIABLE part

Company  == (root :> 1) @@ (ann :> 1) @@ (p1 :> 1) @@ (p2 :> 2) @@ (p3 :> 1)
Assigned == (root :> <<p2>>) @@ (ann :> <<p2, p1, p3>>)

SomeContent == CHOOSE c \in Contents : TRUE
SomeQuery == CHOOSE q \in Queries : q.page = 1
ConsoleInit ==
    /\ part \in {"session", "campaign", "list", "export"}
    /\ Init
    /\ ScreenInit
    /\ part # "campaign" =>
         me = "MANAGER" /\ row.content = SomeContent /\ row.status = "ACTIVE"
    /\ ListInit
    /\ part # "list" => screen = UserList /\ asked = SomeQuery
    /\ ExportInit
    /\ part # "export" => codes = << >>

Only(p) ==
    /\ part = p
    /\ part' = p
    /\ p # "session"  => UNCHANGED vars
    /\ p # "campaign" => UNCHANGED screenVars
    /\ p # "list"     => UNCHANGED listVars
    /\ p # "export"   => UNCHANGED exportVars
ConsoleNext ==
    \/ Only("session")  /\ Next
    \/ Only("campaign") /\ ScreenNext
    \/ Only("list")     /\ ListNext
    \/ Only("export")   /\ ExportNext
ConsoleSpec == ConsoleInit /\ [][ConsoleNext]_<<part, vars, screenVars, listVars, exportVars>>

\* The types of the four
ConsoleTypeOK == TypeOK /\ ScreenTypeOK /\ ListTypeOK /\ ExportTypeOK

Symmetric == Permutations(Contents)
=============================================================================
