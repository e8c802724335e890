-------------------------- MODULE MCAdministration --------------------------
(* The administration of accounts for TLC: the sessions of administrators  *)
(* with their cache, companies, projects, users and roles, and the detail  *)
(* screens that edit these. A behaviour explores one of the three and      *)
(* leaves the others as they begin.                                        *)
EXTENDS AdminSession, Organisation, DetailForms, TLC

CONSTANTS root, eve, acme, game, role  \* administrators and rows of Organisation
VARIABLE part

AdministrationInit ==
    /\ part \in {"sessions", "organisation", "details"}
    /\ Init
    /\ OrgInit
    /\ DetailInit
    /\ part # "details" =>
         subject = "company" /\ item.status = "ACTIVE" /\ item.name = CHOOSE n \in Names : TRUE
Only(p) ==
    /\ part = p
    /\ part' = p
    /\ p # "sessions"     => UNCHANGED vars
    /\ p # "organisation" => UNCHANGED orgVars
    /\ p # "details"      => UNCHANGED detailVars
AdministrationNext ==
    \/ Only("sessions")     /\ Next
    \/ Only("organisation") /\ OrgNext
    \/ Only("details")      /\ DetailNext
AdministrationSpec ==
    AdministrationInit /\ [][AdministrationNext]_<<part, vars, orgVars, detailVars>>

\* The types of the three
AdministrationTypeOK == TypeOK /\ OrgTypeOK /\ DetailTypeOK

Symmetric == Permutations(Jtis) \cup Permutations(Handlers)
=============================================================================
