---------------------------- MODULE Organisation ----------------------------
(***************************************************************************)
(* Companies, projects and role assignments: what administrators change,   *)
(* who is let through to change it, and the audit log of it. The role in   *)
(* an access token is a copy; the procedures ask the table. A company or   *)
(* an assignment is replaced under a row lock, a project by its            *)
(* edit_count. The unit of time is long against a call.                    *)
(***************************************************************************)
EXTENDS Naturals, Sequences, NoValue

CONSTANTS
    Admins,    \* users who are SUPER_ADMIN at first
    Granted,   \* the one of them whose assignment is changed
    Rows,      \* company, project and user_role rows, by their unique key
    Projects,  \* those of them that are projects
    Assignment, \* Granted's row of user_role
    Handlers,
    RoleTtl,   \* JWT_ACCESS_EXPIRES_IN
    MaxChanges \* bound

ASSUME OrganisationAssumption ==
    /\ Granted \in Admins /\ Assignment \in Rows /\ Projects \subseteq Rows \ {Assignment}
    /\ {RoleTtl, MaxChanges} \subseteq Nat \ {0}
    /\ NULL \notin Rows \cup Admins

VARIABLES
    table,   \* the stamp of each row, by which its contents are known; 0: absent
    active,  \* status of Granted's assignment
    since,   \* time since active changed
    jwt,     \* the role in each one's access token and how long it is valid
    work,    \* calls under way
    replaced, \* what each change replaced
    audit    \* rows of log_audit

orgVars == <<table, active, since, jwt, work, replaced, audit>>

\* FN_IS_SUPER_ADMIN
IsSuperAdmin(u) == u # Granted \/ active
Made == Len(replaced) - 1
Resting == [pc |-> "idle"]

OrgInit ==
    /\ table = [r \in Rows |-> IF r = Assignment \/ r \in Projects THEN 1 ELSE 0]
    /\ active = TRUE /\ since = 0
    /\ jwt = [u \in Admins |-> [super |-> TRUE, left |-> RoleTtl]]
    /\ work = [p \in Handlers |-> Resting]
    /\ replaced = <<0>>
    /\ audit = {}

GoOn(p, pc) == work' = [work EXCEPT ![p].pc = pc]
Answer(p) == work' = [work EXCEPT ![p] = Resting]
Quietly == UNCHANGED <<table, active, since, jwt, replaced, audit>>

-----------------------------------------------------------------------------
\* auth.service login and refresh: the role is read from the table
IssueToken(u) ==
    /\ jwt' = [jwt EXCEPT ![u] = [super |-> IsSuperAdmin(u), left |-> RoleTtl]]
    /\ UNCHANGED <<table, active, since, work, replaced, audit>>

\* RolesGuard lets a call through by the role in the token; shown: the
\* edit_count the caller was shown, maybe long ago
Call(p, u, op, r) ==
    /\ work[p] = Resting /\ jwt[u].left > 0 /\ jwt[u].super
    /\ \E s \in IF op = "update" /\ r \in Projects THEN DOMAIN replaced ELSE {1} :
          work' = [work EXCEPT ![p] = [pc |-> "authorise", by |-> u, op |-> op, row |-> r,
                                       shown |-> s, before |-> 0, change |-> 0]]
    /\ Quietly

\* Mutant: the procedure takes the caller's word
AuthoriseByToken(p) ==
    /\ work[p].pc = "authorise"
    /\ GoOn(p, work[p].op)
    /\ Quietly
\* The procedure asks again; otherwise 20001
Authorise(p) ==
    /\ work[p].pc = "authorise"
    /\ IF IsSuperAdmin(work[p].by) THEN GoOn(p, work[p].op) ELSE Answer(p)
    /\ Quietly

\* list, getById, lookup
Read(p) == work[p].pc = "read" /\ Answer(p) /\ Quietly

\* SELECT 1 ... WHERE code; 32001 or 31001, 31002, 31007
Probe(p) ==
    /\ work[p].pc \in {"create", "update"}
    /\ LET there == table[work[p].row] # 0 IN
       IF there = (work[p].op = "create") THEN Answer(p)
       ELSE GoOn(p, IF work[p].op = "create" THEN "insert"
                     ELSE IF work[p].row \in Projects THEN "before" ELSE "replace")
    /\ Quietly

\* A change commits: the row is stamped with its number
Commit(p, before) ==
    LET w == work[p]
        n == Len(replaced) + 1
    IN  /\ Made < MaxChanges
        /\ table' = [table EXCEPT ![w.row] = n]
        /\ replaced' = Append(replaced, table[w.row])
        /\ work' = [work EXCEPT ![p] = [w EXCEPT !.pc = "after", !.before = before, !.change = n]]
        /\ IF w.row = Assignment THEN active' = ~active /\ since' = 0
           ELSE UNCHANGED <<active, since>>
        /\ UNCHANGED <<jwt, audit>>

\* Mutant: the row that is there is overwritten (ON DUPLICATE KEY UPDATE)
InsertOver(p) == work[p].pc = "insert" /\ Commit(p, 0)
\* INSERT, or 1062, whose handler answers 32001
Insert(p) ==
    /\ work[p].pc = "insert"
    /\ IF table[work[p].row] = 0 THEN Commit(p, 0) ELSE Answer(p) /\ Quietly

\* SELECT ... FOR UPDATE, UPDATE and COMMIT of a company or an assignment
Replace(p) == work[p].pc = "replace" /\ Commit(p, table[work[p].row])

\* before_json of a project is read without a lock
ReadBefore(p) ==
    /\ work[p].pc = "before"
    /\ work' = [work EXCEPT ![p].before = table[work[p].row], ![p].pc = "compare"]
    /\ Quietly

\* Mutant: the procedure does not compare
UnchangedAlways(p) == table[work[p].row] # 0
\* WHERE edit_count = i_edit_count; 30005
Unchanged(p) == table[work[p].row] = work[p].shown
Compare(p) ==
    /\ work[p].pc = "compare"
    /\ IF Unchanged(p) THEN Commit(p, work[p].before) ELSE Answer(p) /\ Quietly

\* The answer's row, after_json, is selected after the commit; AuditLogService
\* records it behind the answer's back, or fails to
ReadAfter(p) ==
    /\ work[p].pc = "after"
    /\ LET w == work[p] IN
       audit' \in {audit, audit \cup {[row |-> w.row, change |-> w.change,
                                       before |-> w.before, after |-> table[w.row]]}}
    /\ Answer(p)
    /\ UNCHANGED <<table, active, since, jwt, replaced>>

Day ==
    /\ \A p \in Handlers : work[p] = Resting
    /\ since' = IF since = RoleTtl THEN since ELSE since + 1
    /\ jwt' = [u \in Admins |-> [jwt[u] EXCEPT !.left = IF @ = 0 THEN 0 ELSE @ - 1]]
    /\ UNCHANGED <<table, active, work, replaced, audit>>

OrgNext ==
    \/ \E u \in Admins : IssueToken(u)
    \/ \E p \in Handlers, u \in Admins, op \in {"create", "update", "read"}, r \in Rows :
          Call(p, u, op, r)
    \/ \E p \in Handlers : \/ Authorise(p) \/ Read(p) \/ Probe(p) \/ Insert(p) \/ Replace(p)
                           \/ ReadBefore(p) \/ Compare(p) \/ ReadAfter(p)
    \/ Day

OrgSpec == OrgInit /\ [][OrgNext]_orgVars

-----------------------------------------------------------------------------
OrgTypeOK ==
    /\ table \in [Rows -> 0..(MaxChanges + 1)]
    /\ active \in BOOLEAN /\ since \in 0..RoleTtl
    /\ jwt \in [Admins -> [super : BOOLEAN, left : 0..RoleTtl]]
    /\ \A p \in Handlers : work[p].pc \in {"idle", "authorise", "read", "create", "update",
                                        "insert", "replace", "before", "compare", "after"}
    /\ replaced \in Seq(0..MaxChanges)
    /\ \A e \in audit : e.change \in DOMAIN replaced /\ e.after >= e.change

\* before_json of every audit row is what that change replaced, however the
\* changes of one row interleave: by the lock of SELECT ... FOR UPDATE, and for
\* a project, read without it, by the edit_count (SP_COMPANY_UPDATE,
\* SP_USER_ROLE_UPDATE, SP_PROJECT_UPDATE).
BeforeIsReplaced == \A e \in audit : e.before = replaced[e.change]

\* Two who create the same thing at once never both succeed, nor does one
\* overwrite the other's (CompanyService.create, UserRoleService.create).
CreatedOnce ==
    [][\A p \in Handlers : work[p].pc = "insert" /\ work'[p].pc = "after"
                           => table[work[p].row] = 0]_orgVars

\* A revoked SUPER_ADMIN changes nothing more, although the token still says
\* so until it is renewed (defensive double check of every procedure).
RevokedChangesNothing ==
    [][\A p \in Handlers : /\ work[p].pc # "after" /\ work[p] # Resting /\ work'[p].pc = "after"
                           /\ work[p].by = Granted
                           => active \/ since = 0]_orgVars

\* getMyRoleForProject trusts the token
RoleAnswered(u) == IF jwt[u].left > 0 /\ jwt[u].super THEN "SUPER_ADMIN" ELSE "assigned"

\* What the token says of a role lags behind the table by less than the life of
\* an access token, however often the session is renewed.
RoleLagIsBounded ==
    ~active /\ RoleAnswered(Granted) = "SUPER_ADMIN" => since < RoleTtl

\* A revocation ends the power to change at once, and what is left of the role,
\* the power to look, with the access token.
RevocationsBite == RevokedChangesNothing /\ []RoleLagIsBounded
=============================================================================
