--------------------------- MODULE ConsoleSession ---------------------------
(***************************************************************************)
(* One browser tab of the admin console: the token and header stores, the  *)
(* axios client that renews an access token behind the caller's back, the  *)
(* boot after a reload, and the hook that fetches the caller's role in the *)
(* selected project. The backend is reduced to what it answers a token     *)
(* with; AdminSession models how it comes to that answer.                  *)
(***************************************************************************)
EXTENDS Naturals, Sequences, FiniteSets, NoValue

CONSTANTS
    Users, Admins,      \* administrators, and the SUPER_ADMINs among them
    Projects, CompanyOf, \* the company of each project and user
    ProjectsOf,         \* the projects /companies/active-header-data lists
    Slots,              \* names of sessions; a later login reuses one the tab has
                        \* forgotten, so that logins need no bound
    MaxJti, MaxCalls    \* bounds: renewals of a session + 1, calls under way

ASSUME ConsoleAssumption ==
    /\ Admins \subseteq Users
    /\ \A x \in Projects \cup Users : CompanyOf[x] \in Nat
    /\ \A u \in Users : ProjectsOf[u] \in Seq(Projects)
    /\ NULL \notin Users \cup Projects \cup [sess : Slots, jti : 1..MaxJti]
    /\ NULL \notin (Projects \cup {NULL}) \X (Users \cup {NULL})
    /\ {MaxJti, MaxCalls} \subseteq Nat \ {0}

VARIABLES
    session,  \* the backend's rows of user_session
    expired,  \* access tokens whose exp has passed
    auth,     \* authStore: user, access, refresh, role (whose role code)
    global,   \* globalStore: company, project, role, projects
    booting,  \* SessionBoot's spinner
    seen,     \* what useProjectRoleSync's effect last ran for; NULL unmounted
    calls,    \* requests under way
    refreshes \* calls of /auth/refresh under way; live: held by refreshPromise

vars == <<session, expired, auth, global, booting, seen, calls, refreshes>>
server == <<session, expired>>
client == <<auth, global, booting, seen>>

Token(s) == [sess |-> s, jti |-> session[s].jti]
CurrentToken(t) == session[t.sess].alive /\ t = Token(t.sess)

NoAuth == [user |-> NULL, access |-> NULL, refresh |-> NULL, role |-> NULL]
NoGlobal == [company |-> NULL, project |-> NULL, role |-> NULL, projects |-> <<>>]
Authenticated == auth.access # NULL
\* The projects the header's combobox offers
Offered(g) == {p \in Projects : /\ \E i \in DOMAIN g.projects : g.projects[i] = p
                                /\ g.company \in {NULL, CompanyOf[p]}}

Kinds == {"login", "load", "role", "logout", "page"}
\* A request of the given kind about subject `of`, with the token of the store
Call(kind, of) == [kind |-> kind, of |-> of, token |-> auth.access,
                   retried |-> FALSE, live |-> TRUE, state |-> "sent"]
Under(kind) == {c \in calls : c.kind = kind}
Room == Cardinality(calls) < MaxCalls
Replace(c, d) == (calls \ {c}) \cup {d}

\* RequireGuest, RequireAuth: which of the layouts is on the screen
ScreenOf(a, spinner) ==
    IF spinner THEN "boot" ELSE IF a.access # NULL THEN "app" ELSE "login"
Screen == ScreenOf(auth, booting)

\* useProjectRoleSync's effect, mounted with the header: React runs it after a
\* change of its dependencies and before the next event. Its cleanup cancels the
\* request before; a SUPER_ADMIN's role needs none.
Show(a, spinner, g, cs) ==
    LET app   == ScreenOf(a, spinner) = "app"
        deps  == IF app THEN <<g.project, a.role>> ELSE NULL
        stale == {IF c.kind = "role" THEN [c EXCEPT !.live = FALSE] ELSE c : c \in cs}
        known == g.project = NULL \/ a.role \in Admins
        role  == IF g.project = NULL THEN NULL ELSE [of |-> a.role, at |-> g.project]
    IN  /\ auth' = a /\ booting' = spinner /\ seen' = deps
        /\ global' = IF deps # seen /\ app /\ known THEN [g EXCEPT !.role = role] ELSE g
        /\ calls' = IF deps = seen THEN cs
                    ELSE IF app /\ ~known
                    THEN stale \cup {[Call("role", g.project) EXCEPT !.token = a.access]}
                    ELSE stale

Init ==
    /\ session = [s \in Slots |-> [user |-> NULL, alive |-> FALSE, jti |-> 1]]
    /\ expired = {}
    /\ auth = NoAuth /\ global = NoGlobal /\ booting = FALSE /\ seen = NULL
    /\ calls = {} /\ refreshes = {}

-----------------------------------------------------------------------------
(* The backend and the network                                             *)

\* JwtAuthGuard: 10003 for an expired token, 10009 for one whose session ended
Verdict(t) == IF t \in expired THEN "expired"
              ELSE IF CurrentToken(t) THEN "ok" ELSE "refused"

\* The tokens the tab and its requests still have
InUse == ({auth.access} \cup {c.token : c \in calls}) \ {NULL}
FreeSlots == Slots \ ({t.sess : t \in InUse} \cup
                {r.sess : r \in {x \in refreshes : x.live \/ x.state = "sent"}})

\* A request reaches the backend
Serve(c) ==
    /\ c.state = "sent"
    /\ IF c.kind = "login"
       THEN \E s \in FreeSlots :
            /\ session' = [session EXCEPT ![s] = [user |-> c.of, alive |-> TRUE, jti |-> 1]]
            /\ calls' = Replace(c, [c EXCEPT !.state = "ok", !.token = [sess |-> s, jti |-> 1]])
            /\ expired' = {t \in expired : t.sess # s}
            /\ refreshes' = {r \in refreshes : r.sess # s}
       ELSE /\ calls' = Replace(c, [c EXCEPT !.state = Verdict(c.token)])
            /\ session' = IF c.kind = "logout" /\ Verdict(c.token) = "ok"
                          THEN [session EXCEPT ![c.token.sess].alive = FALSE]
                          ELSE session
            /\ UNCHANGED <<expired, refreshes>>
    /\ UNCHANGED client

\* The answer of a request is lost, or the backend refuses with an error
Lose(c) ==
    /\ c.state \in {"sent", "ok"}
    /\ calls' = Replace(c, [c EXCEPT !.state = "refused"])
    /\ UNCHANGED <<server, client, refreshes>>

\* /auth/refresh: a session that is still active gets a new token
ServeRefresh(r) ==
    /\ r.state = "sent"
    /\ IF session[r.sess].alive /\ session[r.sess].jti < MaxJti
       THEN /\ session' = [session EXCEPT ![r.sess].jti = @ + 1]
            /\ refreshes' = (refreshes \ {r}) \cup
                  {[r EXCEPT !.state = "ok", !.jti = session'[r.sess].jti]}
       ELSE /\ refreshes' = (refreshes \ {r}) \cup {[r EXCEPT !.state = "failed"]}
            /\ UNCHANGED session
    /\ UNCHANGED <<expired, client, calls>>

LoseRefresh(r) ==
    /\ r.live /\ r.state \in {"sent", "ok"}
    /\ refreshes' = (refreshes \ {r}) \cup {[r EXCEPT !.state = "failed"]}
    /\ UNCHANGED <<server, client, calls>>

\* The exp of an access token passes
Expire(t) ==
    /\ expired' = expired \cup {t}
    /\ UNCHANGED <<session, client, calls, refreshes>>

\* A suspension, a password reset or a logout elsewhere ends the session
EndSession(s) ==
    /\ session[s].alive
    /\ session' = [session EXCEPT ![s].alive = FALSE]
    /\ UNCHANGED <<expired, client, calls, refreshes>>

-----------------------------------------------------------------------------
(* What the administrator does                                             *)

\* LoginPage: the form is sent once at a time
Submit(u) ==
    /\ Screen = "login" /\ Room /\ Under("login") = {}
    /\ FreeSlots # {}
    /\ calls' = calls \cup {[Call("login", u) EXCEPT !.token = NULL]}
    /\ UNCHANGED <<server, client, refreshes>>

\* A logout from the header's menu or from the account page
ClickLogout(from) ==
    /\ Screen = "app" /\ Room /\ Under("logout") = {}
    /\ calls' = calls \cup {Call("logout", from)}
    /\ UNCHANGED <<server, client, refreshes>>

\* Any other page's request
CallPage ==
    /\ Screen = "app" /\ Room /\ Under("page") = {}
    /\ calls' = calls \cup {Call("page", NULL)}
    /\ UNCHANGED <<server, client, refreshes>>

SelectCompany(k) ==
    /\ Screen = "app" /\ Room /\ auth.role \in Admins /\ k # global.company
    /\ k = NULL \/ \E i \in DOMAIN global.projects : CompanyOf[global.projects[i]] = k
    /\ Show(auth, booting, [global EXCEPT !.company = k, !.project = NULL, !.role = NULL], calls)
    /\ UNCHANGED <<server, refreshes>>

SelectProject(p) ==
    /\ Screen = "app" /\ Room /\ p # global.project
    /\ p \in Offered(global) \/ (p = NULL /\ auth.role \in Admins)
    /\ Show(auth, booting, [global EXCEPT !.project = p, !.role = NULL], calls)
    /\ UNCHANGED <<server, refreshes>>

\* A fresh page: memory is lost, what authStore persists is not
Restart(a) ==
    /\ auth' = [a EXCEPT !.user = NULL]
    /\ global' = NoGlobal /\ seen' = NULL
    /\ booting' = (a.access # NULL)
    /\ calls' = IF a.access = NULL THEN {}
                ELSE {[Call("load", "boot") EXCEPT !.token = a.access]}
    /\ refreshes' = {[r EXCEPT !.live = FALSE] : r \in {x \in refreshes : x.state # "failed"}}

\* (reloading during the boot would only start it again)
Reload ==
    /\ Authenticated /\ ~booting
    /\ Restart(auth)
    /\ UNCHANGED server

-----------------------------------------------------------------------------
(* Answers arriving in the tab                                             *)

\* The interceptor's second half: an expired token is renewed once per request
RefreshNeeded(c) == c.state = "expired" /\ ~c.retried

\* Mutant: every request renews the token for itself
AwaitRefreshAlone(c) ==
    /\ RefreshNeeded(c) /\ auth.refresh # NULL
    /\ calls' = Replace(c, [c EXCEPT !.state = "waiting", !.retried = TRUE])
    /\ refreshes' = refreshes \cup {[sess |-> auth.refresh, live |-> TRUE,
                                     state |-> "sent", jti |-> IF c.kind = "page" THEN 0 ELSE 1]}
    /\ UNCHANGED <<server, client>>
\* Mutant: nobody asks whether there is a refresh token
AwaitRefreshEager(c) ==
    /\ RefreshNeeded(c)
    /\ calls' = Replace(c, [c EXCEPT !.state = "waiting", !.retried = TRUE])
    /\ refreshes' = IF \E r \in refreshes : r.live THEN refreshes
                    ELSE refreshes \cup {[sess |-> auth.refresh, live |-> TRUE,
                                          state |-> "sent", jti |-> 0]}
    /\ UNCHANGED <<server, client>>

AwaitRefresh(c) ==
    /\ RefreshNeeded(c) /\ auth.refresh # NULL
    /\ calls' = Replace(c, [c EXCEPT !.state = "waiting", !.retried = TRUE])
    /\ refreshes' = IF \E r \in refreshes : r.live THEN refreshes
                    ELSE refreshes \cup {[sess |-> auth.refresh, live |-> TRUE,
                                          state |-> "sent", jti |-> 0]}
    /\ UNCHANGED <<server, client>>

\* No refresh token, or the renewal failed: the tab starts over at /login
GiveUp(c) ==
    /\ RefreshNeeded(c) /\ auth.refresh = NULL
    /\ Restart(NoAuth)
    /\ UNCHANGED server

\* The shared promise settles: setAccessToken, then every waiting call again
Resent(c, t) == IF c.state = "waiting" THEN [c EXCEPT !.state = "sent", !.token = t] ELSE c

SettleRefresh(r) ==
    /\ r.live
    /\ \/ /\ r.state = "ok"
          /\ LET t == [sess |-> r.sess, jti |-> r.jti] IN
             Show([auth EXCEPT !.access = t, !.role = session[r.sess].user],
                  booting, global, {Resent(c, t) : c \in calls})
          /\ refreshes' = refreshes \ {r}
          /\ UNCHANGED server
       \/ /\ r.state = "failed"
          /\ Restart(NoAuth)
          /\ UNCHANGED server

\* The caller's promise settles
Done(c) == c.state \in {"ok", "refused"} \/ (c.state = "expired" /\ c.retried)

\* LoginPage.handleSubmit: setSession, then loadSessionData
LoggedIn(c) ==
    /\ c.kind = "login" /\ c.state = "ok"
    /\ Show([auth EXCEPT !.access = c.token, !.refresh = c.token.sess, !.role = c.of],
            booting, global, Replace(c, [Call("load", "login") EXCEPT !.token = c.token]))
    /\ UNCHANGED <<server, refreshes>>

DefaultProject(u) ==
    LET listed == ProjectsOf[u]
        own    == {i \in DOMAIN listed : CompanyOf[listed[i]] = CompanyOf[u]}
    IN  IF u \in Admins \/ own = {} THEN NULL
        ELSE listed[CHOOSE i \in own : \A j \in own : i <= j]

\* loadSessionData: user and header data at once, then the default selection
Loaded(c) ==
    /\ c.kind = "load" /\ c.state = "ok"
    /\ LET u == session[c.token.sess].user IN
       Show([auth EXCEPT !.user = u], IF c.of = "boot" THEN FALSE ELSE booting,
            [company |-> IF u \in Admins THEN NULL ELSE CompanyOf[u],
             project |-> DefaultProject(u), role |-> NULL, projects |-> ProjectsOf[u]],
            calls \ {c})
    /\ UNCHANGED <<server, refreshes>>

\* SessionBoot gives the session up; LoginPage only has an alert to show
LoadFailed(c) ==
    /\ c.kind = "load" /\ Done(c) /\ c.state # "ok"
    /\ IF c.of = "boot" THEN Show(NoAuth, FALSE, global, calls \ {c})
       ELSE Show(auth, booting, global, calls \ {c})
    /\ UNCHANGED <<server, refreshes>>

\* Mutant: the effect has no cleanup
RoleArrivedLate(c) ==
    /\ c.kind = "role" /\ Done(c)
    /\ Show(auth, booting,
            IF c.state = "ok"
            THEN [global EXCEPT !.role = [of |-> session[c.token.sess].user, at |-> c.of]]
            ELSE global, calls \ {c})
    /\ UNCHANGED <<server, refreshes>>

\* The effect's continuation, unless its cleanup has run
RoleArrived(c) ==
    /\ c.kind = "role" /\ Done(c)
    /\ Show(auth, booting,
            IF c.live /\ c.state = "ok"
            THEN [global EXCEPT !.role = [of |-> session[c.token.sess].user, at |-> c.of]]
            ELSE global, calls \ {c})
    /\ UNCHANGED <<server, refreshes>>

\* Both logouts end the session of the tab whatever the backend said; only
\* the account page also resets the header's store
LoggedOut(c) ==
    /\ c.kind = "logout" /\ Done(c)
    /\ Show(NoAuth, booting, IF c.of = "account" THEN NoGlobal ELSE global, calls \ {c})
    /\ UNCHANGED <<server, refreshes>>

Answered(c) ==
    /\ Done(c)
    /\ c.kind = "page" \/ (c.kind = "login" /\ c.state # "ok")
    /\ calls' = calls \ {c}
    /\ UNCHANGED <<server, client, refreshes>>

-----------------------------------------------------------------------------
Arrives(c) ==
    \/ AwaitRefresh(c) \/ GiveUp(c) \/ LoggedIn(c) \/ Loaded(c) \/ LoadFailed(c)
    \/ RoleArrived(c) \/ LoggedOut(c) \/ Answered(c)

Next ==
    \/ CallPage \/ Reload
    \/ \E u \in Users : Submit(u)
    \/ \E from \in {"header", "account"} : ClickLogout(from)
    \/ \E k \in {CompanyOf[p] : p \in Projects} \cup {NULL} : SelectCompany(k)
    \/ \E p \in Projects \cup {NULL} : SelectProject(p)
    \/ \E c \in calls : Serve(c) \/ Lose(c) \/ Arrives(c)
    \/ \E r \in refreshes : ServeRefresh(r) \/ LoseRefresh(r) \/ SettleRefresh(r)
    \/ \E t \in InUse \ expired : Expire(t)
    \/ \E s \in {t.sess : t \in InUse} : EndSession(s)

Spec == Init /\ [][Next]_vars

-----------------------------------------------------------------------------
Tokens == [sess : Slots, jti : 1..MaxJti]
TypeOK ==
    /\ session \in [Slots -> [user : Users \cup {NULL}, alive : BOOLEAN, jti : 1..MaxJti]]
    /\ expired \subseteq Tokens
    /\ auth \in [user : Users \cup {NULL}, access : Tokens \cup {NULL},
                 refresh : Slots \cup {NULL}, role : Users \cup {NULL}]
    /\ global.project \in Projects \cup {NULL}
    /\ global.role \in [of : Users, at : Projects] \cup {NULL}
    /\ booting \in BOOLEAN
    /\ \A c \in calls : c.kind \in Kinds /\ c.token \in Tokens \cup {NULL}
    /\ \A r \in refreshes : r.sess \in Slots

\* The header never offers buttons by the role of another project: a role
\* that arrives after the selection has moved on is discarded
\* (useProjectRoleSync, globalStore).
RoleIsOfSelection == global.role # NULL => global.role.at = global.project

\* The selected project is one the combobox offers, whatever answers arrive
\* after a company was chosen or another account logged in (session.ts).
SelectionIsOffered == global.project # NULL => global.project \in Offered(global)

\* The header acts for one project: an offered one, in the role held there
SelectionSound == RoleIsOfSelection /\ SelectionIsOffered

\* A tab never stores a superseded token: the renewals of its requests do not
\* overtake each other (client.ts shares one refreshPromise between them). A
\* renewal orphaned by a reload may still supersede one.
StoredTokenIsNewest ==
    [][auth'.access \notin {NULL, auth.access} /\ (\A r \in refreshes : r.live)
         => auth'.access = Token(auth'.access.sess)]_vars
=============================================================================
