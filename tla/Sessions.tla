------------------------------ MODULE Sessions ------------------------------
(***************************************************************************)
(* createAuthService over the identity tables, with the routes that use    *)
(* it: the login and logout routes, the principal resolver and the         *)
(* authorization of the mail routes.  Nothing is cached: every fact is a   *)
(* statement of its own on the shared tables, so a request is cut into a   *)
(* step per statement and operators change the tables between any two.     *)
(***************************************************************************)
EXTENDS Naturals, FiniteSets

CONSTANTS
    Requests,   \* requests in progress, over all instances
    Users, Tenants, Workspaces, Services,
    RoleSets,   \* the role sets operators grant
    Ops,        \* what the requests of this instance do
    MaxTokens,  \* bound: tokens ever drawn, for sessions and for services
    MaxChanges, \* bound: changes of users, memberships and services
    None

VARIABLES
    users,    \* auth_users: status
    member,   \* workspace_memberships, by user, tenant and workspace
    session,  \* auth_sessions, by token (only its hash is stored)
    service,  \* service_identities
    issued,   \* tokens drawn so far
    given,    \* tokens that reached their owner
    changes,  \* how many changes operators have made
    req,      \* where each request stands
    seen      \* per request: the authority that held at some moment of it

tables == <<users, member, session, service>>
vars == <<users, member, session, service, issued, given, changes, req, seen>>

Roles == {"workspace_member", "mail_operator", "workspace_admin", "draft_approver"}
Permissions == {"read", "test", "create", "disconnect", "approve", "execute"}
Routes == {"read", "test", "create", "disconnect", "callback"}
Tokens == 1..MaxTokens
Places == Users \X Tenants \X Workspaces

ASSUME SessionsAssumption ==
    /\ MaxTokens \in Nat /\ MaxChanges \in Nat
    /\ RoleSets \subseteq SUBSET Roles /\ Ops \subseteq {"login", "call", "rotate", "logout"}
    /\ None \notin Users \cup Tenants \cup Workspaces \cup Services
    /\ None \notin {"user", "service", "login", "call", "rotate", "logout"}

UserStatus == {"active", "disabled"}
Membership == [status : {"absent", "active", "suspended"}, roles : SUBSET Roles]
Session    == [state : {"absent", "live", "idle", "expired", "revoked"},
               user : Users \cup {None}, tenant : Tenants \cup {None},
               parent : 0..MaxTokens, old : BOOLEAN, cut : BOOLEAN]
\* state: what revoked_at and the two expiry times of the row say now.  parent,
\* old and cut are history: the token it was rotated from, whether it stems from
\* a session that a revokeAllForUser has met, and whether a rotation was
\* overtaken by one.
Service    == [status : {"absent", "active", "disabled"}, cred : 0..MaxTokens,
               tenant : Tenants \cup {None}, workspaces : SUBSET Workspaces,
               grants : SUBSET Permissions]
Principal  == [kind : {"user", "service", None}, tenant : Tenants \cup {None},
               can : [Workspaces -> SUBSET Permissions]]
Request    == [op : {"login", "call", "rotate", "logout", None},
               pc : {"idle", "finding", "listing", "reading", "checking", "touching", "roles",
                     "service", "deciding", "inserting", "revoking", "answering"},
               tok : 0..MaxTokens, fresh : 0..MaxTokens, user : Users \cup {None},
               tenant : Tenants \cup {None}, cut : BOOLEAN,
               principal : Principal]
Seen == [session : BOOLEAN, user : BOOLEAN, member : BOOLEAN,
         may : SUBSET (Workspaces \X Permissions)]

NoSession == [state |-> "absent", user |-> None, tenant |-> None, parent |-> 0, old |-> FALSE, cut |-> FALSE]
Nobody    == [kind |-> None, tenant |-> None, can |-> [w \in Workspaces |-> {}]]
Idle      == [op |-> None, pc |-> "idle", tok |-> 0, fresh |-> 0, user |-> None, tenant |-> None,
              cut |-> FALSE, principal |-> Nobody]
Nothing   == [session |-> FALSE, user |-> FALSE, member |-> FALSE, may |-> {}]

TypeOK ==
    /\ users \in [Users -> UserStatus]
    /\ member \in [Places -> Membership]
    /\ session \in [Tokens -> Session]
    /\ service \in [Services -> Service]
    /\ issued \in 0..MaxTokens /\ given \subseteq Tokens
    /\ changes \in 0..MaxChanges
    /\ req \in [Requests -> Request]
    /\ seen \in [Requests -> Seen]

-----------------------------------------------------------------------------
(* permissions.ts *)

RolePermissions ==
    [role \in Roles |->
        CASE role = "workspace_member" -> {"read"}
          [] role = "mail_operator"    -> {"read", "test"}
          [] role = "workspace_admin"  -> {"read", "test", "create", "disconnect"}
          [] role = "draft_approver"   -> {"read", "approve"}]
RefusedServiceGrants == {"create", "disconnect", "execute"}

PermissionsOf(roles) == UNION {RolePermissions[role] : role \in roles}

\* authorizeMail, for the tenant of the principal itself, and the test of
\* startGoogleConnect and of the callback that a person is asking.
Authorized(p, route, w) ==
    /\ route \in {"create", "callback"} => p.kind = "user"
    /\ route # "callback" => route \in p.can[w]

-----------------------------------------------------------------------------
(* The tables *)

\* Mutant: revoked_at is not looked at.
ValidUnlessExpired(t) == t \in Tokens /\ session[t].state \in {"live", "revoked"}

\* What resolveSession asks of a row: not revoked, not expired, not idle.
Valid(t) == t \in Tokens /\ session[t].state = "live"
Active(u) == u \in Users /\ users[u] = "active"

\* listActiveForUser.
ActiveRoles(u, t, w) ==
    IF u \in Users /\ t \in Tenants /\ member[<<u, t, w>>].status = "active"
    THEN member[<<u, t, w>>].roles ELSE {}
IsMember(u, t) ==
    u \in Users /\ t \in Tenants /\ \E w \in Workspaces : member[<<u, t, w>>].status = "active"

\* findActiveByCredentialHash: the hash column is unique.
Bearer(t) == {s \in Services : service[s].status = "active" /\ service[s].cred = t}

\* The authority request r could rely on in the current state.
Holds(r) ==
    LET q == req[r]
        h == IF q.tok \in Tokens THEN session[q.tok] ELSE q IN
    [session |-> q.op \in {"call", "rotate"} /\ Valid(q.tok),
     user |-> q.op # "logout" /\ Active(h.user),
     member |-> q.op = "login" /\ IsMember(h.user, h.tenant),
     may |-> {wp \in Workspaces \X Permissions :
                 /\ q.op = "call"
                 /\ \/ wp[2] \in PermissionsOf(ActiveRoles(h.user, h.tenant, wp[1]))
                    \/ \E s \in Bearer(q.tok) :
                          wp[1] \in service[s].workspaces /\ wp[2] \in service[s].grants}]

Note == seen' = [r \in Requests |->
            IF req'[r].pc = "idle" THEN Nothing
            ELSE LET h == Holds(r)' IN
                 [session |-> seen[r].session \/ h.session, user |-> seen[r].user \/ h.user,
                  member |-> seen[r].member \/ h.member, may |-> seen[r].may \cup h.may]]

Init ==
    /\ users = [u \in Users |-> "active"]
    /\ member \in [Places ->
                      [status : {"active"}, roles : RoleSets] \cup {[status |-> "absent", roles |-> {}]}]
    /\ session = [t \in Tokens |-> NoSession]
    /\ service = [s \in Services |-> [status |-> "absent", cred |-> 0, tenant |-> None,
                                      workspaces |-> {}, grants |-> {}]]
    /\ issued = 0 /\ given = {} /\ changes = 0
    /\ req = [r \in Requests |-> Idle]
    /\ seen = [r \in Requests |-> Nothing]

-----------------------------------------------------------------------------
(* Operators change users, memberships and services *)

Change == changes < MaxChanges /\ changes' = changes + 1

\* provisionUser and users.setStatus.
SetUserStatus(u, status) ==
    /\ Change
    /\ users[u] # status
    /\ users' = [users EXCEPT ![u] = status]
    /\ UNCHANGED <<member, session, service, issued, given, req>>

\* memberships.grant: an upsert.
Grant(u, t, w, roles) ==
    /\ Change
    /\ member' = [member EXCEPT ![<<u, t, w>>] = [status |-> "active", roles |-> roles]]
    /\ UNCHANGED <<users, session, service, issued, given, req>>

\* Mutant: a status the readers do not know.
SuspendAsRevoked(u, t, w) ==
    /\ Change
    /\ member[<<u, t, w>>].status = "active"
    /\ member' = [member EXCEPT ![<<u, t, w>>].status = "revoked"]
    /\ UNCHANGED <<users, session, service, issued, given, req>>

\* memberships.setStatus: suspended or revoked, the reader does not tell them apart.
Suspend(u, t, w) ==
    /\ Change
    /\ member[<<u, t, w>>].status = "active"
    /\ member' = [member EXCEPT ![<<u, t, w>>].status = "suspended"]
    /\ UNCHANGED <<users, session, service, issued, given, req>>

\* registerServiceIdentity refuses the grants a service may never hold.
RegisterService(s, t, grants) ==
    /\ Change
    /\ service[s].status = "absent" /\ issued < MaxTokens
    /\ grants \cap RefusedServiceGrants = {}
    /\ issued' = issued + 1 /\ given' = given \cup {issued + 1}
    /\ service' = [service EXCEPT ![s] = [status |-> "active", cred |-> issued + 1, tenant |-> t,
                                          workspaces |-> Workspaces, grants |-> grants]]
    /\ UNCHANGED <<users, member, session, req>>

\* rotateServiceCredential: one UPDATE, the previous hash is gone.
RotateService(s) ==
    /\ Change
    /\ service[s].status # "absent" /\ issued < MaxTokens
    /\ issued' = issued + 1 /\ given' = given \cup {issued + 1}
    /\ service' = [service EXCEPT ![s].cred = issued + 1]
    /\ UNCHANGED <<users, member, session, req>>

\* serviceIdentities.setStatus, and a row edited by hand.
DisableService(s) ==
    /\ Change
    /\ service[s].status = "active"
    /\ service' = [service EXCEPT ![s].status = "disabled"]
    /\ UNCHANGED <<users, member, session, issued, given, req>>
EditService(s) ==
    /\ Change
    /\ service[s].status # "absent"
    /\ service' = [service EXCEPT ![s].grants = Permissions]
    /\ UNCHANGED <<users, member, session, issued, given, req>>

\* Between the read of its session and the insert of the fresh one.
Rotating(r, u) ==
    /\ req[r].op = "rotate" /\ req[r].pc \in {"checking", "touching", "inserting"}
    /\ session[req[r].tok].user = u

\* revokeAllForUser: one UPDATE over the rows of the user.
RevokeAllForUser(u) ==
    /\ Change
    /\ session' = [t \in Tokens |->
                      IF session[t].user = u
                      THEN [session[t] EXCEPT !.state = "revoked", !.old = TRUE] ELSE session[t]]
    /\ req' = [r \in Requests |-> IF Rotating(r, u) THEN [req[r] EXCEPT !.cut = TRUE] ELSE req[r]]
    /\ UNCHANGED <<users, member, service, issued, given>>

\* Time passes: a session goes idle until it is touched, or expires for good.
Age(t, state) ==
    /\ \/ session[t].state = "live"
       \/ session[t].state = "idle" /\ state = "expired"
    /\ session' = [session EXCEPT ![t].state = state]
    /\ UNCHANGED <<users, member, service, issued, given, changes, req>>

-----------------------------------------------------------------------------
(* A request arrives *)

GoogleChecks == {"segments", "algorithm", "key", "signature", "issuer", "audience", "nonce",
                 "expiry", "subject", "email"}
Assertions == {{}} \cup {{c} : c \in GoogleChecks} \* by the checks it fails
VerifyGoogleIdToken(a) == a \cap GoogleChecks = {}

\* The login route: an assertion that fails a check gets the one refusal.
Login(r, u, t, a) ==
    /\ req[r].pc = "idle" /\ VerifyGoogleIdToken(a)
    /\ req' = [req EXCEPT ![r] = [Idle EXCEPT !.op = "login", !.pc = "finding",
                                              !.user = u, !.tenant = t]]
    /\ UNCHANGED <<tables, issued, given, changes>>

\* A request with a token: a given one, or none the tables know.  A mail route
\* by cookie that mutates needs the matching header too (authenticateRequest).
Present(r, op, t, credential) ==
    /\ req[r].pc = "idle" /\ t \in given \cup {0}
    /\ op = "call" => credential # "cookie_without_csrf"
    /\ req' = [req EXCEPT ![r] = [Idle EXCEPT !.op = op, !.pc = "reading", !.tok = t]]
    /\ UNCHANGED <<tables, issued, given, changes>>

-----------------------------------------------------------------------------
(* Its steps: each one statement *)

Goto(r, from, to) == req[r].pc = from /\ req' = [req EXCEPT ![r].pc = to]

\* resolveSession has found nothing: principalForToken asks the services.
NotResolved(q) == IF q.op = "call" THEN [q EXCEPT !.pc = "service"] ELSE Idle

\* sessions.getByTokenHash, and the tests on the row.
ReadSession(r) ==
    /\ req[r].pc = "reading" /\ req[r].op \in {"call", "rotate"}
    /\ req' = [req EXCEPT ![r] = IF Valid(@.tok) THEN [@ EXCEPT !.pc = "checking"]
                                 ELSE NotResolved(@)]
    /\ UNCHANGED <<tables, issued, given, changes>>

\* Mutant: the status of the user is left to the login.
CheckUserExists(r) == Goto(r, "checking", "touching") /\ UNCHANGED <<tables, issued, given, changes>>

\* users.get: the live status of the user.
CheckUser(r) ==
    /\ req[r].pc = "checking"
    /\ req' = [req EXCEPT ![r] = IF Active(session[@.tok].user) THEN [@ EXCEPT !.pc = "touching"]
                                 ELSE NotResolved(@)]
    /\ UNCHANGED <<tables, issued, given, changes>>

\* sessions.touch, whatever became of the row since it was read: it is not
\* idle any more.  (The time is the one of the test, so the touch of a slow
\* request can be over at once.)
Touch(r) ==
    /\ Goto(r, "touching", IF req[r].op = "call" THEN "roles" ELSE "inserting")
    /\ session' = [session EXCEPT ![req[r].tok].state = IF @ = "idle" THEN "live" ELSE @]
    /\ UNCHANGED <<users, member, service, issued, given, changes>>

\* The memberships of the tenant of the session make the principal.
ReadRoles(r) ==
    /\ req[r].pc = "roles"
    /\ req' = [req EXCEPT ![r] =
                  LET s == session[@.tok] IN
                  [@ EXCEPT !.pc = "deciding",
                            !.principal = [kind |-> "user", tenant |-> s.tenant,
                                can |-> [w \in Workspaces |->
                                            PermissionsOf(ActiveRoles(s.user, s.tenant, w))]]]]
    /\ UNCHANGED <<tables, issued, given, changes>>

\* A service: refused grants are filtered out of whatever the row says.
ServicePrincipal(s) ==
    [kind |-> "service", tenant |-> service[s].tenant,
     can |-> [w \in Workspaces |-> IF w \in service[s].workspaces
                                   THEN service[s].grants \ RefusedServiceGrants ELSE {}]]
ReadService(r) ==
    /\ req[r].pc = "service"
    /\ \/ /\ Bearer(req[r].tok) = {}
          /\ req' = [req EXCEPT ![r] = Idle]
       \/ \E s \in Bearer(req[r].tok) :
             req' = [req EXCEPT ![r] = [@ EXCEPT !.pc = "deciding", !.principal = ServicePrincipal(s)]]
    /\ UNCHANGED <<tables, issued, given, changes>>

\* The route decides by the principal it holds (Authorized), does its work or
\* refuses, and records the decision; the tables are not read again.
Decide(r) ==
    /\ req[r].pc = "deciding"
    /\ req' = [req EXCEPT ![r] = Idle]
    /\ UNCHANGED <<tables, issued, given, changes>>

\* loginWithGoogle after the assertion: findByExternalSubject, then
\* listActiveForUser in the tenant asked for.
FindUser(r) ==
    /\ req[r].pc = "finding"
    /\ req' = [req EXCEPT ![r] = IF Active(@.user) THEN [@ EXCEPT !.pc = "listing"]
                                 ELSE Idle]
    /\ UNCHANGED <<tables, issued, given, changes>>
ListMemberships(r) ==
    /\ req[r].pc = "listing"
    /\ req' = [req EXCEPT ![r] = IF IsMember(@.user, @.tenant) THEN [@ EXCEPT !.pc = "inserting"]
                                 ELSE Idle]
    /\ UNCHANGED <<tables, issued, given, changes>>

\* issueSession: a login makes a session of its own, a rotation an heir.
FreshSession(q) ==
    LET p == IF q.op = "rotate" THEN session[q.tok] ELSE NoSession IN
    [state |-> "live", user |-> IF q.op = "rotate" THEN p.user ELSE q.user,
     tenant |-> IF q.op = "rotate" THEN p.tenant ELSE q.tenant,
     parent |-> q.tok, old |-> p.old, cut |-> p.cut \/ q.cut]
\* Mutant: a rotation answers when its fresh session is in.
InsertOnly(r) ==
    /\ req[r].pc = "inserting" /\ issued < MaxTokens
    /\ issued' = issued + 1
    /\ session' = [session EXCEPT ![issued + 1] = FreshSession(req[r])]
    /\ req' = [req EXCEPT ![r].fresh = issued + 1, ![r].pc = "answering"]
    /\ UNCHANGED <<users, member, service, given, changes>>

Insert(r) ==
    /\ req[r].pc = "inserting" /\ issued < MaxTokens
    /\ issued' = issued + 1
    /\ session' = [session EXCEPT ![issued + 1] = FreshSession(req[r])]
    /\ req' = [req EXCEPT ![r].fresh = issued + 1,
                          ![r].pc = IF req[r].op = "rotate" THEN "revoking" ELSE "answering"]
    /\ UNCHANGED <<users, member, service, given, changes>>

\* logout reads the row, and revokes it if it is there and not revoked.
ReadForLogout(r) ==
    /\ req[r].pc = "reading" /\ req[r].op = "logout"
    /\ Goto(r, "reading", IF req[r].tok \in Tokens /\ session[req[r].tok].state \notin {"absent", "revoked"}
                           THEN "revoking" ELSE "answering")
    /\ UNCHANGED <<tables, issued, given, changes>>

\* sessions.revoke, by a logout or at the end of a rotation.
Revoke(r) ==
    /\ Goto(r, "revoking", "answering")
    /\ session' = [session EXCEPT ![req[r].tok].state = "revoked"]
    /\ UNCHANGED <<users, member, service, issued, given, changes>>

\* The answer arrives, with the token that was made for it.
Answer(r) ==
    /\ req[r].pc = "answering"
    /\ req' = [req EXCEPT ![r] = Idle]
    /\ given' = given \cup ({req[r].fresh} \ {0})
    /\ UNCHANGED <<tables, issued, changes>>

\* A statement fails, or the process dies: nothing of the request is undone.
Outage(r) ==
    /\ req[r].pc # "idle"
    /\ req' = [req EXCEPT ![r] = Idle]
    /\ UNCHANGED <<tables, issued, given, changes>>

OperatorStep ==
    \/ \E u \in Users : RevokeAllForUser(u) \/ \E st \in {"active", "disabled"} : SetUserStatus(u, st)
    \/ \E u \in Users, t \in Tenants, w \in Workspaces :
          Suspend(u, t, w) \/ \E roles \in RoleSets : Grant(u, t, w, roles)
    \/ \E s \in Services :
          \/ RotateService(s) \/ DisableService(s) \/ EditService(s)
          \/ \E t \in Tenants, grants \in {{"read"}, {"read", "test"}} : RegisterService(s, t, grants)
AgeStep == \E t \in Tokens, age \in {"idle", "expired"} : Age(t, age)
ArrivalStep ==
    \E r \in Requests :
        \/ \E u \in Users, t \in Tenants, a \in Assertions : "login" \in Ops /\ Login(r, u, t, a)
        \/ \E op \in Ops \ {"login"}, t \in given \cup {0} :
              \E c \in {"bearer", "cookie", "cookie_without_csrf"} : Present(r, op, t, c)
RequestStep ==
    \E r \in Requests :
        \/ ReadSession(r) \/ CheckUser(r) \/ Touch(r) \/ ReadRoles(r) \/ ReadService(r)
        \/ Decide(r) \/ FindUser(r) \/ ListMemberships(r) \/ Insert(r) \/ ReadForLogout(r) \/ Revoke(r)
        \/ Answer(r) \/ Outage(r)

Next == (OperatorStep \/ ArrivalStep \/ RequestStep \/ AgeStep) /\ Note
Spec == Init /\ [][Next]_vars
-----------------------------------------------------------------------------
(* What must hold *)

\* Revocations, suspensions and role changes apply on the very next call
\* (authService.ts): a route acts, and a session is issued, only on authority
\* that the tables granted at some moment since the request began, and a
\* service never acts with a grant it may not hold.
AnswersAreRecent ==
    \A r \in Requests :
        /\ \A route \in Routes, w \in Workspaces :
              req[r].pc = "deciding" /\ Authorized(req[r].principal, route, w) =>
                 /\ route # "callback" => <<w, route>> \in seen[r].may
                 /\ req[r].principal.kind = "user" => seen[r].session /\ seen[r].user
                 /\ req[r].principal.kind = "service" => route \in {"read", "test"}
        /\ req[r].fresh # 0 /\ req[r].op = "rotate" => seen[r].session /\ seen[r].user
        /\ req[r].fresh # 0 /\ req[r].op = "login" => seen[r].user /\ seen[r].member

\* Rotation (rotateSession): whoever holds the fresh token, the old one is
\* revoked, however rotations, touches and logouts of it interleave.
RotatedIsDead ==
    \A t \in given : session[t].parent # 0 => session[session[t].parent].state = "revoked"

\* revokeAllForUser: a session that stems from one it has met is revoked, or
\* comes from a rotation it overtook between its read and its insert.
SurvivorsOvertook ==
    \A t \in Tokens : session[t].old => session[t].state = "revoked" \/ session[t].cut

\* "revokeAllForUser kills every session for the user" (identityState.test.ts):
\* the code does not keep it against a rotation in progress.
RevokeAllEndsAll == \A t \in Tokens : session[t].old => session[t].state = "revoked"
=============================================================================
