--------------------------- MODULE SessionsProofs ---------------------------
(* Sessions for any number of requests, users, tenants, workspaces, services *)
(* and tokens.                                                               *)
EXTENDS Sessions, TLAPS

-----------------------------------------------------------------------------
(* Type correctness *)

\* The records, one update at a time.
LEMMA ConstantTypes == NoSession \in Session /\ Idle \in Request /\ Nobody \in Principal
<1>1. NoSession \in Session
  BY SessionsAssumption DEF NoSession, Session
<1>2. Nobody \in Principal
  BY DEF Nobody, Principal
<1>3. QED  BY <1>1, <1>2, SessionsAssumption DEF Idle, Request

Pc == {"idle", "finding", "listing", "reading", "checking", "touching", "roles", "service",
       "deciding", "inserting", "revoking", "answering"}

LEMMA PcType  == ASSUME NEW q \in Request, NEW x \in Pc  PROVE [q EXCEPT !.pc = x] \in Request
BY DEF Request, Pc
LEMMA CutType == ASSUME NEW q \in Request  PROVE [q EXCEPT !.cut = TRUE] \in Request
BY DEF Request
LEMMA FreshType == ASSUME NEW q \in Request, NEW n \in 0..MaxTokens, NEW x \in Pc
                   PROVE  [q EXCEPT !.fresh = n, !.pc = x] \in Request
BY DEF Request, Pc
LEMMA PrincipalType == ASSUME NEW q \in Request, NEW p \in Principal
                       PROVE  [q EXCEPT !.pc = "deciding", !.principal = p] \in Request
BY DEF Request
LEMMA LoginType == ASSUME NEW u \in Users, NEW t \in Tenants
                   PROVE  [Idle EXCEPT !.op = "login", !.pc = "finding", !.user = u, !.tenant = t]
                             \in Request
BY ConstantTypes DEF Request
LEMMA PresentType == ASSUME NEW op \in {"call", "rotate", "logout"}, NEW n \in 0..MaxTokens
                     PROVE  [Idle EXCEPT !.op = op, !.pc = "reading", !.tok = n] \in Request
BY ConstantTypes DEF Request
LEMMA StateType == ASSUME NEW s \in Session, NEW x \in {"live", "idle", "expired", "revoked"}
                   PROVE  [s EXCEPT !.state = x] \in Session
BY DEF Session
LEMMA RowType == ASSUME NEW u \in Users \cup {None}, NEW t \in Tenants \cup {None},
                        NEW n \in 0..MaxTokens, NEW o \in BOOLEAN, NEW c \in BOOLEAN
                 PROVE  [state |-> "live", user |-> u, tenant |-> t, parent |-> n, old |-> o, cut |-> c]
                           \in Session
BY DEF Session
LEMMA FreshSessionType ==
    ASSUME NEW q \in Request, q.op = "rotate" => session[q.tok] \in Session
    PROVE  FreshSession(q) \in Session
<1>1. ASSUME NEW p \in Session, NEW u \in Users \cup {None}, NEW t \in Tenants \cup {None}
      PROVE  [state |-> "live", user |-> u, tenant |-> t, parent |-> q.tok, old |-> p.old,
              cut |-> p.cut \/ q.cut] \in Session
  <2>1. p.old \in BOOLEAN /\ (p.cut \/ q.cut) \in BOOLEAN
    BY <1>1 DEF Session
  <2>2. q.tok \in 0..MaxTokens
    BY DEF Request
  <2>3. QED  BY <1>1, <2>1, <2>2, RowType
<1>2. CASE q.op = "rotate"
  <2> DEFINE p == session[q.tok]
  <2>1. p.user \in Users \cup {None} /\ p.tenant \in Tenants \cup {None}
    BY <1>2 DEF Session
  <2>2. FreshSession(q) = [state |-> "live", user |-> p.user, tenant |-> p.tenant,
                           parent |-> q.tok, old |-> p.old, cut |-> p.cut \/ q.cut]
    BY <1>2 DEF FreshSession
  <2>3. QED  BY <1>1, <1>2, <2>1, <2>2
<1>3. CASE q.op # "rotate"
  <2>1. q.user \in Users \cup {None} /\ q.tenant \in Tenants \cup {None}
    BY DEF Request
  <2>2. FreshSession(q) = [state |-> "live", user |-> q.user, tenant |-> q.tenant,
                           parent |-> q.tok, old |-> NoSession.old, cut |-> NoSession.cut \/ q.cut]
    BY <1>3 DEF FreshSession
  <2>3. QED  BY <1>1, <2>1, <2>2, ConstantTypes
<1>4. QED  BY <1>2, <1>3
LEMMA MetType == ASSUME NEW s \in Session
                 PROVE  [s EXCEPT !.state = "revoked", !.old = TRUE] \in Session
BY DEF Session

\* TypeOK but for the history variable, which every step updates alike.
BaseType ==
    /\ users \in [Users -> UserStatus]
    /\ member \in [Places -> Membership]
    /\ session \in [Tokens -> Session]
    /\ service \in [Services -> Service]
    /\ issued \in 0..MaxTokens /\ given \subseteq Tokens
    /\ changes \in 0..MaxChanges
    /\ req \in [Requests -> Request]

LEMMA TypeInit == Init => BaseType
<1> SUFFICES ASSUME Init  PROVE BaseType
  OBVIOUS
<1>1. users \in [Users -> UserStatus]
  BY DEF Init, UserStatus
<1>2. member \in [Places -> Membership]
  <2>1. [status : {"active"}, roles : RoleSets] \subseteq Membership
    BY SessionsAssumption DEF Membership
  <2>2. [status |-> "absent", roles |-> {}] \in Membership
    BY DEF Membership
  <2>3. QED  BY <2>1, <2>2 DEF Init
<1>3. service \in [Services -> Service]
  <2>1. [status |-> "absent", cred |-> 0, tenant |-> None, workspaces |-> {}, grants |-> {}]
           \in Service
    BY SessionsAssumption DEF Service
  <2>2. QED  BY <2>1 DEF Init
<1>4. session \in [Tokens -> Session] /\ req \in [Requests -> Request]
  BY ConstantTypes DEF Init
<1>5. issued \in 0..MaxTokens /\ given \subseteq Tokens /\ changes \in 0..MaxChanges
  BY SessionsAssumption DEF Init
<1>6. QED  BY <1>1, <1>2, <1>3, <1>4, <1>5 DEF BaseType

\* A row of a table, one update at a time.
LEMMA MembershipType ==
    ASSUME NEW m \in Membership, NEW x \in {"active", "suspended"}
    PROVE  [m EXCEPT !.status = x] \in Membership
BY DEF Membership
LEMMA ServiceRowType ==
    ASSUME NEW m \in Service
    PROVE  /\ \A n \in 0..MaxTokens : [m EXCEPT !.cred = n] \in Service
           /\ [m EXCEPT !.status = "disabled"] \in Service
           /\ [m EXCEPT !.grants = Permissions] \in Service
BY DEF Service

LEMMA OperatorStepType == BaseType /\ OperatorStep => BaseType'
<1> SUFFICES ASSUME BaseType, OperatorStep  PROVE BaseType'
  OBVIOUS
<1>c. ASSUME Change  PROVE changes' \in 0..MaxChanges
  BY <1>c, SessionsAssumption DEF Change, BaseType
<1>n. ASSUME issued < MaxTokens
      PROVE  issued + 1 \in 0..MaxTokens /\ issued + 1 \in Tokens
  BY <1>n, SessionsAssumption DEF BaseType, Tokens
<1>1. ASSUME NEW u \in Users, RevokeAllForUser(u)  PROVE BaseType'
  <2>1. session' \in [Tokens -> Session]
    BY <1>1, MetType DEF RevokeAllForUser, BaseType
  <2>2. req' \in [Requests -> Request]
    BY <1>1, CutType DEF RevokeAllForUser, BaseType
  <2>3. QED  BY <1>1, <1>c, <2>1, <2>2 DEF RevokeAllForUser, BaseType
<1>2. ASSUME NEW u \in Users, NEW st \in {"active", "disabled"}, SetUserStatus(u, st)  PROVE BaseType'
  BY <1>2, <1>c DEF SetUserStatus, BaseType, UserStatus
<1>3. ASSUME NEW u \in Users, NEW t \in Tenants, NEW w \in Workspaces, Suspend(u, t, w)
      PROVE  BaseType'
  <2>1. member' \in [Places -> Membership]
    <3> DEFINE k == <<u, t, w>>
    <3>1. k \in Places
      BY DEF Places
    <3>2. member' = [member EXCEPT ![k] = [member[k] EXCEPT !.status = "suspended"]]
      BY <1>3 DEF Suspend
    <3>3. [member[k] EXCEPT !.status = "suspended"] \in Membership
      BY <3>1, MembershipType DEF BaseType
    <3> HIDE DEF k
    <3>4. QED  BY <3>1, <3>2, <3>3 DEF BaseType
  <2>2. QED  BY <1>3, <1>c, <2>1 DEF Suspend, BaseType
<1>4. ASSUME NEW u \in Users, NEW t \in Tenants, NEW w \in Workspaces, NEW roles \in RoleSets,
             Grant(u, t, w, roles)
      PROVE  BaseType'
  <2>1. member' \in [Places -> Membership]
    <3>1. [status |-> "active", roles |-> roles] \in Membership
      BY SessionsAssumption DEF Membership
    <3>2. QED  BY <1>4, <3>1 DEF Grant, BaseType
  <2>2. QED  BY <1>4, <1>c, <2>1 DEF Grant, BaseType
<1>5. ASSUME NEW s \in Services, RotateService(s)  PROVE BaseType'
  <2>1. service' = [service EXCEPT ![s] = [service[s] EXCEPT !.cred = issued + 1]]
    BY <1>5 DEF RotateService
  <2>2. service[s] \in Service /\ issued + 1 \in 0..MaxTokens
    BY <1>5, <1>n DEF RotateService, BaseType
  <2>3. [service[s] EXCEPT !.cred = issued + 1] \in Service
    BY <2>2, ServiceRowType
  <2>4. QED  BY <1>5, <1>c, <1>n, <2>1, <2>3 DEF RotateService, BaseType
<1>6. ASSUME NEW s \in Services, DisableService(s)  PROVE BaseType'
  <2>1. service' = [service EXCEPT ![s] = [service[s] EXCEPT !.status = "disabled"]]
    BY <1>6 DEF DisableService
  <2>2. service[s] \in Service
    BY DEF BaseType
  <2>3. [service[s] EXCEPT !.status = "disabled"] \in Service
    BY <2>2, ServiceRowType
  <2>4. QED  BY <1>6, <1>c, <2>1, <2>3 DEF DisableService, BaseType
<1>7. ASSUME NEW s \in Services, EditService(s)  PROVE BaseType'
  <2>1. service' = [service EXCEPT ![s] = [service[s] EXCEPT !.grants = Permissions]]
    BY <1>7 DEF EditService
  <2>2. service[s] \in Service
    BY DEF BaseType
  <2>3. [service[s] EXCEPT !.grants = Permissions] \in Service
    BY <2>2, ServiceRowType
  <2>4. QED  BY <1>7, <1>c, <2>1, <2>3 DEF EditService, BaseType
<1>8. ASSUME NEW s \in Services, NEW t \in Tenants, NEW grants \in {{"read"}, {"read", "test"}},
             RegisterService(s, t, grants)
      PROVE  BaseType'
  <2>1. grants \subseteq Permissions
    BY DEF Permissions
  <2>2. [status |-> "active", cred |-> issued + 1, tenant |-> t, workspaces |-> Workspaces,
         grants |-> grants] \in Service
    BY <1>8, <1>n, <2>1 DEF RegisterService, Service
  <2>3. QED  BY <1>8, <1>c, <1>n, <2>2 DEF RegisterService, BaseType
<1>9. QED  BY <1>1, <1>2, <1>3, <1>4, <1>5, <1>6, <1>7, <1>8 DEF OperatorStep

LEMMA ArrivalStepType == BaseType /\ ArrivalStep => BaseType'
<1> SUFFICES ASSUME BaseType, ArrivalStep  PROVE BaseType'
  OBVIOUS
<1>1. ASSUME NEW r \in Requests, NEW u \in Users, NEW t \in Tenants, NEW a \in Assertions,
             Login(r, u, t, a)
      PROVE  BaseType'
  BY <1>1, LoginType DEF Login, BaseType, tables
<1>2. ASSUME NEW r \in Requests, NEW op \in Ops \ {"login"}, NEW t \in given \cup {0}, NEW c,
             Present(r, op, t, c)
      PROVE  BaseType'
  <2>1. op \in {"call", "rotate", "logout"} /\ t \in 0..MaxTokens
    BY SessionsAssumption DEF BaseType, Tokens
  <2>2. QED  BY <1>2, <2>1, PresentType DEF Present, BaseType, tables
<1>3. QED  BY <1>1, <1>2 DEF ArrivalStep

LEMMA AgeStepType == BaseType /\ AgeStep => BaseType'
<1> SUFFICES ASSUME BaseType, NEW t \in Tokens, NEW x \in {"idle", "expired"}, Age(t, x)
             PROVE  BaseType'
  BY DEF AgeStep
<1>1. session' = [session EXCEPT ![t] = [session[t] EXCEPT !.state = x]]
  BY DEF Age
<1>2. [session[t] EXCEPT !.state = x] \in Session
  BY StateType DEF BaseType
<1>3. QED  BY <1>1, <1>2 DEF Age, BaseType

LEMMA RolesGrantPermissions == ASSUME NEW roles \in SUBSET Roles
                               PROVE  PermissionsOf(roles) \subseteq Permissions
BY DEF PermissionsOf, RolePermissions, Roles, Permissions

\* Where a request may stand, and that the token it has found is in the table.
HasFound(q) ==
    \/ q.pc \in {"checking", "touching", "roles", "revoking"}
    \/ q.pc \in {"inserting", "answering"} /\ q.op = "rotate"
Placed(q) ==
    /\ q.tok <= issued /\ q.fresh <= issued
    /\ HasFound(q) => q.tok \in Tokens
    /\ q.op = "login" => q.tok = 0
    /\ q.op \in {"call", "logout", None} => q.fresh = 0
    /\ q.op = "call" => q.pc \in {"reading", "checking", "touching", "roles", "service", "deciding"}
    /\ q.op = "rotate" => q.pc \in {"reading", "checking", "touching", "inserting", "revoking", "answering"}
    /\ q.op = "logout" => q.pc \in {"reading", "revoking", "answering"}
    /\ q.op = "login" => q.pc \in {"finding", "listing", "inserting", "answering"}
    /\ q.op = None => q.pc = "idle"
    /\ q.fresh # 0 <=> q.pc \in {"revoking", "answering"} /\ q.op \in {"login", "rotate"}
Rows ==
    /\ given \subseteq 1..issued
    /\ \A t \in Tokens : t > issued => session[t] = NoSession
Typed == BaseType /\ Rows /\ \A r \in Requests : Placed(req[r])

\* What a request step does to its request, and to nobody else's.
LEMMA ReqStepType ==
    ASSUME BaseType, NEW r \in Requests, NEW x \in Request, req' = [req EXCEPT ![r] = x],
           UNCHANGED <<users, member, service, changes>>, session' \in [Tokens -> Session],
           issued' \in 0..MaxTokens, given' \subseteq Tokens
    PROVE  BaseType'
BY DEF BaseType

LEMMA RequestStepType == Typed /\ RequestStep => BaseType'
<1> SUFFICES ASSUME Typed, NEW r \in Requests,
                    \/ ReadSession(r) \/ CheckUser(r) \/ Touch(r) \/ ReadRoles(r) \/ ReadService(r)
                    \/ Decide(r) \/ FindUser(r) \/ ListMemberships(r) \/ Insert(r)
                    \/ ReadForLogout(r) \/ Revoke(r) \/ Answer(r) \/ Outage(r)
             PROVE  BaseType'
  BY DEF RequestStep
<1> DEFINE q == req[r]
<1>0. /\ BaseType /\ q \in Request /\ Placed(q) /\ Idle \in Request
      /\ session \in [Tokens -> Session] /\ issued \in 0..MaxTokens /\ given \subseteq Tokens
  BY ConstantTypes DEF Typed, BaseType
<1>p. \A x \in Pc : [q EXCEPT !.pc = x] \in Request
  BY <1>0, PcType
<1>n. NotResolved(q) \in Request
  BY <1>0, <1>p DEF NotResolved, Pc
<1>1. CASE ReadSession(r)
  <2>1. PICK x \in Request : req' = [req EXCEPT ![r] = x]
    BY <1>1, <1>p, <1>n DEF ReadSession, Pc
  <2>2. QED  BY <1>0, <1>1, <2>1, ReqStepType DEF ReadSession, tables
<1>2. CASE CheckUser(r)
  <2>1. PICK x \in Request : req' = [req EXCEPT ![r] = x]
    BY <1>2, <1>p, <1>n DEF CheckUser, Pc
  <2>2. QED  BY <1>0, <1>2, <2>1, ReqStepType DEF CheckUser, tables
<1>3. CASE Touch(r)
  <2>1. PICK x \in Request : req' = [req EXCEPT ![r] = x]
    BY <1>3, <1>p DEF Touch, Goto, Pc
  <2>2. session' \in [Tokens -> Session]
    <3>1. q.tok \in Tokens /\ session[q.tok] \in Session
      BY <1>0, <1>3 DEF Touch, Goto, Placed, HasFound
    <3>2. [session[q.tok] EXCEPT !.state = IF @ = "idle" THEN "live" ELSE @] \in Session
      BY <3>1 DEF Session
    <3>3. session' = [session EXCEPT ![q.tok] =
                         [session[q.tok] EXCEPT !.state = IF @ = "idle" THEN "live" ELSE @]]
      BY <1>3 DEF Touch
    <3>4. QED  BY <1>0, <3>2, <3>3
  <2>3. QED  BY <1>0, <1>3, <2>1, <2>2, ReqStepType DEF Touch
<1>4. CASE ReadRoles(r)
  <2> DEFINE s == session[q.tok]
             p == [kind |-> "user", tenant |-> s.tenant,
                   can |-> [w \in Workspaces |-> PermissionsOf(ActiveRoles(s.user, s.tenant, w))]]
  <2>1. \A w \in Workspaces : PermissionsOf(ActiveRoles(s.user, s.tenant, w)) \in SUBSET Permissions
    <3>1. \A w \in Workspaces : ActiveRoles(s.user, s.tenant, w) \in SUBSET Roles
      BY DEF ActiveRoles, Typed, BaseType, Membership, Places
    <3>2. QED  BY <3>1, RolesGrantPermissions
  <2>2. s.tenant \in Tenants \cup {None}
    <3>1. q.tok \in Tokens
      BY <1>0, <1>4 DEF ReadRoles, Placed, HasFound
    <3>2. QED  BY <1>0, <3>1 DEF Session
  <2>3. p \in Principal
    BY <2>1, <2>2 DEF Principal
  <2>4. req' = [req EXCEPT ![r] = [q EXCEPT !.pc = "deciding", !.principal = p]]
    BY <1>4 DEF ReadRoles
  <2>5. [q EXCEPT !.pc = "deciding", !.principal = p] \in Request
    BY <1>0, <2>3, PrincipalType
  <2>6. QED  BY <1>0, <1>4, <2>4, <2>5, ReqStepType DEF ReadRoles, tables
<1>5. CASE ReadService(r)
  <2>1. \A s \in Services : ServicePrincipal(s) \in Principal
    <3>1. TAKE s \in Services
    <3>2. service[s] \in Service
      BY <1>0 DEF BaseType
    <3>3. \A w \in Workspaces : (IF w \in service[s].workspaces
                                THEN service[s].grants \ RefusedServiceGrants ELSE {}) \in SUBSET Permissions
      BY <3>2 DEF Service
    <3>4. QED  BY <3>2, <3>3 DEF ServicePrincipal, Principal, Service
  <2>2. PICK x \in Request : req' = [req EXCEPT ![r] = x]
    <3>1. CASE req' = [req EXCEPT ![r] = Idle]
      BY <3>1, <1>0
    <3>2. ASSUME NEW s \in Services,
                 req' = [req EXCEPT ![r] = [@ EXCEPT !.pc = "deciding", !.principal = ServicePrincipal(s)]]
          PROVE  \E x \in Request : req' = [req EXCEPT ![r] = x]
      <4>1. [q EXCEPT !.pc = "deciding", !.principal = ServicePrincipal(s)] \in Request
        BY <1>0, <2>1, PrincipalType
      <4>2. QED  BY <3>2, <4>1
    <3>3. QED  BY <1>5, <3>1, <3>2 DEF ReadService, Bearer
  <2>3. QED  BY <1>0, <1>5, <2>2, ReqStepType DEF ReadService, tables
<1>6. CASE Decide(r) \/ Outage(r)
  BY <1>0, <1>6, ReqStepType DEF Decide, Outage, tables
<1>7. CASE FindUser(r) \/ ListMemberships(r)
  <2>1. PICK x \in Request : req' = [req EXCEPT ![r] = x]
    BY <1>7, <1>0, <1>p DEF FindUser, ListMemberships, Pc
  <2>2. QED  BY <1>0, <1>7, <2>1, ReqStepType DEF FindUser, ListMemberships, tables
<1>8. CASE Insert(r)
  <2>1. issued + 1 \in 0..MaxTokens /\ issued + 1 \in Tokens
    BY <1>0, <1>8, SessionsAssumption DEF Insert, Tokens
  <2>2. FreshSession(q) \in Session
    <3>1. q.op = "rotate" => q.tok \in Tokens
      BY <1>0, <1>8 DEF Insert, Placed, HasFound
    <3>2. q.op = "rotate" => session[q.tok] \in Session
      BY <1>0, <3>1
    <3>3. QED  BY <1>0, <3>2, FreshSessionType
  <2>3. req' = [req EXCEPT ![r] = [q EXCEPT !.fresh = issued + 1,
                               !.pc = IF q.op = "rotate" THEN "revoking" ELSE "answering"]]
    BY <1>8 DEF Insert
  <2>4. [q EXCEPT !.fresh = issued + 1, !.pc = IF q.op = "rotate" THEN "revoking" ELSE "answering"]
           \in Request
    BY <1>0, <2>1, FreshType DEF Pc
  <2>5. session' \in [Tokens -> Session] /\ issued' \in 0..MaxTokens
    BY <1>0, <1>8, <2>1, <2>2 DEF Insert
  <2>6. QED  BY <1>0, <1>8, <2>3, <2>4, <2>5, ReqStepType DEF Insert
<1>9. CASE ReadForLogout(r)
  <2>1. PICK x \in Request : req' = [req EXCEPT ![r] = x]
    BY <1>9, <1>p DEF ReadForLogout, Goto, Pc
  <2>2. QED  BY <1>0, <1>9, <2>1, ReqStepType DEF ReadForLogout, tables
<1>10. CASE Revoke(r)
  <2>1. PICK x \in Request : req' = [req EXCEPT ![r] = x]
    BY <1>10, <1>p DEF Revoke, Goto, Pc
  <2>2. session' \in [Tokens -> Session]
    <3>1. q.tok \in Tokens /\ session[q.tok] \in Session
      BY <1>0, <1>10 DEF Revoke, Goto, Placed, HasFound
    <3>2. session' = [session EXCEPT ![q.tok] = [session[q.tok] EXCEPT !.state = "revoked"]]
      BY <1>10 DEF Revoke
    <3>3. [session[q.tok] EXCEPT !.state = "revoked"] \in Session
      BY <3>1, StateType
    <3>4. QED  BY <1>0, <3>2, <3>3
  <2>3. QED  BY <1>0, <1>10, <2>1, <2>2, ReqStepType DEF Revoke
<1>11. CASE Answer(r)
  <2>1. given' \subseteq Tokens
    <3>1. q.fresh \in 0..MaxTokens
      BY <1>0 DEF Request
    <3>2. given' = given \cup ({q.fresh} \ {0})
      BY <1>11 DEF Answer
    <3>3. \A n \in 0..MaxTokens : n # 0 => n \in Tokens
      BY SessionsAssumption DEF Tokens
    <3> HIDE DEF Tokens
    <3>4. QED  BY <1>0, <3>1, <3>2, <3>3
  <2>2. QED  BY <1>0, <1>11, <2>1, ReqStepType DEF Answer, tables
<1>12. QED  BY <1>1, <1>2, <1>3, <1>4, <1>5, <1>6, <1>7, <1>8, <1>9, <1>10, <1>11

LEMMA NoteType == ASSUME seen \in [Requests -> Seen], Note  PROVE seen' \in [Requests -> Seen]
<1>1. Nothing \in Seen
  BY DEF Nothing, Seen
<1>2. ASSUME NEW r \in Requests  PROVE seen'[r] \in Seen
  <2>1. DEFINE h == Holds(r)'
  <2>2. /\ h.session \in BOOLEAN /\ h.user \in BOOLEAN /\ h.member \in BOOLEAN
        /\ h.may \subseteq Workspaces \X Permissions
    BY DEF Holds, Valid, Active, IsMember
  <2> HIDE DEF h
  <2>3. [session |-> seen[r].session \/ h.session, user |-> seen[r].user \/ h.user,
         member |-> seen[r].member \/ h.member, may |-> seen[r].may \cup h.may] \in Seen
    BY <2>2 DEF Seen
  <2>4. seen'[r] = IF req'[r].pc = "idle" THEN Nothing
                   ELSE [session |-> seen[r].session \/ h.session, user |-> seen[r].user \/ h.user,
                         member |-> seen[r].member \/ h.member, may |-> seen[r].may \cup h.may]
    BY DEF Note, h
  <2>5. QED  BY <1>1, <2>3, <2>4
<1>3. QED  BY <1>2 DEF Note

-----------------------------------------------------------------------------
(* Where requests stand *)

LEMMA IdlePlaced == issued \in Nat => Placed(Idle)
BY SessionsAssumption DEF Placed, HasFound, Idle

LEMMA PlacedInit == Init => Rows /\ \A r \in Requests : Placed(req[r])
<1> SUFFICES ASSUME Init  PROVE Rows /\ \A r \in Requests : Placed(req[r])
  OBVIOUS
<1>1. Rows
  BY DEF Init, Rows
<1>2. ASSUME NEW r \in Requests  PROVE Placed(req[r])
  <2>1. req[r] = Idle /\ issued \in Nat
    BY DEF Init
  <2>2. QED  BY <2>1, IdlePlaced
<1>3. QED  BY <1>1, <1>2

\* Placed looks at these fields only.
LEMMA PlacedSame ==
    ASSUME NEW q, NEW p, Placed(q), q.op = p.op, q.pc = p.pc, q.tok = p.tok, q.fresh = p.fresh,
           q.tok \in Nat, q.fresh \in Nat, issued \in Nat, issued' \in Nat, issued <= issued'
    PROVE  Placed(p)'
BY DEF Placed, HasFound

LEMMA OperatorStepPlaced ==
    Typed /\ OperatorStep => Rows' /\ \A r \in Requests : Placed(req[r])'
<1> SUFFICES ASSUME Typed, OperatorStep  PROVE Rows' /\ \A r \in Requests : Placed(req[r])'
  OBVIOUS
<1>1. ASSUME NEW u \in Users, RevokeAllForUser(u)
      PROVE  Rows' /\ \A r \in Requests : Placed(req[r])'
  <2>1. Rows'
    <3>1. ASSUME NEW t \in Tokens, session[t] = NoSession  PROVE session'[t] = NoSession
      <4>1. session[t].user # u
        BY <3>1, SessionsAssumption DEF NoSession
      <4>2. QED  BY <1>1, <3>1, <4>1 DEF RevokeAllForUser
    <3>2. QED  BY <1>1, <3>1 DEF RevokeAllForUser, Typed, Rows
  <2>2. ASSUME NEW r \in Requests  PROVE Placed(req[r])'
    <3>1. \/ req'[r] = req[r]
          \/ req'[r] = [req[r] EXCEPT !.cut = TRUE]
      BY <1>1 DEF RevokeAllForUser
    <3>2. req[r] \in Request /\ Placed(req[r]) /\ issued' = issued
      BY <1>1 DEF Typed, BaseType, RevokeAllForUser
    <3>3. \A f \in {"op", "pc", "tok", "fresh"} : req'[r][f] = req[r][f]
      BY <3>1, <3>2 DEF Request
    <3>4. QED  BY <3>2, <3>3 DEF Placed, HasFound
  <2>3. QED  BY <2>1, <2>2
<1>2. CASE /\ UNCHANGED <<session, req>>
           /\ \/ UNCHANGED <<issued, given>>
              \/ issued' = issued + 1 /\ given' = given \cup {issued + 1}
  <2>1. issued \in Nat /\ issued' \in Nat /\ issued <= issued'
    BY <1>2 DEF Typed, BaseType
  <2>2. Rows'
    <3>1. given \subseteq 1..issued /\ session' = session
      BY <1>2 DEF Typed, Rows
    <3>2. given' \subseteq 1..issued'
      <4>1. CASE UNCHANGED <<issued, given>>
        BY <3>1, <4>1
      <4>2. CASE issued' = issued + 1 /\ given' = given \cup {issued + 1}
        <5>1. 1..issued \subseteq 1..issued' /\ issued + 1 \in 1..issued'
          BY <2>1, <4>2
        <5>2. QED  BY <3>1, <4>2, <5>1
      <4>3. QED  BY <1>2, <4>1, <4>2
    <3>3. \A t \in Tokens : t > issued' => session'[t] = NoSession
      BY <2>1, <3>1 DEF Typed, Rows, Tokens
    <3>4. QED  BY <3>2, <3>3 DEF Rows
  <2>3. ASSUME NEW r \in Requests  PROVE Placed(req[r])'
    <3>1. req[r] \in Request /\ Placed(req[r])
      BY DEF Typed, BaseType
    <3>2. req[r].tok \in Nat /\ req[r].fresh \in Nat
      BY <3>1 DEF Request
    <3>3. QED  BY <1>2, <2>1, <3>1, <3>2 DEF Placed, HasFound
  <2>4. QED  BY <2>2, <2>3
<1>3. ASSUME NEW u \in Users, NEW st \in {"active", "disabled"}, SetUserStatus(u, st)
      PROVE  Rows' /\ \A r \in Requests : Placed(req[r])'
  BY <1>2, <1>3 DEF SetUserStatus
<1>4. ASSUME NEW u \in Users, NEW t \in Tenants, NEW w \in Workspaces, Suspend(u, t, w)
      PROVE  Rows' /\ \A r \in Requests : Placed(req[r])'
  BY <1>2, <1>4 DEF Suspend
<1>5. ASSUME NEW u \in Users, NEW t \in Tenants, NEW w \in Workspaces, NEW roles \in RoleSets, 
             Grant(u, t, w, roles)
      PROVE  Rows' /\ \A r \in Requests : Placed(req[r])'
  BY <1>2, <1>5 DEF Grant
<1>6. ASSUME NEW s \in Services, RotateService(s) \/ DisableService(s) \/ EditService(s)
      PROVE  Rows' /\ \A r \in Requests : Placed(req[r])'
  <2>1. CASE RotateService(s)
    BY <1>2, <2>1 DEF RotateService
  <2>2. CASE DisableService(s)
    BY <1>2, <2>2 DEF DisableService
  <2>3. CASE EditService(s)
    BY <1>2, <2>3 DEF EditService
  <2>4. QED  BY <1>6, <2>1, <2>2, <2>3
<1>7. ASSUME NEW s \in Services, NEW t \in Tenants, NEW grants \in {{"read"}, {"read", "test"}}, 
             RegisterService(s, t, grants)
      PROVE  Rows' /\ \A r \in Requests : Placed(req[r])'
  BY <1>2, <1>7 DEF RegisterService
<1>8. QED  BY <1>1, <1>3, <1>4, <1>5, <1>6, <1>7 DEF OperatorStep

LEMMA ArrivalStepPlaced ==
    Typed /\ ArrivalStep => Rows' /\ \A r \in Requests : Placed(req[r])'
<1> SUFFICES ASSUME Typed, ArrivalStep  PROVE Rows' /\ \A r \in Requests : Placed(req[r])'
  OBVIOUS
<1>1. UNCHANGED <<session, given, issued>>
  BY DEF ArrivalStep, Login, Present, tables
<1>2. Rows'
  BY <1>1 DEF Typed, Rows
<1>3. PICK r \in Requests :
         \/ \E u \in Users, t \in Tenants, a \in Assertions : "login" \in Ops /\ Login(r, u, t, a)
         \/ \E op \in Ops \ {"login"}, t \in given \cup {0} :
               \E c \in {"bearer", "cookie", "cookie_without_csrf"} : Present(r, op, t, c)
  BY DEF ArrivalStep
<1>4. ASSUME NEW k \in Requests  PROVE Placed(req[k])'
  <2>1. CASE k # r
    <3>1. req'[k] = req[k]
      BY <1>3, <2>1 DEF Login, Present, Typed, BaseType
    <3>2. QED  BY <1>1, <3>1 DEF Typed, Placed, HasFound
  <2>2. CASE k = r
    <3>1. ASSUME NEW u \in Users, NEW t \in Tenants, NEW a \in Assertions, Login(r, u, t, a)
          PROVE  Placed(req[k])'
      <4>1. req'[r] = [Idle EXCEPT !.op = "login", !.pc = "finding", !.user = u, !.tenant = t]
        BY <3>1 DEF Login, Typed, BaseType
      <4>2. /\ req'[r].op = "login" /\ req'[r].pc = "finding"
            /\ req'[r].tok = 0 /\ req'[r].fresh = 0
        BY <4>1 DEF Idle
      <4>3. QED  BY <1>1, <2>2, <4>2, SessionsAssumption DEF Placed, HasFound, Typed, BaseType
    <3>2. ASSUME NEW op \in Ops \ {"login"}, NEW t \in given \cup {0}, NEW c, Present(r, op, t, c)
          PROVE  Placed(req[k])'
      <4>1. req'[r] = [Idle EXCEPT !.op = op, !.pc = "reading", !.tok = t]
        BY <3>2 DEF Present, Typed, BaseType
      <4>2. /\ req'[r].op = op /\ req'[r].pc = "reading"
            /\ req'[r].tok = t /\ req'[r].fresh = 0
        BY <4>1 DEF Idle
      <4>3. op \in {"call", "rotate", "logout"} /\ t \in 0..issued /\ issued \in Nat
        BY SessionsAssumption DEF Typed, Rows, BaseType
      <4>n. None \notin {"call", "rotate", "logout"} \/ op = None \/ op # None
        OBVIOUS
      <4>4. QED  BY <1>1, <2>2, <4>2, <4>3, SessionsAssumption DEF Placed, HasFound
    <3>3. QED  BY <1>3, <3>1, <3>2
  <2>3. QED  BY <2>1, <2>2
<1>5. QED  BY <1>2, <1>4

\* The moves of a request from one statement to the next.
Moves(q, p) ==
    /\ p.op = q.op /\ p.tok = q.tok /\ p.fresh = q.fresh
    /\ \/ q.pc = "reading" /\ q.op \in {"call", "rotate"} /\ q.tok \in Tokens /\ p.pc = "checking"
       \/ q.pc \in {"reading", "checking"} /\ q.op = "call" /\ p.pc = "service"
       \/ q.pc = "checking" /\ p.pc = "touching"
       \/ q.pc = "touching" /\ p.pc = IF q.op = "call" THEN "roles" ELSE "inserting"
       \/ q.pc \in {"roles", "service"} /\ p.pc = "deciding"
       \/ q.pc = "finding" /\ p.pc = "listing"
       \/ q.pc = "listing" /\ p.pc = "inserting"
       \/ q.pc = "reading" /\ q.op = "logout" /\ q.tok \in Tokens /\ p.pc = "revoking"
       \/ q.pc = "reading" /\ q.op = "logout" /\ p.pc = "answering"
       \/ q.pc = "revoking" /\ p.pc = "answering"

LEMMA MovesPlaced ==
    ASSUME NEW q \in Request, NEW p, Placed(q), Moves(q, p)
    PROVE  Placed(p)
<1>1. q.op \in {"login", "call", "rotate", "logout", None} /\ q.tok \in Nat /\ q.fresh \in Nat
  BY DEF Request
<1>2. QED  BY <1>1, SessionsAssumption DEF Placed, Moves, HasFound

LEMMA InsertPlaced ==
    ASSUME NEW q \in Request, NEW p, Placed(q), q.pc = "inserting", p.op = q.op, p.tok = q.tok,
           issued \in Nat, issued' = issued + 1, p.fresh = issued + 1,
           p.pc = IF q.op = "rotate" THEN "revoking" ELSE "answering"
    PROVE  Placed(p)'
<1>1. q.op \in {"login", "call", "rotate", "logout", None} /\ q.tok \in Nat /\ q.fresh \in Nat
  BY DEF Request
<1>2. QED  BY <1>1, SessionsAssumption DEF Placed, HasFound

\* A step of one request that leaves the table rows beyond the last token alone.
LEMMA OneRequestPlaced ==
    ASSUME Typed, NEW r \in Requests, NEW x, req' = [req EXCEPT ![r] = x], Placed(x)',
           issued' \in Nat, issued <= issued', given' \subseteq 1..issued',
           \A t \in Tokens : t > issued' => session'[t] = session[t]
    PROVE  Rows' /\ \A k \in Requests : Placed(req[k])'
<1>1. issued \in Nat
  BY DEF Typed, BaseType
<1>2. Rows'
  BY <1>1 DEF Typed, Rows, Tokens
<1>3. ASSUME NEW k \in Requests  PROVE Placed(req[k])'
  <2>1. req[k] \in Request /\ Placed(req[k]) /\ req'[k] = IF k = r THEN x ELSE req[k]
    BY DEF Typed, BaseType
  <2>2. CASE k = r
    BY <2>1, <2>2 DEF Placed, HasFound
  <2>3. CASE k # r
    <3>1. req[k].tok \in Nat /\ req[k].fresh \in Nat /\ req'[k] = req[k]
      BY <2>1, <2>3 DEF Request
    <3>2. QED  BY <1>1, <2>1, <3>1 DEF Placed, HasFound
  <2>4. QED  BY <2>2, <2>3
<1>4. QED  BY <1>2, <1>3

\* Every step of a request but the insert moves it on or ends it.
LEMMA RequestMoves ==
    ASSUME Typed, NEW r \in Requests,
           \/ ReadSession(r) \/ CheckUser(r) \/ Touch(r) \/ ReadRoles(r) \/ ReadService(r)
           \/ Decide(r) \/ FindUser(r) \/ ListMemberships(r)
           \/ ReadForLogout(r) \/ Revoke(r) \/ Answer(r) \/ Outage(r)
    PROVE  \E x : req' = [req EXCEPT ![r] = x] /\ (x = Idle \/ Moves(req[r], x))
<1> DEFINE q == req[r]
<1>0. q \in Request /\ Placed(q)
  BY DEF Typed, BaseType
<1>1. \A y : /\ [q EXCEPT !.pc = y].op = q.op /\ [q EXCEPT !.pc = y].tok = q.tok
             /\ [q EXCEPT !.pc = y].fresh = q.fresh /\ [q EXCEPT !.pc = y].pc = y
  BY <1>0 DEF Request
<1>2. ASSUME NEW y, req' = [req EXCEPT ![r] = [q EXCEPT !.pc = y]], Moves(q, [q EXCEPT !.pc = y])
      PROVE  \E x : req' = [req EXCEPT ![r] = x] /\ (x = Idle \/ Moves(q, x))
  BY <1>2
<1>3. CASE req' = [req EXCEPT ![r] = Idle]
  BY <1>3
<1>4. CASE ReadSession(r)
  <2>1. CASE Valid(q.tok)
    BY <1>1, <1>2, <1>4, <2>1 DEF ReadSession, Moves, Valid
  <2>2. CASE ~Valid(q.tok) /\ q.op = "call"
    <3>1. req' = [req EXCEPT ![r] = [q EXCEPT !.pc = "service"]]
      BY <1>4, <2>2 DEF ReadSession, NotResolved
    <3>2. QED  BY <1>1, <1>2, <1>4, <2>2, <3>1 DEF ReadSession, Moves
  <2>3. CASE ~Valid(q.tok) /\ q.op # "call"
    BY <1>3, <1>4, <2>3 DEF ReadSession, NotResolved
  <2>4. QED  BY <2>1, <2>2, <2>3
<1>5. CASE CheckUser(r)
  <2>1. CASE Active(session[q.tok].user)
    BY <1>1, <1>2, <1>5, <2>1 DEF CheckUser, Moves
  <2>2. CASE ~Active(session[q.tok].user) /\ q.op = "call"
    <3>1. req' = [req EXCEPT ![r] = [q EXCEPT !.pc = "service"]]
      BY <1>5, <2>2 DEF CheckUser, NotResolved
    <3>2. QED  BY <1>1, <1>2, <1>5, <2>2, <3>1 DEF CheckUser, Moves
  <2>3. CASE ~Active(session[q.tok].user) /\ q.op # "call"
    BY <1>3, <1>5, <2>3 DEF CheckUser, NotResolved
  <2>4. QED  BY <2>1, <2>2, <2>3
<1>6. CASE Touch(r)
  <2> DEFINE y == IF q.op = "call" THEN "roles" ELSE "inserting"
  <2>1. req' = [req EXCEPT ![r] = [q EXCEPT !.pc = y]] /\ q.pc = "touching"
    BY <1>6 DEF Touch, Goto
  <2>2. Moves(q, [q EXCEPT !.pc = y])
    BY <1>1, <2>1 DEF Moves
  <2>3. QED  BY <1>2, <2>1, <2>2
<1>7. CASE ReadRoles(r) \/ ReadService(r)
  <2>1. \A p : LET x == [q EXCEPT !.pc = "deciding", !.principal = p] IN
                  x.op = q.op /\ x.tok = q.tok /\ x.fresh = q.fresh /\ x.pc = "deciding"
    BY <1>0 DEF Request
  <2>2. ASSUME NEW p, req' = [req EXCEPT ![r] = [q EXCEPT !.pc = "deciding", !.principal = p]],
               q.pc \in {"roles", "service"}
        PROVE  \E x : req' = [req EXCEPT ![r] = x] /\ (x = Idle \/ Moves(q, x))
    <3> DEFINE x == [q EXCEPT !.pc = "deciding", !.principal = p]
    <3>1. Moves(q, x)
      BY <2>1, <2>2 DEF Moves
    <3>2. req' = [req EXCEPT ![r] = x]
      BY <2>2
    <3> HIDE DEF x
    <3>3. QED  BY <3>1, <3>2
  <2>3. CASE ReadRoles(r)
    BY <2>2, <2>3 DEF ReadRoles
  <2>4. CASE ReadService(r)
    BY <1>3, <2>2, <2>4 DEF ReadService
  <2>5. QED  BY <1>7, <2>3, <2>4
<1>8. CASE Decide(r) \/ Answer(r) \/ Outage(r)
  BY <1>3, <1>8 DEF Decide, Answer, Outage
<1>9. CASE FindUser(r)
  BY <1>1, <1>2, <1>3, <1>9 DEF FindUser, Moves
<1>10. CASE ListMemberships(r)
  BY <1>1, <1>2, <1>3, <1>10 DEF ListMemberships, Moves
<1>11. CASE ReadForLogout(r)
  BY <1>1, <1>2, <1>11 DEF ReadForLogout, Goto, Moves
<1>12. CASE Revoke(r)
  BY <1>1, <1>2, <1>12 DEF Revoke, Goto, Moves
<1>13. QED  BY <1>4, <1>5, <1>6, <1>7, <1>8, <1>9, <1>10, <1>11, <1>12

LEMMA RequestStepPlaced ==
    Typed /\ RequestStep => Rows' /\ \A r \in Requests : Placed(req[r])'
<1> SUFFICES ASSUME Typed, NEW r \in Requests,
                    \/ ReadSession(r) \/ CheckUser(r) \/ Touch(r) \/ ReadRoles(r) \/ ReadService(r)
                    \/ Decide(r) \/ FindUser(r) \/ ListMemberships(r) \/ Insert(r)
                    \/ ReadForLogout(r) \/ Revoke(r) \/ Answer(r) \/ Outage(r)
             PROVE  Rows' /\ \A k \in Requests : Placed(req[k])'
  BY DEF RequestStep
<1> DEFINE q == req[r]
<1>0. /\ q \in Request /\ Placed(q) /\ issued \in Nat /\ given \subseteq 1..issued
      /\ session \in [Tokens -> Session] /\ q.tok \in Nat /\ q.fresh \in Nat
  BY DEF Typed, BaseType, Rows, Request
<1>1. CASE Insert(r)
  <2> DEFINE p == IF q.op = "rotate" THEN "revoking" ELSE "answering"
  <2>0. PICK x : x = [q EXCEPT !.fresh = issued + 1, !.pc = p]
    OBVIOUS
  <2>1. req' = [req EXCEPT ![r] = x] /\ issued' = issued + 1 /\ given' = given
        /\ q.pc = "inserting"
    BY <1>1, <2>0 DEF Insert
  <2>2. x.op = q.op /\ x.tok = q.tok /\ x.fresh = issued + 1 /\ x.pc = p
    BY <1>0, <2>0 DEF Request
  <2>3. session' = [session EXCEPT ![issued + 1] = FreshSession(q)]
    BY <1>1 DEF Insert
  <2>4. \A t \in Tokens : t > issued' => session'[t] = session[t]
    BY <1>0, <2>1, <2>3 DEF Tokens
  <2>5. given' \subseteq 1..issued'
    BY <1>0, <2>1
  <2>6. Placed(x)'
    BY <1>0, <2>1, <2>2, InsertPlaced
  <2>7. issued' \in Nat /\ issued <= issued'
    BY <1>0, <2>1
  <2>8. QED  BY <2>1, <2>4, <2>5, <2>6, <2>7, OneRequestPlaced
<1>2. CASE ~Insert(r)
  <2>1. issued' = issued
    BY <1>2 DEF ReadSession, CheckUser, Touch, ReadRoles, ReadService, Decide, FindUser,
                ListMemberships, ReadForLogout, Revoke, Answer, Outage
  <2>2. given' \subseteq 1..issued'
    <3>1. CASE Answer(r)
      <4>1. q.fresh # 0 => q.fresh \in 1..issued
        BY <1>0 DEF Placed
      <4>2. given' = given \cup ({q.fresh} \ {0})
        BY <3>1 DEF Answer
      <4>3. QED  BY <1>0, <2>1, <4>1, <4>2
    <3>2. CASE ~Answer(r)
      BY <1>0, <1>2, <2>1, <3>2 DEF ReadSession, CheckUser, Touch, ReadRoles, ReadService, Decide,
                FindUser, ListMemberships, ReadForLogout, Revoke, Outage
    <3>3. QED  BY <3>1, <3>2
  <2>3. \A t \in Tokens : t > issued' => session'[t] = session[t]
    <3>1. CASE Touch(r)
      <4>1. session' = [session EXCEPT ![q.tok].state = IF @ = "idle" THEN "live" ELSE @]
        BY <3>1 DEF Touch
      <4>2. QED  BY <1>0, <2>1, <4>1 DEF Placed, Tokens
    <3>2. CASE Revoke(r)
      <4>1. session' = [session EXCEPT ![q.tok].state = "revoked"]
        BY <3>2 DEF Revoke
      <4>2. QED  BY <1>0, <2>1, <4>1 DEF Placed, Tokens
    <3>3. CASE UNCHANGED session
      BY <3>3
    <3>4. QED
      BY <1>2, <3>1, <3>2, <3>3 DEF ReadSession, CheckUser, ReadRoles, ReadService, Decide,
                FindUser, ListMemberships, ReadForLogout, Answer, Outage, tables
  <2>4. PICK x : req' = [req EXCEPT ![r] = x] /\ (x = Idle \/ Moves(q, x))
    BY <1>2, RequestMoves
  <2>5. Placed(x)
    BY <1>0, <2>4, IdlePlaced, MovesPlaced
  <2>6. Placed(x)'
    BY <2>1, <2>5 DEF Placed, HasFound
  <2>7. issued' \in Nat /\ issued <= issued'
    BY <1>0, <2>1
  <2>8. QED  BY <2>2, <2>3, <2>4, <2>6, <2>7, OneRequestPlaced
<1>3. QED  BY <1>1, <1>2

-----------------------------------------------------------------------------
LEMMA TypedStep == Typed /\ [Next]_vars => Typed'
<1> SUFFICES ASSUME Typed, [Next]_vars  PROVE Typed'
  OBVIOUS
<1>0. BaseType
  BY DEF Typed
<1>1. CASE OperatorStep
  BY <1>0, <1>1, OperatorStepType, OperatorStepPlaced DEF Typed
<1>2. CASE ArrivalStep
  BY <1>0, <1>2, ArrivalStepType, ArrivalStepPlaced DEF Typed
<1>3. CASE RequestStep
  BY <1>0, <1>3, RequestStepType, RequestStepPlaced DEF Typed
<1>4. CASE AgeStep
  <2>1. BaseType'
    BY <1>0, <1>4, AgeStepType
  <2>2. PICK t \in Tokens, x \in {"idle", "expired"} : Age(t, x)
    BY <1>4 DEF AgeStep
  <2>3. session[t].state # "absent" /\ UNCHANGED <<req, issued, given>>
    BY <2>2 DEF Age
  <2>4. \A k \in Tokens : session[k] = NoSession => session'[k] = NoSession
    <3>1. session[t] # NoSession
      BY <2>3 DEF NoSession
    <3>2. \A k \in Tokens : k # t => session'[k] = session[k]
      BY <1>0, <2>2 DEF Age, BaseType
    <3>3. QED  BY <3>1, <3>2
  <2>5. Rows'
    BY <2>3, <2>4 DEF Typed, Rows
  <2>6. QED  BY <2>1, <2>3, <2>5 DEF Typed, Placed, HasFound
<1>5. CASE UNCHANGED vars
  <2>1. BaseType'
    BY <1>0, <1>5 DEF vars, BaseType
  <2>2. Rows'
    BY <1>5 DEF Typed, vars, Rows
  <2>3. QED  BY <1>5, <2>1, <2>2 DEF Typed, vars, Placed, HasFound
<1>6. QED  BY <1>1, <1>2, <1>3, <1>4, <1>5 DEF Next

LEMMA TypedAlways == Spec => []Typed
<1>1. Init => Typed
  BY TypeInit, PlacedInit DEF Typed
<1>2. QED  BY <1>1, TypedStep, PTL DEF Spec

\* Type correctness: every table row, token counter and request of the
\* identity service has its type (TypeOK).
THEOREM TypeCorrect == Spec => []TypeOK
<1>1. Init => seen \in [Requests -> Seen]
  BY DEF Init, Nothing, Seen
<1>2. seen \in [Requests -> Seen] /\ [Next]_vars => (seen \in [Requests -> Seen])'
  BY NoteType DEF Next, vars
<1>3. Typed /\ seen \in [Requests -> Seen] => TypeOK
  BY DEF Typed, BaseType, TypeOK
<1>4. QED  BY <1>1, <1>2, <1>3, TypedAlways, PTL DEF Spec

-----------------------------------------------------------------------------
(* Rotation and revokeAllForUser *)

\* What a request knows of the sessions it rotates, issues and revokes.
Heir(q) ==
    /\ q.op = "rotate" /\ q.pc = "answering" => session[q.tok].state = "revoked"
    /\ q.op = "rotate" /\ q.pc \in {"revoking", "answering"} => session[q.fresh].parent = q.tok
    /\ q.op = "login" /\ q.pc = "answering" => session[q.fresh].parent = 0
    /\ q.op = "rotate" /\ q.pc \in {"checking", "touching", "inserting"} =>
          (session[q.tok].old => q.cut \/ session[q.tok].cut)
RotationInv ==
    /\ RotatedIsDead /\ SurvivorsOvertook
    /\ \A r \in Requests : Heir(req[r])

\* Rows of drawn tokens keep their parent and stay revoked; only revokeAllForUser
\* meets them, and it revokes them.
LEMMA RowsGoOn ==
    ASSUME Typed, [Next]_vars
    PROVE  \A t \in Tokens : t <= issued =>
              /\ session'[t].parent = session[t].parent /\ session'[t].cut = session[t].cut
              /\ session[t].state = "revoked" => session'[t].state = "revoked"
              /\ \/ session'[t].old = session[t].old
                 \/ /\ session'[t].state = "revoked"
                    /\ \E u \in Users : RevokeAllForUser(u) /\ session[t].user = u
<1> SUFFICES ASSUME NEW t \in Tokens, t <= issued
             PROVE  /\ session'[t].parent = session[t].parent /\ session'[t].cut = session[t].cut
                    /\ session[t].state = "revoked" => session'[t].state = "revoked"
                    /\ \/ session'[t].old = session[t].old
                       \/ /\ session'[t].state = "revoked"
                          /\ \E u \in Users : RevokeAllForUser(u) /\ session[t].user = u
  OBVIOUS
<1>0. session[t] \in Session /\ session \in [Tokens -> Session] /\ issued \in Nat
  BY DEF Typed, BaseType
<1>s. \A x : /\ [session[t] EXCEPT !.state = x].parent = session[t].parent
             /\ [session[t] EXCEPT !.state = x].old = session[t].old
             /\ [session[t] EXCEPT !.state = x].cut = session[t].cut
             /\ [session[t] EXCEPT !.state = x].state = x
  BY <1>0 DEF Session
<1>1. CASE session'[t] = session[t]
  BY <1>1
<1>2. CASE OperatorStep
  <2>1. ASSUME NEW u \in Users, RevokeAllForUser(u), session[t].user = u
        PROVE  session'[t] = [session[t] EXCEPT !.state = "revoked", !.old = TRUE]
    BY <2>1 DEF RevokeAllForUser
  <2>2. ASSUME NEW u \in Users, RevokeAllForUser(u), session[t].user # u
        PROVE  session'[t] = session[t]
    BY <2>2 DEF RevokeAllForUser
  <2>3. /\ [session[t] EXCEPT !.state = "revoked", !.old = TRUE].parent = session[t].parent
        /\ [session[t] EXCEPT !.state = "revoked", !.old = TRUE].state = "revoked"
        /\ [session[t] EXCEPT !.state = "revoked", !.old = TRUE].cut = session[t].cut
    BY <1>0 DEF Session
  <2>4. (\E u \in Users : RevokeAllForUser(u)) \/ UNCHANGED session
    BY <1>2 DEF OperatorStep, SetUserStatus, Suspend, Grant, RotateService, DisableService,
                EditService, RegisterService
  <2>5. QED  BY <1>1, <2>1, <2>2, <2>3, <2>4
<1>3. CASE ArrivalStep
  BY <1>3 DEF ArrivalStep, Login, Present, tables
<1>4. CASE AgeStep
  <2>1. PICK k \in Tokens, x \in {"idle", "expired"} : Age(k, x)
    BY <1>4 DEF AgeStep
  <2>2. session[k].state # "revoked" /\ session' = [session EXCEPT ![k] = [session[k] EXCEPT !.state = x]]
    BY <2>1 DEF Age
  <2>3. QED  BY <1>0, <1>s, <2>2
<1>5. CASE RequestStep
  <2>1. PICK r \in Requests :
                    \/ ReadSession(r) \/ CheckUser(r) \/ Touch(r) \/ ReadRoles(r) \/ ReadService(r)
                    \/ Decide(r) \/ FindUser(r) \/ ListMemberships(r) \/ Insert(r)
                    \/ ReadForLogout(r) \/ Revoke(r) \/ Answer(r) \/ Outage(r)
    BY <1>5 DEF RequestStep
  <2>2. CASE Touch(r)
    <3>1. session' = [session EXCEPT ![req[r].tok] =
                 [session[req[r].tok] EXCEPT !.state =
                     IF session[req[r].tok].state = "idle" THEN "live" ELSE session[req[r].tok].state]]
      BY <2>2 DEF Touch
    <3>2. QED  BY <1>0, <1>s, <3>1
  <2>3. CASE Revoke(r)
    <3>1. session' = [session EXCEPT ![req[r].tok] = [session[req[r].tok] EXCEPT !.state = "revoked"]]
      BY <2>3 DEF Revoke
    <3>2. QED  BY <1>0, <1>s, <3>1
  <2>4. CASE Insert(r)
    <3>1. session' = [session EXCEPT ![issued + 1] = FreshSession(req[r])]
      BY <2>4 DEF Insert
    <3>2. QED  BY <1>0, <1>1, <3>1 DEF Tokens
  <2>5. CASE UNCHANGED session
    BY <2>5
  <2>6. QED
    BY <2>1, <2>2, <2>3, <2>4, <2>5 DEF ReadSession, CheckUser, ReadRoles, ReadService, Decide,
              FindUser, ListMemberships, ReadForLogout, Answer, Outage, tables
<1>6. CASE UNCHANGED vars
  BY <1>6 DEF vars
<1>7. QED  BY <1>2, <1>3, <1>4, <1>5, <1>6 DEF Next

\* A request that does not move keeps what it knows.
LEMMA HeirStays ==
    ASSUME Typed, [Next]_vars, NEW r \in Requests, Heir(req[r]), req'[r] = req[r],
           ~ \E u \in Users : RevokeAllForUser(u) /\ Rotating(r, u)
    PROVE  Heir(req[r])'
<1> DEFINE q == req[r]
<1>0. q \in Request /\ Placed(q) /\ issued \in Nat
  BY DEF Typed, BaseType
<1>1. q.tok \in Nat /\ q.fresh \in 0..MaxTokens /\ q.tok <= issued /\ q.fresh <= issued
  BY <1>0 DEF Request, Placed
<1>2. HasFound(q) => q.tok \in Tokens
  BY <1>0 DEF Placed
<1>3. q.op = "rotate" /\ q.pc = "answering" => session'[q.tok].state = "revoked"
  BY <1>1, <1>2, RowsGoOn DEF Heir, HasFound
<1>4. q.pc \in {"revoking", "answering"} /\ q.op \in {"login", "rotate"}
         => session'[q.fresh].parent = session[q.fresh].parent
  <2>1. q.pc \in {"revoking", "answering"} /\ q.op \in {"login", "rotate"} => q.fresh \in Tokens
    BY <1>0, <1>1, SessionsAssumption DEF Placed, Tokens
  <2>2. QED  BY <1>1, <2>1, RowsGoOn
<1>5. q.op = "rotate" /\ q.pc \in {"checking", "touching", "inserting"} =>
         (session'[q.tok].old => q.cut \/ session'[q.tok].cut)
  <2>1. SUFFICES ASSUME q.op = "rotate" /\ q.pc \in {"checking", "touching", "inserting"},
                        session'[q.tok].old
                 PROVE  q.cut \/ session'[q.tok].cut
    OBVIOUS
  <2>2. q.tok \in Tokens
    BY <1>2, <2>1 DEF HasFound
  <2>3. CASE session'[q.tok].old = session[q.tok].old
    BY <1>1, <2>1, <2>2, <2>3, RowsGoOn DEF Heir
  <2>4. CASE \E u \in Users : RevokeAllForUser(u) /\ session[q.tok].user = u
    BY <2>1, <2>4 DEF Rotating
  <2>5. QED  BY <1>1, <2>2, <2>3, <2>4, RowsGoOn
<1>6. QED  BY <1>3, <1>4, <1>5 DEF Heir

LEMMA HeirInit == Init => \A r \in Requests : Heir(req[r])
<1> SUFFICES ASSUME Init, NEW r \in Requests  PROVE Heir(req[r])
  OBVIOUS
<1>1. req[r].pc = "idle"
  BY DEF Init, Idle
<1>2. QED  BY <1>1 DEF Heir

\* The steps of a request itself.
LEMMA HeirMoves ==
    ASSUME Typed, [Next]_vars, NEW r \in Requests, Heir(req[r]), SurvivorsOvertook,
           \/ ReadSession(r) \/ CheckUser(r) \/ Touch(r) \/ ReadRoles(r) \/ ReadService(r)
           \/ Decide(r) \/ FindUser(r) \/ ListMemberships(r) \/ Insert(r)
           \/ ReadForLogout(r) \/ Revoke(r) \/ Answer(r) \/ Outage(r)
    PROVE  Heir(req[r])'
<1> DEFINE q == req[r]
<1>0. q \in Request /\ Placed(q) /\ issued \in Nat /\ req \in [Requests -> Request]
      /\ session \in [Tokens -> Session]
  BY DEF Typed, BaseType
<1>1. q.tok \in Nat /\ q.fresh \in 0..MaxTokens /\ q.tok <= issued /\ q.fresh <= issued
  BY <1>0 DEF Request, Placed
<1>2. HasFound(q) => q.tok \in Tokens
  BY <1>0 DEF Placed
<1>3. CASE req' = [req EXCEPT ![r] = Idle]
  <2>1. req'[r].pc = "idle"
    BY <1>0, <1>3 DEF Idle
  <2>2. QED  BY <2>1 DEF Heir
<1>4. CASE Insert(r)
  <2>1. /\ req'[r].op = q.op /\ req'[r].tok = q.tok /\ req'[r].fresh = issued + 1
        /\ req'[r].pc = IF q.op = "rotate" THEN "revoking" ELSE "answering"
    BY <1>0, <1>4 DEF Insert, Request
  <2>2. session'[issued + 1] = FreshSession(q)
    BY <1>0, <1>4, SessionsAssumption DEF Insert, Tokens
  <2>3. FreshSession(q).parent = q.tok
    BY DEF FreshSession
  <2>4. q.op = "login" => q.tok = 0
    BY <1>0 DEF Placed
  <2>5. QED  BY <2>1, <2>2, <2>3, <2>4 DEF Heir
<1>5. CASE ReadSession(r) /\ Valid(q.tok)
  <2>1. UNCHANGED session /\ req' = [req EXCEPT ![r] = [q EXCEPT !.pc = "checking"]]
    BY <1>5 DEF ReadSession, tables
  <2>2. req'[r].pc = "checking" /\ req'[r].tok = q.tok
    BY <1>0, <2>1 DEF Request
  <2>3. session[q.tok].old => session[q.tok].cut
    BY <1>5 DEF Valid, SurvivorsOvertook
  <2>4. QED  BY <2>1, <2>2, <2>3 DEF Heir
<1>6. CASE Revoke(r)
  <2>1. /\ req'[r].op = q.op /\ req'[r].tok = q.tok /\ req'[r].fresh = q.fresh
        /\ req'[r].pc = "answering" /\ q.pc = "revoking"
    BY <1>0, <1>6 DEF Revoke, Goto, Request
  <2>2. q.tok \in Tokens
    BY <1>2, <2>1 DEF HasFound
  <2>3. session'[q.tok] = [session[q.tok] EXCEPT !.state = "revoked"] /\ session[q.tok] \in Session
    BY <1>0, <1>6, <2>2 DEF Revoke
  <2>4. session'[q.tok].state = "revoked"
    BY <2>3 DEF Session
  <2>5. q.op = "rotate" => session'[q.fresh].parent = q.tok
    <3>1. q.op = "rotate" => q.fresh \in Tokens /\ session[q.fresh].parent = q.tok
      BY <1>0, <1>1, <2>1, SessionsAssumption DEF Placed, Heir, Tokens
    <3>2. QED  BY <1>1, <3>1, RowsGoOn
  <2>6. q.op # "login"
    BY <1>0, <2>1 DEF Placed
  <2>7. QED  BY <2>1, <2>4, <2>5, <2>6 DEF Heir
<1>7. CASE ReadRoles(r) \/ ReadService(r)
  <2>0. \A p : [q EXCEPT !.pc = "deciding", !.principal = p].pc = "deciding"
    BY <1>0 DEF Request
  <2>i. Idle.pc = "idle"
    BY DEF Idle
  <2>1. req'[r].pc \in {"deciding", "idle"}
    <3>1. CASE ReadRoles(r)
      BY <1>0, <2>0, <3>1 DEF ReadRoles
    <3>2. CASE ReadService(r)
      <4>1. CASE req' = [req EXCEPT ![r] = Idle]
        BY <1>0, <2>i, <4>1
      <4>2. ASSUME NEW s, req' = [req EXCEPT ![r] = [q EXCEPT !.pc = "deciding",
                                                             !.principal = ServicePrincipal(s)]]
            PROVE  req'[r].pc \in {"deciding", "idle"}
        BY <1>0, <2>0, <4>2
      <4>3. QED  BY <3>2, <4>1, <4>2 DEF ReadService
    <3>3. QED  BY <1>7, <3>1, <3>2
  <2>2. QED  BY <2>1 DEF Heir
<1>8. CASE FindUser(r) \/ ListMemberships(r) \/ ReadForLogout(r)
  <2>1. req'[r] = Idle \/ /\ req'[r].op = q.op
                          /\ req'[r].pc \in {"listing", "inserting", "revoking", "answering"}
    BY <1>0, <1>8 DEF FindUser, ListMemberships, ReadForLogout, Goto, Request
  <2>2. FindUser(r) \/ ListMemberships(r) => q.op = "login"
    BY <1>0, SessionsAssumption DEF FindUser, ListMemberships, Placed, Request
  <2>3. ReadForLogout(r) => q.op = "logout"
    BY DEF ReadForLogout
  <2>4. FindUser(r) \/ ListMemberships(r) => req'[r] = Idle \/ req'[r].pc \in {"listing", "inserting"}
    BY <1>0 DEF FindUser, ListMemberships, Request
  <2>5. Idle.pc = "idle"
    BY DEF Idle
  <2>6. QED  BY <1>8, <2>1, <2>2, <2>3, <2>4, <2>5 DEF Heir
<1>9. CASE CheckUser(r) \/ Touch(r)
  <2>1. CASE q.op = "rotate" /\ req'[r].op = q.op /\ req'[r].cut = q.cut /\ req'[r].tok = q.tok
             /\ req'[r].pc \in {"touching", "inserting"}
    <3>1. session[q.tok].old => q.cut \/ session[q.tok].cut
      BY <1>9, <2>1 DEF Heir, CheckUser, Touch, Goto
    <3>2. q.tok \in Tokens
      BY <1>2, <1>9 DEF HasFound, CheckUser, Touch, Goto
    <3>3. session'[q.tok].old = session[q.tok].old /\ session'[q.tok].cut = session[q.tok].cut
      <4>1. CASE CheckUser(r)
        BY <4>1 DEF CheckUser, tables
      <4>2. CASE Touch(r)
        <5>1. session'[q.tok] = [session[q.tok] EXCEPT !.state = IF @ = "idle" THEN "live" ELSE @]
              /\ session[q.tok] \in Session
          BY <1>0, <3>2, <4>2 DEF Touch
        <5>2. QED  BY <5>1 DEF Session
      <4>3. QED  BY <1>9, <4>1, <4>2
    <3>4. QED  BY <2>1, <3>1, <3>3 DEF Heir
  <2>2. CASE q.op # "rotate" /\ req'[r].op = q.op /\ req'[r].pc \in {"touching", "inserting", "roles", "service"}
    BY <2>2 DEF Heir
  <2>3. CASE req'[r] = Idle
    BY <2>3 DEF Heir, Idle
  <2>4. CASE CheckUser(r)
    <3>1. CASE Active(session[q.tok].user)
      <4>1. req'[r] = [q EXCEPT !.pc = "touching"]
        BY <1>0, <2>4, <3>1 DEF CheckUser
      <4>2. req'[r].op = q.op /\ req'[r].cut = q.cut /\ req'[r].tok = q.tok /\ req'[r].pc = "touching"
        BY <1>0, <4>1 DEF Request
      <4>3. QED  BY <2>1, <2>2, <4>2
    <3>2. CASE ~Active(session[q.tok].user)
      <4>1. req'[r] = IF q.op = "call" THEN [q EXCEPT !.pc = "service"] ELSE Idle
        BY <1>0, <2>4, <3>2 DEF CheckUser, NotResolved
      <4>2. q.op = "call" => req'[r].op = q.op /\ req'[r].pc = "service"
        BY <1>0, <4>1 DEF Request
      <4>3. QED  BY <2>2, <2>3, <4>1, <4>2
    <3>3. QED  BY <3>1, <3>2
  <2>5. CASE Touch(r)
    <3>1. req'[r] = [q EXCEPT !.pc = IF q.op = "call" THEN "roles" ELSE "inserting"]
      BY <1>0, <2>5 DEF Touch, Goto
    <3>2. /\ req'[r].op = q.op /\ req'[r].cut = q.cut /\ req'[r].tok = q.tok
          /\ req'[r].pc = IF q.op = "call" THEN "roles" ELSE "inserting"
      BY <1>0, <3>1 DEF Request
    <3>3. QED  BY <2>1, <2>2, <3>2
  <2>6. QED  BY <1>9, <2>4, <2>5
<1>10. CASE ReadSession(r) /\ ~Valid(q.tok)
  <2>1. req'[r] = IF q.op = "call" THEN [q EXCEPT !.pc = "service"] ELSE Idle
    BY <1>0, <1>10 DEF ReadSession, NotResolved
  <2>2. req'[r] = Idle \/ req'[r].pc = "service"
    BY <1>0, <2>1 DEF Request
  <2>3. QED  BY <2>2 DEF Heir, Idle
<1>11. QED
  BY <1>3, <1>4, <1>5, <1>6, <1>7, <1>8, <1>9, <1>10 DEF Decide, Answer, Outage
LEMMA NotRevokingAll == ASSUME Typed, UNCHANGED changes
                        PROVE  ~ \E u \in Users : RevokeAllForUser(u)
<1>1. changes \in Nat
  BY DEF Typed, BaseType
<1>2. ~Change
  BY <1>1 DEF Change
<1>3. QED  BY <1>2 DEF RevokeAllForUser

LEMMA HeirStep ==
    ASSUME Typed, [Next]_vars, SurvivorsOvertook, NEW r \in Requests, Heir(req[r])
    PROVE  Heir(req[r])'
<1>0. req \in [Requests -> Request] /\ req[r] \in Request
  BY DEF Typed, BaseType
<1>1. CASE RequestStep
  <2>1. PICK k \in Requests :
           \/ ReadSession(k) \/ CheckUser(k) \/ Touch(k) \/ ReadRoles(k) \/ ReadService(k)
           \/ Decide(k) \/ FindUser(k) \/ ListMemberships(k) \/ Insert(k)
           \/ ReadForLogout(k) \/ Revoke(k) \/ Answer(k) \/ Outage(k)
    BY <1>1 DEF RequestStep
  <2>2. CASE k = r
    BY <2>1, <2>2, HeirMoves
  <2>3. CASE k # r
    <3>1. req'[r] = req[r]
      BY <1>0, <2>1, <2>3 DEF ReadSession, CheckUser, Touch, ReadRoles, ReadService, Decide,
                FindUser, ListMemberships, Insert, ReadForLogout, Revoke, Answer, Outage, Goto
    <3>2. UNCHANGED changes
      BY <2>1 DEF ReadSession, CheckUser, Touch, ReadRoles, ReadService, Decide,
                FindUser, ListMemberships, Insert, ReadForLogout, Revoke, Answer, Outage
    <3>3. ~ \E u \in Users : RevokeAllForUser(u)
      BY <3>2, NotRevokingAll
    <3>4. QED  BY <3>1, <3>3, HeirStays
  <2>4. QED  BY <2>2, <2>3
<1>2. CASE OperatorStep
  <2>1. CASE \E u \in Users : RevokeAllForUser(u) /\ Rotating(r, u)
    <3>1. req'[r] = [req[r] EXCEPT !.cut = TRUE]
      BY <2>1 DEF RevokeAllForUser
    <3>2. req'[r].cut = TRUE /\ req'[r].pc = req[r].pc
      BY <1>0, <3>1 DEF Request
    <3>3. req'[r].pc \in {"checking", "touching", "inserting"} /\ req[r].op = "rotate"
      BY <2>1, <3>2 DEF Rotating
    <3>4. req'[r].op = "rotate"
      BY <1>0, <3>1, <3>3 DEF Request
    <3>5. QED  BY <3>2, <3>3, <3>4 DEF Heir
  <2>2. CASE ~ \E u \in Users : RevokeAllForUser(u) /\ Rotating(r, u)
    <3>1. req'[r] = req[r]
      <4>1. ASSUME NEW u \in Users, RevokeAllForUser(u)  PROVE req'[r] = req[r]
        BY <1>0, <2>2, <4>1 DEF RevokeAllForUser
      <4>2. (\E u \in Users : RevokeAllForUser(u)) \/ UNCHANGED req
        BY <1>2 DEF OperatorStep, SetUserStatus, Suspend, Grant, RotateService, DisableService,
                    EditService, RegisterService
      <4>3. QED  BY <4>1, <4>2
    <3>2. QED  BY <2>2, <3>1, HeirStays
  <2>3. QED  BY <2>1, <2>2
<1>3. CASE ArrivalStep
  <2>1. UNCHANGED changes
    BY <1>3 DEF ArrivalStep, Login, Present
  <2>2. ~ \E u \in Users : RevokeAllForUser(u)
    BY <2>1, NotRevokingAll
  <2>3. CASE req'[r] = req[r]
    BY <2>2, <2>3, HeirStays
  <2>4. CASE req'[r] # req[r]
    <3>1. req'[r].pc \in {"finding", "reading"}
      <4>1. PICK k \in Requests :
               \/ \E u \in Users, t \in Tenants, a \in Assertions : "login" \in Ops /\ Login(k, u, t, a)
               \/ \E op \in Ops \ {"login"}, t \in given \cup {0} :
                     \E c \in {"bearer", "cookie", "cookie_without_csrf"} : Present(k, op, t, c)
        BY <1>3 DEF ArrivalStep
      <4>2. \A u, t : [Idle EXCEPT !.op = "login", !.pc = "finding", !.user = u, !.tenant = t].pc
                         = "finding"
        BY DEF Idle
      <4>3. \A op, t : [Idle EXCEPT !.op = op, !.pc = "reading", !.tok = t].pc = "reading"
        BY DEF Idle
      <4>4. ASSUME NEW u, NEW t, NEW a, Login(k, u, t, a)  PROVE req'[r].pc \in {"finding", "reading"}
        BY <1>0, <2>4, <4>2, <4>4 DEF Login
      <4>5. ASSUME NEW op, NEW t, NEW c, Present(k, op, t, c)
            PROVE  req'[r].pc \in {"finding", "reading"}
        BY <1>0, <2>4, <4>3, <4>5 DEF Present
      <4>6. QED  BY <4>1, <4>4, <4>5
    <3>2. QED  BY <3>1 DEF Heir
  <2>5. QED  BY <2>3, <2>4
<1>4. CASE AgeStep \/ UNCHANGED vars
  <2>1. UNCHANGED <<req, changes>>
    BY <1>4 DEF AgeStep, Age, vars
  <2>2. ~ \E u \in Users : RevokeAllForUser(u)
    BY <2>1, NotRevokingAll
  <2>3. QED  BY <2>1, <2>2, HeirStays
<1>5. QED  BY <1>1, <1>2, <1>3, <1>4 DEF Next

LEMMA SurvivorsStep ==
    ASSUME Typed, [Next]_vars, SurvivorsOvertook, \A r \in Requests : Heir(req[r])
    PROVE  SurvivorsOvertook'
<1> SUFFICES ASSUME NEW t \in Tokens, session'[t].old
             PROVE  session'[t].state = "revoked" \/ session'[t].cut
  BY DEF SurvivorsOvertook
<1>0. session \in [Tokens -> Session] /\ issued \in Nat /\ t \in Nat
  BY DEF Typed, BaseType, Tokens
<1>1. CASE t <= issued
  BY <1>1, RowsGoOn DEF SurvivorsOvertook
<1>2. CASE ~(t <= issued)
  <2>1. session[t] = NoSession
    BY <1>0, <1>2 DEF Typed, Rows
  <2>2. session'[t] # session[t]
    BY <2>1 DEF NoSession
  <2>3. PICK r \in Requests : Insert(r) /\ t = issued + 1
    <3>1. Typed'
      BY TypedStep
    <3>2. t <= issued'
      <4>1. session'[t] # NoSession
        BY <2>1, <2>2
      <4>2. issued' \in Nat
        BY <3>1 DEF Typed, BaseType
      <4>3. QED  BY <1>0, <3>1, <4>1, <4>2 DEF Typed, Rows
    <3>3. (\E r \in Requests : Insert(r)) \/ UNCHANGED session \/ UNCHANGED issued
      BY DEF Next, OperatorStep, ArrivalStep, AgeStep, RequestStep, RevokeAllForUser, SetUserStatus,
             Suspend, Grant, RotateService, DisableService, EditService, RegisterService, Login, Present,
             Age, ReadSession, CheckUser, Touch, ReadRoles, ReadService, Decide, FindUser,
             ListMemberships, ReadForLogout, Revoke, Answer, Outage, tables, vars
    <3>4. PICK r \in Requests : Insert(r)
      BY <1>2, <2>2, <3>2, <3>3
    <3>5. issued' = issued + 1
      BY <3>4 DEF Insert
    <3>6. QED  BY <1>0, <1>2, <3>2, <3>4, <3>5
  <2>4. session'[t] = FreshSession(req[r])
    BY <1>0, <2>3 DEF Insert
  <2>5. CASE req[r].op = "rotate"
    <3>1. session[req[r].tok].old => req[r].cut \/ session[req[r].tok].cut
      BY <2>3, <2>5 DEF Heir, Insert
    <3>2. /\ FreshSession(req[r]).old = session[req[r].tok].old
          /\ FreshSession(req[r]).cut = (session[req[r].tok].cut \/ req[r].cut)
      BY <2>5 DEF FreshSession
    <3>3. QED  BY <2>4, <3>1, <3>2
  <2>6. CASE req[r].op # "rotate"
    <3>1. FreshSession(req[r]).old = FALSE
      BY <2>6 DEF FreshSession, NoSession
    <3>2. QED  BY <2>4, <3>1
  <2>7. QED  BY <2>5, <2>6
<1>3. QED  BY <1>1, <1>2

LEMMA RotatedStep ==
    ASSUME Typed, [Next]_vars, RotatedIsDead, \A r \in Requests : Heir(req[r])
    PROVE  RotatedIsDead'
<1> SUFFICES ASSUME NEW t \in given', session'[t].parent # 0
             PROVE  session'[session'[t].parent].state = "revoked"
  BY DEF RotatedIsDead
<1>0. session \in [Tokens -> Session] /\ issued \in Nat /\ given \subseteq 1..issued
  BY DEF Typed, BaseType, Rows
<1>k. ASSUME NEW p \in 0..MaxTokens, p # 0, session[p].state = "revoked"
      PROVE  session'[p].state = "revoked"
  <2>1. p \in Tokens
    BY <1>k, SessionsAssumption DEF Tokens
  <2>2. p <= issued
    <3>1. session[p] # NoSession
      BY <1>k DEF NoSession
    <3>2. QED  BY <1>0, <2>1, <3>1 DEF Typed, Rows, Tokens
  <2>3. QED  BY <1>k, <2>1, <2>2, RowsGoOn
<1>p. \A n \in Tokens : session[n].parent \in 0..MaxTokens
  BY <1>0 DEF Session
<1>1. CASE t \in given
  <2>1. t \in Tokens /\ t <= issued
    BY <1>0, <1>1 DEF Typed, BaseType
  <2>2. session'[t].parent = session[t].parent
    BY <2>1, RowsGoOn
  <2>3. QED  BY <1>1, <1>k, <1>p, <2>1, <2>2 DEF RotatedIsDead
<1>2. CASE t \notin given
  <2>1. \/ \E r \in Requests : Answer(r) /\ t = req[r].fresh /\ req[r].fresh # 0
        \/ UNCHANGED session /\ t = issued + 1
    <3>1. given' # given
      BY <1>2
    <3>2. CASE OperatorStep
      <4>1. (\E s \in Services : RotateService(s) \/ \E tn, gr : RegisterService(s, tn, gr))
        BY <3>1, <3>2 DEF OperatorStep, RevokeAllForUser, SetUserStatus, Suspend, Grant, DisableService,
                          EditService
      <4>2. UNCHANGED session /\ given' = given \cup {issued + 1}
        BY <4>1 DEF RotateService, RegisterService
      <4>3. QED  BY <1>2, <4>2
    <3>3. CASE ArrivalStep \/ AgeStep \/ UNCHANGED vars
      BY <3>1, <3>3 DEF ArrivalStep, AgeStep, Login, Present, Age, vars
    <3>4. CASE RequestStep
      <4>1. PICK r \in Requests : Answer(r)
        BY <3>1, <3>4 DEF RequestStep, ReadSession, CheckUser, Touch, ReadRoles, ReadService, Decide,
                  FindUser, ListMemberships, Insert, ReadForLogout, Revoke, Outage
      <4>2. given' = given \cup ({req[r].fresh} \ {0})
        BY <4>1 DEF Answer
      <4>3. QED  BY <1>2, <4>1, <4>2
    <3>5. QED  BY <3>2, <3>3, <3>4 DEF Next
  <2>2. CASE UNCHANGED session /\ t = issued + 1
    <3>1. Typed'
      BY TypedStep
    <3>2. t \in Tokens
      BY <3>1 DEF Typed, BaseType
    <3>3. session[t] = NoSession
      BY <1>0, <2>2, <3>2 DEF Typed, Rows
    <3>4. QED  BY <2>2, <3>3 DEF NoSession
  <2>3. ASSUME NEW r \in Requests, Answer(r), t = req[r].fresh, req[r].fresh # 0
        PROVE  session'[session'[t].parent].state = "revoked"
    <3>1. UNCHANGED session /\ req[r].pc = "answering" /\ req[r] \in Request /\ Placed(req[r])
      BY <2>3 DEF Answer, tables, Typed, BaseType
    <3>2. req[r].op \in {"login", "rotate"}
      BY <2>3, <3>1 DEF Placed
    <3>3. QED  BY <2>3, <3>1, <3>2 DEF Heir
  <2>4. QED  BY <2>1, <2>2, <2>3
<1>3. QED  BY <1>1, <1>2

LEMMA RotationAlways == Spec => []RotationInv
<1>1. Init => RotationInv
  <2>1. Init => RotatedIsDead /\ SurvivorsOvertook
    BY DEF Init, RotatedIsDead, SurvivorsOvertook, NoSession
  <2>2. QED  BY <2>1, HeirInit DEF RotationInv
<1>2. Typed /\ RotationInv /\ [Next]_vars => RotationInv'
  BY HeirStep, SurvivorsStep, RotatedStep DEF RotationInv
<1>3. QED  BY <1>1, <1>2, TypedAlways, PTL DEF Spec

\* Whoever holds the fresh token of a rotation, the old one is revoked
\* (RotatedIsDead).
THEOREM RotationKillsTheOld == Spec => []RotatedIsDead
BY RotationAlways, PTL DEF RotationInv

\* A session that stems from one a revokeAllForUser has met is revoked, or
\* comes from a rotation that it overtook (SurvivorsOvertook).
THEOREM OnlyOvertakenSurvive == Spec => []SurvivorsOvertook
BY RotationAlways, PTL DEF RotationInv

-----------------------------------------------------------------------------
(* The authority behind an answer *)

\* What the tables have shown a request by the time it gets to a statement.
Earned(q, s) ==
    /\ q.op \in {"call", "rotate"} /\ q.pc \in {"checking", "touching", "roles", "inserting", "revoking", "answering"}
          => s.session
    /\ q.op \in {"call", "rotate"} /\ q.pc \in {"touching", "roles", "inserting", "revoking", "answering"}
          => s.user
    /\ q.op = "login" /\ q.pc \in {"listing", "inserting", "answering"} => s.user
    /\ q.op = "login" /\ q.pc \in {"inserting", "answering"} => s.member
    /\ q.pc = "deciding" =>
          /\ q.principal.kind \in {"user", "service"}
          /\ \A w \in Workspaces : \A x \in q.principal.can[w] : <<w, x>> \in s.may
          /\ q.principal.kind = "user" => s.session /\ s.user
          /\ q.principal.kind = "service" =>
                \A w \in Workspaces : q.principal.can[w] \cap RefusedServiceGrants = {}

\* What a step adds to what was seen.
LEMMA Noted ==
    ASSUME Note, NEW r \in Requests, req'[r].pc # "idle"
    PROVE  /\ seen[r].session \/ Holds(r)'.session => seen'[r].session
           /\ seen[r].user \/ Holds(r)'.user => seen'[r].user
           /\ seen[r].member \/ Holds(r)'.member => seen'[r].member
           /\ seen[r].may \subseteq seen'[r].may /\ Holds(r)'.may \subseteq seen'[r].may
<1>1. PICK h : h = Holds(r)'
  OBVIOUS
<1>2. seen'[r] = [session |-> seen[r].session \/ h.session, user |-> seen[r].user \/ h.user,
                  member |-> seen[r].member \/ h.member, may |-> seen[r].may \cup h.may]
  BY <1>1 DEF Note
<1>3. /\ seen'[r].session = (seen[r].session \/ h.session)
      /\ seen'[r].user = (seen[r].user \/ h.user)
      /\ seen'[r].member = (seen[r].member \/ h.member)
      /\ seen'[r].may = (seen[r].may \cup h.may)
  BY <1>2
<1>4. QED  BY <1>1, <1>3

\* The tables of the step are those that were read.
LEMMA HoldsNow ==
    ASSUME NEW r \in Requests, UNCHANGED <<users, member, service, session>>,
           req'[r].op = req[r].op, req'[r].tok = req[r].tok, req'[r].user = req[r].user,
           req'[r].tenant = req[r].tenant
    PROVE  Holds(r)' = Holds(r)
<1>1. \A u : Active(u)' = Active(u)
  BY DEF Active
<1>2. \A t : Valid(t)' = Valid(t) /\ Bearer(t)' = Bearer(t)
  BY DEF Valid, Bearer
<1>3. \A u, t : IsMember(u, t)' = IsMember(u, t)
  BY DEF IsMember
<1>4. \A u, t, w : ActiveRoles(u, t, w)' = ActiveRoles(u, t, w)
  BY DEF ActiveRoles
<1>5. QED  BY <1>1, <1>2, <1>3, <1>4 DEF Holds

LEMMA EarnedMoreOf ==
    ASSUME NEW q, NEW s, NEW z, Earned(q, s), s.session => z.session, s.user => z.user,
           s.member => z.member, s.may \subseteq z.may
    PROVE  Earned(q, z)
BY DEF Earned

\* A request that has not moved, whatever else has.
LEMMA EarnedStays ==
    ASSUME Note, NEW r \in Requests, Earned(req[r], seen[r]), req[r] \in Request,
           req'[r] = req[r] \/ req'[r] = [req[r] EXCEPT !.cut = TRUE]
    PROVE  Earned(req'[r], seen'[r])
<1>1. /\ req'[r].op = req[r].op /\ req'[r].pc = req[r].pc /\ req'[r].principal = req[r].principal
  BY DEF Request
<1>2. CASE req[r].pc = "idle"
  BY <1>1, <1>2 DEF Earned
<1>3. CASE req[r].pc # "idle"
  <2>1. Earned(req[r], seen'[r])
    BY <1>1, <1>3, Noted, EarnedMoreOf
  <2>2. QED  BY <1>1, <2>1 DEF Earned
<1>4. QED  BY <1>2, <1>3

LEMMA EarnedMoves ==
    ASSUME Typed, Note, NEW r \in Requests, Earned(req[r], seen[r]),
           \/ ReadSession(r) \/ CheckUser(r) \/ Touch(r) \/ ReadRoles(r) \/ ReadService(r)
           \/ Decide(r) \/ FindUser(r) \/ ListMemberships(r) \/ Insert(r)
           \/ ReadForLogout(r) \/ Revoke(r) \/ Answer(r) \/ Outage(r)
    PROVE  Earned(req'[r], seen'[r])
<1> DEFINE q == req[r]
<1>0. /\ q \in Request /\ Placed(q) /\ req \in [Requests -> Request]
      /\ HasFound(q) => q.tok \in Tokens
      /\ q.op \in {"login", "call", "rotate", "logout", None}
  BY DEF Typed, BaseType, Placed, Request
<1>n. None \notin {"login", "call", "rotate", "logout"}
  BY SessionsAssumption
<1>i. Idle.pc = "idle" /\ \A s : Earned(Idle, s)
  BY SessionsAssumption DEF Idle, Earned
<1>p. \A y : /\ [q EXCEPT !.pc = y].op = q.op /\ [q EXCEPT !.pc = y].tok = q.tok
             /\ [q EXCEPT !.pc = y].user = q.user /\ [q EXCEPT !.pc = y].tenant = q.tenant
             /\ [q EXCEPT !.pc = y].pc = y
  BY <1>0 DEF Request
<1>1. CASE req' = [req EXCEPT ![r] = Idle]
  BY <1>0, <1>1, <1>i
<1>2. ASSUME NEW y \in {"service", "reading", "idle", "finding"}, req'[r] = [q EXCEPT !.pc = y]
      PROVE  Earned(req'[r], seen'[r])
  BY <1>2, <1>p DEF Earned
<1>3. ASSUME q.op = "logout", NEW y \in {"revoking", "answering"}, req'[r] = [q EXCEPT !.pc = y]
      PROVE  Earned(req'[r], seen'[r])
  BY <1>3, <1>p DEF Earned
<1>4. CASE ReadSession(r)
  <2>1. CASE Valid(q.tok)
    <3>1. req'[r] = [q EXCEPT !.pc = "checking"] /\ UNCHANGED tables /\ q.op \in {"call", "rotate"}
      BY <1>0, <1>4, <2>1 DEF ReadSession
    <3>2. /\ req'[r].op = q.op /\ req'[r].tok = q.tok /\ req'[r].user = q.user
          /\ req'[r].tenant = q.tenant /\ req'[r].pc = "checking"
      BY <1>p, <3>1
    <3>3. Holds(r)' = Holds(r)
      BY <3>1, <3>2, HoldsNow DEF tables
    <3>4. Holds(r).session
      BY <2>1, <3>1 DEF Holds
    <3>5. seen'[r].session
      BY <3>2, <3>3, <3>4, Noted
    <3>6. QED  BY <1>n, <3>1, <3>2, <3>5 DEF Earned
  <2>2. CASE ~Valid(q.tok)
    <3>1. req'[r] = IF q.op = "call" THEN [q EXCEPT !.pc = "service"] ELSE Idle
      BY <1>0, <1>4, <2>2 DEF ReadSession, NotResolved
    <3>2. QED  BY <1>2, <1>i, <3>1
  <2>3. QED  BY <2>1, <2>2
<1>5. CASE CheckUser(r)
  <2>1. CASE Active(session[q.tok].user)
    <3>1. req'[r] = [q EXCEPT !.pc = "touching"] /\ UNCHANGED tables /\ q.pc = "checking"
      BY <1>0, <1>5, <2>1 DEF CheckUser
    <3>2. /\ req'[r].op = q.op /\ req'[r].tok = q.tok /\ req'[r].user = q.user
          /\ req'[r].tenant = q.tenant /\ req'[r].pc = "touching"
      BY <1>p, <3>1
    <3>3. Holds(r)' = Holds(r)
      BY <3>1, <3>2, HoldsNow DEF tables
    <3>4. q.op \in {"call", "rotate"} /\ q.tok \in Tokens
      BY <1>0, <1>n, <3>1 DEF Placed, HasFound
    <3>5. Holds(r).user
      BY <2>1, <3>4 DEF Holds
    <3>6. seen'[r].session /\ seen'[r].user
      BY <3>1, <3>2, <3>3, <3>4, <3>5, Noted DEF Earned
    <3>7. QED  BY <1>n, <3>2, <3>4, <3>6 DEF Earned
  <2>2. CASE ~Active(session[q.tok].user)
    <3>1. req'[r] = IF q.op = "call" THEN [q EXCEPT !.pc = "service"] ELSE Idle
      BY <1>0, <1>5, <2>2 DEF CheckUser, NotResolved
    <3>2. QED  BY <1>2, <1>i, <3>1
  <2>3. QED  BY <2>1, <2>2
<1>6. CASE Touch(r)
  <2>1. req'[r] = [q EXCEPT !.pc = IF q.op = "call" THEN "roles" ELSE "inserting"] /\ q.pc = "touching"
    BY <1>0, <1>6 DEF Touch, Goto
  <2>2. q.op \in {"call", "rotate"}
    BY <1>0, <1>n, <2>1 DEF Placed
  <2>3. req'[r].op = q.op /\ req'[r].pc \in {"roles", "inserting"}
    BY <1>p, <2>1
  <2>4. seen'[r].session /\ seen'[r].user
    BY <2>1, <2>2, <2>3, Noted DEF Earned
  <2>5. QED  BY <1>n, <2>2, <2>3, <2>4 DEF Earned
<1>7. CASE ReadRoles(r)
  <2> DEFINE row == session[q.tok]
  <2>1. PICK p : p = [kind |-> "user", tenant |-> row.tenant,
                      can |-> [w \in Workspaces |->
                                  PermissionsOf(ActiveRoles(row.user, row.tenant, w))]]
    OBVIOUS
  <2>2. req'[r] = [q EXCEPT !.pc = "deciding", !.principal = p] /\ UNCHANGED tables /\ q.pc = "roles"
    BY <1>0, <1>7, <2>1 DEF ReadRoles
  <2>3. /\ req'[r].op = q.op /\ req'[r].tok = q.tok /\ req'[r].user = q.user
        /\ req'[r].tenant = q.tenant /\ req'[r].pc = "deciding" /\ req'[r].principal = p
    BY <1>0, <2>2 DEF Request
  <2>4. q.op = "call" /\ q.tok \in Tokens
    BY <1>0, <1>n, <2>2 DEF Placed, HasFound
  <2>5. Holds(r)' = Holds(r)
    BY <2>2, <2>3, HoldsNow DEF tables
  <2>6. \A w \in Workspaces : \A x \in p.can[w] : <<w, x>> \in Holds(r).may
    <3>1. \A w \in Workspaces : p.can[w] = PermissionsOf(ActiveRoles(row.user, row.tenant, w))
      BY <2>1
    <3>2. \A w \in Workspaces : p.can[w] \subseteq Permissions
      <4>1. \A w \in Workspaces : ActiveRoles(row.user, row.tenant, w) \in SUBSET Roles
        BY DEF ActiveRoles, Typed, BaseType, Membership, Places
      <4>2. QED  BY <3>1, <4>1, RolesGrantPermissions
    <3>3. \A w \in Workspaces, x \in Permissions :
             x \in PermissionsOf(ActiveRoles(row.user, row.tenant, w)) => <<w, x>> \in Holds(r).may
      BY <2>4 DEF Holds
    <3>4. QED  BY <3>1, <3>2, <3>3
  <2>7. seen'[r].session /\ seen'[r].user /\ Holds(r).may \subseteq seen'[r].may
    BY <2>2, <2>3, <2>4, <2>5, Noted DEF Earned
  <2>8. p.kind = "user"
    BY <2>1
  <2>9. QED  BY <1>n, <2>3, <2>4, <2>6, <2>7, <2>8 DEF Earned
<1>8. CASE ReadService(r)
  <2>1. ASSUME NEW s \in Bearer(q.tok),
               req' = [req EXCEPT ![r] = [q EXCEPT !.pc = "deciding", !.principal = ServicePrincipal(s)]]
        PROVE  Earned(req'[r], seen'[r])
    <3>1. PICK p : p = ServicePrincipal(s)
      OBVIOUS
    <3>2. /\ req'[r].op = q.op /\ req'[r].tok = q.tok /\ req'[r].user = q.user
          /\ req'[r].tenant = q.tenant /\ req'[r].pc = "deciding" /\ req'[r].principal = p
      BY <1>0, <2>1, <3>1 DEF Request
    <3>3. UNCHANGED tables /\ q.pc = "service"
      BY <1>8 DEF ReadService
    <3>4. q.op = "call"
      BY <1>0, <1>n, <3>3 DEF Placed
    <3>5. Holds(r)' = Holds(r)
      BY <3>2, <3>3, HoldsNow DEF tables
    <3>6. /\ p.kind = "service"
          /\ \A w \in Workspaces : p.can[w] = IF w \in service[s].workspaces
                                              THEN service[s].grants \ RefusedServiceGrants ELSE {}
      BY <3>1 DEF ServicePrincipal
    <3>7. service[s].grants \subseteq Permissions
      BY <2>1 DEF Bearer, Typed, BaseType, Service
    <3>8. \A w \in Workspaces : \A x \in p.can[w] : <<w, x>> \in Holds(r).may
      <4>1. \A w \in Workspaces, x \in Permissions :
               w \in service[s].workspaces /\ x \in service[s].grants => <<w, x>> \in Holds(r).may
        BY <2>1, <3>4 DEF Holds
      <4>2. QED  BY <3>6, <3>7, <4>1
    <3>9. Holds(r).may \subseteq seen'[r].may
      BY <3>2, <3>5, Noted
    <3>10. \A w \in Workspaces : p.can[w] \cap RefusedServiceGrants = {}
      BY <3>6
    <3>11. QED  BY <1>n, <3>2, <3>4, <3>6, <3>8, <3>9, <3>10 DEF Earned
  <2>2. QED  BY <1>1, <1>8, <2>1 DEF ReadService
<1>9. CASE FindUser(r) /\ Active(q.user)
  <2>1. req'[r] = [q EXCEPT !.pc = "listing"] /\ UNCHANGED tables /\ q.pc = "finding"
    BY <1>0, <1>9 DEF FindUser
  <2>2. /\ req'[r].op = q.op /\ req'[r].tok = q.tok /\ req'[r].user = q.user
        /\ req'[r].tenant = q.tenant /\ req'[r].pc = "listing"
    BY <1>p, <2>1
  <2>3. Holds(r)' = Holds(r)
    BY <2>1, <2>2, HoldsNow DEF tables
  <2>4. q.op = "login" /\ q.tok = 0
    BY <1>0, <1>n, <2>1 DEF Placed
  <2>5. Holds(r).user
    <3>1. 0 \notin Tokens
      BY SessionsAssumption DEF Tokens
    <3>2. Holds(r).user = (q.op # "logout" /\ Active(q.user))
      BY <2>4, <3>1 DEF Holds
    <3>3. QED  BY <1>9, <2>4, <3>2
  <2>6. seen'[r].user
    BY <2>2, <2>3, <2>5, Noted
  <2>7. QED  BY <1>n, <2>2, <2>4, <2>6 DEF Earned
<1>10. CASE ListMemberships(r) /\ IsMember(q.user, q.tenant)
  <2>1. req'[r] = [q EXCEPT !.pc = "inserting"] /\ UNCHANGED tables /\ q.pc = "listing"
    BY <1>0, <1>10 DEF ListMemberships
  <2>2. /\ req'[r].op = q.op /\ req'[r].tok = q.tok /\ req'[r].user = q.user
        /\ req'[r].tenant = q.tenant /\ req'[r].pc = "inserting"
    BY <1>p, <2>1
  <2>3. Holds(r)' = Holds(r)
    BY <2>1, <2>2, HoldsNow DEF tables
  <2>4. q.op = "login" /\ q.tok = 0
    BY <1>0, <1>n, <2>1 DEF Placed
  <2>5. Holds(r).member
    <3>1. 0 \notin Tokens
      BY SessionsAssumption DEF Tokens
    <3>2. Holds(r).member = (q.op = "login" /\ IsMember(q.user, q.tenant))
      BY <2>4, <3>1 DEF Holds
    <3>3. QED  BY <1>10, <2>4, <3>2
  <2>6. seen'[r].user /\ seen'[r].member
    BY <2>1, <2>2, <2>3, <2>4, <2>5, Noted DEF Earned
  <2>7. QED  BY <1>n, <2>2, <2>4, <2>6 DEF Earned
<1>11. CASE Insert(r)
  <2>1. /\ req'[r].op = q.op /\ q.pc = "inserting"
        /\ req'[r].pc = IF q.op = "rotate" THEN "revoking" ELSE "answering"
    BY <1>0, <1>11 DEF Insert, Request
  <2>2. q.op \in {"login", "rotate"}
    BY <1>0, <1>n, <2>1 DEF Placed
  <2>3. /\ seen[r].session => seen'[r].session
        /\ seen[r].user => seen'[r].user
        /\ seen[r].member => seen'[r].member
    BY <2>1, Noted
  <2>4. /\ q.op = "login" => seen[r].user /\ seen[r].member
        /\ q.op = "rotate" => seen[r].user /\ seen[r].session
    BY <2>1 DEF Earned
  <2>5. CASE q.op = "rotate"
    <3>1. req'[r].op = "rotate" /\ req'[r].pc = "revoking" /\ seen'[r].user /\ seen'[r].session
      BY <2>1, <2>3, <2>4, <2>5
    <3>2. QED  BY <3>1 DEF Earned
  <2>6. CASE q.op = "login"
    <3>1. req'[r].op = "login" /\ req'[r].pc = "answering" /\ seen'[r].user /\ seen'[r].member
      BY <2>1, <2>3, <2>4, <2>6
    <3>2. QED  BY <3>1 DEF Earned
  <2>7. QED  BY <2>2, <2>5, <2>6
<1>12. CASE ReadForLogout(r)
  BY <1>0, <1>3, <1>12 DEF ReadForLogout, Goto
<1>13. CASE Revoke(r)
  <2>1. req'[r] = [q EXCEPT !.pc = "answering"] /\ q.pc = "revoking"
    BY <1>0, <1>13 DEF Revoke, Goto
  <2>2. q.op \in {"logout", "rotate"}
    BY <1>0, <1>n, <2>1 DEF Placed
  <2>3. req'[r].op = q.op /\ req'[r].pc = "answering"
    BY <1>p, <2>1
  <2>4. q.op = "rotate" => seen'[r].session /\ seen'[r].user
    BY <2>1, <2>3, Noted DEF Earned
  <2>5. QED  BY <1>n, <2>2, <2>3, <2>4 DEF Earned
<1>14. QED
  BY <1>1, <1>4, <1>5, <1>6, <1>7, <1>8, <1>9, <1>10, <1>11, <1>12, <1>13
     DEF FindUser, ListMemberships, Decide, Answer, Outage

AuthorityInv == \A r \in Requests : Earned(req[r], seen[r])

LEMMA EarnedStep == Typed /\ AuthorityInv /\ Next => AuthorityInv'
<1> SUFFICES ASSUME Typed, AuthorityInv, Next, NEW r \in Requests  PROVE Earned(req'[r], seen'[r])
  BY DEF AuthorityInv
<1>0. Earned(req[r], seen[r]) /\ Note /\ req \in [Requests -> Request] /\ req[r] \in Request
  BY DEF AuthorityInv, Next, Typed, BaseType
<1>s. ASSUME req'[r] = req[r] \/ req'[r] = [req[r] EXCEPT !.cut = TRUE]
      PROVE  Earned(req'[r], seen'[r])
  BY <1>0, <1>s, EarnedStays
<1>1. CASE RequestStep
  <2>1. PICK k \in Requests :
           \/ ReadSession(k) \/ CheckUser(k) \/ Touch(k) \/ ReadRoles(k) \/ ReadService(k)
           \/ Decide(k) \/ FindUser(k) \/ ListMemberships(k) \/ Insert(k)
           \/ ReadForLogout(k) \/ Revoke(k) \/ Answer(k) \/ Outage(k)
    BY <1>1 DEF RequestStep
  <2>2. CASE k = r
    BY <1>0, <2>1, <2>2, EarnedMoves
  <2>3. CASE k # r
    <3>1. req'[r] = req[r]
      BY <1>0, <2>1, <2>3 DEF ReadSession, CheckUser, Touch, ReadRoles, ReadService, Decide,
                FindUser, ListMemberships, Insert, ReadForLogout, Revoke, Answer, Outage, Goto
    <3>2. QED  BY <1>s, <3>1
  <2>4. QED  BY <2>2, <2>3
<1>2. CASE OperatorStep
  <2>1. ASSUME NEW u \in Users, RevokeAllForUser(u)
        PROVE  req'[r] = req[r] \/ req'[r] = [req[r] EXCEPT !.cut = TRUE]
    BY <2>1 DEF RevokeAllForUser
  <2>2. (\E u \in Users : RevokeAllForUser(u)) \/ UNCHANGED req
    BY <1>2 DEF OperatorStep, SetUserStatus, Suspend, Grant, RotateService, DisableService,
                EditService, RegisterService
  <2>3. QED  BY <1>s, <2>1, <2>2
<1>3. CASE ArrivalStep
  <2>1. PICK k \in Requests :
           \/ \E u \in Users, t \in Tenants, a \in Assertions : "login" \in Ops /\ Login(k, u, t, a)
           \/ \E op \in Ops \ {"login"}, t \in given \cup {0} :
                 \E c \in {"bearer", "cookie", "cookie_without_csrf"} : Present(k, op, t, c)
    BY <1>3 DEF ArrivalStep
  <2>2. \A u, t : [Idle EXCEPT !.op = "login", !.pc = "finding", !.user = u, !.tenant = t].pc = "finding"
    BY DEF Idle
  <2>3. \A op, t : [Idle EXCEPT !.op = op, !.pc = "reading", !.tok = t].pc = "reading"
    BY DEF Idle
  <2>4. ASSUME NEW u, NEW t, NEW a, Login(k, u, t, a)
        PROVE  req'[r] = req[r] \/ req'[r].pc = "finding"
    BY <1>0, <2>2, <2>4 DEF Login
  <2>5. ASSUME NEW op, NEW t, NEW c, Present(k, op, t, c)
        PROVE  req'[r] = req[r] \/ req'[r].pc = "reading"
    BY <1>0, <2>3, <2>5 DEF Present
  <2>6. req'[r] = req[r] \/ req'[r].pc \in {"finding", "reading"}
    BY <2>1, <2>4, <2>5
  <2>7. req'[r].pc \in {"finding", "reading"} => Earned(req'[r], seen'[r])
    BY DEF Earned
  <2>8. QED  BY <1>s, <2>6, <2>7
<1>4. CASE AgeStep
  BY <1>4, <1>s DEF AgeStep, Age
<1>5. QED  BY <1>1, <1>2, <1>3, <1>4 DEF Next

LEMMA AuthorityAlways == Spec => []AuthorityInv
<1>1. Init => AuthorityInv
  <2> SUFFICES ASSUME Init, NEW r \in Requests  PROVE Earned(req[r], seen[r])
    BY DEF AuthorityInv
  <2>1. req[r] = Idle
    BY DEF Init
  <2>2. QED  BY <2>1, SessionsAssumption DEF Idle, Earned
<1>2. Typed /\ AuthorityInv /\ [Next]_vars => AuthorityInv'
  <2>1. AuthorityInv /\ UNCHANGED vars => AuthorityInv'
    BY DEF AuthorityInv, vars
  <2>2. QED  BY <2>1, EarnedStep
<1>3. QED  BY <1>1, <1>2, TypedAlways, PTL DEF Spec

\* A route acts and a session is issued only on authority that the tables
\* granted at some moment since the request began, and a service never acts
\* with a grant it may not hold (AnswersAreRecent).
THEOREM AuthorityIsRecent == Spec => []AnswersAreRecent
<1>1. Typed /\ AuthorityInv => AnswersAreRecent
  <2> SUFFICES ASSUME Typed, AuthorityInv, NEW r \in Requests
               PROVE  /\ \A route \in Routes, w \in Workspaces :
                            req[r].pc = "deciding" /\ Authorized(req[r].principal, route, w) =>
                               /\ route # "callback" => <<w, route>> \in seen[r].may
                               /\ req[r].principal.kind = "user" => seen[r].session /\ seen[r].user
                               /\ req[r].principal.kind = "service" => route \in {"read", "test"}
                      /\ req[r].fresh # 0 /\ req[r].op = "rotate" => seen[r].session /\ seen[r].user
                      /\ req[r].fresh # 0 /\ req[r].op = "login" => seen[r].user /\ seen[r].member
    BY DEF AnswersAreRecent
  <2>1. Earned(req[r], seen[r]) /\ Placed(req[r])
    BY DEF AuthorityInv, Typed
  <2>2. ASSUME NEW route \in Routes, NEW w \in Workspaces, req[r].pc = "deciding",
               Authorized(req[r].principal, route, w)
        PROVE  /\ route # "callback" => <<w, route>> \in seen[r].may
               /\ req[r].principal.kind = "user" => seen[r].session /\ seen[r].user
               /\ req[r].principal.kind = "service" => route \in {"read", "test"}
    <3>1. route # "callback" => route \in req[r].principal.can[w]
      BY <2>2 DEF Authorized
    <3>2. req[r].principal.kind = "service" => route \notin {"create", "disconnect", "callback"}
      BY <2>1, <2>2, <3>1 DEF Authorized, Earned, RefusedServiceGrants
    <3>3. QED  BY <2>1, <2>2, <3>1, <3>2 DEF Earned, Routes
  <2>3. /\ req[r].fresh # 0 /\ req[r].op = "rotate" => seen[r].session /\ seen[r].user
        /\ req[r].fresh # 0 /\ req[r].op = "login" => seen[r].user /\ seen[r].member
    BY <2>1, SessionsAssumption DEF Placed, Earned
  <2>4. QED  BY <2>2, <2>3
<1>2. QED  BY <1>1, TypedAlways, AuthorityAlways, PTL

=============================================================================
