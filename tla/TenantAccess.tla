------------------------------ MODULE TenantAccess ------------------------------
(***************************************************************************)
(* Who may do what in which organization: log in, exchange a refresh token *)
(* for an access token of one organization, log out, and call a view with  *)
(* an access token; with the tenant context that the view's queries read   *)
(* and the audit row that the request leaves.                              *)
(*                                                                         *)
(* A request is served by one worker process, query by query, while an     *)
(* administrator changes users, memberships and organizations.  The tenant *)
(* context belongs to the process and outlives the request, so it must be  *)
(* given back.                                                             *)
(***************************************************************************)
EXTENDS Naturals

CONSTANTS
  Users, Orgs,
  Workers,      \* web worker processes, one request at a time each
  RefreshIds,   \* refresh tokens; a finite supply bounds the logins
  Members,      \* the memberships to begin with: user -> organization -> role
  ViewRoles,    \* the roles that the views require
  MaxChanges,   \* bound on the administrator's changes
  NoRole,       \* no active membership
  NoRow,        \* no audit row written
  LostRow,      \* the INSERT of the audit row failed
  Nil

Role == {"viewer", "analyst", "admin"}
Rank == [r \in Role |-> CASE r = "viewer" -> 1 [] r = "analyst" -> 2 [] r = "admin" -> 3]

ASSUME AccessAssumption ==
  /\ MaxChanges \in Nat
  /\ ViewRoles \subseteq Role
  /\ NoRole \notin Role
  /\ Members \subseteq [Users -> [Orgs -> Role \cup {NoRole}]]
  /\ Nil \notin Users \cup Orgs \cup RefreshIds

VARIABLES
  users,    \* the users with is_active
  orgs,     \* the organizations with is_active
  member,   \* accounts_membership: user -> organization -> role, if active
  changes,  \* the changes the administrator has made
  issued,   \* refresh token -> its user
  ended,    \* the refresh tokens blacklisted or expired
  access,   \* the access tokens that have not expired
  context,  \* the tenant context of each worker process
  request,  \* what each worker is doing, and what it has read
  since     \* history: the standing of the caller since his request began

accounts == <<users, orgs, member, changes>>
tokens == <<issued, ended, access>>
vars == <<users, orgs, member, changes, issued, ended, access, context, request, since>>

--------------------------------------------------------------------------------
\* An access token: the claims, and the refresh token it was exchanged for.
\* Nothing ever reads the claim "role".
AccessToken == [user : Users, org : Orgs, role : Role, via : RefreshIds]

Status == {"ok", "refused", "failed"}    \* 2xx, 4xx, 5xx

AuditRow == [org : Orgs \cup {Nil}, user : Users \cup {Nil},
             role : Role \cup {NoRole}, status : Status]

ASSUME RowAssumption == NoRow \notin AuditRow /\ LostRow \notin AuditRow \cup {NoRow}

Steps == {"login_issue", "token_user", "token_org", "token_member", "logout_blacklist",
          "auth_org", "auth_member", "view", "audit", "reset"}

Registers == [pc : {"idle"} \cup Steps,
              endpoint : {"auth", "api"},             \* path under /api/v1/auth/, or not
              user : Users \cup {Nil},                \* of the credentials presented
              org : Orgs \cup {Nil},                  \* asked for, or claimed by the token
              refresh : RefreshIds \cup {Nil},        \* presented, or to be issued
              claim : Role \cup {NoRole},             \* claim "role" of the access token
              role : Role \cup {NoRole},              \* of request.membership, once attached
              prior : Orgs \cup {Nil},                \* _tenant_token: the context to restore
              needs : Role \cup {NoRole},             \* the role the view requires
              read : Orgs \cup {Nil},                 \* whose rows the view has read
              status : Status,
              row : AuditRow \cup {NoRow, LostRow}]

Idle == [pc |-> "idle", endpoint |-> "api", user |-> Nil, org |-> Nil, refresh |-> Nil,
         claim |-> NoRole, role |-> NoRole, prior |-> Nil, needs |-> NoRole, read |-> Nil,
         status |-> "ok", row |-> NoRow]

Standing == [user : BOOLEAN, org : BOOLEAN, role : Role \cup {NoRole}]

\* The registers a step reads are in use when it is reached.
Request ==
  {q \in Registers :
     /\ q.pc = "login_issue" => q.user \in Users /\ q.refresh \in RefreshIds
     /\ q.pc \in {"token_user", "token_org", "token_member"} =>
           q.user \in Users /\ q.org \in Orgs /\ q.refresh \in RefreshIds
     /\ q.pc = "logout_blacklist" => q.refresh \in RefreshIds
     /\ q.pc \in {"auth_org", "auth_member", "view"} => q.user \in Users /\ q.org \in Orgs
     /\ q.pc = "view" => q.role \in Role /\ q.needs \in ViewRoles
     /\ q.role # NoRole => q.user \in Users /\ q.org \in Orgs}

TypeOK ==
  /\ users \subseteq Users /\ orgs \subseteq Orgs
  /\ member \in [Users -> [Orgs -> Role \cup {NoRole}]]
  /\ changes \in 0 .. MaxChanges
  /\ issued \in [RefreshIds -> Users \cup {Nil}]
  /\ ended \subseteq RefreshIds
  /\ access \subseteq AccessToken
  /\ context \in [Workers -> Orgs \cup {Nil}]
  /\ request \in [Workers -> Request]
  /\ since \in [Workers -> SUBSET Standing]
  /\ \A w \in Workers : since[w] # {} =>
        request[w].pc # "idle" /\ request[w].user \in Users /\ request[w].org \in Orgs

Init ==
  /\ users = Users /\ orgs = Orgs
  /\ member \in Members
  /\ changes = 0
  /\ issued = [t \in RefreshIds |-> Nil]
  /\ ended = {} /\ access = {}
  /\ context = [w \in Workers |-> Nil]
  /\ request = [w \in Workers |-> Idle]
  /\ since = [w \in Workers |-> {}]

--------------------------------------------------------------------------------
At(w, step) == request[w].pc = step
Busy(w) == ~ At(w, "idle")

\* _role_at_least
RoleAtLeast(actual, required) == actual \in Role /\ Rank[actual] >= Rank[required]

Advance(w, step) == request' = [request EXCEPT ![w].pc = step]

\* The response of a request under way; the middlewares still follow.
Respond(w, status) == request' = [request EXCEPT ![w] = [@ EXCEPT !.pc = "audit", !.status = status]]

\* If a lookup finds its row, the next step; else an exception that DRF turns
\* into a 401 or 403.
Lookup(w, found, step) == IF found THEN Advance(w, step) ELSE Respond(w, "refused")

SetContext(w, org) == context' = [context EXCEPT ![w] = org]

Begin(w, q) == ~ Busy(w) /\ request' = [request EXCEPT ![w] = q]

\* A request refused before any query, or after one that changes nothing:
\* throttled, malformed, without valid credentials.
RefuseAtOnce(w) ==
  /\ \E endpoint \in {"auth", "api"} :
        Begin(w, [Idle EXCEPT !.pc = "audit", !.endpoint = endpoint, !.status = "refused"])
  /\ UNCHANGED <<accounts, tokens, context, since>>

--------------------------------------------------------------------------------
(* POST /auth/login, /auth/token and /auth/logout                            *)

\* LoginSerializer: the password is right and the user active.
Login(w, u) ==
  /\ u \in users
  /\ \E t \in RefreshIds :
        /\ issued[t] = Nil /\ \A v \in Workers : request[v].refresh # t
        /\ Begin(w, [Idle EXCEPT !.pc = "login_issue", !.endpoint = "auth",
                                 !.user = u, !.refresh = t])
  /\ UNCHANGED <<accounts, tokens, context, since>>

\* RefreshToken.for_user records the token as outstanding.
LoginIssue(w) ==
  /\ At(w, "login_issue")
  /\ issued' = [issued EXCEPT ![request[w].refresh] = request[w].user]
  /\ Respond(w, "ok")
  /\ UNCHANGED <<accounts, ended, access, context, since>>

\* Mutant of TokenRequest: the blacklist is not looked up.
TokenRequestUnchecked(w, t, o) ==
  /\ issued[t] # Nil
  /\ Begin(w, [Idle EXCEPT !.pc = "token_user", !.endpoint = "auth",
                           !.user = issued[t], !.org = o, !.refresh = t])
  /\ UNCHANGED <<accounts, tokens, context, since>>

\* TokenRequestSerializer: RefreshToken() looks the token up in the blacklist.
TokenRequest(w, t, o) ==
  /\ issued[t] # Nil /\ t \notin ended
  /\ Begin(w, [Idle EXCEPT !.pc = "token_user", !.endpoint = "auth",
                           !.user = issued[t], !.org = o, !.refresh = t])
  /\ UNCHANGED <<accounts, tokens, context, since>>

TokenUser(w) ==
  /\ At(w, "token_user")
  /\ Lookup(w, request[w].user \in users, "token_org")
  /\ UNCHANGED <<accounts, tokens, context, since>>

TokenOrg(w) ==
  /\ At(w, "token_org")
  /\ Lookup(w, request[w].org \in orgs, "token_member")
  /\ UNCHANGED <<accounts, tokens, context, since>>

\* The membership's role goes into the token.
TokenMember(w) ==
  LET q == request[w]  role == member[q.user][q.org]
  IN  /\ At(w, "token_member")
      /\ IF role = NoRole
         THEN Respond(w, "refused") /\ UNCHANGED access
         ELSE /\ Respond(w, "ok")
              /\ access' = access \cup
                    {[user |-> q.user, org |-> q.org, role |-> role, via |-> q.refresh]}
      /\ UNCHANGED <<accounts, issued, ended, context, since>>

\* RefreshToken() again looks in the blacklist; a TokenError is suppressed.
Logout(w, t) ==
  /\ issued[t] # Nil
  /\ Begin(w, [Idle EXCEPT !.pc = IF t \in ended THEN "audit" ELSE "logout_blacklist",
                           !.endpoint = "auth", !.refresh = t])
  /\ UNCHANGED <<accounts, tokens, context, since>>

\* blacklist() is a get_or_create: a second logout finds the row.
LogoutBlacklist(w) ==
  /\ At(w, "logout_blacklist")
  /\ ended' = ended \cup {request[w].refresh}
  /\ Respond(w, "ok")
  /\ UNCHANGED <<accounts, issued, access, context, since>>

--------------------------------------------------------------------------------
(* Any other request: TenantAuthentication, the permission, the view.        *)

StandingOf(u, o) == [user |-> u \in users, org |-> o \in orgs, role |-> member[u][o]]

\* JWTAuthentication: the token has not expired; its user is looked up.
Authenticate(w, a) ==
  /\ a \in access
  /\ Begin(w, [Idle EXCEPT !.pc = IF a.user \in users THEN "auth_org" ELSE "audit",
                           !.status = IF a.user \in users THEN "ok" ELSE "refused",
                           !.user = a.user, !.org = a.org, !.claim = a.role])
  /\ since' = [since EXCEPT ![w] = {StandingOf(a.user, a.org)}]
  /\ UNCHANGED <<accounts, tokens, context>>

AuthOrg(w) ==
  /\ At(w, "auth_org")
  /\ Lookup(w, request[w].org \in orgs, "auth_member")
  /\ UNCHANGED <<accounts, tokens, context, since>>

\* Mutants of AuthMember: a missing membership is attached as None, and the view
\* asks for no role; or the role is that of the token, and no membership is
\* looked up.
AuthMemberOptional(w) ==
  LET q == request[w]
  IN  /\ At(w, "auth_member")
      /\ SetContext(w, q.org)
      /\ request' = [request EXCEPT ![w] =
            [q EXCEPT !.role = member[q.user][q.org], !.prior = context[w], !.pc = "view"]]
      /\ UNCHANGED <<accounts, tokens, since>>

AuthMemberByClaim(w) ==
  LET q == request[w]
  IN  /\ At(w, "auth_member")
      /\ SetContext(w, q.org)
      /\ \E needs \in ViewRoles :
            request' = [request EXCEPT ![w] =
              [q EXCEPT !.role = q.claim, !.prior = context[w], !.needs = needs,
                        !.pc = IF RoleAtLeast(q.claim, needs) THEN "view" ELSE "audit",
                        !.status = IF RoleAtLeast(q.claim, needs) THEN "ok" ELSE "refused"]]
      /\ UNCHANGED <<accounts, tokens, since>>

\* The membership is looked up and attached, the context is set, and then the
\* view's permission compares the role of that membership.
AuthMember(w) ==
  LET q == request[w]  role == member[q.user][q.org]
  IN  /\ At(w, "auth_member")
      /\ IF role = NoRole
         THEN Respond(w, "refused") /\ UNCHANGED context
         ELSE /\ SetContext(w, q.org)
              /\ \E needs \in ViewRoles :
                    request' = [request EXCEPT ![w] =
                      [q EXCEPT !.role = role, !.prior = context[w], !.needs = needs,
                                !.pc = IF RoleAtLeast(role, needs) THEN "view" ELSE "audit",
                                !.status = IF RoleAtLeast(role, needs) THEN "ok" ELSE "refused"]]
      /\ UNCHANGED <<accounts, tokens, since>>

\* TenantManager filters by the context of the process, and raises without one.
View(w) ==
  /\ At(w, "view")
  /\ \E status \in IF context[w] = Nil THEN {"failed"} ELSE Status :
        request' = [request EXCEPT ![w] =
          [@ EXCEPT !.pc = "audit", !.read = context[w], !.status = status]]
  /\ UNCHANGED <<accounts, tokens, context, since>>

--------------------------------------------------------------------------------
(* The response passes AuditMiddleware and then CurrentOrgMiddleware.        *)

\* Mutant of Row: the role the user has by now.
RowOfNow(q) ==
  IF q.role = NoRole
  THEN [org |-> Nil, user |-> Nil, role |-> NoRole, status |-> q.status]
  ELSE [org |-> q.org, user |-> q.user, role |-> member[q.user][q.org], status |-> q.status]

\* request.user, request.organization and request.membership are there only
\* when TenantAuthentication succeeded.
Row(q) ==
  IF q.role = NoRole
  THEN [org |-> Nil, user |-> Nil, role |-> NoRole, status |-> q.status]
  ELSE [org |-> q.org, user |-> q.user, role |-> q.role, status |-> q.status]

\* An exception of the INSERT (a request id or an email longer than its column,
\* a lost connection) is suppressed.
Audit(w) ==
  LET q == request[w]
  IN  /\ At(w, "audit")
      /\ \E row \in IF q.role # NoRole \/ q.endpoint = "auth"
                    THEN {Row(q), LostRow} ELSE {NoRow} :
            request' = [request EXCEPT ![w] = [q EXCEPT !.pc = "reset", !.row = row]]
      /\ UNCHANGED <<accounts, tokens, context, since>>

\* Mutant of Reset: the context is given back only after a success.
ResetAfterSuccess(w) ==
  LET q == request[w]
  IN  /\ At(w, "reset")
      /\ IF q.role = NoRole \/ q.status = "failed"
         THEN UNCHANGED context ELSE SetContext(w, q.prior)
      /\ request' = [request EXCEPT ![w] = Idle]
      /\ since' = [since EXCEPT ![w] = {}]
      /\ UNCHANGED <<accounts, tokens>>

\* The context is given back if this request has set it.
Reset(w) ==
  LET q == request[w]
  IN  /\ At(w, "reset")
      /\ IF q.role = NoRole THEN UNCHANGED context ELSE SetContext(w, q.prior)
      /\ request' = [request EXCEPT ![w] = Idle]
      /\ since' = [since EXCEPT ![w] = {}]
      /\ UNCHANGED <<accounts, tokens>>

--------------------------------------------------------------------------------
(* The process is replaced; time passes; an administrator changes accounts.  *)

Crash(w) ==
  /\ Busy(w)
  /\ SetContext(w, Nil)
  /\ request' = [request EXCEPT ![w] = Idle]
  /\ since' = [since EXCEPT ![w] = {}]
  /\ UNCHANGED <<accounts, tokens>>

ExpireAccess(a) ==
  /\ a \in access
  /\ access' = access \ {a}
  /\ UNCHANGED <<accounts, issued, ended, context, request, since>>

ExpireRefresh(t) ==
  /\ issued[t] # Nil /\ t \notin ended
  /\ ended' = ended \cup {t}
  /\ UNCHANGED <<accounts, issued, access, context, request, since>>

\* The Django admin changes one flag of a user or an organization, or the role
\* or the flag of a membership.
ChangeAccounts ==
  /\ changes < MaxChanges
  /\ changes' = changes + 1
  /\ \/ /\ \E u \in Users : users' = IF u \in users THEN users \ {u} ELSE users \cup {u}
        /\ UNCHANGED <<orgs, member>>
     \/ /\ \E o \in Orgs : orgs' = IF o \in orgs THEN orgs \ {o} ELSE orgs \cup {o}
        /\ UNCHANGED <<users, member>>
     \/ /\ \E u \in Users, o \in Orgs, role \in Role \cup {NoRole} :
              member' = [member EXCEPT ![u][o] = role]
        /\ UNCHANGED <<users, orgs>>
  /\ UNCHANGED <<tokens, context, request>>
  /\ since' = [w \in Workers |->
       IF since[w] = {} THEN {}
       ELSE since[w] \cup {StandingOf(request[w].user, request[w].org)'}]

NewRequest(w) ==
  \/ RefuseAtOnce(w)
  \/ \E u \in Users : Login(w, u)
  \/ \E t \in RefreshIds : Logout(w, t) \/ \E o \in Orgs : TokenRequest(w, t, o)
  \/ \E a \in AccessToken : Authenticate(w, a)

Proceed(w) ==
  \/ LoginIssue(w) \/ TokenUser(w) \/ TokenOrg(w) \/ TokenMember(w) \/ LogoutBlacklist(w)
  \/ AuthOrg(w) \/ AuthMember(w) \/ View(w) \/ Audit(w) \/ Reset(w)

Next ==
  \/ \E w \in Workers : NewRequest(w) \/ Proceed(w) \/ Crash(w)
  \/ \E a \in AccessToken : ExpireAccess(a)
  \/ \E t \in RefreshIds : ExpireRefresh(t)
  \/ ChangeAccounts

Spec == Init /\ [][Next]_vars

\* A worker that has begun goes on, and the access tokens of a login expire
\* (ACCESS_TOKEN_LIFETIME).  Nobody has to send a request, log out or crash.
FairSpec ==
  /\ Spec
  /\ \A w \in Workers : WF_vars(Proceed(w))
  /\ \A t \in RefreshIds : WF_vars(\E a \in access : a.via = t /\ ExpireAccess(a))

--------------------------------------------------------------------------------
\* A view reads the rows of the organization of its token only, and a worker
\* between two requests has no tenant: what one request sets, its end or that
\* of its process gives back (authentication.py 53-56, middleware.py 23-29).
ContextInTenant ==
  \A w \in Workers :
    /\ ~ Busy(w) => context[w] = Nil
    /\ At(w, "view") => context[w] = request[w].org
    /\ request[w].read \in {Nil, request[w].org}

\* A view runs for a caller who, since his request began, has been active, in
\* an active organization, in the role he is served in, which is at least the
\* one required -- whatever his token claims.
ServedAsMember ==
  \A w \in Workers : At(w, "view") =>
    /\ RoleAtLeast(request[w].role, request[w].needs)
    /\ \E s \in since[w] : s.user
    /\ \E s \in since[w] : s.org
    /\ \E s \in since[w] : s.role = request[w].role

\* A request that has read rows of an organization leaves an audit row there,
\* under its user and in a role he had while it ran, high enough for the view --
\* unless the INSERT failed.
AuditFaithful ==
  \A w \in Workers :
    LET q == request[w]
    IN  At(w, "reset") /\ q.read # Nil /\ q.row # LostRow =>
          /\ q.row.org = q.read /\ q.row.user = q.user /\ q.row.status = q.status
          /\ RoleAtLeast(q.row.role, q.needs)
          /\ \E s \in since[w] : s.role = q.row.role

\* A refresh token that has ended, and that no exchange had found valid before.
Spent(t) ==
  /\ t \in ended
  /\ \A w \in Workers :
        request[w].pc \in {"token_user", "token_org", "token_member"} => request[w].refresh # t

\* Once a refresh token has ended, and the exchanges that had already found it
\* valid are over, no exchange begins and no access token is issued for it ever
\* again (serializers.py 44-50 and views.py 135-141 of accounts).
LogoutEnds ==
  [][\A t \in RefreshIds :
        Spent(t) => Spent(t)' /\ \A a \in access' : a.via = t => a \in access]_vars

\* After a logout the access tokens of that login come to an end, for good.
LoggedOut ==
  \A t \in RefreshIds :
    t \in ended ~> [](\A a \in access : a.via # t)

================================================================================
