--------------------------- MODULE TenantAccessProofs ---------------------------
(***************************************************************************)
(* What holds of TenantAccess for every number of users, organizations,    *)
(* workers, tokens and changes, and every set of required roles.           *)
(***************************************************************************)
EXTENDS TenantAccess, TLAPS

USE DEF At

--------------------------------------------------------------------------------
(* Types.                                                                    *)

LEMMA IdleType == Idle \in Request
BY DEF Idle, Request, Registers, Steps, Status

LEMMA RefusedType ==
  ASSUME NEW endpoint \in {"auth", "api"}
  PROVE  [Idle EXCEPT !.pc = "audit", !.endpoint = endpoint, !.status = "refused"] \in Request
BY DEF Idle, Request, Registers, Steps, Status

\* A worker that is given a request of the right type keeps the types of all.
LEMMA RequestType ==
  ASSUME TypeOK, NEW w \in Workers, NEW q \in Request,
         request' = [request EXCEPT ![w] = q]
  PROVE  request' \in [Workers -> Request]
BY DEF TypeOK

\* The response of a request, whichever step it is at.
LEMMA RespondType ==
  ASSUME TypeOK, NEW w \in Workers, NEW status \in Status, Respond(w, status)
  PROVE  request' \in [Workers -> Request]
<1> DEFINE q == request[w]
<1>q. q \in Request
  BY DEF TypeOK
<1>1. [q EXCEPT !.pc = "audit", !.status = status] \in Registers
  BY <1>q DEF Request, Registers, Steps
<1>2. [q EXCEPT !.pc = "audit", !.status = status] \in Request
  BY <1>q, <1>1 DEF Request, Registers
<1> QED
  BY <1>2, RequestType DEF Respond

\* The steps that only look something up.
LEMMA LookupType ==
  ASSUME TypeOK, NEW w \in Workers,
         TokenUser(w) \/ TokenOrg(w) \/ AuthOrg(w)
  PROVE  request' \in [Workers -> Request]
<1> DEFINE q == request[w]
<1>q. q \in Request
  BY DEF TypeOK
<1>1. CASE TokenUser(w)
  <2>1. [q EXCEPT !.pc = "token_org"] \in Request
    BY <1>q, <1>1 DEF TokenUser, Request, Registers, Steps
  <2> QED
    BY <1>1, <2>1, RequestType, RespondType DEF TokenUser, Lookup, Advance, Status
<1>2. CASE TokenOrg(w)
  <2>1. [q EXCEPT !.pc = "token_member"] \in Request
    BY <1>q, <1>2 DEF TokenOrg, Request, Registers, Steps
  <2> QED
    BY <1>2, <2>1, RequestType, RespondType DEF TokenOrg, Lookup, Advance, Status
<1>3. CASE AuthOrg(w)
  <2>1. [q EXCEPT !.pc = "auth_member"] \in Request
    BY <1>q, <1>3 DEF AuthOrg, Request, Registers, Steps
  <2> QED
    BY <1>3, <2>1, RequestType, RespondType DEF AuthOrg, Lookup, Advance, Status
<1> QED
  BY <1>1, <1>2, <1>3

LEMMA StepAndStatusType ==
  ASSUME NEW q \in Registers, NEW step \in Steps, NEW status \in Status
  PROVE  [q EXCEPT !.pc = step, !.status = status] \in Registers
BY DEF Registers

LEMMA ServedType ==
  ASSUME NEW q \in Registers, NEW role \in Role, NEW prior \in Orgs \cup {Nil},
         NEW needs \in Role, NEW step \in {"view", "audit"}, NEW status \in {"ok", "refused"}
  PROVE  [q EXCEPT !.role = role, !.prior = prior, !.needs = needs,
                   !.pc = step, !.status = status] \in Registers
<1> DEFINE attached == [q EXCEPT !.role = role]
           bound == [attached EXCEPT !.prior = prior]
           compared == [bound EXCEPT !.needs = needs]
<1>1. attached \in Registers
  BY DEF Registers
<1>2. bound \in Registers
  <2> HIDE DEF attached
  <2> QED
    BY <1>1 DEF Registers
<1>3. compared \in Registers
  <2> HIDE DEF bound
  <2> QED
    BY <1>2 DEF Registers
<1>4. [compared EXCEPT !.pc = step, !.status = status] \in Registers
  <2> HIDE DEF compared
  <2> QED
    BY <1>3, StepAndStatusType DEF Steps, Status
<1> QED
  BY <1>4

LEMMA AuditedType ==
  ASSUME NEW q \in Registers, NEW row \in AuditRow \cup {NoRow, LostRow}
  PROVE  [q EXCEPT !.pc = "reset", !.row = row] \in Registers
<1> DEFINE left == [q EXCEPT !.pc = "reset"]
<1>1. left \in Registers
  BY DEF Registers, Steps
<1>2. [left EXCEPT !.row = row] \in Registers
  <2> HIDE DEF left
  <2> QED
    BY <1>1 DEF Registers
<1> QED
  BY <1>2

LEMMA RowType ==
  ASSUME NEW q \in Request
  PROVE  Row(q) \in AuditRow
BY DEF Row, AuditRow, Request, Registers

\* How the registers of w may change: a request begins, or goes on.
LEMMA WorkerType ==
  ASSUME TypeOK, NEW w \in Workers, NewRequest(w) \/ Proceed(w) \/ Crash(w)
  PROVE  request' \in [Workers -> Request]
<1> DEFINE q == request[w]
<1>q. q \in Request
  BY DEF TypeOK
<1>1. CASE RefuseAtOnce(w)
  BY <1>1, RefusedType, RequestType DEF RefuseAtOnce, Begin
<1>2. ASSUME NEW u \in Users, Login(w, u)
      PROVE  request' \in [Workers -> Request]
  <2> PICK t \in RefreshIds :
        Begin(w, [Idle EXCEPT !.pc = "login_issue", !.endpoint = "auth",
                              !.user = u, !.refresh = t])
    BY <1>2 DEF Login
  <2>1. [Idle EXCEPT !.pc = "login_issue", !.endpoint = "auth", !.user = u, !.refresh = t]
          \in Request
    BY DEF Idle, Request, Registers, Steps, Status
  <2> QED
    BY <2>1, RequestType DEF Begin
<1>3. ASSUME NEW t \in RefreshIds, Logout(w, t)
      PROVE  request' \in [Workers -> Request]
  <2> DEFINE step == IF t \in ended THEN "audit" ELSE "logout_blacklist"
  <2>1. step \in {"audit", "logout_blacklist"}
    OBVIOUS
  <2> HIDE DEF step
  <2>2. [Idle EXCEPT !.pc = step, !.endpoint = "auth", !.refresh = t] \in Request
    BY <2>1 DEF Idle, Request, Registers, Steps, Status
  <2> QED
    BY <1>3, <2>2, RequestType DEF Logout, Begin, step
<1>4. ASSUME NEW t \in RefreshIds, NEW o \in Orgs, TokenRequest(w, t, o)
      PROVE  request' \in [Workers -> Request]
  <2>1. issued[t] \in Users
    BY <1>4 DEF TokenRequest, TypeOK
  <2>2. [Idle EXCEPT !.pc = "token_user", !.endpoint = "auth",
                     !.user = issued[t], !.org = o, !.refresh = t] \in Request
    BY <2>1 DEF Idle, Request, Registers, Steps, Status
  <2> QED
    BY <1>4, <2>2, RequestType DEF TokenRequest, Begin
<1>5. ASSUME NEW a \in AccessToken, Authenticate(w, a)
      PROVE  request' \in [Workers -> Request]
  <2> DEFINE step == IF a.user \in users THEN "auth_org" ELSE "audit"
             status == IF a.user \in users THEN "ok" ELSE "refused"
  <2>1. step \in {"auth_org", "audit"} /\ status \in {"ok", "refused"}
    OBVIOUS
  <2> HIDE DEF step, status
  <2>2. [Idle EXCEPT !.pc = step, !.status = status,
                     !.user = a.user, !.org = a.org, !.claim = a.role] \in Request
    BY <2>1 DEF Idle, Request, Registers, Steps, Status, AccessToken
  <2> QED
    BY <1>5, <2>2, RequestType DEF Authenticate, Begin, step, status
<1>6. CASE LoginIssue(w) \/ TokenMember(w) \/ LogoutBlacklist(w)
  BY <1>6, RespondType DEF LoginIssue, TokenMember, LogoutBlacklist, Status
<1>7. CASE TokenUser(w) \/ TokenOrg(w) \/ AuthOrg(w)
  BY <1>7, LookupType
<1>8. CASE AuthMember(w)
  <2> DEFINE role == member[q.user][q.org]
  <2>1. CASE role = NoRole
    BY <1>8, <2>1, RespondType DEF AuthMember, Status
  <2>2. CASE role # NoRole
    <3> PICK needs \in ViewRoles :
          request' = [request EXCEPT ![w] =
            [q EXCEPT !.role = role, !.prior = context[w], !.needs = needs,
                      !.pc = IF RoleAtLeast(role, needs) THEN "view" ELSE "audit",
                      !.status = IF RoleAtLeast(role, needs) THEN "ok" ELSE "refused"]]
      BY <1>8, <2>2 DEF AuthMember
    <3> DEFINE step == IF RoleAtLeast(role, needs) THEN "view" ELSE "audit"
               status == IF RoleAtLeast(role, needs) THEN "ok" ELSE "refused"
    <3>1. step \in {"view", "audit"} /\ status \in {"ok", "refused"}
      OBVIOUS
    <3>2. q.user \in Users /\ q.org \in Orgs
      BY <1>q, <1>8 DEF AuthMember, Request
    <3>3. role \in Role /\ context[w] \in Orgs \cup {Nil} /\ needs \in Role
      BY <2>2, <3>2, AccessAssumption DEF TypeOK
    <3> HIDE DEF step, status, role
    <3> DEFINE next == [q EXCEPT !.role = role, !.prior = context[w], !.needs = needs,
                                 !.pc = step, !.status = status]
    <3>4. next \in Registers
      BY <1>q, <3>1, <3>3, ServedType DEF Request
    <3>5. next.pc = step /\ next.role = role /\ next.user = q.user /\ next.org = q.org
             /\ next.needs = needs
      BY <1>q DEF Request, Registers
    <3> HIDE DEF next
    <3>6. next \in Request
      BY <3>1, <3>2, <3>3, <3>4, <3>5 DEF Request
    <3> QED
      BY <3>6, RequestType DEF step, status, role, next
  <2> QED
    BY <2>1, <2>2
<1>9. CASE View(w)
  <2> PICK status \in Status :
        request' = [request EXCEPT ![w] =
          [@ EXCEPT !.pc = "audit", !.read = context[w], !.status = status]]
    BY <1>9 DEF View, Status
  <2>1. context[w] \in Orgs \cup {Nil}
    BY DEF TypeOK
  <2>2. [q EXCEPT !.pc = "audit", !.read = context[w], !.status = status] \in Registers
    BY <1>q, <2>1 DEF Request, Registers, Steps
  <2>3. [q EXCEPT !.pc = "audit", !.read = context[w], !.status = status] \in Request
    BY <1>q, <2>2 DEF Request, Registers
  <2> QED
    BY <2>3, RequestType
<1>10. CASE Audit(w)
  <2> PICK row \in {Row(q), LostRow, NoRow} :
        request' = [request EXCEPT ![w] = [q EXCEPT !.pc = "reset", !.row = row]]
    BY <1>10 DEF Audit
  <2>1. row \in AuditRow \cup {NoRow, LostRow}
    BY <1>q, RowType
  <2>2. [q EXCEPT !.pc = "reset", !.row = row] \in Registers
    BY <1>q, <2>1, AuditedType DEF Request
  <2>3. [q EXCEPT !.pc = "reset", !.row = row] \in Request
    BY <1>q, <2>2 DEF Request, Registers
  <2> QED
    BY <2>3, RequestType
<1>11. CASE Reset(w) \/ Crash(w)
  BY <1>11, IdleType, RequestType DEF Reset, Crash
<1> QED
  BY <1>1, <1>2, <1>3, <1>4, <1>5, <1>6, <1>7, <1>8, <1>9, <1>10, <1>11
  DEF NewRequest, Proceed

LEMMA StandingType ==
  ASSUME users \subseteq Users, orgs \subseteq Orgs,
         member \in [Users -> [Orgs -> Role \cup {NoRole}]],
         NEW u \in Users, NEW o \in Orgs
  PROVE  StandingOf(u, o) \in Standing
BY DEF StandingOf, Standing

\* A caller whose standing is followed is named.
CallersNamed ==
  \A w \in Workers : since[w] # {} =>
    request[w].pc # "idle" /\ request[w].user \in Users /\ request[w].org \in Orgs

\* Once begun, a request keeps its caller until its end.
KeepsCaller(w) ==
  /\ request' = [request EXCEPT ![w] = request'[w]]
  /\ request'[w].pc # "idle"
  /\ request'[w].user = request[w].user /\ request'[w].org = request[w].org
  /\ since' = since

LEMMA RespondKeepsCaller ==
  ASSUME TypeOK, NEW w \in Workers, NEW status, Respond(w, status), since' = since
  PROVE  KeepsCaller(w)
BY DEF TypeOK, Request, Registers, Respond, KeepsCaller

LEMMA AdvanceKeepsCaller ==
  ASSUME TypeOK, NEW w \in Workers, NEW step \in Steps, Advance(w, step), since' = since
  PROVE  KeepsCaller(w)
BY DEF TypeOK, Request, Registers, Advance, KeepsCaller, Steps

LEMMA ProceedKeepsCaller ==
  ASSUME TypeOK, NEW w \in Workers, Proceed(w), ~ Reset(w)
  PROVE  KeepsCaller(w)
<1> DEFINE q == request[w]
<1>q. q \in Registers /\ request \in [Workers -> Request]
  BY DEF TypeOK, Request
<1>1. CASE LoginIssue(w) \/ LogoutBlacklist(w) \/ TokenMember(w)
  BY <1>1, RespondKeepsCaller DEF LoginIssue, LogoutBlacklist, TokenMember
<1>2. CASE TokenUser(w) \/ TokenOrg(w) \/ AuthOrg(w)
  BY <1>2, RespondKeepsCaller, AdvanceKeepsCaller
  DEF TokenUser, TokenOrg, AuthOrg, Lookup, Steps
<1>3. CASE AuthMember(w)
  <2>1. CASE member[q.user][q.org] = NoRole
    BY <1>3, <2>1, RespondKeepsCaller DEF AuthMember
  <2>2. CASE member[q.user][q.org] # NoRole
    <3> DEFINE role == member[q.user][q.org]
               Step(needs) == IF RoleAtLeast(role, needs) THEN "view" ELSE "audit"
               Result(needs) == IF RoleAtLeast(role, needs) THEN "ok" ELSE "refused"
               Served(needs) == [q EXCEPT !.role = role, !.prior = context[w], !.needs = needs,
                                          !.pc = Step(needs), !.status = Result(needs)]
    <3>1. PICK needs \in ViewRoles : request' = [request EXCEPT ![w] = Served(needs)]
      BY <1>3, <2>2 DEF AuthMember
    <3>2. Step(needs) # "idle"
      OBVIOUS
    <3> HIDE DEF role, Step, Result
    <3>3. /\ Served(needs).pc = Step(needs)
          /\ Served(needs).user = q.user /\ Served(needs).org = q.org
      BY <1>q DEF Registers
    <3> HIDE DEF Served
    <3> QED
      BY <1>q, <1>3, <3>1, <3>2, <3>3 DEF AuthMember, KeepsCaller
  <2> QED
    BY <2>1, <2>2
<1>4. CASE View(w)
  BY <1>q, <1>4 DEF View, Registers, KeepsCaller
<1>5. CASE Audit(w)
  BY <1>q, <1>5 DEF Audit, Registers, KeepsCaller
<1> QED
  BY <1>1, <1>2, <1>3, <1>4, <1>5 DEF Proceed

\* A request begun by a step other than Authenticate follows nobody's standing.
Unfollowed(w) ==
  /\ ~ Busy(w)
  /\ request' = [request EXCEPT ![w] = request'[w]]
  /\ since' = since

LEMMA NewRequestUnfollowed ==
  ASSUME TypeOK, NEW w \in Workers, NewRequest(w),
         ~ \E a \in AccessToken : Authenticate(w, a)
  PROVE  Unfollowed(w)
<1>1. \A q : Begin(w, q) => ~ Busy(w) /\ request' = [request EXCEPT ![w] = request'[w]]
  BY DEF Begin, TypeOK
<1> QED
  BY <1>1 DEF NewRequest, RefuseAtOnce, Login, Logout, TokenRequest, Unfollowed

LEMMA CallersStep ==
  ASSUME TypeOK, NEW w \in Workers, NewRequest(w) \/ Proceed(w) \/ Crash(w)
  PROVE  CallersNamed'
<1>0. CallersNamed
  BY DEF TypeOK, CallersNamed
<1>1. CASE Reset(w) \/ Crash(w)
  BY <1>0, <1>1 DEF Reset, Crash, CallersNamed, TypeOK
<1>2. ASSUME NEW a \in AccessToken, Authenticate(w, a)
      PROVE  CallersNamed'
  <2>1. request'[w].pc # "idle" /\ request'[w].user \in Users /\ request'[w].org \in Orgs
    BY <1>2 DEF Authenticate, Begin, Idle, AccessToken, TypeOK
  <2> QED
    BY <1>0, <1>2, <2>1 DEF Authenticate, Begin, CallersNamed, TypeOK
<1>3. CASE Unfollowed(w)
  BY <1>0, <1>3 DEF Unfollowed, CallersNamed, Busy, TypeOK
<1>4. CASE KeepsCaller(w)
  BY <1>0, <1>4 DEF KeepsCaller, CallersNamed, TypeOK
<1> QED
  BY <1>1, <1>2, <1>3, <1>4, NewRequestUnfollowed, ProceedKeepsCaller

LEMMA WorkerStepType ==
  ASSUME TypeOK, NEW w \in Workers, NewRequest(w) \/ Proceed(w) \/ Crash(w)
  PROVE  TypeOK'
<1> DEFINE q == request[w]
<1>q. q \in Request
  BY DEF TypeOK
<1>1. request' \in [Workers -> Request]
  BY WorkerType
<1>2. UNCHANGED accounts
  BY DEF NewRequest, Proceed, Crash, accounts, RefuseAtOnce, Login, Logout, TokenRequest,
         Authenticate, LoginIssue, TokenUser, TokenOrg, TokenMember, LogoutBlacklist,
         AuthOrg, AuthMember, View, Audit, Reset
<1>3. issued' \in [RefreshIds -> Users \cup {Nil}]
  <2>1. CASE LoginIssue(w)
    BY <1>q, <2>1 DEF LoginIssue, TypeOK, Request
  <2>2. CASE ~ LoginIssue(w)
    BY <2>2 DEF TypeOK, NewRequest, Proceed, Crash, tokens, RefuseAtOnce, Login, Logout,
         TokenRequest, Authenticate, TokenUser, TokenOrg, TokenMember, LogoutBlacklist,
         AuthOrg, AuthMember, View, Audit, Reset
  <2> QED
    BY <2>1, <2>2
<1>4. ended' \subseteq RefreshIds
  <2>1. CASE LogoutBlacklist(w)
    BY <1>q, <2>1 DEF LogoutBlacklist, TypeOK, Request
  <2>2. CASE ~ LogoutBlacklist(w)
    BY <2>2 DEF TypeOK, NewRequest, Proceed, Crash, tokens, RefuseAtOnce, Login, Logout,
         TokenRequest, Authenticate, LoginIssue, TokenUser, TokenOrg, TokenMember,
         AuthOrg, AuthMember, View, Audit, Reset
  <2> QED
    BY <2>1, <2>2
<1>5. access' \subseteq AccessToken
  <2>1. CASE TokenMember(w)
    <3>1. q.user \in Users /\ q.org \in Orgs /\ q.refresh \in RefreshIds
      BY <1>q, <2>1 DEF TokenMember, Request
    <3>2. member[q.user][q.org] \in Role \cup {NoRole}
      BY <3>1 DEF TypeOK
    <3> QED
      BY <2>1, <3>1, <3>2 DEF TokenMember, TypeOK, AccessToken
  <2>2. CASE ~ TokenMember(w)
    BY <2>2 DEF TypeOK, NewRequest, Proceed, Crash, tokens, RefuseAtOnce, Login, Logout,
         TokenRequest, Authenticate, LoginIssue, TokenUser, TokenOrg, LogoutBlacklist,
         AuthOrg, AuthMember, View, Audit, Reset
  <2> QED
    BY <2>1, <2>2
<1>6. context' \in [Workers -> Orgs \cup {Nil}]
  <2>1. CASE AuthMember(w)
    <3>1. q.org \in Orgs
      BY <1>q, <2>1 DEF AuthMember, Request
    <3>2. context' \in {context, [context EXCEPT ![w] = q.org]}
      BY <2>1 DEF AuthMember, SetContext
    <3> QED
      BY <3>1, <3>2 DEF TypeOK
  <2>2. CASE Reset(w)
    <3>1. q.prior \in Orgs \cup {Nil}
      BY <1>q DEF Request, Registers
    <3>2. context' \in {context, [context EXCEPT ![w] = q.prior]}
      BY <2>2 DEF Reset, SetContext
    <3> QED
      BY <3>1, <3>2 DEF TypeOK
  <2>3. CASE Crash(w)
    BY <2>3 DEF Crash, SetContext, TypeOK
  <2>4. CASE ~ (AuthMember(w) \/ Reset(w) \/ Crash(w))
    BY <2>4 DEF TypeOK, NewRequest, Proceed, RefuseAtOnce, Login, Logout,
         TokenRequest, Authenticate, LoginIssue, TokenUser, TokenOrg, TokenMember,
         LogoutBlacklist, AuthOrg, View, Audit
  <2> QED
    BY <2>1, <2>2, <2>3, <2>4
<1>7. since' \in [Workers -> SUBSET Standing]
  <2>1. ASSUME NEW a \in AccessToken, Authenticate(w, a)
        PROVE  since' \in [Workers -> SUBSET Standing]
    <3>1. StandingOf(a.user, a.org) \in Standing
      BY StandingType DEF TypeOK, AccessToken
    <3> QED
      BY <2>1, <3>1 DEF Authenticate, TypeOK
  <2>2. CASE Reset(w) \/ Crash(w)
    BY <2>2 DEF Reset, Crash, TypeOK
  <2>3. CASE since' = since
    BY <2>3 DEF TypeOK
  <2> QED
    BY <2>1, <2>2, <2>3, NewRequestUnfollowed, ProceedKeepsCaller
    DEF Unfollowed, KeepsCaller
<1>8. CallersNamed'
  BY CallersStep
<1> QED
  BY <1>1, <1>2, <1>3, <1>4, <1>5, <1>6, <1>7, <1>8 DEF TypeOK, accounts, CallersNamed

LEMMA ChangeType ==
  ASSUME TypeOK, ChangeAccounts
  PROVE  TypeOK'
<1>1. /\ users' \subseteq Users /\ orgs' \subseteq Orgs
      /\ member' \in [Users -> [Orgs -> Role \cup {NoRole}]]
  <2>1. ASSUME NEW u \in Users, NEW o \in Orgs, NEW role \in Role \cup {NoRole}
        PROVE  [member EXCEPT ![u][o] = role] \in [Users -> [Orgs -> Role \cup {NoRole}]]
    BY DEF TypeOK
  <2>2. member' \in [Users -> [Orgs -> Role \cup {NoRole}]]
    <3>1. \/ member' = member
          \/ \E u \in Users, o \in Orgs, role \in Role \cup {NoRole} :
                member' = [member EXCEPT ![u][o] = role]
      BY DEF ChangeAccounts
    <3>2. member \in [Users -> [Orgs -> Role \cup {NoRole}]]
      BY DEF TypeOK
    <3> QED
      BY <2>1, <3>1, <3>2
  <2>3. users' \subseteq Users
    BY DEF ChangeAccounts, TypeOK
  <2>4. orgs' \subseteq Orgs
    BY DEF ChangeAccounts, TypeOK
  <2> QED
    BY <2>2, <2>3, <2>4
<1>2. since' \in [Workers -> SUBSET Standing]
  <2> SUFFICES ASSUME NEW w \in Workers, since[w] # {}
               PROVE  since[w] \cup {StandingOf(request[w].user, request[w].org)'}
                        \in SUBSET Standing
    BY DEF ChangeAccounts
  <2>1. request'[w].user \in Users /\ request'[w].org \in Orgs
    BY DEF TypeOK, ChangeAccounts
  <2>2. StandingOf(request[w].user, request[w].org)' \in Standing
    BY <1>1, <2>1 DEF StandingOf, Standing
  <2> QED
    BY <2>2 DEF TypeOK
<1>3. \A w \in Workers : since'[w] # {} => since[w] # {}
  BY DEF ChangeAccounts
<1>4. changes' \in 0 .. MaxChanges
  BY AccessAssumption DEF ChangeAccounts, TypeOK
<1> QED
  BY <1>1, <1>2, <1>3, <1>4 DEF ChangeAccounts, TypeOK, tokens

\* Every variable keeps its type, and every worker has the registers its next
\* step reads, in every run.
THEOREM TypeInvariant == Spec => []TypeOK
<1>1. Init => TypeOK
  <2> SUFFICES ASSUME Init PROVE TypeOK
    OBVIOUS
  <2>1. member \in [Users -> [Orgs -> Role \cup {NoRole}]] /\ changes \in 0 .. MaxChanges
    BY AccessAssumption DEF Init
  <2>2. request \in [Workers -> Request] /\ since \in [Workers -> SUBSET Standing]
    BY IdleType DEF Init
  <2>3. \A w \in Workers : since[w] = {}
    BY DEF Init
  <2>4. issued \in [RefreshIds -> Users \cup {Nil}] /\ context \in [Workers -> Orgs \cup {Nil}]
    BY DEF Init
  <2> QED
    BY <2>1, <2>2, <2>3, <2>4 DEF Init, TypeOK
<1>2. TypeOK /\ [Next]_vars => TypeOK'
  <2> SUFFICES ASSUME TypeOK, [Next]_vars PROVE TypeOK'
    OBVIOUS
  <2>1. CASE UNCHANGED vars
    BY <2>1 DEF TypeOK, vars
  <2>2. CASE \E a \in AccessToken : ExpireAccess(a)
    BY <2>2 DEF ExpireAccess, TypeOK, accounts
  <2>3. CASE \E t \in RefreshIds : ExpireRefresh(t)
    BY <2>3 DEF ExpireRefresh, TypeOK, accounts
  <2> QED
    BY <2>1, <2>2, <2>3, WorkerStepType, ChangeType DEF Next
<1> QED
  BY <1>1, <1>2, PTL DEF Spec

--------------------------------------------------------------------------------
(* The tenant context, the standing of the caller and the audit row.         *)

\* What is known of the caller at each step of his request, and what the
\* worker owes to the process.
CallerInOrder(w) ==
  LET q == request[w]
  IN  /\ q.prior = Nil
      /\ context[w] = IF q.role = NoRole THEN Nil ELSE q.org
      /\ q.pc \notin {"view", "audit", "reset"} => q.role = NoRole
      /\ q.pc \notin {"audit", "reset"} => q.read = Nil
      /\ q.read # Nil => q.read = q.org /\ q.role # NoRole
      /\ q.pc \in {"auth_org", "auth_member"} =>
            /\ StandingOf(q.user, q.org) \in since[w]
            /\ \E s \in since[w] : s.user
      /\ q.pc = "auth_member" => \E s \in since[w] : s.org
      /\ q.pc = "view" \/ q.read # Nil =>
            /\ RoleAtLeast(q.role, q.needs)
            /\ \E s \in since[w] : s.user
            /\ \E s \in since[w] : s.org
            /\ \E s \in since[w] : s.role = q.role
      /\ q.pc = "reset" /\ q.read # Nil => q.row \in {Row(q), LostRow}

AccessInv == \A w \in Workers : CallerInOrder(w)

\* A step of one worker leaves the others as they are.
OthersStay(w) ==
  \A v \in Workers \ {w} :
    request'[v] = request[v] /\ context'[v] = context[v] /\ since'[v] = since[v]

LEMMA WorkerKeepsOthers ==
  ASSUME TypeOK, NEW w \in Workers, NewRequest(w) \/ Proceed(w) \/ Crash(w)
  PROVE  UNCHANGED accounts /\ OthersStay(w)
<1>1. UNCHANGED accounts
  BY DEF NewRequest, Proceed, Crash, accounts, RefuseAtOnce, Login, Logout, TokenRequest,
         Authenticate, LoginIssue, TokenUser, TokenOrg, TokenMember, LogoutBlacklist,
         AuthOrg, AuthMember, View, Audit, Reset
<1>2. \A v \in Workers \ {w} : request'[v] = request[v] /\ since'[v] = since[v]
  <2>1. CASE KeepsCaller(w) \/ Unfollowed(w)
    <3>1. \A v \in Workers \ {w} : [request EXCEPT ![w] = request'[w]][v] = request[v]
      BY DEF TypeOK
    <3> QED
      BY <2>1, <3>1 DEF KeepsCaller, Unfollowed
  <2>2. CASE Reset(w) \/ Crash(w)
    BY <2>2 DEF Reset, Crash, TypeOK
  <2>3. ASSUME NEW a \in AccessToken, Authenticate(w, a)
        PROVE  \A v \in Workers \ {w} : request'[v] = request[v] /\ since'[v] = since[v]
    BY <2>3 DEF Authenticate, Begin, TypeOK
  <2> QED
    BY <2>1, <2>2, <2>3, NewRequestUnfollowed, ProceedKeepsCaller
<1>3. \A v \in Workers \ {w} : context'[v] = context[v]
  <2>1. \A org : SetContext(w, org) => \A v \in Workers \ {w} : context'[v] = context[v]
    BY DEF SetContext, TypeOK
  <2>2. \/ UNCHANGED context
        \/ \E org : SetContext(w, org)
    BY DEF NewRequest, Proceed, Crash, RefuseAtOnce, Login, Logout, TokenRequest,
         Authenticate, LoginIssue, TokenUser, TokenOrg, TokenMember, LogoutBlacklist,
         AuthOrg, AuthMember, View, Audit, Reset
  <2> QED
    BY <2>1, <2>2
<1> QED
  BY <1>1, <1>2, <1>3 DEF OthersStay

LEMMA OthersInOrder ==
  ASSUME TypeOK, AccessInv, NEW w \in Workers, UNCHANGED accounts, OthersStay(w),
         CallerInOrder(w)'
  PROVE  AccessInv'
<1> SUFFICES ASSUME NEW v \in Workers, v # w
             PROVE  CallerInOrder(v)'
  BY DEF AccessInv
<1>1. CallerInOrder(v)
  BY DEF AccessInv
<1>2. request'[v] = request[v] /\ context'[v] = context[v] /\ since'[v] = since[v]
  BY DEF OthersStay
<1> QED
  BY <1>1, <1>2 DEF CallerInOrder, StandingOf, accounts

\* A request that has not attached a membership is answered, or looks on.
LEMMA EarlyStep ==
  ASSUME NEW w \in Workers, TypeOK, CallerInOrder(w), request[w].role = NoRole,
         UNCHANGED <<context, since, accounts>>,
         NEW step \in Steps \ {"view", "reset", "auth_org", "auth_member"}, NEW status,
         Advance(w, step) \/ Respond(w, status)
  PROVE  CallerInOrder(w)'
<1> DEFINE q == request[w]
<1>q. q \in Registers /\ q.read = Nil /\ q.prior = Nil /\ context[w] = Nil
  BY AccessAssumption DEF TypeOK, Request, CallerInOrder
<1>1. /\ request'[w].pc \in {step, "audit"} /\ request'[w].role = NoRole
      /\ request'[w].read = Nil /\ request'[w].prior = Nil
  <2>1. CASE Advance(w, step)
    BY <1>q, <2>1 DEF Advance, TypeOK, Registers
  <2>2. CASE Respond(w, status)
    BY <1>q, <2>2 DEF Respond, TypeOK, Registers
  <2> QED
    BY <2>1, <2>2
<1> QED
  BY <1>q, <1>1 DEF CallerInOrder

LEMMA IdleInOrder ==
  ASSUME NEW w \in Workers, request'[w] = Idle, context'[w] = Nil
  PROVE  CallerInOrder(w)'
BY DEF CallerInOrder, Idle

LEMMA NewRequestInOrder ==
  ASSUME NEW w \in Workers, TypeOK, CallerInOrder(w), NewRequest(w)
  PROVE  CallerInOrder(w)'
<1>0. context[w] = Nil \/ Busy(w)
  BY DEF CallerInOrder, Busy
<1>1. ASSUME NEW q, Begin(w, q), context' = context,
             q.role = NoRole, q.read = Nil, q.prior = Nil,
             q.pc \notin {"view", "auth_org", "auth_member"}
      PROVE  CallerInOrder(w)'
  <2>1. request'[w] = q /\ context'[w] = Nil
    BY <1>0, <1>1 DEF Begin, TypeOK
  <2> QED
    BY <1>1, <2>1 DEF CallerInOrder
<1>2. CASE RefuseAtOnce(w)
  BY <1>1, <1>2 DEF RefuseAtOnce, Idle
<1>3. ASSUME NEW u \in Users, Login(w, u)
      PROVE  CallerInOrder(w)'
  BY <1>1, <1>3 DEF Login, Idle
<1>4. ASSUME NEW t \in RefreshIds, Logout(w, t)
      PROVE  CallerInOrder(w)'
  BY <1>1, <1>4 DEF Logout, Idle
<1>5. ASSUME NEW t \in RefreshIds, NEW o \in Orgs, TokenRequest(w, t, o)
      PROVE  CallerInOrder(w)'
  BY <1>1, <1>5 DEF TokenRequest, Idle
<1>6. ASSUME NEW a \in AccessToken, Authenticate(w, a)
      PROVE  CallerInOrder(w)'
  <2>1. /\ request'[w].role = NoRole /\ request'[w].read = Nil /\ request'[w].prior = Nil
        /\ request'[w].pc \in {"auth_org", "audit"}
        /\ request'[w].user = a.user /\ request'[w].org = a.org
    BY <1>6 DEF Authenticate, Begin, TypeOK, Idle
  <2>2. request'[w].pc = "auth_org" => a.user \in users
    BY <1>6 DEF Authenticate, Begin, TypeOK, Idle
  <2>3. context'[w] = Nil /\ since'[w] = {StandingOf(a.user, a.org)} /\ UNCHANGED accounts
    BY <1>0, <1>6 DEF Authenticate, Begin, TypeOK
  <2>4. StandingOf(request[w].user, request[w].org)' = StandingOf(a.user, a.org)
    BY <2>1, <2>3 DEF StandingOf, accounts
  <2>5. a.user \in users => StandingOf(a.user, a.org).user
    BY DEF StandingOf
  <2>6. request'[w].pc = "auth_org" =>
          /\ StandingOf(request[w].user, request[w].org)' \in since'[w]
          /\ \E s \in since'[w] : s.user
    BY <2>2, <2>3, <2>4, <2>5
  <2> QED
    BY <2>1, <2>3, <2>6 DEF CallerInOrder
<1> QED
  BY <1>2, <1>3, <1>4, <1>5, <1>6 DEF NewRequest

LEMMA ProceedInOrder ==
  ASSUME NEW w \in Workers, TypeOK, CallerInOrder(w), Proceed(w)
  PROVE  CallerInOrder(w)'
<1> DEFINE q == request[w]
<1>q. q \in Request /\ q \in Registers
  BY DEF TypeOK, Request
<1>a. UNCHANGED accounts
  BY WorkerKeepsOthers
<1>1. CASE LoginIssue(w) \/ TokenMember(w) \/ LogoutBlacklist(w) \/ TokenUser(w) \/ TokenOrg(w)
  <2>1. q.role = NoRole /\ UNCHANGED <<context, since>>
    BY <1>1 DEF LoginIssue, TokenMember, LogoutBlacklist, TokenUser, TokenOrg, CallerInOrder
  <2>2. \E step \in Steps \ {"view", "reset", "auth_org", "auth_member"} :
          \E status : Advance(w, step) \/ Respond(w, status)
    BY <1>1 DEF LoginIssue, TokenMember, LogoutBlacklist, TokenUser, TokenOrg, Lookup, Steps
  <2> QED
    BY <1>a, <2>1, <2>2, EarlyStep
<1>2. CASE AuthOrg(w)
  <2>1. q.role = NoRole /\ UNCHANGED <<context, since>>
    BY <1>2 DEF AuthOrg, CallerInOrder
  <2>2. CASE q.org \notin orgs
    BY <1>2, <1>a, <2>1, <2>2, EarlyStep DEF AuthOrg, Lookup, Steps
  <2>3. CASE q.org \in orgs
    <3>1. StandingOf(q.user, q.org) \in since[w] /\ StandingOf(q.user, q.org).org
      BY <1>2, <2>3 DEF AuthOrg, CallerInOrder, StandingOf
    <3>2. request'[w] = [q EXCEPT !.pc = "auth_member"]
      BY <1>2, <2>3 DEF AuthOrg, Lookup, Advance, TypeOK
    <3>3. /\ request'[w].pc = "auth_member" /\ request'[w].role = q.role
          /\ request'[w].prior = q.prior /\ request'[w].read = q.read
          /\ request'[w].user = q.user /\ request'[w].org = q.org
      BY <1>q, <3>2 DEF Registers
    <3>4. StandingOf(request[w].user, request[w].org)' = StandingOf(q.user, q.org)
      BY <1>a, <3>3 DEF StandingOf, accounts
    <3> QED
      BY <1>2, <2>1, <3>1, <3>3, <3>4 DEF CallerInOrder, AuthOrg
  <2> QED
    BY <2>2, <2>3
<1>3. CASE AuthMember(w)
  <2> DEFINE role == member[q.user][q.org]
  <2>1. q.role = NoRole /\ context[w] = Nil /\ UNCHANGED since
    BY <1>3 DEF AuthMember, CallerInOrder
  <2>2. CASE role = NoRole
    BY <1>3, <1>a, <2>1, <2>2, EarlyStep DEF AuthMember, Steps
  <2>3. CASE role # NoRole
    <3> DEFINE Enough(needs) == RoleAtLeast(role, needs)
               Step(needs) == IF Enough(needs) THEN "view" ELSE "audit"
               Result(needs) == IF Enough(needs) THEN "ok" ELSE "refused"
               Served(needs) == [q EXCEPT !.role = role, !.prior = context[w], !.needs = needs,
                                          !.pc = Step(needs), !.status = Result(needs)]
    <3>1. PICK needs \in ViewRoles : request' = [request EXCEPT ![w] = Served(needs)]
      BY <1>3, <2>3 DEF AuthMember
    <3>2. context'[w] = q.org
      BY <1>3, <2>3 DEF AuthMember, SetContext, TypeOK
    <3>3. StandingOf(q.user, q.org) \in since[w] /\ StandingOf(q.user, q.org).role = role
      BY <1>3 DEF AuthMember, CallerInOrder, StandingOf
    <3>4. Step(needs) \in {"view", "audit"} /\ (Step(needs) = "view" => Enough(needs))
      OBVIOUS
    <3> HIDE DEF role, Step, Result
    <3>5. /\ Served(needs).pc = Step(needs) /\ Served(needs).role = role
          /\ Served(needs).prior = Nil /\ Served(needs).read = q.read
          /\ Served(needs).needs = needs
          /\ Served(needs).user = q.user /\ Served(needs).org = q.org
      BY <1>q, <2>1 DEF Registers
    <3>6. request'[w] = Served(needs)
      BY <3>1 DEF TypeOK
    <3>7. /\ q.read = Nil
          /\ \E s \in since[w] : s.user
          /\ \E s \in since[w] : s.org
      BY <1>3 DEF AuthMember, CallerInOrder
    <3>8. Step(needs) = "view" => RoleAtLeast(role, needs)
      BY <3>4
    <3>9. \E s \in since[w] : s.role = role
      BY <3>3
    <3> HIDE DEF Served, Enough, q
    <3> QED
      BY <2>1, <2>3, <3>2, <3>4, <3>5, <3>6, <3>7, <3>8, <3>9 DEF CallerInOrder
  <2> QED
    BY <2>2, <2>3
<1>4. CASE View(w)
  <2> PICK status : request' = [request EXCEPT ![w] =
          [@ EXCEPT !.pc = "audit", !.read = context[w], !.status = status]]
    BY <1>4 DEF View
  <2>1. /\ request'[w].pc = "audit" /\ request'[w].role = q.role
        /\ request'[w].prior = q.prior /\ request'[w].read = context[w]
        /\ request'[w].needs = q.needs /\ request'[w].org = q.org
    BY <1>q DEF TypeOK, Registers
  <2>2. q.role # NoRole /\ context[w] = q.org
    BY <1>4, AccessAssumption DEF View, CallerInOrder, RoleAtLeast
  <2> QED
    BY <1>4, <2>1, <2>2 DEF View, CallerInOrder
<1>5. CASE Audit(w)
  <2> PICK row : /\ request' = [request EXCEPT ![w] = [q EXCEPT !.pc = "reset", !.row = row]]
                 /\ q.role # NoRole => row \in {Row(q), LostRow}
    BY <1>5 DEF Audit
  <2>1. /\ request'[w].pc = "reset" /\ request'[w].role = q.role
        /\ request'[w].prior = q.prior /\ request'[w].read = q.read
        /\ request'[w].needs = q.needs /\ request'[w].org = q.org
        /\ request'[w].user = q.user /\ request'[w].status = q.status
        /\ request'[w].row = row
    BY <1>q DEF TypeOK, Registers
  <2>2. Row(request[w])' = Row(q)
    BY <2>1 DEF Row
  <2> QED
    BY <1>5, <2>1, <2>2 DEF Audit, CallerInOrder
<1>6. CASE Reset(w)
  <2>1. context'[w] = Nil
    BY <1>6 DEF Reset, SetContext, CallerInOrder, TypeOK
  <2> QED
    BY <1>6, <2>1, IdleInOrder DEF Reset, TypeOK
<1> QED
  BY <1>1, <1>2, <1>3, <1>4, <1>5, <1>6 DEF Proceed

LEMMA ChangeInOrder ==
  ASSUME TypeOK, AccessInv, ChangeAccounts, NEW w \in Workers
  PROVE  CallerInOrder(w)'
<1> DEFINE q == request[w]
<1>1. CallerInOrder(w)
  BY DEF AccessInv
<1>2. request' = request /\ context' = context
  BY DEF ChangeAccounts
<1>3. /\ since[w] \subseteq since'[w]
      /\ since[w] # {} => StandingOf(q.user, q.org)' \in since'[w]
  BY DEF ChangeAccounts
<1>4. Row(request[w])' = Row(q)
  BY <1>2 DEF Row
<1> QED
  BY <1>1, <1>2, <1>3, <1>4 DEF CallerInOrder

LEMMA AccessInduction ==
  ASSUME TypeOK, AccessInv, [Next]_vars
  PROVE  AccessInv'
<1>1. CASE /\ UNCHANGED <<request, context, since, users, orgs, member>>
  BY <1>1 DEF AccessInv, CallerInOrder, StandingOf, Row
<1>2. ASSUME NEW w \in Workers, NewRequest(w) \/ Proceed(w) \/ Crash(w)
      PROVE  AccessInv'
  <2>1. CallerInOrder(w)
    BY DEF AccessInv
  <2>2. CASE Crash(w)
    <3>1. request'[w] = Idle /\ context'[w] = Nil
      BY <2>2 DEF Crash, SetContext, TypeOK
    <3> QED
      BY <1>2, <3>1, IdleInOrder, OthersInOrder, WorkerKeepsOthers
  <2>3. CASE NewRequest(w) \/ Proceed(w)
    BY <1>2, <2>1, <2>3, NewRequestInOrder, ProceedInOrder, OthersInOrder, WorkerKeepsOthers
  <2> QED
    BY <1>2, <2>2, <2>3
<1>3. CASE ChangeAccounts
  BY <1>3, ChangeInOrder DEF AccessInv
<1>4. CASE \/ \E a \in AccessToken : ExpireAccess(a)
           \/ \E t \in RefreshIds : ExpireRefresh(t)
  BY <1>1, <1>4 DEF ExpireAccess, ExpireRefresh, accounts
<1> QED
  BY <1>1, <1>2, <1>3, <1>4 DEF Next, vars

LEMMA AccessInvariant == Spec => [](TypeOK /\ AccessInv)
<1>1. Init => AccessInv
  BY DEF Init, AccessInv, CallerInOrder, Idle
<1>2. TypeOK /\ AccessInv /\ [Next]_vars => AccessInv'
  BY AccessInduction
<1> QED
  BY <1>1, <1>2, TypeInvariant, PTL DEF Spec

\* No request reads the rows of another organization than its token's, and no
\* worker keeps a tenant between two requests, whatever fails or dies.
THEOREM TenantTheorem == Spec => []ContextInTenant
<1>1. TypeOK /\ AccessInv => ContextInTenant
  <2> SUFFICES ASSUME TypeOK, AccessInv, NEW w \in Workers
               PROVE  /\ ~ Busy(w) => context[w] = Nil
                      /\ At(w, "view") => context[w] = request[w].org
                      /\ request[w].read \in {Nil, request[w].org}
    BY DEF ContextInTenant
  <2> QED
    BY AccessAssumption DEF AccessInv, CallerInOrder, RoleAtLeast, Busy
<1> QED
  BY <1>1, AccessInvariant, PTL

\* Whoever is served was, at some moments of his request, active, in an active
\* organization, and in the role he is served in, however the three change.
THEOREM MemberTheorem == Spec => []ServedAsMember
<1>1. AccessInv => ServedAsMember
  BY DEF AccessInv, CallerInOrder, ServedAsMember
<1> QED
  BY <1>1, AccessInvariant, PTL

\* An audit row says who read what and in which role, even if the role has been
\* changed before it is written.
THEOREM AuditTheorem == Spec => []AuditFaithful
<1>1. AccessInv => AuditFaithful
  BY DEF AccessInv, CallerInOrder, AuditFaithful, Row
<1> QED
  BY <1>1, AccessInvariant, PTL

--------------------------------------------------------------------------------
(* Logouts.                                                                  *)

\* The steps of an exchange that has found its refresh token valid.
Exchanging(w, t) ==
  request[w].pc \in {"token_user", "token_org", "token_member"} /\ request[w].refresh = t

\* No exchange of a token that has ended begins.
LEMMA NoExchangeBegins ==
  ASSUME TypeOK, NEW w \in Workers, NewRequest(w) \/ Proceed(w) \/ Crash(w),
         NEW t \in ended, Exchanging(w, t)'
  PROVE  Exchanging(w, t)
<1> DEFINE q == request[w]
<1>q. q \in Registers /\ request \in [Workers -> Request]
  BY DEF TypeOK, Request
<1>b. \A x : Begin(w, x) => request'[w] = x
  BY <1>q DEF Begin
<1>a. \A step : Advance(w, step) => request'[w].pc = step /\ request'[w].refresh = q.refresh
  BY <1>q DEF Advance, Registers
<1>r. \A status : ~ Respond(w, status)
  BY <1>q DEF Respond, Registers, Exchanging
<1>i. request'[w] # Idle
  BY DEF Idle, Exchanging
<1>1. CASE NewRequest(w)
  <2>1. \A u \in Users : ~ Login(w, u)
    BY <1>b DEF Login, Idle, Exchanging
  <2>2. ASSUME NEW a \in AccessToken, Authenticate(w, a) PROVE FALSE
    <3> DEFINE step == IF a.user \in users THEN "auth_org" ELSE "audit"
               status == IF a.user \in users THEN "ok" ELSE "refused"
               next == [Idle EXCEPT !.pc = step, !.status = status,
                                    !.user = a.user, !.org = a.org, !.claim = a.role]
    <3>1. request'[w] = next
      BY <2>2, <1>b DEF Authenticate
    <3>2. step \in {"auth_org", "audit"}
      OBVIOUS
    <3> HIDE DEF step, status
    <3>3. next.pc = step
      BY DEF Idle
    <3> QED
      BY <3>1, <3>2, <3>3 DEF Exchanging
  <2>3. ASSUME NEW x \in RefreshIds, Logout(w, x) PROVE FALSE
    <3> DEFINE step == IF x \in ended THEN "audit" ELSE "logout_blacklist"
               next == [Idle EXCEPT !.pc = step, !.endpoint = "auth", !.refresh = x]
    <3>1. request'[w] = next
      BY <2>3, <1>b DEF Logout
    <3>2. step \in {"audit", "logout_blacklist"}
      OBVIOUS
    <3> HIDE DEF step
    <3>3. next.pc = step
      BY DEF Idle
    <3> QED
      BY <3>1, <3>2, <3>3 DEF Exchanging
  <2>4. \A x \in RefreshIds, o \in Orgs : ~ TokenRequest(w, x, o)
    BY <1>b DEF TokenRequest, Idle, Exchanging
  <2>5. ~ RefuseAtOnce(w)
    <3>1. \A endpoint :
            [Idle EXCEPT !.pc = "audit", !.endpoint = endpoint, !.status = "refused"].pc = "audit"
      BY DEF Idle
    <3>2. \A endpoint :
            ~ Begin(w, [Idle EXCEPT !.pc = "audit", !.endpoint = endpoint, !.status = "refused"])
      BY <1>b, <3>1 DEF Exchanging
    <3> QED
      BY <3>2 DEF RefuseAtOnce
  <2> QED
    BY <1>1, <2>1, <2>2, <2>3, <2>4, <2>5 DEF NewRequest
<1>2. CASE Crash(w) \/ Reset(w)
  BY <1>2, <1>i, <1>q DEF Crash, Reset
<1>3. CASE LoginIssue(w) \/ LogoutBlacklist(w) \/ TokenMember(w)
  BY <1>3, <1>r DEF LoginIssue, LogoutBlacklist, TokenMember
<1>4. CASE TokenUser(w) \/ TokenOrg(w)
  BY <1>4, <1>a, <1>r DEF TokenUser, TokenOrg, Lookup, Exchanging
<1>5. CASE AuthOrg(w)
  BY <1>5, <1>a, <1>r DEF AuthOrg, Lookup, Exchanging
<1>6. CASE AuthMember(w) \/ View(w) \/ Audit(w)
  <2>1. CASE AuthMember(w)
    <3>1. PICK needs \in ViewRoles :
            request' = [request EXCEPT ![w] =
              [q EXCEPT !.role = member[q.user][q.org], !.prior = context[w], !.needs = needs,
                        !.pc = IF RoleAtLeast(member[q.user][q.org], needs)
                               THEN "view" ELSE "audit",
                        !.status = IF RoleAtLeast(member[q.user][q.org], needs)
                                   THEN "ok" ELSE "refused"]]
      BY <2>1, <1>r DEF AuthMember
    <3> DEFINE fits == RoleAtLeast(member[q.user][q.org], needs)
               step == IF fits THEN "view" ELSE "audit"
               status == IF fits THEN "ok" ELSE "refused"
               attached == [q EXCEPT !.role = member[q.user][q.org], !.prior = context[w],
                                     !.needs = needs]
               next == [attached EXCEPT !.pc = step, !.status = status]
    <3>2. request'[w] = next
      BY <3>1, <1>q
    <3>3. step \in {"view", "audit"}
      OBVIOUS
    <3>4. DOMAIN attached = DOMAIN q /\ "pc" \in DOMAIN q
      BY <1>q DEF Registers
    <3> HIDE DEF attached, step, status
    <3>5. next.pc = step
      BY <3>4
    <3> QED
      BY <3>2, <3>3, <3>5 DEF Exchanging
  <2>2. CASE View(w)
    BY <2>2, <1>q DEF View, Registers, Exchanging
  <2>3. CASE Audit(w)
    BY <2>3, <1>q DEF Audit, Registers, Exchanging
  <2> QED
    BY <1>6, <2>1, <2>2, <2>3
<1> QED
  BY <1>1, <1>2, <1>3, <1>4, <1>5, <1>6 DEF Proceed

LEMMA SpentStep ==
  ASSUME TypeOK, [Next]_vars, NEW t \in RefreshIds, Spent(t)
  PROVE  Spent(t)' /\ \A a \in access' : a.via = t => a \in access
<1>1. t \in ended'
  BY DEF Spent, Next, vars, tokens, NewRequest, Proceed, Crash, RefuseAtOnce, Login, Logout,
         TokenRequest, Authenticate, LoginIssue, TokenUser, TokenOrg, TokenMember,
         LogoutBlacklist, AuthOrg, AuthMember, View, Audit, Reset,
         ExpireAccess, ExpireRefresh, ChangeAccounts
<1>2. ASSUME NEW w \in Workers, Exchanging(w, t)' PROVE FALSE
  <2>1. ~ Exchanging(w, t)
    BY DEF Spent, Exchanging
  <2>2. CASE request'[w] = request[w]
    BY <1>2, <2>1, <2>2 DEF Exchanging
  <2>3. CASE NewRequest(w) \/ Proceed(w) \/ Crash(w)
    BY <1>2, <2>1, <2>3, NoExchangeBegins DEF Spent
  <2> QED
    BY <2>2, <2>3, WorkerKeepsOthers DEF Next, vars, OthersStay, ExpireAccess, ExpireRefresh,
                                         ChangeAccounts
<1>3. ASSUME NEW a \in access', a.via = t PROVE a \in access
  <2>1. ASSUME NEW w \in Workers, TokenMember(w) PROVE a \in access
    <3>1. request[w].refresh # t
      BY <2>1 DEF TokenMember, Spent
    <3> QED
      BY <1>3, <2>1, <3>1 DEF TokenMember
  <2> QED
    BY <1>3, <2>1
    DEF Next, vars, tokens, NewRequest, Proceed, Crash, RefuseAtOnce, Login, Logout,
        TokenRequest, Authenticate, LoginIssue, TokenUser, TokenOrg,
        LogoutBlacklist, AuthOrg, AuthMember, View, Audit, Reset,
        ExpireAccess, ExpireRefresh, ChangeAccounts
<1> QED
  BY <1>1, <1>2, <1>3 DEF Spent, Exchanging

\* Once a refresh token has ended, and the exchanges that found it valid are
\* over, none begins and no access token is issued for it ever again.
THEOREM LogoutTheorem == Spec => LogoutEnds
<1>1. TypeOK /\ [Next]_vars =>
        [\A t \in RefreshIds :
           Spent(t) => Spent(t)' /\ \A a \in access' : a.via = t => a \in access]_vars
  BY SpentStep
<1> QED
  BY <1>1, TypeInvariant, PTL DEF Spec, LogoutEnds

================================================================================
