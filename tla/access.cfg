\* One user in two organizations, one login, two workers.
SPECIFICATION FairSpec
CONSTANTS
  Users = {u1}
  Orgs = {o1, o2}
  Workers = {w1, w2}
  RefreshIds = {t1}
  Members <- MCMembers
  ViewRoles <- MCViewRoles
  MaxChanges = 1
  NoRole = NoRole
  NoRow = NoRow
  LostRow = LostRow
  Nil = Nil
INVARIANTS
  TypeOK
  ContextInTenant
  ServedAsMember
  AuditFaithful
PROPERTIES
  LogoutEnds
  LoggedOut
