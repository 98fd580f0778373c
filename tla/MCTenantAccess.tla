---------------------------- MODULE MCTenantAccess ----------------------------
(***************************************************************************)
(* A small instance of TenantAccess.                                       *)
(***************************************************************************)
EXTENDS TenantAccess

\* An admin of one organization and a viewer of every other.
MCMembers ==
  LET own == CHOOSE o \in Orgs : TRUE
  IN  {[u \in Users |-> [o \in Orgs |-> IF o = own THEN "admin" ELSE "viewer"]]}

MCViewRoles == {"analyst"}

================================================================================
