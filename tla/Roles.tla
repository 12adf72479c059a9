-------------------------------- MODULE Roles --------------------------------
(***************************************************************************)
(* The role and permission matrix every handler decides with               *)
(* (internal/platform/auth/casbin).  Policies are seeded once at start and *)
(* never changed while the program runs, so the matrix is a constant.      *)
(***************************************************************************)
AllRoles == {"system_admin", "security_admin", "project_owner",
             "security_ops", "developer", "viewer"}

ViewerPerms == {"project:read", "asset:read", "exposure:read",
                "discovery:read", "risk:read", "ticket:read", "report:read"}

DeveloperPerms == ViewerPerms \cup {"ticket:write"}

SecurityOpsPerms == DeveloperPerms \cup
    {"asset:write", "scope:read", "discovery:run", "risk:write"}

ProjectOwnerPerms == SecurityOpsPerms \cup
    {"project:write", "project:member:write", "asset:delete", "scope:write",
     "risk:accept", "ticket:approve"}

SecurityAdminPerms == ProjectOwnerPerms \cup
    {"project:access", "project:create", "project:archive", "risk:suppress",
     "report:export", "notification:write", "audit:read"}

SystemAdminPerms == SecurityAdminPerms \cup
    {"user:read", "user:write", "user:credential:reset", "user:role:write",
     "project:delete", "admin:manage"}

mvpRolePerms ==
    [system_admin |-> SystemAdminPerms, security_admin |-> SecurityAdminPerms,
     project_owner |-> ProjectOwnerPerms, security_ops |-> SecurityOpsPerms,
     developer |-> DeveloperPerms, viewer |-> ViewerPerms]

RoleHasPerm(role, perm) == role \in AllRoles /\ perm \in mvpRolePerms[role]

=============================================================================
