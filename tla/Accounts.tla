------------------------------- MODULE Accounts -------------------------------
(***************************************************************************)
(* Accounts, sessions and tenant roles of one tenant: internal/auth, its   *)
(* services, handlers, middleware and SQL.                                 *)
(*                                                                         *)
(* An administrator's status or role change and a password change read the *)
(* account without a lock and write later in the same transaction; the     *)
(* count of system administrators locks their rows until the commit, so    *)
(* count and write are one step.  Tokens are never stored: a token is good *)
(* while its version is the account's.                                     *)
(***************************************************************************)
EXTENDS Naturals, FiniteSets, Roles

CONSTANTS
    Users,       \* accounts, created or not
    FirstAdmin,  \* the system administrator the tenant starts with
    Passwords,   \* passwords in use
    Profiles,    \* names, addresses and departments an account may show
    AdminTxs,    \* transactions of administrators that may be open at once
    MaxVersion   \* bound on auth_version

ASSUME AccountsAssumption ==
    /\ FirstAdmin \in Users
    /\ Passwords # {} /\ Profiles # {}
    /\ MaxVersion \in Nat

VARIABLES
    account,   \* table app_user with tenant_user_role: NoAccount or a row
    tokens,    \* refresh and access tokens handed out, with the password their
               \* session began with and the permissions it was told of
    adminTx,   \* what an open administrator's transaction read
    pwTx       \* the password change in flight of each account

accountVars == <<account, tokens, adminTx, pwTx>>

TenantRoles == {"system_admin", "security_admin"}

NoRole == "none"

NoAccount == [status |-> "absent", role |-> NoRole]

UserStatuses == {"active", "disabled"}

AccountRow == [status : UserStatuses, role : TenantRoles \cup {NoRole},
               password : Passwords, mustChange : BOOLEAN, version : 0..MaxVersion,
               profile : Profiles]

Claims == [user : Users, version : 0..MaxVersion, password : Passwords,
           perms : {{}} \cup {mvpRolePerms[r] : r \in TenantRoles}]

NoAdminTx == [op |-> "none"]

GetUserByID(u) == account[u]

\* IsActive of a row that exists
IsActive(row) == row.status = "active"

GetGlobalRole(u) == IF IsActive(account[u]) THEN account[u].role ELSE NoRole

GetPlatformUserByTenantID(u) == account[u]

-----------------------------------------------------------------------------
(* Sessions.                                                               *)

\* What RequireAuth asks of an access token, and Refresh of a refresh token.
RequireAuth(t) ==
    LET row == GetUserByID(t.user)
    IN  IsActive(row) /\ t.version = row.version

\* Business routes stay closed while the password is a temporary one.
RequirePasswordChanged(u) == ~GetUserByID(u).mustChange

permissionsForRole(role) == IF role = NoRole THEN {} ELSE mvpRolePerms[role]

\* The permissions the console is told of (those of the default project's
\* role, which the account does not decide, left out).
Permissions(u) == permissionsForRole(GetGlobalRole(u))

issuePair(u) == [user |-> u, version |-> account[u].version,
                 password |-> account[u].password, perms |-> Permissions(u)]

\* POST /auth/login (LoginSession) with a password that matches.
Login(u, password) ==
    /\ account[u] # NoAccount
    /\ account[u].password = password
    /\ IsActive(account[u])
    /\ tokens' = tokens \cup {issuePair(u)}
    /\ UNCHANGED <<account, adminTx, pwTx>>

\* POST /auth/refresh.  The old token stays good; the new one carries on the
\* session of the old.
Refresh(t) ==
    /\ t \in tokens
    /\ RequireAuth(t)
    /\ tokens' = tokens \cup {[t EXCEPT !.version = account[t.user].version]}
    /\ UNCHANGED <<account, adminTx, pwTx>>

-----------------------------------------------------------------------------
(* A change of one's own password.                                         *)

\* Checked before the transaction and again on the row the transaction reads.
ChangePassword(u, current, new) ==
    /\ pwTx[u] = NoAdminTx
    /\ \E t \in tokens : t.user = u /\ RequireAuth(t)
    /\ account[u].password = current /\ new # current
    /\ pwTx' = [pwTx EXCEPT ![u] = [op |-> "change", new |-> new]]
    /\ UNCHANGED <<account, tokens, adminTx>>

\* Mutant: a changed password leaves the sessions alone.
KeepSessions(u) ==
    /\ pwTx[u] # NoAdminTx
    /\ IsActive(account[u]) /\ account[u].version < MaxVersion
    /\ account' = [account EXCEPT ![u] =
           [@ EXCEPT !.password = pwTx[u].new, !.mustChange = FALSE]]
    /\ pwTx' = [pwTx EXCEPT ![u] = NoAdminTx]
    /\ UNCHANGED <<tokens, adminTx>>

\* UPDATE ... SET password_hash, must_change_password = FALSE,
\* auth_version = auth_version + 1 WHERE status = 'active'
ChangeCurrentUserPassword(u) ==
    /\ pwTx[u] # NoAdminTx
    /\ IsActive(account[u]) /\ account[u].version < MaxVersion
    /\ account' = [account EXCEPT ![u] =
           [account[u] EXCEPT !.password = pwTx[u].new, !.mustChange = FALSE,
                              !.version = account[u].version + 1]]
    /\ pwTx' = [pwTx EXCEPT ![u] = NoAdminTx]
    /\ UNCHANGED <<tokens, adminTx>>

\* The account was disabled in between, or the write failed.
PasswordChangeFails(u) ==
    /\ pwTx[u] # NoAdminTx
    /\ pwTx' = [pwTx EXCEPT ![u] = NoAdminTx]
    /\ UNCHANGED <<account, tokens, adminTx>>

-----------------------------------------------------------------------------
(* Administration.                                                         *)

\* The actor is signed in, active, past any temporary password, and its
\* tenant role has the permission.
requirePermission(actor, perm) ==
    /\ \E t \in tokens : t.user = actor /\ RequireAuth(t)
    /\ RequirePasswordChanged(actor)
    /\ RoleHasPerm(GetGlobalRole(actor), perm)

\* What a request to create an account may ask for, once it is normalized.
normalizeCreatePlatformUser ==
    [role : TenantRoles \cup {NoRole}, status : UserStatuses,
     password : Passwords, profile : Profiles]

\* INSERT with must_change_password; a username is taken only once.
CreatePlatformUser(u, in) ==
    account' = [account EXCEPT ![u] =
        [status |-> in.status, role |-> in.role, password |-> in.password,
         mustChange |-> TRUE, version |-> 0, profile |-> in.profile]]

\* POST /admin/users
Create(actor, u, in) ==
    /\ requirePermission(actor, "user:write")
    /\ in.role # NoRole => requirePermission(actor, "user:role:write")
    /\ account[u] = NoAccount
    /\ CreatePlatformUser(u, in)
    /\ UNCHANGED <<tokens, adminTx, pwTx>>

\* PUT password: the account is read and written in one transaction, and the
\* write asks for nothing but the account.
ResetPlatformUserPassword(u, password) ==
    /\ account[u].version < MaxVersion
    /\ account' = [account EXCEPT ![u] =
           [account[u] EXCEPT !.password = password, !.mustChange = TRUE,
                              !.version = account[u].version + 1]]

ResetPassword(actor, u, password) ==
    /\ requirePermission(actor, "user:credential:reset")
    /\ account[u] # NoAccount
    /\ ResetPlatformUserPassword(u, password)
    /\ UNCHANGED <<tokens, adminTx, pwTx>>

\* A transaction begins with the actor's permission and a read of the account.
BeginAdmin(x, actor, u, op, to) ==
    /\ adminTx[x] = NoAdminTx
    /\ account[u] # NoAccount
    /\ adminTx' = [adminTx EXCEPT ![x] =
           [op |-> op, actor |-> actor, user |-> u, to |-> to,
            before |-> GetPlatformUserByTenantID(u)]]
    /\ UNCHANGED <<account, tokens, pwTx>>

\* POST /admin/users/:id/transition and PUT /admin/users/:id/role
Transition(x, actor, u, status) ==
    /\ requirePermission(actor, "user:write")
    /\ account[u].status # status
    /\ status = "disabled" => actor # u
    /\ BeginAdmin(x, actor, u, "status", status)

UpdateTenantRole(x, actor, u, role) ==
    /\ requirePermission(actor, "user:role:write")
    /\ account[u].role # role
    /\ BeginAdmin(x, actor, u, "role", role)

\* PUT /admin/users/:id, the profile read and merged
Update(x, actor, u, profile) ==
    /\ requirePermission(actor, "user:write")
    /\ BeginAdmin(x, actor, u, "profile", profile)

\* The active system administrators, their rows locked until the commit.
ListActiveSystemAdminIDsForUpdate ==
    {u \in Users : IsActive(account[u]) /\ account[u].role = "system_admin"}

\* Asked when the account that was read is an active system administrator
\* who would not be one any more.
LastAdminGuard(tx) ==
    tx.before.role = "system_admin" /\ tx.before.status = "active" =>
        Cardinality(ListActiveSystemAdminIDsForUpdate) > 1

\* UPDATE ... SET status, auth_version + 1 WHERE status = the one read
TransitionPlatformUserStatus(tx) ==
    /\ account[tx.user].status = tx.before.status
    /\ account' = [account EXCEPT ![tx.user] =
           [account[tx.user] EXCEPT !.status = tx.to,
                                    !.version = account[tx.user].version + 1]]

\* The role is set whatever it is by now (UpsertTenantUserRole,
\* SoftDeleteTenantUserRole), and the sessions end.
UpsertTenantUserRole(tx) ==
    account' = [account EXCEPT ![tx.user] =
        [account[tx.user] EXCEPT !.role = tx.to,
                                 !.version = account[tx.user].version + 1]]

UpdatePlatformUserProfile(tx) ==
    account' = [account EXCEPT ![tx.user].profile = tx.to]

CommitAdmin(x) ==
    LET tx == adminTx[x]
    IN  /\ tx # NoAdminTx
        /\ account[tx.user].version < MaxVersion
        /\ \/ tx.op = "profile" /\ UpdatePlatformUserProfile(tx)
           \/ /\ tx.op = "status"
              /\ tx.to = "disabled" => LastAdminGuard(tx)
              /\ TransitionPlatformUserStatus(tx)
           \/ tx.op = "role" /\ LastAdminGuard(tx) /\ UpsertTenantUserRole(tx)
        /\ adminTx' = [adminTx EXCEPT ![x] = NoAdminTx]
        /\ UNCHANGED <<tokens, pwTx>>

\* A refusal or an error: nothing is written.
RollbackAdmin(x) ==
    /\ adminTx[x] # NoAdminTx
    /\ adminTx' = [adminTx EXCEPT ![x] = NoAdminTx]
    /\ UNCHANGED <<account, tokens, pwTx>>

-----------------------------------------------------------------------------
AccountInit ==
    /\ \E p \in Passwords, profile \in Profiles :
          account = [u \in Users |->
              IF u = FirstAdmin
                THEN [status |-> "active", role |-> "system_admin", password |-> p,
                      mustChange |-> FALSE, version |-> 0, profile |-> profile]
                ELSE NoAccount]
    /\ tokens = {}
    /\ adminTx = [x \in AdminTxs |-> NoAdminTx]
    /\ pwTx = [u \in Users |-> NoAdminTx]

AccountSession(u) ==
    \/ \E p \in Passwords : Login(u, p)
    \/ \E t \in tokens : t.user = u /\ Refresh(t)
    \/ \E p, q \in Passwords : ChangePassword(u, p, q)
    \/ ChangeCurrentUserPassword(u)
    \/ PasswordChangeFails(u)

AccountAdmin(actor, u) ==
    \/ \E in \in normalizeCreatePlatformUser : Create(actor, u, in)
    \/ \E p \in Passwords : ResetPassword(actor, u, p)
    \/ \E x \in AdminTxs :
          \/ \E status \in UserStatuses : Transition(x, actor, u, status)
          \/ \E role \in TenantRoles \cup {NoRole} : UpdateTenantRole(x, actor, u, role)
          \/ \E profile \in Profiles : Update(x, actor, u, profile)

AccountNext ==
    \/ \E u \in Users : AccountSession(u)
    \/ \E actor, u \in Users : AccountAdmin(actor, u)
    \/ \E x \in AdminTxs : CommitAdmin(x) \/ RollbackAdmin(x)

AccountSpec == AccountInit /\ [][AccountNext]_accountVars

-----------------------------------------------------------------------------
(* Properties.                                                             *)

AccountTypeOK ==
    /\ account \in [Users -> AccountRow \cup {NoAccount}]
    /\ tokens \subseteq Claims
    /\ \A x \in AdminTxs : adminTx[x] = NoAdminTx \/
          /\ adminTx[x].user \in Users /\ adminTx[x].before \in AccountRow
          /\ adminTx[x].to \in UserStatuses \cup TenantRoles \cup {NoRole} \cup Profiles
    /\ \A u \in Users : pwTx[u] = NoAdminTx \/ pwTx[u].new \in Passwords

\* A token that still opens a session was begun with the password the account
\* has now, and was told of the permissions its tenant role has now: a change
\* or a reset of the password and a change of role, also one that overlaps
\* with logins, refreshes and other changes, end every session begun before
\* (auth_version; Refresh, RequireAuth, ChangePassword, UpdateTenantRole).
SessionIsCurrent ==
    \A t \in tokens : RequireAuth(t) =>
        /\ t.password = account[t.user].password
        /\ t.perms = Permissions(t.user)

=============================================================================
