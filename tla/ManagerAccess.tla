--------------------------- MODULE ManagerAccess ---------------------------
(***************************************************************************)
(* Sign-in and authority of the people who run a tenant: the login route   *)
(* behind the two failure counters, the manager_sessions rows a signed     *)
(* token points to, their revocation, expiry and cleanup, and the check    *)
(* every manager request makes (validateManagerClaims, then the permission *)
(* table), against memberships that change while sessions are alive.       *)
(***************************************************************************)
EXTENDS RateLimits

CONSTANTS
  Users,          \* members of the tenant, by e-mail
  Legacy,         \* the pinned bootstrap manager, who has no users row
  Tokens,         \* the sessions of a behaviour (jti)
  SessionLife,    \* MAX_AGE_SECONDS
  NoUser

ASSUME SessionAssumption == SessionLife \in Nat

VARIABLES
  member,         \* tenant_users.role of each user, "none" if removed
  mgrSession,     \* the manager_sessions row of each token, and its claims
  signIn,         \* who a worker has authenticated, and as what, before the insert
  loggedOut       \* tokens whose session was revoked

managerVars == <<member, mgrSession, signIn, loggedOut>>

Roles == {"owner", "admin", "operator", "viewer", "integration_admin", "billing_admin"}

(* permissionsByRole, for the permissions the modelled requests need.      *)
Permissions == [r \in Roles \union {"none"} |->
  (IF r \in {"owner", "admin"}
     THEN {"agents.pair", "agents.disable", "agents.retire", "printers.manage"} ELSE {})
  \union (IF r \in {"owner", "admin", "integration_admin"} THEN {"integrations.manage"} ELSE {})
  \union (IF r \in {"owner", "admin", "operator"} THEN {"jobs.create", "jobs.cancel"} ELSE {})
  \union (IF r \in {"owner", "admin", "operator", "viewer", "integration_admin"}
            THEN {"jobs.read"} ELSE {})]

AllPermissions == UNION {Permissions[r] : r \in Roles}

SessionRow == [user: Users \union {Legacy, NoUser}, role: Roles \union {"none"},
               exp: Nat, row: {"none", "live", "revoked", "deleted"}]
NoSessionRow == [user |-> NoUser, role |-> "none", exp |-> 0, row |-> "none"]
NoSignIn == [user |-> NoUser, role |-> "none"]

ManagerTypeOK ==
  /\ member \in [Users -> Roles \union {"none"}]
  /\ mgrSession \in [Tokens -> SessionRow]
  /\ loggedOut \subseteq Tokens

(* The bootstrap manager is signed in.                                     *)
ManagerInit ==
  /\ member = [u \in Users |-> "admin"]
  /\ mgrSession = [t \in Tokens |->
       IF t = (CHOOSE x \in Tokens : TRUE)
         THEN [user |-> Legacy, role |-> "owner", exp |-> SessionLife, row |-> "live"]
         ELSE NoSessionRow]
  /\ signIn = [w \in Workers |-> NoSignIn]
  /\ loggedOut = {}

(* login: both of the sign-in's counters are inspected ...                 *)
LoginInspect(w) ==
  /\ signIn[w] = NoSignIn
  /\ Inspect(w, LoginKeys)
  /\ UNCHANGED managerVars

(* ... a wrong password is recorded under both keys, one UPDATE each ...   *)
LoginFails(w, k) ==
  /\ signIn[w] = NoSignIn
  /\ k \in LoginKeys
  /\ Fail(w, k)
  /\ UNCHANGED managerVars

(* ... a right one (of a member, with the role read now, or of the         *)
(* bootstrap manager) clears the account's counter ...                     *)
LoginSucceeds(w, u) ==
  /\ signIn[w] = NoSignIn
  /\ attempt[w] = LoginKeys
  /\ u \in Users => member[u] # "none"
  /\ Succeed(w)
  /\ signIn' = [signIn EXCEPT ![w] = [user |-> u, role |-> IF u = Legacy THEN "owner" ELSE member[u]]]
  /\ UNCHANGED <<member, mgrSession, loggedOut>>

(* ... and the session is inserted with what was read, or the insert fails.*)
CreateManagerSession(w, t) ==
  /\ signIn[w] # NoSignIn
  /\ mgrSession[t] = NoSessionRow
  /\ mgrSession' = [mgrSession EXCEPT ![t] =
       [user |-> signIn[w].user, role |-> signIn[w].role, exp |-> now + SessionLife, row |-> "live"]]
  /\ signIn' = [signIn EXCEPT ![w] = NoSignIn]
  /\ UNCHANGED <<member, loggedOut, limitVars>>

SessionInsertFails(w) ==
  /\ signIn[w] # NoSignIn
  /\ signIn' = [signIn EXCEPT ![w] = NoSignIn]
  /\ UNCHANGED <<member, mgrSession, loggedOut, limitVars>>

(* Slip: the membership must exist, but its role is not compared.          *)
ValidClaimsAnyRole(t) ==
  LET s == mgrSession[t]
  IN /\ s.row = "live" /\ s.exp > now
     /\ s.user \in Users => member[s.user] # "none"

(* verify and validateManagerClaims: the token has not expired, its row    *)
(* stands unrevoked, and a member's role is still the session's.           *)
ValidClaims(t) ==
  LET s == mgrSession[t]
  IN /\ s.row = "live" /\ s.exp > now
     /\ s.user \in Users => member[s.user] = s.role

(* requireManager and requireManagerPermission.                            *)
Authorised(t, permission) == ValidClaims(t) /\ permission \in Permissions[mgrSession[t].role]

Manager(permission) == \E t \in Tokens : Authorised(t, permission)

(* logout revokes the session of a valid token.                            *)
Logout(t) ==
  /\ ValidClaims(t)
  /\ mgrSession' = [mgrSession EXCEPT ![t].row = "revoked"]
  /\ loggedOut' = loggedOut \union {t}
  /\ UNCHANGED <<member, signIn, limitVars>>

(* cleanupExpiredManagerSessions deletes expired rows, revoked or not.     *)
CleanupManagerSessions ==
  /\ mgrSession' = [t \in Tokens |->
       IF mgrSession[t].row \in {"live", "revoked"} /\ mgrSession[t].exp <= now
         THEN [mgrSession[t] EXCEPT !.row = "deleted"] ELSE mgrSession[t]]
  /\ mgrSession' # mgrSession
  /\ UNCHANGED <<member, signIn, loggedOut, limitVars>>

(* Memberships are changed by whoever administers the tenant's users.      *)
ChangeRole(u, role) ==
  /\ member[u] # role
  /\ member' = [member EXCEPT ![u] = role]
  /\ UNCHANGED <<mgrSession, signIn, loggedOut, limitVars>>

(* Authority is current: what requireManager lets a session do, its user's *)
(* membership grants at that moment, whatever role the session was opened  *)
(* with, read before or after a change of role or a removal (the           *)
(* membership comparison of validateManagerClaims); and a session that was *)
(* logged out authorises nothing again, though its row is later deleted    *)
(* with the expired ones and its user signs in anew.                       *)
AuthorityIsCurrent ==
  \A t \in Tokens :
    LET allowed == {p \in AllPermissions : Authorised(t, p)} IN
      /\ \A u \in Users : mgrSession[t].user = u => allowed \subseteq Permissions[member[u]]
      /\ t \in loggedOut => allowed = {}

=============================================================================
