------------------------------ MODULE Accounts ------------------------------
(***************************************************************************)
(* Accounts of one organization (not the default one): its roles and their *)
(* permissions, its users, the sessions they hold, and the links that      *)
(* activate an account or reset a password (db.mjs 683-905, 996-1205 and   *)
(* 1392-1596, auth.mjs 75-246, server.mjs 344-368 and 797-1368).           *)
(* A handler is synchronous between awaits: of its body, of a password     *)
(* hash.  An action is what runs from one to the next.  Permissions are    *)
(* "users" (users.manage), "wf" (client.workflows.manage) and "steps" (the *)
(* three it brings along, WORKFLOW_MANAGE_GRANTS).  A user id stands for   *)
(* an account and its address.  Superusers, rate limits and mail are left  *)
(* out; what members share over organizations is in Organizations.         *)
(***************************************************************************)
EXTENDS Naturals, FiniteSets

CONSTANTS
  Users,           \* ids of accounts, each given out once
  First,           \* the administrator the organization starts with
  Custom,          \* ids of roles that administrators create, each given out once
  PermissionSets,  \* permissions an administrator may choose
  Calls,           \* handlers that may be waiting at once
  MaxVersion,      \* bound: token_version
  MaxSessions,     \* bound: different sessions that somebody keeps
  MaxTokens        \* bound: links ever issued

Permissions == {"users", "wf", "steps"}
ASSUME UserAssumption == First \in Users
ASSUME RoleAssumption == Custom \cap {"admin", "none"} = {}
ASSUME PermissionAssumption == PermissionSets \subseteq SUBSET Permissions
ASSUME BoundAssumption == MaxVersion \in Nat \ {0} /\ MaxTokens \in Nat /\ MaxSessions \in Nat

Roles == Custom \cup {"admin", "none"}
Tokens == 1 .. MaxTokens

VARIABLES
  roles,     \* auth_roles and auth_role_permissions
  users,     \* auth_users
  tokens,    \* auth_resets: links by order of issue; used, expired and deleted
             \* ones are "dead" whether their rows are still there or not
  routed,    \* token_directory: the live links a request can be routed by
  sessions,  \* signed tokens: user, version and, as history, the permissions then
  call,      \* handlers that wait
  used       \* history: how often a link set a password

vars == <<roles, users, tokens, routed, sessions, call, used>>

Idle == [kind |-> "idle", user |-> First, token |-> 0]
CallKinds == {"idle", "manage", "password", "login"}

RoleRow == [st : {"new", "known", "gone"}, perms : SUBSET Permissions]
UserRow == [st : {"new", "here", "gone"}, role : Roles, tv : 1 .. MaxVersion,
            cred : {"none", "google", "password"}]
Link == [st : {"new", "live", "dead"}, user : Users, kind : {"invite", "reset"}]
Session == [user : Users, tv : 1 .. MaxVersion, perms : SUBSET Permissions]
Handler == [kind : CallKinds, user : Users, token : 0 .. MaxTokens]

TypeOK ==
  /\ roles \in [Roles -> RoleRow]
  /\ users \in [Users -> UserRow]
  /\ tokens \in [Tokens -> Link]
  /\ routed \subseteq Tokens
  /\ sessions \subseteq Session
  /\ call \in [Calls -> Handler]
  /\ used \in [Tokens -> Nat]

-----------------------------------------------------------------------------
(* Tables.                                                                 *)

Known(r) == roles[r].st = "known"
Here(u) == users[u].st = "here"
PermissionsOf(u) == roles[users[u].role].perms
HasPassword(u) == Here(u) /\ users[u].cred = "password"
Active(u) == Here(u) /\ users[u].cred # "none"
Valid(s) == Here(s.user) /\ users[s.user].tv = s.tv

(* requirePermission: a session that is valid now, of a user who may now.  *)
CanManage(a) == /\ Here(a) /\ "users" \in PermissionsOf(a)
                /\ \E s \in sessions : s.user = a /\ Valid(s)

MayBump(u) == users[u].tv < MaxVersion
Bumped(u) == [users EXCEPT ![u].tv = @ + 1]

Administrators == {u \in Users : Here(u) /\ users[u].role = "admin"}

(* The checks of reassignAuthUserRole and deleteAuthUser.                  *)
LastAdministrator(u) == Administrators = {u}

(* signInUser: the version of the row that was just written, us.           *)
SignIn(us, u) ==
  LET s == [user |-> u, tv |-> us[u].tv, perms |-> roles[us[u].role].perms]
  IN  sessions' = IF Cardinality(sessions) < MaxSessions THEN sessions \cup {s} ELSE sessions

NewRow(r, cred) == [st |-> "here", role |-> r, tv |-> 1, cred |-> cred]

Waiting(c) == call[c].kind # "idle"
Begin(c, k, u, n) ==
  /\ ~Waiting(c)
  /\ call' = [call EXCEPT ![c] = [kind |-> k, user |-> u, token |-> n]]
End(c) == call' = [call EXCEPT ![c] = Idle]

LiveLinks(u, kind) == {n \in Tokens : tokens[n].st = "live" /\ tokens[n].user = u /\ tokens[n].kind = kind}
LinksOf(u) == LiveLinks(u, "invite") \cup LiveLinks(u, "reset")
Kill(ns) == [n \in Tokens |-> IF n \in ns THEN [tokens[n] EXCEPT !.st = "dead"] ELSE tokens[n]]

(* issueInvite and issueReset up to the mail: the links of the kind are    *)
(* invalidated, n is issued and routed.  Seeded fault: every link of the   *)
(* user loses its route.                                                   *)
NextLink(n) == tokens[n].st = "new" /\ \A m \in Tokens : m < n => tokens[m].st # "new"
IssueUnroutes(n, u, kind) ==
  /\ NextLink(n)
  /\ tokens' = [Kill(LiveLinks(u, kind)) EXCEPT ![n] = [st |-> "live", user |-> u, kind |-> kind]]
  /\ routed' = (routed \ LinksOf(u)) \cup {n}
Issue(n, u, kind) ==
  /\ NextLink(n)
  /\ tokens' = [Kill(LiveLinks(u, kind)) EXCEPT ![n] = [st |-> "live", user |-> u, kind |-> kind]]
  /\ routed' = (routed \ LiveLinks(u, kind)) \cup {n}

-----------------------------------------------------------------------------
(* Roles and users.  A handler authenticates its actor, waits for its body *)
(* and then acts, with whatever the tables say by then; what the path      *)
(* names is looked up only then too.                                       *)

ManageBegins(c, a) ==
  /\ CanManage(a)
  /\ Begin(c, "manage", a, 0)
  /\ UNCHANGED <<roles, users, tokens, routed, sessions, used>>

(* A handler that finds nothing to do or refuses.                          *)
ManageRefused(c) ==
  /\ call[c].kind = "manage"
  /\ End(c)
  /\ UNCHANGED <<roles, users, tokens, routed, sessions, used>>

CreateRole(c, r, ps) ==
  /\ call[c].kind = "manage"
  /\ roles[r].st = "new"
  /\ roles' = [roles EXCEPT ![r] = [st |-> "known", perms |-> ps]]
  /\ End(c)
  /\ UNCHANGED <<users, tokens, routed, sessions, used>>

(* updateRole: every assignee's sessions end with the same transaction.    *)
(* Seeded fault: they do not.                                              *)
UpdateRoleOnly(c, r, ps) ==
  /\ call[c].kind = "manage"
  /\ Known(r) /\ r \in Custom
  /\ roles' = [roles EXCEPT ![r].perms = ps]
  /\ End(c)
  /\ UNCHANGED <<users, tokens, routed, sessions, used>>
Assignees(r) == {u \in Users : Here(u) /\ users[u].role = r}
UpdateRole(c, r, ps) ==
  /\ call[c].kind = "manage"
  /\ Known(r) /\ r \in Custom
  /\ \A u \in Assignees(r) : MayBump(u)
  /\ roles' = [roles EXCEPT ![r].perms = ps]
  /\ users' = [u \in Users |-> IF u \in Assignees(r) THEN [users[u] EXCEPT !.tv = @ + 1] ELSE users[u]]
  /\ End(c)
  /\ UNCHANGED <<tokens, routed, sessions, used>>

(* deleteRole has no body to wait for.                                     *)
DeleteRole(r) ==
  /\ \E a \in Users : CanManage(a)
  /\ r \in Custom /\ Known(r)
  /\ \A u \in Users : Here(u) => users[u].role # r
  /\ roles' = [roles EXCEPT ![r] = [st |-> "gone", perms |-> {}]]
  /\ UNCHANGED <<users, tokens, routed, sessions, call, used>>

(* PATCH of another user's role.  Seeded fault: the last administrator may *)
(* be assigned another one.                                                *)
AssignAnyway(c, u, r) ==
  /\ call[c].kind = "manage" /\ call[c].user # u
  /\ Here(u) /\ Known(r) /\ users[u].role # r /\ MayBump(u)
  /\ users' = [Bumped(u) EXCEPT ![u].role = r]
  /\ End(c)
  /\ UNCHANGED <<roles, tokens, routed, sessions, used>>
Assign(c, u, r) ==
  /\ call[c].kind = "manage" /\ call[c].user # u
  /\ Here(u) /\ Known(r) /\ users[u].role # r /\ MayBump(u)
  /\ ~LastAdministrator(u)
  /\ users' = [Bumped(u) EXCEPT ![u].role = r]
  /\ End(c)
  /\ UNCHANGED <<roles, tokens, routed, sessions, used>>

(* createAuthUser, with the credentials a member has elsewhere, then the   *)
(* link.  A role that is gone by then is refused.  Seeded fault: the id    *)
(* belongs to the address, and is used again after a delete.               *)
InviteAgain(c, u, r, n) ==
  /\ call[c].kind = "manage"
  /\ ~Here(u) /\ Known(r)
  /\ \E cred \in {"none", "password"} : users' = [users EXCEPT ![u] = NewRow(r, cred)]
  /\ Issue(n, u, "invite")
  /\ End(c)
  /\ UNCHANGED <<roles, sessions, used>>
Invite(c, u, r, n) ==
  /\ call[c].kind = "manage"
  /\ users[u].st = "new" /\ Known(r)
  /\ \E cred \in {"none", "password"} : users' = [users EXCEPT ![u] = NewRow(r, cred)]
  /\ Issue(n, u, "invite")
  /\ End(c)
  /\ UNCHANGED <<roles, sessions, used>>

ResendInvite(u, n) ==
  /\ \E a \in Users : CanManage(a)
  /\ Here(u) /\ ~Active(u)
  /\ Issue(n, u, "invite")
  /\ UNCHANGED <<roles, users, sessions, call, used>>

(* DELETE of another user.  Its sessions end first; then                   *)
(* the rows go, in the order links, user, directories;                     *)
DeleteUser(u) ==
  /\ \E a \in Users \ {u} : CanManage(a)
  /\ Here(u) /\ ~LastAdministrator(u)
  /\ users' = [users EXCEPT ![u] = [NewRow("none", "none") EXCEPT !.st = "gone"]]
  /\ tokens' = Kill(LinksOf(u))
  /\ routed' = routed \ LinksOf(u)
  /\ UNCHANGED <<roles, sessions, call, used>>

(* or the last administrator is protected: the sessions have ended;        *)
DeleteRefused(u) ==
  /\ \E a \in Users \ {u} : CanManage(a)
  /\ Here(u) /\ MayBump(u) /\ LastAdministrator(u)
  /\ users' = Bumped(u)
  /\ UNCHANGED <<roles, tokens, routed, sessions, call, used>>

(* or devices or audit records refer to the user: the links are gone.      *)
(* A stop at that point leaves the same.                                   *)
DeleteFails(u) ==
  /\ \E a \in Users \ {u} : CanManage(a)
  /\ Here(u) /\ MayBump(u) /\ ~LastAdministrator(u)
  /\ users' = Bumped(u)
  /\ tokens' = Kill(LinksOf(u))
  /\ routed' = routed \ LinksOf(u)
  /\ UNCHANGED <<roles, sessions, call, used>>

-----------------------------------------------------------------------------
(* Signing in and out.                                                     *)

(* Login: the password is right when it is compared; the session is of the *)
(* row at the end (completeOrgSignIn).                                     *)
LoginBegins(c, u) ==
  /\ HasPassword(u)
  /\ Begin(c, "login", u, 0)
  /\ UNCHANGED <<roles, users, tokens, routed, sessions, used>>

LoginEnds(c) ==
  LET u == call[c].user IN
  /\ call[c].kind = "login"
  /\ IF Active(u) THEN SignIn(users, u) ELSE UNCHANGED sessions
  /\ End(c)
  /\ UNCHANGED <<roles, users, tokens, routed, used>>

(* The callback of Google, after its requests.                             *)
GoogleSignIn(u) ==
  /\ Here(u)
  /\ users' = [users EXCEPT ![u].cred = IF @ = "none" THEN "google" ELSE @]
  /\ SignIn(users', u)
  /\ UNCHANGED <<roles, tokens, routed, call, used>>

Logout(u) ==
  /\ Here(u) /\ MayBump(u)
  /\ \E s \in sessions : s.user = u /\ Valid(s)
  /\ users' = Bumped(u)
  /\ UNCHANGED <<roles, tokens, routed, sessions, call, used>>

(* A password set in another organization reaches this row.                *)
ReplicatedPassword(u) ==
  /\ Here(u) /\ ~HasPassword(u)
  /\ users' = [users EXCEPT ![u].cred = "password"]
  /\ UNCHANGED <<roles, tokens, routed, sessions, call, used>>

(* forgot-password and password-reset.  The latter has authenticated and   *)
(* read the user's row before its body; the link it may still issue to a   *)
(* user deleted meanwhile opens nothing.                                   *)
RequestReset(u, n) ==
  /\ HasPassword(u)
  /\ Issue(n, u, "reset")
  /\ UNCHANGED <<roles, users, sessions, call, used>>

(* setup and reset-password: the link is consumed, then the password is    *)
(* hashed.  Seeded fault: it is only checked before the hash.              *)
Consumable(n) ==
  LET u == tokens[n].user IN
  /\ tokens[n].st = "live" /\ n \in routed
  /\ Here(u)
  /\ IF tokens[n].kind = "invite" THEN ~Active(u) ELSE HasPassword(u)
PasswordBeginsUnconsumed(c, n) ==
  /\ Consumable(n)
  /\ Begin(c, "password", tokens[n].user, n)
  /\ UNCHANGED <<roles, users, tokens, routed, sessions, used>>
PasswordBegins(c, n) ==
  /\ Consumable(n)
  /\ tokens' = Kill({n})
  /\ routed' = routed \ {n}
  /\ Begin(c, "password", tokens[n].user, n)
  /\ UNCHANGED <<roles, users, sessions, used>>

(* setUserPassword, bumpTokenVersion, sign-in.  A user deleted meanwhile   *)
(* is not written.                                                         *)
PasswordEnds(c) ==
  LET u == call[c].user IN
  /\ call[c].kind = "password"
  /\ IF Here(u)
     THEN /\ MayBump(u)
          /\ users' = [Bumped(u) EXCEPT ![u].cred = "password"]
          /\ SignIn(users', u)
          /\ used' = [used EXCEPT ![call[c].token] = @ + 1]
     ELSE UNCHANGED <<users, sessions, used>>
  /\ End(c)
  /\ UNCHANGED <<roles, tokens, routed>>

Expire(n) ==
  /\ tokens[n].st = "live"
  /\ tokens' = Kill({n})
  /\ routed' = routed \ {n}
  /\ UNCHANGED <<roles, users, sessions, call, used>>

-----------------------------------------------------------------------------
(* The file is opened again: after a stop, which ends every call, or after *)
(* its handle was evicted.  The migrations grant what workflow manage      *)
(* brings along and repair roles; the first open routes every unused link. *)

Regranted ==
  [r \in Roles |-> IF "wf" \in roles[r].perms THEN [roles[r] EXCEPT !.perms = @ \cup {"steps"}] ELSE roles[r]]

Repaired ==
  [u \in Users |-> IF Here(u) /\ ~Known(users[u].role) THEN [users[u] EXCEPT !.role = "none"] ELSE users[u]]

Reopen(ts) ==
  /\ roles' = Regranted
  /\ users' = Repaired
  /\ tokens' = ts
  /\ routed' = {n \in Tokens : ts[n].st = "live"}

Evicted == Reopen(tokens) /\ UNCHANGED <<sessions, call, used>>
Restart == Reopen(tokens) /\ call' = [c \in Calls |-> Idle] /\ UNCHANGED <<sessions, used>>

(* A stop between the link's row and its route, either way round.          *)
RestartInConsume(n) ==
  /\ Consumable(n)
  /\ Reopen(Kill({n}))
  /\ call' = [c \in Calls |-> Idle]
  /\ UNCHANGED <<sessions, used>>

(* A stop between the rows of a new user and its link.                     *)
RestartInInvite(c, u, r) ==
  /\ call[c].kind = "manage"
  /\ users[u].st = "new" /\ Known(r)
  /\ users' = [Repaired EXCEPT ![u] = NewRow(r, "none")]
  /\ roles' = Regranted
  /\ routed' = {n \in Tokens : tokens[n].st = "live"}
  /\ call' = [d \in Calls |-> Idle]
  /\ UNCHANGED <<tokens, sessions, used>>

-----------------------------------------------------------------------------
Init ==
  /\ roles = [r \in Roles |-> IF r \in Custom THEN [st |-> "new", perms |-> {}]
                              ELSE [st |-> "known", perms |-> IF r = "admin" THEN Permissions ELSE {}]]
  /\ users = [u \in Users |-> IF u = First THEN NewRow("admin", "password")
                              ELSE [NewRow("none", "none") EXCEPT !.st = "new"]]
  /\ tokens = [n \in Tokens |-> [st |-> "new", user |-> First, kind |-> "reset"]]
  /\ routed = {}
  /\ sessions = {[user |-> First, tv |-> 1, perms |-> Permissions]}
  /\ call = [c \in Calls |-> Idle]
  /\ used = [n \in Tokens |-> 0]

Administration ==
  \/ \E c \in Calls, a \in Users : ManageBegins(c, a)
  \/ \E c \in Calls : ManageRefused(c)
  \/ \E c \in Calls, r \in Roles, ps \in PermissionSets : CreateRole(c, r, ps)
  \/ \E c \in Calls, r \in Roles, ps \in PermissionSets : UpdateRole(c, r, ps)
  \/ \E r \in Roles : DeleteRole(r)
  \/ \E c \in Calls, u \in Users, r \in Roles : Assign(c, u, r)
  \/ \E c \in Calls, u \in Users, r \in Roles, n \in Tokens : Invite(c, u, r, n)
  \/ \E u \in Users, n \in Tokens : ResendInvite(u, n)
  \/ \E u \in Users : DeleteUser(u)
  \/ \E u \in Users : DeleteRefused(u)
  \/ \E u \in Users : DeleteFails(u)

Signing ==
  \/ \E c \in Calls, u \in Users : LoginBegins(c, u)
  \/ \E c \in Calls : LoginEnds(c)
  \/ \E u \in Users : GoogleSignIn(u)
  \/ \E u \in Users : Logout(u)
  \/ \E u \in Users : ReplicatedPassword(u)
  \/ \E u \in Users, n \in Tokens : RequestReset(u, n)
  \/ \E c \in Calls, n \in Tokens : PasswordBegins(c, n)
  \/ \E c \in Calls : PasswordEnds(c)
  \/ \E n \in Tokens : Expire(n)

Opening ==
  \/ Evicted
  \/ Restart
  \/ \E n \in Tokens : RestartInConsume(n)
  \/ \E c \in Calls, u \in Users, r \in Roles : RestartInInvite(c, u, r)

Next == Administration \/ Signing \/ Opening
Spec == Init /\ [][Next]_vars
-----------------------------------------------------------------------------
(* "The server also prevents ... deleting the last administrator ...       *)
(* assigning the last administrator to another role": in whatever order    *)
(* demotions, deletions and restarts overlap, one is left (db.mjs 1180,    *)
(* 1491).                                                                  *)
AlwaysAdministrator == Administrators # {}

(* Nobody's role is one that was deleted, whatever was awaited between the *)
(* choice of the role and its assignment (db.mjs 1150-1180).               *)
NoDanglingRole == \A u \in Users : Here(u) => Known(users[u].role)

(* A session does not outlive a change of its user's permissions, except   *)
(* for what opening the file adds to a role with workflow manage.          *)
SessionsFollowRoles ==
  \A s \in sessions : Valid(s) =>
    LET now == PermissionsOf(s.user) IN
      now = s.perms \/ ("wf" \in now /\ now = s.perms \cup {"steps"})

(* A link sets at most one password, although it is checked before the     *)
(* hash is awaited and two requests may carry it (server.mjs 1146-1158).   *)
UsedOnce == \A n \in Tokens : used[n] <= 1

(* Of the links of one kind only the last works, and it can be routed to   *)
(* the organization, also after a stop between the two databases.          *)
OneLiveLink ==
  \A n \in Tokens : tokens[n].st = "live" =>
    /\ LiveLinks(tokens[n].user, tokens[n].kind) = {n}
    /\ n \in routed

(* Both together: a link works once, and of a kind only the last one does. *)
LinksAreSingle == UsedOnce /\ OneLiveLink

(* A session that ended never works again.                                 *)
EndedForGood == [][\A s \in sessions : ~Valid(s) => ~Valid(s)']_vars
=============================================================================
