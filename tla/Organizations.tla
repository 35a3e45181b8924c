--------------------------- MODULE Organizations ---------------------------
(***************************************************************************)
(* Many organizations in one server: the rows of the control database, the *)
(* database file of each organization, the process's open handles, and the *)
(* calls that provision, disable and delete an organization or change its  *)
(* members (server.mjs 1369-1632 and 3048-3153, db.mjs 54-92, 258-399 and  *)
(* 1301-1560, control-plane.mjs 240-515).                                  *)
(* Handlers are synchronous between awaits, so an action is what one runs  *)
(* from one await to the next.  Every member is an administrator here;     *)
(* roles, sessions and resets of one organization are in Accounts.         *)
(***************************************************************************)
EXTENDS Integers, FiniteSets, SequencesExt

CONSTANTS
  Emails,    \* addresses of members
  First,     \* the member the default organization is seeded with
  Slugs,     \* slugs that may be provisioned
  Main,      \* the slug of the default organization
  Calls,     \* handlers that may be waiting at once
  MaxOrgs,   \* bound: organizations ever provisioned
  MaxPw,     \* bound: passwords ever set
  MaxOpen    \* MAX_OPEN_ORG_DBS: handles kept open

ASSUME MainAssumption == Main \notin Slugs /\ "none" \notin Slugs \cup {Main} /\ First \in Emails
ASSUME SizeAssumption == MaxOrgs \in Nat /\ MaxPw \in Nat \ {0} /\ MaxOpen \in Nat \ {0}

Default == 0
Orgs == 0 .. MaxOrgs
Paths == Slugs \cup {Main}

NoFile == [born |-> -1, row |-> [e \in Emails |-> [pw |-> -1, inv |-> FALSE]]]
Idle == [kind |-> "idle", org |-> -1, path |-> Main, email |-> First, live |-> FALSE]

VARIABLES
  control,  \* control.db: status of each organization and its slug (kept when the
            \* row is gone, for the calls that still know it), dir (user_directory),
            \* tok (token_directory: open invites), ident (identities: -1 no row, 0 no
            \* password, else the password)
  disk,     \* the database file at each path: the organization it was created for
            \* and its auth_users (-1 no row, 0 pending, else the password; an invite?)
  process,  \* the server's memory: lru (orgDbs), synced (directorySynced), retired
  call,     \* handlers that wait for a body, for mail or for a hash
  lastPw,   \* passwords set so far
  mixed,    \* history: paths provisioned while an older call on the path was waiting
  drifted   \* history: emails with a password write that could not reach every copy

vars == <<control, disk, process, call, lastPw, mixed, drifted>>

Listed(c) == {o \in Orgs : c.status[o] # "none"}
Present(f) == {e \in Emails : f.row[e].pw >= 0}
PathOf(o) == control.slug[o]
Issued == {o \in Orgs : control.slug[o] # "none"}

(* Among the types: nothing in the control database names an organization  *)
(* that is gone, although no foreign key says so (control-plane.mjs        *)
(* 298-345).                                                               *)
TypeOK ==
  /\ control.status \in [Orgs -> {"none", "active", "disabled"}]
  /\ control.slug \in [Orgs -> Paths \cup {"none"}]
  /\ control.dir \subseteq Orgs \X Emails /\ control.tok \subseteq Orgs \X Emails
  /\ control.ident \in [Emails -> -1 .. MaxPw]
  /\ \A p \in Paths : disk[p].born \in -1 .. MaxOrgs /\ \A e \in Emails : disk[p].row[e].pw \in -1 .. MaxPw
  /\ \A i \in DOMAIN process.lru : process.lru[i].org \in Orgs /\ process.lru[i].path \in Paths
  /\ process.synced \subseteq Orgs /\ process.retired \subseteq Slugs
  /\ \A c \in Calls : call[c].kind \in {"idle", "provision", "invite", "password"}
  /\ control.status[Default] = "active"
  /\ \A m \in control.dir \cup control.tok :
       control.status[m[1]] # "none" \/ control.slug[m[1]] \in mixed

-----------------------------------------------------------------------------
(* The handles of db.mjs, as functions of a world w: what the databases    *)
(* and the process's memory are.                                           *)

World == [control |-> control, disk |-> disk, process |-> process]

(* The handles that are not of os, in their order.                         *)
Without(lru, os) ==
  LET kept[n \in 0 .. Len(lru)] ==
        IF n = 0 THEN << >>
        ELSE IF lru[n].org \in os THEN kept[n - 1] ELSE Append(kept[n - 1], lru[n])
  IN kept[Len(lru)]

(* closeOrgDb of every organization of os.                                 *)
CloseOrgDb(w, os) ==
  [w EXCEPT !.process.lru = Without(@, os), !.process.synced = @ \ os]

HandlesAt(w, p) == {w.process.lru[i].org : i \in {j \in DOMAIN w.process.lru : w.process.lru[j].path = p}}

(* Seeded fault: no handle is closed.                                      *)
CloseNothing(w, p) == w
CloseOrgDbByPath(w, p) == CloseOrgDb(w, HandlesAt(w, p))

(* Unlinking leaves a handle that is still open on a file nobody can reach. *)
Unlink(w, p) ==
  [w EXCEPT !.disk[p] = NoFile,
            !.process.lru = [i \in DOMAIN @ |-> IF @[i].path = p THEN [@[i] EXCEPT !.live = FALSE] ELSE @[i]]]

RemoveSqliteFiles(w, p) == Unlink(CloseOrgDbByPath(w, p), p)

(* evictLruOrgDb: room for one more.                                       *)
EvictLru(w) ==
  [w EXCEPT !.process.lru = SubSeq(@, IF Len(@) >= MaxOpen THEN Len(@) - MaxOpen + 2 ELSE 1, Len(@))]

(* syncCurrentOrgDirectory: the users and open invites of the file enter   *)
(* the directories of a listed organization.                               *)
SyncDirectory(w, o, p) ==
  IF w.control.status[o] = "none" THEN w
  ELSE LET row == w.disk[p].row IN
       [w EXCEPT
         !.control.dir = @ \cup {<<o, e>> : e \in Present(w.disk[p])},
         !.control.tok = @ \cup {<<o, e>> : e \in {x \in Emails : row[x].inv}},
         !.control.ident = [e \in Emails |-> IF row[e].pw > 0 THEN row[e].pw
                                              ELSE IF row[e].pw = 0 /\ @[e] = -1 THEN 0 ELSE @[e]]]

(* getOrOpenOrgDb: a known handle moves to the end; else the file is       *)
(* opened, and created when there is none.                                 *)
Handle(w, o, p) ==
  IF \E i \in DOMAIN w.process.lru : w.process.lru[i].org = o
  THEN [w EXCEPT !.process.lru = Append(Without(@, {o}), @[CHOOSE i \in DOMAIN @ : @[i].org = o])]
  ELSE [EvictLru(w) EXCEPT
         !.process.lru = Append(@, [org |-> o, path |-> p, live |-> TRUE]),
         !.disk[p].born = IF @ = -1 THEN o ELSE @]

(* open(): the first open of an organization also fills the directories.   *)
OpenOrg(w, o, p) ==
  LET v == Handle(w, o, p) IN
    IF o \in v.process.synced THEN v
    ELSE SyncDirectory([v EXCEPT !.process.synced = @ \cup {o}], o, p)

(* A retired path is refused before anything is opened.  Seeded fault: not. *)
RefusesNone(w, p) == FALSE
Refuses(w, p) == p \in w.process.retired
TryOpen(w, o, p) == IF Refuses(w, p) THEN CloseOrgDb(w, {o}) ELSE OpenOrg(w, o, p)

-----------------------------------------------------------------------------
(* Members.                                                                *)

(* Seeded fault: the row does not take the identity's password.            *)
PendingAlways(w, e) == 0
CopiedPassword(w, e) == IF w.control.ident[e] > 0 THEN w.control.ident[e] ELSE 0

(* createAuthUser: the new row has the password of the identity, if any;   *)
(* the directory is written only for a listed organization.                *)
CreateAuthUser(w, o, p, e) ==
  [w EXCEPT
    !.disk[p].row[e] = [pw |-> CopiedPassword(w, e), inv |-> FALSE],
    !.control.dir = IF w.control.status[o] = "none" THEN @ ELSE @ \cup {<<o, e>>},
    !.control.ident[e] = IF @ = -1 THEN 0 ELSE @]

(* issueInvite up to the mail.                                             *)
IssueInvite(w, o, p, e) ==
  [w EXCEPT !.disk[p].row[e].inv = TRUE,
            !.control.tok = IF w.control.status[o] = "none" THEN @ ELSE @ \cup {<<o, e>>}]

Invited(w, o, p, e) ==
  LET v == CreateAuthUser(w, o, p, e) IN
    IF v.disk[p].row[e].pw > 0 THEN v ELSE IssueInvite(v, o, p, e)

(* replicateIdentityCredentials over the memberships ms, in some order.    *)
ReplicateTo(w, e, o) ==
  LET p == w.control.slug[o]
      v == OpenOrg(w, o, p)
  IN  IF v.disk[p].row[e].pw >= 0 THEN [v EXCEPT !.disk[p].row[e].pw = v.control.ident[e]] ELSE v

Replicate(w, e, ms) ==
  LET list == SetToSeq(ms)
      after[n \in 0 .. Len(list)] == IF n = 0 THEN w ELSE ReplicateTo(after[n - 1], e, list[n][1])
  IN  after[Len(list)]

-----------------------------------------------------------------------------
(* Platform routes.                                                        *)

SetWorld(w) == control' = w.control /\ disk' = w.disk /\ process' = w.process
Waiting(c) == call[c].kind # "idle"
Ends(c) == call' = [call EXCEPT ![c] = Idle]
Active(o) == control.status[o] = "active"
Owner(w, p) == {o \in Listed(w.control) : w.control.slug[o] = p}

(* A waiting password change is about a row; it is void when the row goes. *)
Voided(cs, p, es) ==
  [c \in Calls |-> IF cs[c].kind = "password" /\ cs[c].path = p /\ cs[c].email \in es
                    THEN [cs[c] EXCEPT !.live = FALSE] ELSE cs[c]]

(* provisionOrganization after the mail: the organization row, then the    *)
(* first open as a listed organization; a slug taken meanwhile removes the *)
(* files.                                                                  *)
Inserted(w, o) == [w EXCEPT !.control.status[o] = "active"]
ProvisionEnd(w, o, p) ==
  LET v == CloseOrgDb(w, {o}) IN
    IF Owner(v, p) # {} THEN RemoveSqliteFiles(v, p) ELSE TryOpen(Inserted(v, o), o, p)

(* Before the mail: the path is usable again, left over files are removed, *)
(* the file is created and the first administrator inserted.  An address   *)
(* whose identity has a password needs no mail: the call goes on at once.  *)
LeftoversKept(w, p) == w
LeftoversRemoved(w, p) == IF w.disk[p] = NoFile THEN w ELSE RemoveSqliteFiles(w, p)
ProvisionBegin(o, p, e) ==
  LET u == [World EXCEPT !.process.retired = @ \ {p}, !.control.slug[o] = p]
  IN  Invited(OpenOrg(LeftoversRemoved(u, p), o, p), o, p, e)

Fresh == Orgs \ Issued
Provision(c, p, e) ==
  /\ ~Waiting(c) /\ Fresh # {}
  /\ Owner(World, p) = {}
  /\ LET o == CHOOSE x \in Fresh : \A y \in Fresh : x <= y
         w == ProvisionBegin(o, p, e)
     IN  /\ IF w.disk[p].row[e].inv
            THEN /\ SetWorld(w)
                 /\ call' = [Voided(call, p, Emails) EXCEPT
                               ![c] = [kind |-> "provision", org |-> o, path |-> p, email |-> e, live |-> TRUE]]
            ELSE SetWorld(ProvisionEnd(w, o, p)) /\ call' = Voided(call, p, Emails)
  /\ mixed' = IF \E d \in Calls : Waiting(d) /\ call[d].path = p THEN mixed \cup {p} ELSE mixed
  /\ UNCHANGED <<lastPw, drifted>>

Provisioned(c) ==
  /\ call[c].kind = "provision"
  /\ SetWorld(ProvisionEnd(World, call[c].org, call[c].path))
  /\ call' = [Voided(call, call[c].path, {e \in Emails : Owner(World, call[c].path) # {}}) EXCEPT ![c] = Idle]
  /\ UNCHANGED <<lastPw, mixed, drifted>>

(* An error before the organization row: its files are removed.            *)
ProvisionFails(c) ==
  /\ call[c].kind = "provision"
  /\ SetWorld(RemoveSqliteFiles(CloseOrgDb(World, {call[c].org}), call[c].path))
  /\ call' = [Voided(call, call[c].path, Emails) EXCEPT ![c] = Idle]
  /\ UNCHANGED <<lastPw, mixed, drifted>>

(* PATCH: the row is read again after the body, so that a stale one does   *)
(* no harm.                                                                *)
SetStatus(o, st) ==
  /\ o # Default /\ o \in Listed(control) /\ control.status[o] # st
  /\ control' = [control EXCEPT !.status[o] = st]
  /\ UNCHANGED <<disk, process, call, lastPw, mixed, drifted>>

(* deleteOrganizationCascade: one transaction.  An identity goes with its  *)
(* last membership.                                                       *)
Leaves(c, o) == {e \in Emails : <<o, e>> \in c.dir}
Orphans(c, o) == {e \in Leaves(c, o) : \A x \in Orgs \ {o} : <<x, e>> \notin c.dir}
Cascade(c, o) ==
  [c EXCEPT !.status[o] = "none", !.dir = {m \in @ : m[1] # o}, !.tok = {t \in @ : t[1] # o},
            !.ident = [e \in Emails |-> IF e \in Orphans(c, o) THEN -1 ELSE @[e]]]

(* deletePlatformOrganization, synchronous from the summary to the archive. *)
Archived(w, o) ==
  LET p == w.control.slug[o]
      v == [w EXCEPT !.control = Cascade(@, o), !.process.retired = @ \cup {p}]
  IN  Unlink(CloseOrgDbByPath(CloseOrgDb(v, {o}), p), p)
Delete(o) ==
  /\ o # Default /\ o \in Listed(control)
  /\ SetWorld(Archived(TryOpen(World, o, PathOf(o)), o))
  /\ call' = Voided(call, PathOf(o), Emails)
  /\ UNCHANGED <<lastPw, mixed, drifted>>

-----------------------------------------------------------------------------
(* Calls of members.  Their organization and path are fixed when the call  *)
(* is routed (resolveRequestOrg, runWithOrg), before the body is awaited.  *)

Routed(o, e) == Active(o) /\ <<o, e>> \in control.dir /\ disk[PathOf(o)].row[e].pw >= 0
SignedIn(o, e) == Routed(o, e) /\ disk[PathOf(o)].row[e].pw > 0

(* POST /api/auth/users: authenticated, then waits for its body.           *)
InviteBegins(c, o) ==
  /\ ~Waiting(c)
  /\ \E a \in Emails : SignedIn(o, a)
  /\ call' = [call EXCEPT ![c] = [kind |-> "invite", org |-> o, path |-> PathOf(o), email |-> First, live |-> TRUE]]
  /\ UNCHANGED <<control, disk, process, lastPw, mixed, drifted>>

(* A known address only has its membership repaired.                       *)
InviteOf(w, o, p, e) ==
  IF w.disk[p].row[e].pw >= 0 THEN [w EXCEPT !.control.dir = @ \cup {<<o, e>>}]
  ELSE Invited(w, o, p, e)

InviteEnds(c, e) ==
  LET r == call[c] IN
  /\ r.kind = "invite"
  /\ SetWorld(IF Refuses(World, r.path) THEN CloseOrgDb(World, {r.org})
              ELSE InviteOf(OpenOrg(World, r.org, r.path), r.org, r.path, e))
  /\ Ends(c)
  /\ UNCHANGED <<lastPw, mixed, drifted>>

(* Setup and reset: the token is consumed, then the password is hashed.    *)
PasswordBegins(c, o, e) ==
  /\ ~Waiting(c) /\ lastPw < MaxPw
  /\ \A d \in Calls : call[d].kind # "password"
  /\ Routed(o, e)
  /\ \/ disk[PathOf(o)].row[e].pw > 0
     \/ disk[PathOf(o)].row[e].inv /\ <<o, e>> \in control.tok
  /\ disk' = [disk EXCEPT ![PathOf(o)].row[e].inv = FALSE]
  /\ control' = [control EXCEPT !.tok = @ \ {<<o, e>>}]
  /\ call' = [call EXCEPT ![c] = [kind |-> "password", org |-> o, path |-> PathOf(o), email |-> e, live |-> TRUE]]
  /\ UNCHANGED <<process, lastPw, mixed, drifted>>

(* setUserPassword: the row, the identity, then every membership.  A       *)
(* membership without an organization or with a retired path ends it early. *)
OwnCopies(w, r) ==
  [w EXCEPT !.disk[r.path].row[r.email].pw = lastPw + 1, !.control.ident[r.email] = lastPw + 1]
Memberships(w, e) == {m \in w.control.dir : m[2] = e}
Unreachable(w, e) ==
  {m \in Memberships(w, e) : w.control.status[m[1]] = "none" \/ Refuses(w, w.control.slug[m[1]])}
ElsewhereToo(e) == \E c \in Calls : call[c].kind = "provision" /\ call[c].email = e

PasswordEnds(c) ==
  LET r == call[c]
      w == OwnCopies(OpenOrg(World, r.org, r.path), r)
      missed == Unreachable(w, r.email)
  IN
  /\ r.kind = "password"
  /\ IF Refuses(World, r.path) THEN SetWorld(CloseOrgDb(World, {r.org})) /\ UNCHANGED <<lastPw, drifted>>
     ELSE IF ~r.live THEN SetWorld(OpenOrg(World, r.org, r.path)) /\ UNCHANGED <<lastPw, drifted>>
     ELSE /\ \E ms \in SUBSET (Memberships(w, r.email) \ missed) :
               /\ missed = {} => ms = Memberships(w, r.email)
               /\ SetWorld(Replicate(w, r.email, ms))
          /\ lastPw' = lastPw + 1
          /\ drifted' = IF missed = {} /\ ~ElsewhereToo(r.email) THEN drifted \ {r.email} ELSE drifted \cup {r.email}
  /\ Ends(c)
  /\ UNCHANGED mixed

(* DELETE /api/auth/users/:id by another administrator.                    *)
RowGone(w, p, e) == [w EXCEPT !.disk[p].row[e] = [pw |-> -1, inv |-> FALSE]]
MemberGone(w, o, p, e) ==
  [RowGone(w, p, e) EXCEPT !.control.dir = @ \ {<<o, e>>}, !.control.tok = @ \ {<<o, e>>}]
MayDelete(o, e) == Routed(o, e) /\ \E a \in Emails \ {e} : SignedIn(o, a)
DeleteMember(o, e) ==
  /\ MayDelete(o, e)
  /\ SetWorld(MemberGone(OpenOrg(World, o, PathOf(o)), o, PathOf(o), e))
  /\ call' = Voided(call, PathOf(o), {e})
  /\ UNCHANGED <<lastPw, mixed, drifted>>

-----------------------------------------------------------------------------
(* The process stops and starts again: migrateAllOrgDatabases opens every  *)
(* listed organization.  The control database and the files of the         *)
(* organizations are separate: a stop falls between two of their commits.  *)

Migrate(w, o) == IF o \in Listed(w.control) THEN OpenOrg(w, o, w.control.slug[o]) ELSE w

Boot(w) ==
  LET started == [w EXCEPT !.process = [lru |-> << >>, synced |-> {}, retired |-> {}]]
      after[n \in 0 .. MaxOrgs + 1] == IF n = 0 THEN started ELSE Migrate(after[n - 1], n - 1)
  IN  after[MaxOrgs + 1]

Restart(w) == SetWorld(Boot(w)) /\ call' = [c \in Calls |-> Idle]
Crash == Restart(World) /\ UNCHANGED <<lastPw, mixed, drifted>>

(* After the cascade, before the file is moved.                            *)
CrashInDelete(o) ==
  /\ o # Default /\ o \in Listed(control)
  /\ Restart([World EXCEPT !.control = Cascade(@, o)])
  /\ UNCHANGED <<lastPw, mixed, drifted>>

(* After the row of a new member, before its membership.                   *)
CrashInInvite(c, e) ==
  LET r == call[c] IN
  /\ r.kind = "invite" /\ ~Refuses(World, r.path)
  /\ disk[r.path].row[e].pw < 0
  /\ LET v == OpenOrg(World, r.org, r.path) IN
       Restart([v EXCEPT !.disk[r.path].row[e] = [pw |-> CopiedPassword(v, e), inv |-> FALSE]])
  /\ UNCHANGED <<lastPw, mixed, drifted>>

(* After the identity's password, before the other memberships'.           *)
CrashInPassword(c) ==
  LET r == call[c] IN
  /\ r.kind = "password" /\ r.live /\ ~Refuses(World, r.path)
  /\ Restart(OwnCopies(World, r))
  /\ lastPw' = lastPw + 1
  /\ drifted' = drifted \cup {r.email}
  /\ UNCHANGED mixed

(* After the row of a member, before its membership.                       *)
CrashInDeleteMember(o, e) ==
  /\ MayDelete(o, e)
  /\ Restart(RowGone(World, PathOf(o), e))
  /\ UNCHANGED <<lastPw, mixed, drifted>>

-----------------------------------------------------------------------------
Init ==
  /\ control = [status |-> [o \in Orgs |-> IF o = Default THEN "active" ELSE "none"],
                slug |-> [o \in Orgs |-> IF o = Default THEN Main ELSE "none"],
                dir |-> {<<Default, First>>}, tok |-> {},
                ident |-> [e \in Emails |-> IF e = First THEN 1 ELSE -1]]
  /\ disk = [p \in Paths |-> IF p = Main
                THEN [born |-> Default, row |-> [NoFile.row EXCEPT ![First].pw = 1]] ELSE NoFile]
  /\ process = [lru |-> <<[org |-> Default, path |-> Main, live |-> TRUE]>>, synced |-> {Default}, retired |-> {}]
  /\ call = [c \in Calls |-> Idle]
  /\ lastPw = 1 /\ mixed = {} /\ drifted = {}

Next ==
  \/ \E c \in Calls, p \in Slugs, e \in Emails : Provision(c, p, e)
  \/ \E c \in Calls : Provisioned(c) \/ ProvisionFails(c) \/ PasswordEnds(c) \/ CrashInPassword(c)
  \/ \E o \in Orgs, st \in {"active", "disabled"} : SetStatus(o, st)
  \/ \E o \in Orgs : Delete(o) \/ CrashInDelete(o)
  \/ \E c \in Calls, o \in Orgs : InviteBegins(c, o)
  \/ \E c \in Calls, e \in Emails : InviteEnds(c, e) \/ CrashInInvite(c, e)
  \/ \E c \in Calls, o \in Orgs, e \in Emails : PasswordBegins(c, o, e)
  \/ \E o \in Orgs, e \in Emails : DeleteMember(o, e) \/ CrashInDeleteMember(o, e)
  \/ Crash

Spec == Init /\ [][Next]_vars

-----------------------------------------------------------------------------
(* A listed organization has a database file of its own, with a member,    *)
(* whatever is provisioned, fails or crashes, as long as no two calls of   *)
(* different organizations overlapped on its path (server.mjs 1486-1538).  *)
OwnDatabase ==
  \A o \in Listed(control) : PathOf(o) \notin mixed =>
    disk[PathOf(o)].born = o /\ Present(disk[PathOf(o)]) # {}

(* Every member of a listed organization and every open invite can be      *)
(* routed to it: the directories of the control database have them even    *)
(* when a stop separated the two writes (db.mjs 1305-1336).  And one       *)
(* password opens every door: each copy in the organizations agrees with   *)
(* the identity that login checks, except after a write that a stop or a   *)
(* provisioning call kept from reaching every copy (db.mjs 1510-1541).     *)
Listing(o, e) ==
  /\ <<o, e>> \in control.dir
  /\ disk[PathOf(o)].row[e].inv => <<o, e>> \in control.tok

SamePassword(o, e) == control.ident[e] = disk[PathOf(o)].row[e].pw

MembersCanSignIn ==
  \A o \in Listed(control), e \in Emails : disk[PathOf(o)].row[e].pw >= 0 =>
    /\ PathOf(o) \notin mixed => Listing(o, e)
    /\ (mixed = {} /\ e \notin drifted) => SamePassword(o, e)

(* Handles are bounded, and none is left on a file that was removed or     *)
(* archived: writes through it would be lost (db.mjs 306-380).             *)
HandlesAreLive ==
  /\ Len(process.lru) <= MaxOpen
  /\ \A i \in DOMAIN process.lru : process.lru[i].live

(* A call that was waiting when its organization was deleted does not      *)
(* bring the file back: only provisioning creates one (server.mjs 3769).   *)
NoResurrection ==
  [][\A p \in Paths : disk[p] = NoFile /\ disk'[p] # NoFile =>
       \/ p \in mixed'
       \/ \E o \in Orgs : o \notin Issued /\ control'.slug[o] = p]_vars
=============================================================================
