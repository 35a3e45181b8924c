-------------------------- MODULE Operators_proof --------------------------
(***************************************************************************)
(* Theorems about what operators do, and see: their accounts, roles and    *)
(* sessions (Accounts), the schedules they edit (Calendar) and the plans   *)
(* they change (RemotePanel), for every value of the constants.  Each part *)
(* ends in its theorems; the parts have nothing in common but the lemmas   *)
(* on numbers and on repeated steps that come first.                       *)
(***************************************************************************)
EXTENDS Accounts, Calendar, RemotePanel, FiniteSetTheorems, FunctionTheorems, SequenceTheorems,
        WellFoundedInduction, TLAPS

(* A set of numbers has a least one: what is to hold at the end of a       *)
(* recursive function is proved by its first counterexample.               *)
LEMMA LeastNat ==
  ASSUME NEW S \in SUBSET Nat, S # {}
  PROVE  \E m \in S : \A n \in S : m <= n
<1>1. PICK m \in S : \A n \in S : <<n, m>> \notin OpToRel(<, Nat)
  BY NatLessThanWellFounded, WFMin
<1>2. \A n \in S : ~(n < m)
  BY <1>1 DEF OpToRel
<1> QED BY <1>2

(* Steps one after the other: a function over an interval that starts at   *)
(* base and follows step exists, and stays in W if every step does.        *)
Follows(f, W, base, n, step) ==
  f \in [0 .. n -> W] /\ f[0] = base /\ \A i \in 1 .. n : f[i] = step[i][f[i - 1]]

(* Such a function exists.                                                 *)
LEMMA StepsExist ==
  ASSUME NEW W, NEW base \in W, NEW n \in Nat, NEW step \in [1 .. n -> [W -> W]]
  PROVE  \E f : Follows(f, W, base, n, step)
<1> DEFINE Bad == {k \in 0 .. n : ~ \E f : Follows(f, W, base, k, step)}
<1>0. Bad \in SUBSET Nat
  OBVIOUS
<1> SUFFICES ASSUME ~ \E f : Follows(f, W, base, n, step) PROVE FALSE
  OBVIOUS
<1>1. Bad # {}
  <2>1. n \in 0 .. n
    OBVIOUS
  <2>2. n \in Bad
    BY <2>1
  <2> QED BY <2>2
<1>2. PICK k \in Bad : \A j \in Bad : k <= j
  <2> HIDE DEF Bad
  <2> QED BY <1>0, <1>1, LeastNat
<1>3. k \in 0 .. n /\ ~ \E f : Follows(f, W, base, k, step)
  BY <1>2
<1>4. k # 0
  <2>1. Follows([i \in 0 .. 0 |-> base], W, base, 0, step)
    BY DEF Follows
  <2> QED BY <2>1, <1>3
<1>5. k - 1 \in 0 .. n /\ k - 1 \notin Bad
  <2>1. k - 1 \in 0 .. n /\ ~(k <= k - 1)
    BY <1>3, <1>4
  <2> QED BY <2>1, <1>2
<1>6. PICK f : Follows(f, W, base, k - 1, step)
  BY <1>5
<1>7. f \in [0 .. k - 1 -> W] /\ f[0] = base /\ \A i \in 1 .. k - 1 : f[i] = step[i][f[i - 1]]
  BY <1>6 DEF Follows
<1> DEFINE g == [i \in 0 .. k |-> IF i = k THEN step[k][f[k - 1]] ELSE f[i]]
<1>8. step[k][f[k - 1]] \in W
  BY <1>3, <1>4, <1>7
<1>9. g \in [0 .. k -> W]
  BY <1>3, <1>4, <1>7, <1>8
<1>10. g[0] = base
  BY <1>3, <1>4, <1>7
<1>11. \A i \in 1 .. k : g[i] = step[i][g[i - 1]]
  <2> TAKE i \in 1 .. k
  <2>1. CASE i = k
    BY <2>1, <1>3, <1>4, <1>7
  <2>2. CASE i # k
    <3>1. i \in 1 .. k - 1 /\ i - 1 \in 0 .. k - 1 /\ i - 1 # k
      BY <2>2, <1>3, <1>4
    <3> QED BY <3>1, <2>2, <1>7, <1>3
  <2> QED BY <2>1, <2>2
<1> HIDE DEF g
<1>12. Follows(g, W, base, k, step)
  BY <1>9, <1>10, <1>11 DEF Follows
<1> QED BY <1>12, <1>3

(* Induction up to n.                                                      *)
LEMMA UpTo ==
  ASSUME NEW n \in Nat, NEW S, 0 \in S, \A i \in 1 .. n : i - 1 \in S => i \in S
  PROVE  \A i \in 0 .. n : i \in S
<1> SUFFICES ASSUME {i \in 0 .. n : i \notin S} # {} PROVE FALSE
  OBVIOUS
<1> DEFINE Bad == {i \in 0 .. n : i \notin S}
<1>1. PICK k \in Bad : \A j \in Bad : k <= j
  <2>1. Bad \in SUBSET Nat /\ Bad # {}
    OBVIOUS
  <2> HIDE DEF Bad
  <2> QED BY <2>1, LeastNat
<1>2. k \in 1 .. n /\ k - 1 \in 0 .. n /\ ~(k <= k - 1) /\ k \notin S
  <2>1. k \in 0 .. n /\ k \notin S
    BY <1>1
  <2>2. k # 0
    BY <2>1
  <2> QED BY <2>1, <2>2
<1>3. k - 1 \in S
  BY <1>1, <1>2
<1> QED BY <1>2, <1>3

(* A list without the element at p.                                        *)
LEMMA RemovedIs ==
  ASSUME NEW S, NEW seq \in Seq(S), NEW p \in 1 .. Len(seq)
  PROVE  /\ RemoveAt(seq, p) \in Seq(S) /\ Len(RemoveAt(seq, p)) = Len(seq) - 1
         /\ \A i \in 1 .. Len(seq) - 1 : RemoveAt(seq, p)[i] = IF i < p THEN seq[i] ELSE seq[i + 1]
<1> DEFINE n == Len(seq)
           front == SubSeq(seq, 1, p - 1)
           back == SubSeq(seq, p + 1, n)
           r == front \o back
<1>1. n \in Nat /\ p \in 1 .. n /\ \A i \in 1 .. n : seq[i] \in S
  BY LenProperties
<1>2. RemoveAt(seq, p) = r
  BY DEF RemoveAt
<1> HIDE DEF n
<1>3. front \in Seq(S) /\ Len(front) = p - 1 /\ \A i \in 1 .. p - 1 : front[i] = seq[i]
  <2>1. /\ \A i \in 1 .. p - 1 : seq[i] \in S
        /\ p - 1 \in Int /\ 1 \in Int /\ (1 <= p - 1 \/ p - 1 = 0)
    BY <1>1
  <2>2. /\ front \in Seq(S) /\ Len(front) = IF 1 <= p - 1 THEN p - 1 - 1 + 1 ELSE 0
        /\ \A i \in 1 .. p - 1 - 1 + 1 : front[i] = seq[1 + i - 1]
    BY <2>1, SubSeqProperties
  <2> HIDE DEF front
  <2> QED BY <2>1, <2>2
<1>4. back \in Seq(S) /\ Len(back) = n - p /\ \A i \in 1 .. n - p : back[i] = seq[p + i]
  <2>1. /\ \A i \in p + 1 .. n : seq[i] \in S
        /\ p + 1 \in Int /\ n \in Int /\ (p + 1 <= n \/ p = n)
    BY <1>1
  <2>2. /\ back \in Seq(S) /\ Len(back) = IF p + 1 <= n THEN n - (p + 1) + 1 ELSE 0
        /\ \A i \in 1 .. n - (p + 1) + 1 : back[i] = seq[(p + 1) + i - 1]
    BY <2>1, SubSeqProperties
  <2> HIDE DEF back
  <2> QED BY <1>1, <2>1, <2>2
<1> HIDE DEF front, back
<1>5. /\ r \in Seq(S) /\ Len(r) = (p - 1) + (n - p)
      /\ \A i \in 1 .. (p - 1) + (n - p) : r[i] = IF i <= p - 1 THEN front[i] ELSE back[i - (p - 1)]
  <2>1. /\ r \in Seq(S) /\ Len(r) = Len(front) + Len(back)
        /\ \A i \in 1 .. Len(front) + Len(back) :
              r[i] = IF i <= Len(front) THEN front[i] ELSE back[i - Len(front)]
    BY <1>3, <1>4, ConcatProperties
  <2> HIDE DEF r
  <2> QED BY <1>3, <1>4, <2>1
<1> HIDE DEF r
<1>6. (p - 1) + (n - p) = n - 1
  BY <1>1
<1>7. ASSUME NEW i \in 1 .. n - 1 PROVE r[i] = IF i < p THEN seq[i] ELSE seq[i + 1]
  <2>1. r[i] = IF i <= p - 1 THEN front[i] ELSE back[i - (p - 1)]
    BY <1>5, <1>6
  <2>2. CASE i < p
    <3>1. i <= p - 1 /\ i \in 1 .. p - 1
      BY <1>1, <2>2
    <3> QED BY <1>3, <2>1, <2>2, <3>1
  <2>3. CASE ~(i < p)
    <3>1. ~(i <= p - 1) /\ i - (p - 1) \in 1 .. n - p /\ p + (i - (p - 1)) = i + 1
      BY <1>1, <2>3
    <3> QED BY <1>4, <2>1, <2>3, <3>1
  <2> QED BY <2>2, <2>3
<1> QED BY <1>2, <1>5, <1>6, <1>7 DEF n
-----------------------------------------------------------------------------
(***************************************************************************)
(* Accounts.                                                               *)
(***************************************************************************)

SystemRoles == Known("admin") /\ Known("none")

(* A session is of a user who has been there, and not ahead of its row.    *)
Signed ==
  \A s \in sessions :
    users[s.user].st # "new" /\ (Here(s.user) => s.tv <= users[s.user].tv)

Core == SystemRoles /\ AlwaysAdministrator /\ NoDanglingRole /\ Signed /\ SessionsFollowRoles

IInv == TypeOK /\ Core

(* What opening the file may do to the permissions of a role.              *)
Grown(held, before) == held = before \/ ("wf" \in held /\ held = before \cup {"steps"})

(* How every step moves users, roles and sessions: a user who stays keeps  *)
(* role and permissions, up to Grown, or gets a later version; who comes   *)
(* is new; who signs in does so with the version and permissions of now.   *)
Moves ==
  /\ SystemRoles' /\ AlwaysAdministrator' /\ NoDanglingRole'
  /\ \A u \in Users :
       /\ users[u].st # "new" => users'[u].st # "new"
       /\ Here(u)' => \/ users[u].st = "new"
                      \/ /\ Here(u) /\ users[u].tv <= users'[u].tv
                         /\ users[u].tv = users'[u].tv => Grown(PermissionsOf(u)', PermissionsOf(u))
  /\ \A s \in sessions' :
       \/ s \in sessions
       \/ Here(s.user)' /\ s.tv = users'[s.user].tv /\ s.perms = PermissionsOf(s.user)'

EndedStays == \A s \in sessions : ~Valid(s) => ~Valid(s)'

(* Such a step keeps the invariant and ends no session for a while only.   *)
LEMMA MovesKeep ==
  ASSUME TypeOK, TypeOK', Core, Moves
  PROVE  Core' /\ EndedStays
<1>1. \A s \in sessions : s.user \in Users /\ s.tv \in Nat
  BY BoundAssumption DEF TypeOK, Session
<1>2. \A s \in sessions' : s.user \in Users /\ s.tv \in Nat
  BY BoundAssumption DEF TypeOK, Session
<1>3. \A u \in Users : users[u].tv \in Nat /\ users'[u].tv \in Nat
  BY BoundAssumption DEF TypeOK, UserRow
<1>4. Signed'
  <2> SUFFICES ASSUME NEW s \in sessions'
               PROVE users'[s.user].st # "new" /\ (Here(s.user)' => s.tv <= users'[s.user].tv)
    BY DEF Signed, Here
  <2>1. CASE s \in sessions
    BY <2>1, <1>1, <1>3 DEF Core, Signed, Moves, Here
  <2>2. CASE s \notin sessions
    BY <2>2, <1>2, <1>3 DEF Moves, Here
  <2> QED BY <2>1, <2>2
<1>5. EndedStays
  <2> SUFFICES ASSUME NEW s \in sessions, ~Valid(s), Valid(s)'
               PROVE FALSE
    BY DEF EndedStays
  <2>1. Here(s.user)' /\ users'[s.user].tv = s.tv
    BY DEF Valid, Here
  <2>2. Here(s.user) /\ users[s.user].tv <= s.tv
    BY <2>1, <1>1 DEF Moves, Core, Signed
  <2>3. users[s.user].tv = s.tv
    BY <2>2, <1>1, <1>3 DEF Core, Signed
  <2> QED BY <2>2, <2>3 DEF Valid
<1>6. SessionsFollowRoles'
  <2> SUFFICES ASSUME NEW s \in sessions', Valid(s)'
               PROVE Grown(PermissionsOf(s.user)', s.perms)
    BY DEF SessionsFollowRoles, Grown
  <2>1. Here(s.user)' /\ users'[s.user].tv = s.tv
    BY DEF Valid, Here
  <2>2. CASE s \notin sessions
    BY <2>2 DEF Moves, Grown
  <2>3. CASE s \in sessions
    <3>1. Valid(s)
      BY <2>3, <1>5 DEF EndedStays
    <3>2. Grown(PermissionsOf(s.user), s.perms)
      BY <2>3, <3>1 DEF Core, SessionsFollowRoles, Grown
    <3>3. Grown(PermissionsOf(s.user)', PermissionsOf(s.user))
      BY <2>1, <2>3, <3>1, <1>1 DEF Moves, Valid, Core, Signed
    <3> QED BY <3>2, <3>3 DEF Grown
  <2> QED BY <2>2, <2>3
<1> QED BY <1>4, <1>5, <1>6 DEF Core, Moves

-----------------------------------------------------------------------------
(* A step that leaves roles and users alone and signs nobody in.           *)
LEMMA NothingMoves ==
  ASSUME TypeOK, Core, UNCHANGED <<roles, users>>, sessions' = sessions
  PROVE  Moves
<1>1. \A u \in Users : users[u].tv \in Nat
  BY BoundAssumption DEF TypeOK, UserRow
<1> QED BY <1>1 DEF Core, Moves, SystemRoles, AlwaysAdministrator, Administrators, NoDanglingRole,
                    Known, Here, PermissionsOf, Grown

(* A step that changes one user's row.                                     *)
LEMMA OneMoves ==
  ASSUME TypeOK, Core, NEW u \in Users, Here(u), UNCHANGED roles,
         NEW row \in UserRow,
         users' = [users EXCEPT ![u] = row],
         row.st # "new",
         row.st = "here" => /\ Known(row.role)
                            /\ users[u].tv <= row.tv
                            /\ users[u].tv = row.tv => row.role = users[u].role,
         LastAdministrator(u) => row.st = "here" /\ row.role = "admin",
         \A s \in sessions' :
           \/ s \in sessions
           \/ s.user = u /\ row.st = "here" /\ s.tv = row.tv /\ s.perms = roles[row.role].perms
  PROVE  Moves
<1>1. \A v \in Users : users[v].tv \in Nat
  BY BoundAssumption DEF TypeOK, UserRow
<1>2. \A v \in Users : users'[v] = IF v = u THEN row ELSE users[v]
  BY DEF TypeOK
<1>3. SystemRoles' /\ NoDanglingRole'
  BY <1>2 DEF Core, SystemRoles, NoDanglingRole, Known, Here
<1>4. AlwaysAdministrator'
  <2>1. CASE LastAdministrator(u)
    BY <2>1, <1>2 DEF AlwaysAdministrator, Administrators, Here
  <2>2. CASE ~LastAdministrator(u)
    <3>1. PICK v \in Administrators : v # u
      BY <2>2 DEF Core, AlwaysAdministrator, LastAdministrator
    <3> QED BY <3>1, <1>2 DEF AlwaysAdministrator, Administrators, Here
  <2> QED BY <2>1, <2>2
<1> QED BY <1>1, <1>2, <1>3, <1>4 DEF Moves, Here, PermissionsOf, Grown

(* A step that lets users come, and roles grow as they do when a file is    *)
(* opened.                                                                 *)
LEMMA ComingMoves ==
  ASSUME TypeOK, Core, sessions' = sessions,
         \A r \in Roles : (Known(r)' <=> Known(r)) /\ Grown(roles'[r].perms, roles[r].perms),
         \A u \in Users : \/ users'[u] = users[u]
                          \/ /\ users[u].st = "new" /\ users'[u].st = "here"
                             /\ users'[u].role \in Roles /\ Known(users'[u].role)
  PROVE  Moves
<1>1. \A u \in Users : users[u].tv \in Nat /\ users[u].role \in Roles
  BY BoundAssumption DEF TypeOK, UserRow
<1>2. SystemRoles'
  BY DEF Core, SystemRoles, Roles
<1>3. NoDanglingRole'
  BY <1>1 DEF Core, NoDanglingRole, Known, Here
<1>4. AlwaysAdministrator'
  BY DEF Core, AlwaysAdministrator, Administrators, Here
<1>5. \A u \in Users : Here(u)' /\ users[u].st # "new" =>
        Here(u) /\ users[u].tv <= users'[u].tv /\ Grown(PermissionsOf(u)', PermissionsOf(u))
  BY <1>1 DEF Here, PermissionsOf
<1>6. \A u \in Users : users[u].st # "new" => users'[u].st # "new"
  OBVIOUS
<1> QED BY <1>2, <1>3, <1>4, <1>5, <1>6 DEF Moves

-----------------------------------------------------------------------------
(* Types. *)

LEMMA RowTypes ==
  ASSUME TypeOK, NEW u \in Users
  PROVE  /\ users[u] \in UserRow
         /\ MayBump(u) => [users[u] EXCEPT !.tv = @ + 1] \in UserRow
         /\ MayBump(u) => Bumped(u) = [users EXCEPT ![u] = [users[u] EXCEPT !.tv = @ + 1]]
         /\ \A r \in Roles, cred \in {"none", "google", "password"} : NewRow(r, cred) \in UserRow
<1>1. users[u] \in UserRow
  BY DEF TypeOK
<1>2. 1 \in 1 .. MaxVersion
  BY BoundAssumption
<1>3. MayBump(u) => users[u].tv + 1 \in 1 .. MaxVersion
  BY <1>1, BoundAssumption DEF UserRow, MayBump
<1>4. MayBump(u) => [users[u] EXCEPT !.tv = @ + 1] \in UserRow
  BY <1>1, <1>3 DEF UserRow
<1>5. Bumped(u) = [users EXCEPT ![u] = [users[u] EXCEPT !.tv = @ + 1]]
  BY DEF Bumped
<1> QED BY <1>1, <1>2, <1>4, <1>5 DEF UserRow, NewRow

(* What steps make of a row.                                               *)
Bump(row) == [row EXCEPT !.tv = @ + 1]
WithRole(row, r) == [row EXCEPT !.role = r]
WithCred(row, cred) == [row EXCEPT !.cred = cred]

LEMMA RowFields ==
  ASSUME NEW row \in UserRow, NEW r \in Roles, NEW cred \in {"none", "google", "password"}
  PROVE  /\ WithRole(row, r) \in UserRow /\ WithRole(row, r).st = row.st
         /\ WithRole(row, r).tv = row.tv /\ WithRole(row, r).role = r
         /\ WithCred(row, cred) \in UserRow /\ WithCred(row, cred).st = row.st
         /\ WithCred(row, cred).tv = row.tv /\ WithCred(row, cred).role = row.role
<1>1. /\ WithRole(row, r) \in UserRow /\ WithRole(row, r).st = row.st
      /\ WithRole(row, r).tv = row.tv /\ WithRole(row, r).role = r
  BY DEF WithRole, UserRow
<1>2. /\ WithCred(row, cred) \in UserRow /\ WithCred(row, cred).st = row.st
      /\ WithCred(row, cred).tv = row.tv /\ WithCred(row, cred).role = row.role
  BY DEF WithCred, UserRow
<1> QED BY <1>1, <1>2

LEMMA BumpTypes ==
  ASSUME TypeOK, NEW u \in Users, MayBump(u)
  PROVE  /\ Bump(users[u]) \in UserRow /\ Bumped(u) = [users EXCEPT ![u] = Bump(users[u])]
         /\ Bump(users[u]).st = users[u].st /\ Bump(users[u]).role = users[u].role
         /\ users[u].tv <= Bump(users[u]).tv /\ users[u].tv # Bump(users[u]).tv
<1>1. Bump(users[u]) \in UserRow /\ Bumped(u) = [users EXCEPT ![u] = Bump(users[u])] /\ users[u] \in UserRow
  BY RowTypes DEF Bump
<1>2. users[u].tv \in Nat
  BY <1>1, BoundAssumption DEF UserRow
<1>3. /\ Bump(users[u]).st = users[u].st /\ Bump(users[u]).role = users[u].role
      /\ Bump(users[u]).tv = users[u].tv + 1
  BY <1>1 DEF UserRow, Bump
<1> QED BY <1>1, <1>2, <1>3

LEMMA SignInTypes ==
  ASSUME TypeOK, NEW u \in Users, NEW row \in UserRow,
         sessions' \subseteq sessions \cup {[user |-> u, tv |-> row.tv, perms |-> roles[row.role].perms]}
  PROVE  /\ sessions' \subseteq Session
         /\ \A s \in sessions' :
              s \in sessions \/ (s.user = u /\ s.tv = row.tv /\ s.perms = roles[row.role].perms)
<1> DEFINE new == [user |-> u, tv |-> row.tv, perms |-> roles[row.role].perms]
<1>1. row.tv \in 1 .. MaxVersion /\ row.role \in Roles
  BY DEF UserRow
<1>2. roles[row.role].perms \in SUBSET Permissions
  BY <1>1 DEF TypeOK, RoleRow
<1>3. new \in Session
  BY <1>1, <1>2 DEF Session
<1> QED BY <1>3 DEF TypeOK

LEMMA KillTypes ==
  ASSUME TypeOK, NEW ns
  PROVE  Kill(ns) \in [Tokens -> Link]
<1>1. \A n \in Tokens : tokens[n] \in Link /\ [tokens[n] EXCEPT !.st = "dead"] \in Link
  BY DEF TypeOK, Link
<1> QED BY <1>1 DEF Kill

LEMMA IssueTypes ==
  ASSUME TypeOK, NEW n \in Tokens, NEW u \in Users, NEW kind \in {"invite", "reset"}, Issue(n, u, kind)
  PROVE  tokens' \in [Tokens -> Link] /\ routed' \subseteq Tokens
<1> DEFINE K == Kill(LiveLinks(u, kind))
           new == [st |-> "live", user |-> u, kind |-> kind]
<1>1. K \in [Tokens -> Link]
  BY KillTypes
<1>2. tokens' = [K EXCEPT ![n] = new]
  BY DEF Issue
<1>3. new \in Link
  BY DEF Link
<1>4. routed' \subseteq Tokens
  BY DEF TypeOK, Issue
<1> HIDE DEF K, new
<1> QED BY <1>1, <1>2, <1>3, <1>4

LEMMA CallTypes ==
  ASSUME TypeOK, NEW c \in Calls
  PROVE  /\ End(c) => call' \in [Calls -> Handler]
         /\ \A k \in CallKinds, u \in Users, n \in 0 .. MaxTokens :
              Begin(c, k, u, n) => call' \in [Calls -> Handler]
<1>1. Idle \in Handler
  BY UserAssumption, BoundAssumption DEF Idle, CallKinds, Handler
<1>2. \A k \in CallKinds, u \in Users, n \in 0 .. MaxTokens :
        [kind |-> k, user |-> u, token |-> n] \in Handler
  BY DEF Handler
<1>3. call \in [Calls -> Handler]
  BY DEF TypeOK
<1>4. End(c) => call' \in [Calls -> Handler]
  BY <1>1, <1>3 DEF End
<1>5. \A k \in CallKinds, u \in Users, n \in 0 .. MaxTokens :
        Begin(c, k, u, n) => call' \in [Calls -> Handler]
  BY <1>2, <1>3 DEF Begin
<1> QED BY <1>4, <1>5

LEMMA ReopenTypes ==
  ASSUME TypeOK
  PROVE  Regranted \in [Roles -> RoleRow] /\ Repaired \in [Users -> UserRow]
<1>1. \A r \in Roles : roles[r] \in RoleRow /\ [roles[r] EXCEPT !.perms = @ \cup {"steps"}] \in RoleRow
  BY DEF TypeOK, RoleRow, Permissions
<1>2. \A u \in Users : users[u] \in UserRow /\ [users[u] EXCEPT !.role = "none"] \in UserRow
  BY DEF TypeOK, UserRow, Roles
<1> QED BY <1>1, <1>2 DEF Regranted, Repaired

-----------------------------------------------------------------------------
(* The steps, in the order of Next. *)

(* A step that touches none of roles, users, links and sessions. *)
LEMMA CallSteps ==
  ASSUME IInv, NEW c \in Calls, UNCHANGED <<roles, users, tokens, routed, sessions, used>>,
         \/ End(c)
         \/ \E k \in CallKinds, u \in Users, n \in 0 .. MaxTokens : Begin(c, k, u, n)
  PROVE  TypeOK' /\ Moves
<1>1. call' \in [Calls -> Handler]
  BY CallTypes DEF IInv
<1>2. Moves
  BY NothingMoves DEF IInv
<1> QED BY <1>1, <1>2 DEF IInv, TypeOK

LEMMA RoleSteps ==
  ASSUME IInv, NEW r \in Roles, NEW ps \in SUBSET Permissions,
         \/ \E c \in Calls : CreateRole(c, r, ps) \/ UpdateRole(c, r, ps)
         \/ DeleteRole(r)
  PROVE  TypeOK' /\ Moves
<1> USE DEF IInv
<1>0. \A u \in Users : users[u].tv \in Nat
  BY BoundAssumption DEF TypeOK, UserRow
<1>1. ASSUME NEW c \in Calls, CreateRole(c, r, ps)
      PROVE  TypeOK' /\ Moves
  <2>1. call' \in [Calls -> Handler]
    BY <1>1, CallTypes DEF CreateRole
  <2>2. [st |-> "known", perms |-> ps] \in RoleRow
    BY DEF RoleRow
  <2>3. TypeOK'
    BY <1>1, <2>1, <2>2 DEF TypeOK, CreateRole
  <2>4. \A q \in Roles : Known(q) => Known(q)' /\ roles'[q] = roles[q]
    BY <1>1 DEF CreateRole, Known, TypeOK
  <2>5. SystemRoles' /\ AlwaysAdministrator' /\ NoDanglingRole'
    BY <1>1, <2>4 DEF CreateRole, Core, SystemRoles, AlwaysAdministrator, Administrators, NoDanglingRole, Here,
                     Roles, TypeOK, UserRow
  <2>6. \A u \in Users : Here(u) => Grown(PermissionsOf(u)', PermissionsOf(u))
    BY <1>1, <2>4 DEF CreateRole, Core, NoDanglingRole, Grown, PermissionsOf, TypeOK, UserRow
  <2> QED BY <1>0, <1>1, <2>3, <2>5, <2>6 DEF Moves, CreateRole, Here
<1>2. ASSUME NEW c \in Calls, UpdateRole(c, r, ps)
      PROVE  TypeOK' /\ Moves
  <2>1. call' \in [Calls -> Handler]
    BY <1>2, CallTypes DEF UpdateRole
  <2>2. [roles[r] EXCEPT !.perms = ps] \in RoleRow /\ [roles[r] EXCEPT !.perms = ps].st = roles[r].st
    BY DEF RoleRow, TypeOK
  <2>3. \A u \in Users : users'[u] = IF u \in Assignees(r) THEN [users[u] EXCEPT !.tv = @ + 1] ELSE users[u]
    BY <1>2 DEF UpdateRole
  <2>4. \A u \in Users : users'[u] \in UserRow /\ users'[u].st = users[u].st /\ users'[u].role = users[u].role
    BY <1>2, <2>3, RowTypes DEF UpdateRole, UserRow
  <2>5. \A u \in Users : users'[u].tv = IF u \in Assignees(r) THEN users[u].tv + 1 ELSE users[u].tv
    BY <2>3, RowTypes DEF UserRow
  <2>6. \A q \in Roles : (Known(q)' <=> Known(q)) /\ (q # r => roles'[q] = roles[q])
    BY <1>2, <2>2 DEF UpdateRole, Known, TypeOK
  <2>7. TypeOK'
    <3>1. roles' \in [Roles -> RoleRow]
      BY <1>2, <2>2 DEF UpdateRole, TypeOK
    <3>2. users' \in [Users -> UserRow]
      BY <1>2, <2>4 DEF UpdateRole
    <3> QED BY <1>2, <2>1, <3>1, <3>2 DEF UpdateRole, TypeOK
  <2>8. SystemRoles' /\ AlwaysAdministrator' /\ NoDanglingRole'
    <3>1. SystemRoles'
      BY <2>6 DEF Core, SystemRoles, Roles
    <3>2. AlwaysAdministrator'
      BY <2>4 DEF Core, AlwaysAdministrator, Administrators, Here
    <3>3. \A u \in Users : users[u].role \in Roles
      BY RowTypes DEF UserRow
    <3>4. NoDanglingRole'
      BY <2>4, <2>6, <3>3 DEF Core, NoDanglingRole, Here, Known
    <3> QED BY <3>1, <3>2, <3>4
  <2>9. \A u \in Users : Here(u)' => Here(u) /\ users[u].tv <= users'[u].tv
    BY <1>0, <2>4, <2>5 DEF Here
  <2>10. ASSUME NEW u \in Users, Here(u), users[u].tv = users'[u].tv
         PROVE  PermissionsOf(u)' = PermissionsOf(u)
    <3>1. u \notin Assignees(r)
      BY <2>10, <1>0, <2>5
    <3>2. users[u].role # r
      BY <2>10, <3>1 DEF Assignees
    <3>3. users[u].role \in Roles
      BY RowTypes DEF UserRow
    <3> QED BY <2>4, <2>6, <3>2, <3>3 DEF PermissionsOf
  <2> QED BY <1>2, <2>4, <2>7, <2>8, <2>9, <2>10 DEF UpdateRole, Moves, Grown, Here
<1>3. ASSUME DeleteRole(r)
      PROVE  TypeOK' /\ Moves
  <2>1. [st |-> "gone", perms |-> {}] \in RoleRow
    BY DEF RoleRow
  <2>2. TypeOK'
    BY <1>3, <2>1 DEF TypeOK, DeleteRole
  <2>3. \A q \in Roles : q # r => roles'[q] = roles[q]
    BY <1>3 DEF DeleteRole, TypeOK
  <2>4. r \notin {"admin", "none"}
    BY <1>3, RoleAssumption DEF DeleteRole
  <2>5. \A u \in Users : users[u].role \in Roles /\ (Here(u) => users[u].role # r)
    BY <1>3, RowTypes DEF DeleteRole, UserRow
  <2>6. SystemRoles' /\ AlwaysAdministrator' /\ NoDanglingRole'
    BY <1>3, <2>3, <2>4, <2>5 DEF DeleteRole, Core, SystemRoles, AlwaysAdministrator, Administrators,
                                 NoDanglingRole, Here, Known, Roles
  <2>7. \A u \in Users : Here(u) => Grown(PermissionsOf(u)', PermissionsOf(u))
    BY <1>3, <2>3, <2>5 DEF DeleteRole, Grown, PermissionsOf
  <2> QED BY <1>0, <1>3, <2>2, <2>6, <2>7 DEF Moves, DeleteRole, Here
<1> QED BY <1>1, <1>2, <1>3

LEMMA UserSteps ==
  ASSUME IInv, NEW u \in Users,
         \/ \E c \in Calls, r \in Roles : Assign(c, u, r)
         \/ DeleteUser(u) \/ DeleteRefused(u) \/ DeleteFails(u)
  PROVE  TypeOK' /\ Moves
<1> USE DEF IInv
<1>1. ASSUME NEW c \in Calls, NEW r \in Roles, Assign(c, u, r)
      PROVE  TypeOK' /\ Moves
  <2> DEFINE B == Bump(users[u])
             row == WithRole(B, r)
  <2>1. Here(u) /\ MayBump(u) /\ Known(r) /\ ~LastAdministrator(u)
    BY <1>1 DEF Assign
  <2>2. row \in UserRow /\ row.st = "here" /\ row.role = r /\ users[u].tv <= row.tv /\ users[u].tv # row.tv
    BY <2>1, BumpTypes, RowFields DEF Here
  <2>3. users' = [users EXCEPT ![u] = row]
    <3>1. users' = [[users EXCEPT ![u] = B] EXCEPT ![u].role = r]
      BY <1>1, <2>1, BumpTypes DEF Assign
    <3> HIDE DEF B
    <3> QED BY <3>1 DEF TypeOK, WithRole
  <2> HIDE DEF row
  <2>4. call' \in [Calls -> Handler]
    BY <1>1, CallTypes DEF Assign
  <2>5. TypeOK'
    BY <1>1, <2>2, <2>3, <2>4 DEF Assign, TypeOK
  <2>6. Moves
    BY <1>1, <2>1, <2>2, <2>3, OneMoves DEF Assign
  <2> QED BY <2>5, <2>6
<1>2. ASSUME DeleteUser(u)
      PROVE  TypeOK' /\ Moves
  <2> DEFINE row == [NewRow("none", "none") EXCEPT !.st = "gone"]
  <2>1. row \in UserRow /\ row.st = "gone"
    BY BoundAssumption DEF NewRow, UserRow, Roles
  <2>2. users' = [users EXCEPT ![u] = row]
    BY <1>2 DEF DeleteUser
  <2> HIDE DEF row
  <2>3. tokens' \in [Tokens -> Link]
    BY <1>2, KillTypes DEF DeleteUser
  <2>4. TypeOK'
    BY <1>2, <2>1, <2>2, <2>3 DEF DeleteUser, TypeOK
  <2>5. Moves
    BY <1>2, <2>1, <2>2, OneMoves DEF DeleteUser
  <2> QED BY <2>4, <2>5
<1>3. ASSUME DeleteRefused(u) \/ DeleteFails(u)
      PROVE  TypeOK' /\ Moves
  <2>1. Here(u) /\ MayBump(u) /\ users' = Bumped(u) /\ UNCHANGED <<roles, sessions, call, used>>
    BY <1>3 DEF DeleteRefused, DeleteFails
  <2> DEFINE B == Bump(users[u])
  <2>2. /\ users' = [users EXCEPT ![u] = B] /\ B.st = "here" /\ B.role = users[u].role /\ Known(B.role)
        /\ B \in UserRow /\ users[u].tv <= B.tv /\ users[u].tv # B.tv
    BY <2>1, BumpTypes DEF Here, Core, NoDanglingRole
  <2> HIDE DEF B
  <2>3. tokens' \in [Tokens -> Link] /\ routed' \subseteq Tokens
    BY <1>3, KillTypes DEF DeleteRefused, DeleteFails, TypeOK
  <2>4. TypeOK'
    BY <2>1, <2>2, <2>3 DEF TypeOK
  <2>5. LastAdministrator(u) => users[u].role = "admin"
    BY DEF LastAdministrator, Administrators
  <2>6. Moves
    BY <2>1, <2>2, <2>5, OneMoves
  <2> QED BY <2>4, <2>6
<1> QED BY <1>1, <1>2, <1>3

LEMMA LinkSteps ==
  ASSUME IInv, NEW n \in Tokens,
         \/ \E c \in Calls, u \in Users, r \in Roles : Invite(c, u, r, n)
         \/ \E u \in Users : ResendInvite(u, n) \/ RequestReset(u, n)
         \/ \E c \in Calls : PasswordBegins(c, n)
         \/ Expire(n)
  PROVE  TypeOK' /\ Moves
<1> USE DEF IInv
<1>1. ASSUME NEW c \in Calls, NEW u \in Users, NEW r \in Roles, Invite(c, u, r, n)
      PROVE  TypeOK' /\ Moves
  <2>1. tokens' \in [Tokens -> Link] /\ routed' \subseteq Tokens
    BY <1>1, IssueTypes DEF Invite
  <2>2. call' \in [Calls -> Handler]
    BY <1>1, CallTypes DEF Invite
  <2>3. PICK cred \in {"none", "password"} : users' = [users EXCEPT ![u] = NewRow(r, cred)]
    BY <1>1 DEF Invite
  <2>4. NewRow(r, cred) \in UserRow /\ NewRow(r, cred).st = "here" /\ NewRow(r, cred).role = r
    BY BoundAssumption DEF NewRow, UserRow
  <2>5. TypeOK'
    BY <1>1, <2>1, <2>2, <2>3, <2>4 DEF Invite, TypeOK
  <2>6. UNCHANGED <<roles, sessions>> /\ users[u].st = "new" /\ Known(r)
    BY <1>1 DEF Invite
  <2>7. \A v \in Users : users'[v] = IF v = u THEN NewRow(r, cred) ELSE users[v]
    BY <2>3 DEF TypeOK
  <2>8. Moves
    BY <2>4, <2>6, <2>7, ComingMoves DEF Known, Grown
  <2> QED BY <2>5, <2>8
<1>2. ASSUME NEW u \in Users, ResendInvite(u, n) \/ RequestReset(u, n)
      PROVE  TypeOK' /\ Moves
  <2>1. tokens' \in [Tokens -> Link] /\ routed' \subseteq Tokens
    BY <1>2, IssueTypes DEF ResendInvite, RequestReset
  <2> QED BY <1>2, <2>1, NothingMoves DEF ResendInvite, RequestReset, TypeOK
<1>3. ASSUME NEW c \in Calls, PasswordBegins(c, n)
      PROVE  TypeOK' /\ Moves
  <2>1. tokens' \in [Tokens -> Link] /\ routed' \subseteq Tokens
    BY <1>3, KillTypes DEF PasswordBegins, TypeOK
  <2>2. tokens[n].user \in Users /\ n \in 0 .. MaxTokens
    BY BoundAssumption DEF TypeOK, Link, Tokens
  <2>3. call' \in [Calls -> Handler]
    BY <1>3, <2>2, CallTypes DEF PasswordBegins, CallKinds
  <2> QED BY <1>3, <2>1, <2>3, NothingMoves DEF PasswordBegins, TypeOK
<1>4. ASSUME Expire(n)
      PROVE  TypeOK' /\ Moves
  <2>1. tokens' \in [Tokens -> Link] /\ routed' \subseteq Tokens
    BY <1>4, KillTypes DEF Expire, TypeOK
  <2> QED BY <1>4, <2>1, NothingMoves DEF Expire, TypeOK
<1> QED BY <1>1, <1>2, <1>3, <1>4

LEMMA SigningSteps ==
  ASSUME IInv,
         \/ \E c \in Calls : LoginEnds(c) \/ PasswordEnds(c)
         \/ \E u \in Users : GoogleSignIn(u) \/ Logout(u) \/ ReplicatedPassword(u)
  PROVE  TypeOK' /\ Moves
<1> USE DEF IInv
<1>1. ASSUME NEW c \in Calls, LoginEnds(c)
      PROVE  TypeOK' /\ Moves
  <2>0. PICK u \in Users : u = call[c].user
    BY DEF TypeOK, Handler
  <2> DEFINE row == users[u]
  <2>1. call' \in [Calls -> Handler]
    BY <1>1, CallTypes DEF LoginEnds
  <2>2. CASE ~Active(u)
    BY <1>1, <2>0, <2>1, <2>2, NothingMoves DEF LoginEnds, TypeOK
  <2>3. CASE Active(u)
    <3>1. /\ Here(u) /\ UNCHANGED <<roles, users, tokens, routed, used>>
          /\ sessions' \subseteq sessions \cup {[user |-> u, tv |-> row.tv, perms |-> roles[row.role].perms]}
      BY <1>1, <2>0, <2>3 DEF LoginEnds, Active, SignIn
    <3>2. row \in UserRow /\ users' = [users EXCEPT ![u] = row] /\ users[u].tv <= row.tv
      BY <2>0, <3>1, BoundAssumption DEF TypeOK, UserRow
    <3>3. Known(row.role) /\ row.st = "here" /\ row.role = users[u].role /\ (LastAdministrator(u) => row.role = "admin")
      BY <2>1, <3>1 DEF Core, NoDanglingRole, Here, LastAdministrator, Administrators
    <3> HIDE DEF row
    <3>4. /\ sessions' \subseteq Session
          /\ \A s \in sessions' : s \in sessions \/ (s.user = u /\ s.tv = row.tv /\ s.perms = roles[row.role].perms)
      BY <2>1, <3>1, <3>2, SignInTypes
    <3>5. Here(u) /\ UNCHANGED roles
      BY <3>1
    <3>6. Moves
      BY <2>0, <3>2, <3>3, <3>4, <3>5, OneMoves
    <3> QED BY <2>1, <3>1, <3>4, <3>6 DEF TypeOK
  <2> QED BY <2>2, <2>3
<1>2. ASSUME NEW c \in Calls, PasswordEnds(c)
      PROVE  TypeOK' /\ Moves
  <2>0. PICK u \in Users : u = call[c].user
    BY DEF TypeOK, Handler
  <2> DEFINE B == Bump(users[u])
             row == WithCred(B, "password")
  <2>1. call' \in [Calls -> Handler]
    BY <1>2, CallTypes DEF PasswordEnds
  <2>2. used' \in [Tokens -> Nat]
    BY <1>2 DEF PasswordEnds, TypeOK
  <2>3. CASE ~Here(u)
    BY <1>2, <2>0, <2>1, <2>3, NothingMoves DEF PasswordEnds, TypeOK
  <2>4. CASE Here(u)
    <3>1. /\ MayBump(u) /\ users' = [Bumped(u) EXCEPT ![u].cred = "password"]
          /\ SignIn(users', u) /\ UNCHANGED <<roles, tokens, routed>>
      BY <1>2, <2>0, <2>4 DEF PasswordEnds
    <3>2. /\ B \in UserRow /\ B.st = "here" /\ B.role = users[u].role
          /\ users[u].tv <= B.tv /\ users[u].tv # B.tv /\ Bumped(u) = [users EXCEPT ![u] = B]
      BY <2>1, <2>4, <3>1, BumpTypes DEF Here
    <3> HIDE DEF B
    <3>3. /\ row \in UserRow /\ row.st = "here" /\ row.role = users[u].role
          /\ users[u].tv <= row.tv /\ users[u].tv # row.tv
      <4>1. Roles # {}
        BY DEF Roles
      <4> QED BY <3>2, <4>1, RowFields
    <3>4. users' = [users EXCEPT ![u] = row]
      <4>1. users' = [[users EXCEPT ![u] = B] EXCEPT ![u].cred = "password"]
        BY <3>1, <3>2
      <4> QED BY <2>1, <4>1 DEF TypeOK, WithCred
    <3>5. Known(row.role) /\ (LastAdministrator(u) => row.role = "admin")
      BY <2>1, <2>4, <3>3 DEF Core, NoDanglingRole, LastAdministrator, Administrators
    <3> HIDE DEF row
    <3>6. users'[u] = row
      BY <2>1, <3>4 DEF TypeOK
    <3>7. sessions' \subseteq sessions \cup {[user |-> u, tv |-> row.tv, perms |-> roles[row.role].perms]}
      BY <3>1, <3>6 DEF SignIn
    <3>8. /\ sessions' \subseteq Session
          /\ \A s \in sessions' : s \in sessions \/ (s.user = u /\ s.tv = row.tv /\ s.perms = roles[row.role].perms)
      BY <2>1, <3>3, <3>7, SignInTypes
    <3>9. Moves
      <4>1. /\ row \in UserRow /\ row.st = "here" /\ Known(row.role) /\ UNCHANGED roles
            /\ users[u].tv <= row.tv /\ (users[u].tv = row.tv => row.role = users[u].role)
            /\ (LastAdministrator(u) => row.role = "admin")
        BY <3>1, <3>3, <3>5
      <4>2. \A s \in sessions' :
              s \in sessions \/ (s.user = u /\ s.tv = row.tv /\ s.perms = roles[row.role].perms)
        BY <3>8
      <4>3. u \in Users /\ Here(u) /\ users' = [users EXCEPT ![u] = row] /\ row.st # "new"
        BY <2>0, <2>4, <3>4, <4>1
      <4> QED BY <4>1, <4>2, <4>3, OneMoves
    <3> QED BY <2>1, <2>2, <3>1, <3>3, <3>4, <3>8, <3>9 DEF TypeOK
  <2> QED BY <2>3, <2>4
<1>3. ASSUME NEW u \in Users, GoogleSignIn(u) \/ ReplicatedPassword(u)
      PROVE  TypeOK' /\ Moves
  <2>1. users[u] \in UserRow /\ users[u].cred \in {"none", "google", "password"} /\ users[u].tv \in Nat
    BY BoundAssumption DEF TypeOK, UserRow
  <2>2. PICK cred \in {"none", "google", "password"} : users' = [users EXCEPT ![u].cred = cred]
    BY <1>3, <2>1 DEF GoogleSignIn, ReplicatedPassword
  <2> DEFINE row == WithCred(users[u], cred)
  <2>3. users' = [users EXCEPT ![u] = row]
    BY <2>2 DEF WithCred
  <2>4. row \in UserRow /\ row.st = users[u].st /\ row.role = users[u].role /\ row.tv = users[u].tv
    <3>1. Roles # {}
      BY DEF Roles
    <3> QED BY <2>1, <3>1, RowFields
  <2>5. Here(u) /\ (SignIn(users', u) \/ UNCHANGED sessions) /\ UNCHANGED <<roles, tokens, routed, call, used>>
    BY <1>3 DEF GoogleSignIn, ReplicatedPassword
  <2> HIDE DEF row
  <2>6. users'[u] = row
    BY <2>3 DEF TypeOK
  <2>7. sessions' \subseteq sessions \cup {[user |-> u, tv |-> row.tv, perms |-> roles[row.role].perms]}
    BY <2>5, <2>6 DEF SignIn
  <2>8. /\ sessions' \subseteq Session
        /\ \A s \in sessions' : s \in sessions \/ (s.user = u /\ s.tv = row.tv /\ s.perms = roles[row.role].perms)
    BY <2>4, <2>7, SignInTypes
  <2>9. Known(row.role) /\ (LastAdministrator(u) => row.role = "admin") /\ row.st = "here" /\ users[u].tv <= row.tv
    BY <2>1, <2>4, <2>5 DEF Core, NoDanglingRole, LastAdministrator, Administrators, Here
  <2>10. Moves
    BY <2>3, <2>4, <2>5, <2>8, <2>9, OneMoves
  <2> QED BY <2>3, <2>4, <2>5, <2>8, <2>10 DEF TypeOK
<1>4. ASSUME NEW u \in Users, Logout(u)
      PROVE  TypeOK' /\ Moves
  <2> DEFINE B == Bump(users[u])
  <2>1. Here(u) /\ MayBump(u) /\ users' = Bumped(u) /\ UNCHANGED <<roles, tokens, routed, sessions, call, used>>
    BY <1>4 DEF Logout
  <2>2. /\ B \in UserRow /\ Bumped(u) = [users EXCEPT ![u] = B] /\ B.st = "here" /\ B.role = users[u].role
        /\ users[u].tv <= B.tv /\ users[u].tv # B.tv
    BY <2>1, BumpTypes DEF Here
  <2> HIDE DEF B
  <2>3. Known(B.role) /\ (LastAdministrator(u) => B.role = "admin")
    BY <2>1, <2>2 DEF Core, NoDanglingRole, LastAdministrator, Administrators
  <2>4. Moves
    BY <2>1, <2>2, <2>3, OneMoves
  <2> QED BY <2>1, <2>2, <2>4 DEF TypeOK
<1> QED BY <1>1, <1>2, <1>3, <1>4

LEMMA OpeningSteps ==
  ASSUME IInv, Opening
  PROVE  TypeOK' /\ Moves
<1> USE DEF IInv
<1>1. Regranted \in [Roles -> RoleRow] /\ Repaired = users
  <2>1. \A u \in Users : ~(Here(u) /\ ~Known(users[u].role))
    BY DEF Core, NoDanglingRole
  <2>2. Repaired = [u \in Users |-> users[u]]
    BY <2>1 DEF Repaired
  <2> QED BY <2>2, ReopenTypes DEF TypeOK
<1>2. \A r \in Roles : Regranted[r].st = roles[r].st /\ Grown(Regranted[r].perms, roles[r].perms)
  BY DEF Regranted, Grown, TypeOK, RoleRow
<1>3. [c \in Calls |-> Idle] \in [Calls -> Handler]
  BY UserAssumption, BoundAssumption DEF Idle, CallKinds, Handler
<1>4. ASSUME NEW ts \in [Tokens -> Link], Reopen(ts), sessions' = sessions, used' = used,
             call' = call \/ call' = [c \in Calls |-> Idle]
      PROVE  TypeOK' /\ Moves
  <2>1. roles' = Regranted /\ users' = users /\ tokens' = ts /\ routed' \subseteq Tokens
    BY <1>1, <1>4 DEF Reopen
  <2>2. Moves
    BY <1>2, <1>4, <2>1, ComingMoves DEF Known
  <2> QED BY <1>1, <1>3, <1>4, <2>1, <2>2 DEF TypeOK
<1>5. CASE Evicted \/ Restart
  BY <1>4, <1>5 DEF Evicted, Restart, TypeOK
<1>6. ASSUME NEW n \in Tokens, RestartInConsume(n)
      PROVE  TypeOK' /\ Moves
  BY <1>4, <1>6, KillTypes DEF RestartInConsume
<1>7. ASSUME NEW c \in Calls, NEW u \in Users, NEW r \in Roles, RestartInInvite(c, u, r)
      PROVE  TypeOK' /\ Moves
  <2>1. NewRow(r, "none") \in UserRow /\ NewRow(r, "none").st = "here" /\ NewRow(r, "none").role = r
    BY BoundAssumption DEF NewRow, UserRow
  <2>2. users' = [users EXCEPT ![u] = NewRow(r, "none")] /\ users[u].st = "new" /\ Known(r) /\ roles' = Regranted
    BY <1>1, <1>7 DEF RestartInInvite
  <2>3. \A v \in Users : users'[v] = IF v = u THEN NewRow(r, "none") ELSE users[v]
    BY <2>2 DEF TypeOK
  <2>4. \A q \in Roles : (Known(q)' <=> Known(q)) /\ Grown(roles'[q].perms, roles[q].perms)
    BY <1>2, <2>2 DEF Known
  <2>5. sessions' = sessions /\ Known(r)'
    BY <1>7, <2>2, <2>4 DEF RestartInInvite
  <2>6. Moves
    BY <2>1, <2>2, <2>3, <2>4, <2>5, ComingMoves
  <2>7. TypeOK'
    BY <1>1, <1>3, <1>7, <2>1, <2>2 DEF RestartInInvite, TypeOK
  <2> QED BY <2>6, <2>7
<1> QED BY <1>5, <1>6, <1>7 DEF Opening

-----------------------------------------------------------------------------
LEMMA InitIInv == Init => IInv
<1> SUFFICES ASSUME Init PROVE IInv
  OBVIOUS
<1>1. NewRow("admin", "password") \in UserRow /\ [NewRow("none", "none") EXCEPT !.st = "new"] \in UserRow
  BY BoundAssumption DEF NewRow, UserRow, Roles
<1>2. roles \in [Roles -> RoleRow] /\ users \in [Users -> UserRow]
  BY <1>1 DEF Init, RoleRow
<1>3. tokens \in [Tokens -> Link] /\ call \in [Calls -> Handler] /\ used \in [Tokens -> Nat]
  BY UserAssumption, BoundAssumption DEF Init, Link, Idle, CallKinds, Handler
<1>4. sessions \subseteq Session
  BY UserAssumption, BoundAssumption DEF Init, Session
<1>5. TypeOK
  BY <1>2, <1>3, <1>4 DEF Init, TypeOK
<1>6. users[First].st = "here" /\ users[First].role = "admin" /\ users[First].tv = 1
  BY UserAssumption DEF Init, NewRow
<1>7. \A u \in Users : u # First => users[u].st = "new"
  BY DEF Init, NewRow
<1>8. SystemRoles /\ roles["admin"].perms = Permissions
  BY RoleAssumption DEF Init, SystemRoles, Known, Roles
<1>9. AlwaysAdministrator
  BY <1>6, UserAssumption DEF AlwaysAdministrator, Administrators, Here
<1>10. NoDanglingRole
  BY <1>6, <1>7, <1>8 DEF NoDanglingRole, Here, SystemRoles
<1>11. Signed /\ SessionsFollowRoles
  BY <1>6, <1>8 DEF Init, Signed, SessionsFollowRoles, PermissionsOf, Here
<1> QED BY <1>5, <1>8, <1>9, <1>10, <1>11 DEF IInv, Core

LEMMA StepKeeps == IInv /\ [Next]_vars => IInv' /\ (EndedStays \/ UNCHANGED vars)
<1>1. ASSUME IInv, Next
      PROVE  TypeOK' /\ Moves
  <2>1. CASE Administration
    <3>1. ASSUME NEW c \in Calls, NEW a \in Users, ManageBegins(c, a)
          PROVE  TypeOK' /\ Moves
      <4>1. 0 \in 0 .. MaxTokens /\ "manage" \in CallKinds
        BY BoundAssumption DEF CallKinds
      <4> QED BY <1>1, <3>1, <4>1, CallSteps DEF ManageBegins
    <3>2. ASSUME NEW c \in Calls, ManageRefused(c)
          PROVE  TypeOK' /\ Moves
      BY <1>1, <3>2, CallSteps DEF ManageRefused
    <3>3. ASSUME NEW r \in Roles, NEW ps \in PermissionSets, NEW c \in Calls, CreateRole(c, r, ps) \/ UpdateRole(c, r, ps)
          PROVE  TypeOK' /\ Moves
      BY <1>1, <3>3, RoleSteps, PermissionAssumption
    <3>4. ASSUME NEW r \in Roles, DeleteRole(r)
          PROVE  TypeOK' /\ Moves
      BY <1>1, <3>4, RoleSteps
    <3>5. ASSUME NEW c \in Calls, NEW u \in Users, NEW r \in Roles, Assign(c, u, r)
          PROVE  TypeOK' /\ Moves
      BY <1>1, <3>5, UserSteps
    <3>6. ASSUME NEW n \in Tokens, NEW u \in Users, ResendInvite(u, n) \/ \E c \in Calls, r \in Roles : Invite(c, u, r, n)
          PROVE  TypeOK' /\ Moves
      BY <1>1, <3>6, LinkSteps
    <3>7. ASSUME NEW u \in Users, DeleteUser(u) \/ DeleteRefused(u) \/ DeleteFails(u)
          PROVE  TypeOK' /\ Moves
      BY <1>1, <3>7, UserSteps
    <3> QED BY <2>1, <3>1, <3>2, <3>3, <3>4, <3>5, <3>6, <3>7 DEF Administration
  <2>2. CASE Signing
    <3>1. ASSUME NEW c \in Calls, NEW u \in Users, LoginBegins(c, u)
          PROVE  TypeOK' /\ Moves
      <4>1. 0 \in 0 .. MaxTokens /\ "login" \in CallKinds
        BY BoundAssumption DEF CallKinds
      <4> QED BY <1>1, <3>1, <4>1, CallSteps DEF LoginBegins
    <3>2. ASSUME \/ \E c \in Calls : LoginEnds(c) \/ PasswordEnds(c)
                 \/ \E u \in Users : GoogleSignIn(u) \/ Logout(u) \/ ReplicatedPassword(u)
          PROVE  TypeOK' /\ Moves
      BY <1>1, <3>2, SigningSteps
    <3>3. ASSUME NEW n \in Tokens,
                 \/ \E u \in Users : RequestReset(u, n)
                 \/ \E c \in Calls : PasswordBegins(c, n)
                 \/ Expire(n)
          PROVE  TypeOK' /\ Moves
      BY <1>1, <3>3, LinkSteps
    <3> QED BY <2>2, <3>1, <3>2, <3>3 DEF Signing
  <2>3. CASE Opening
    BY <1>1, <2>3, OpeningSteps
  <2> QED BY <1>1, <2>1, <2>2, <2>3 DEF Next
<1>2. ASSUME IInv, Next
      PROVE  IInv' /\ EndedStays
  BY <1>1, <1>2, MovesKeep DEF IInv
<1>3. ASSUME IInv, UNCHANGED vars
      PROVE  IInv'
  BY <1>3 DEF vars, IInv, TypeOK, Core, SystemRoles, Signed, AlwaysAdministrator, Administrators, NoDanglingRole,
              SessionsFollowRoles, Known, Here, PermissionsOf, Valid
<1> QED BY <1>2, <1>3

(* The inductive invariant.                                                *)
THEOREM Invariant == Spec => []IInv
<1> QED BY InitIInv, StepKeeps, PTL DEF Spec

(* The tables hold what their columns may hold.                            *)
THEOREM TypeCorrect == Spec => []TypeOK
<1>1. IInv => TypeOK
  BY DEF IInv
<1> QED BY <1>1, Invariant, PTL

(* However demotions, deletions, role changes and restarts overlap, an     *)
(* administrator is left.                                                  *)
THEOREM AdministratorStays == Spec => []AlwaysAdministrator
<1>1. IInv => AlwaysAdministrator
  BY DEF IInv, Core
<1> QED BY <1>1, Invariant, PTL

(* Nobody has a role that was deleted, so the repair of roles at every     *)
(* opening of the file finds nothing to do.                                *)
THEOREM RolesStay == Spec => []NoDanglingRole
<1>1. IInv => NoDanglingRole
  BY DEF IInv, Core
<1> QED BY <1>1, Invariant, PTL

(* A session that works gives what its user had when it was signed, except *)
(* for what workflow manage brings along.                                  *)
THEOREM PermissionsStay == Spec => []SessionsFollowRoles
<1>1. IInv => SessionsFollowRoles
  BY DEF IInv, Core
<1> QED BY <1>1, Invariant, PTL

(* No sign-in, role change, restart or new account lets a session work     *)
(* that had ended.                                                         *)
THEOREM SessionsEndForGood == Spec => EndedForGood
<1>1. UNCHANGED vars => \A s \in sessions : ~Valid(s) => ~Valid(s)'
  BY DEF vars, Valid, Here
<1>2. IInv /\ [Next]_vars => [\A s \in sessions : ~Valid(s) => ~Valid(s)']_vars
  BY StepKeeps, <1>1 DEF EndedStays
<1> QED BY <1>2, Invariant, PTL DEF Spec, EndedForGood

-----------------------------------------------------------------------------
(* Links: of one kind a user has one that works, and it has a route; a     *)
(* call that will set a password holds a link that is dead, has set none   *)
(* and is held by no other call.                                           *)
Single ==
  /\ \A m, n \in Tokens :
       (/\ tokens[m].st = "live" /\ tokens[n].st = "live"
        /\ tokens[m].user = tokens[n].user /\ tokens[m].kind = tokens[n].kind) => m = n
  /\ \A n \in Tokens : tokens[n].st = "live" => n \in routed

Holds(c, n) == call[c].kind = "password" /\ call[c].token = n

Spent ==
  /\ \A n \in Tokens : used[n] <= 1 /\ (tokens[n].st # "dead" => used[n] = 0)
  /\ \A c \in Calls : call[c].kind = "password" =>
       /\ call[c].token \in Tokens
       /\ tokens[call[c].token].st = "dead" /\ used[call[c].token] = 0
       /\ \A d \in Calls : Holds(d, call[c].token) => d = c

LinkInv == Single /\ Spent

DeadStay == \A n \in Tokens : tokens[n].st = "dead" => tokens'[n].st = "dead"
NoNewHolder == \A c \in Calls : call'[c] = call[c] \/ call'[c].kind # "password"

LEMMA SpentStays ==
  ASSUME TypeOK, Spent, used' = used, DeadStay, NoNewHolder
  PROVE  Spent'
<1>1. \A n \in Tokens : used'[n] <= 1 /\ (tokens'[n].st # "dead" => used'[n] = 0)
  BY DEF Spent, DeadStay
<1>2. ASSUME NEW c \in Calls, call'[c].kind = "password"
      PROVE  /\ call'[c].token \in Tokens
             /\ tokens'[call'[c].token].st = "dead" /\ used'[call'[c].token] = 0
             /\ \A d \in Calls : Holds(d, call[c].token)' => d = c
  BY <1>2 DEF Spent, DeadStay, NoNewHolder, Holds
<1> QED BY <1>1, <1>2 DEF Spent, Holds, NoNewHolder

LEMMA CallsEnd ==
  ASSUME TypeOK, NEW c \in Calls
  PROVE  /\ End(c) => NoNewHolder
         /\ \A k, u, n : k # "password" /\ Begin(c, k, u, n) => NoNewHolder
         /\ call' = call => NoNewHolder
         /\ call' = [d \in Calls |-> Idle] => NoNewHolder
BY DEF TypeOK, End, Begin, Idle, NoNewHolder

LEMMA KillKeeps ==
  ASSUME TypeOK, Single, NEW ns, tokens' = Kill(ns),
         \A n \in Tokens : tokens'[n].st = "live" /\ n \in routed => n \in routed'
  PROVE  Single' /\ DeadStay
<1>1. ASSUME NEW n \in Tokens
      PROVE  /\ n \in ns => tokens'[n].st = "dead"
             /\ n \notin ns => tokens'[n] = tokens[n]
  <2>1. tokens[n] \in Link
    BY DEF TypeOK
  <2> QED BY <2>1 DEF Kill, Link
<1> QED BY <1>1 DEF Single, DeadStay

LEMMA IssueKeeps ==
  ASSUME TypeOK, Single, NEW n \in Tokens, NEW u \in Users, NEW kind \in {"invite", "reset"},
         Issue(n, u, kind)
  PROVE  Single' /\ DeadStay
<1> DEFINE ns == LiveLinks(u, kind)
           new == [st |-> "live", user |-> u, kind |-> kind]
<1>1. tokens[n].st = "new" /\ tokens' = [Kill(ns) EXCEPT ![n] = new] /\ routed' = (routed \ ns) \cup {n}
  BY DEF Issue, NextLink
<1>2. tokens'[n] = new
  BY <1>1 DEF Kill
<1>3. ASSUME NEW m \in Tokens, m # n
      PROVE  /\ m \in ns => tokens'[m].st = "dead"
             /\ m \notin ns => tokens'[m] = tokens[m] /\ (m \in routed => m \in routed')
  <2>1. tokens[m] \in Link
    BY DEF TypeOK
  <2> QED BY <1>1, <1>3, <2>1 DEF Kill, Link
<1>4. ASSUME NEW m \in Tokens, m # n, tokens'[m].st = "live"
      PROVE  /\ tokens[m].st = "live" /\ tokens'[m] = tokens[m] /\ m \in routed'
             /\ ~ (tokens[m].user = u /\ tokens[m].kind = kind)
  BY <1>3, <1>4 DEF Single, LiveLinks
<1>5. DeadStay
  BY <1>1, <1>3 DEF DeadStay, LiveLinks
<1>6. Single'
  BY <1>1, <1>2, <1>4 DEF Single
<1> QED BY <1>5, <1>6

LEMMA ReopenKeeps ==
  ASSUME TypeOK, Single, NEW ts, Reopen(ts), ts = tokens \/ \E n \in Tokens : ts = Kill({n})
  PROVE  Single' /\ DeadStay
<1>1. tokens' = ts /\ \A n \in Tokens : ts[n].st = "live" => n \in routed'
  BY DEF Reopen
<1>2. CASE ts = tokens
  BY <1>1, <1>2 DEF Single, DeadStay
<1>3. ASSUME NEW n \in Tokens, ts = Kill({n})
      PROVE  Single' /\ DeadStay
  BY <1>1, <1>3, KillKeeps
<1> QED BY <1>2, <1>3

(* A link is consumed before the hash is awaited: it is dead when the call *)
(* that holds it begins.                                                   *)
LEMMA BeginsHolding ==
  ASSUME IInv, LinkInv, NEW c \in Calls, NEW n \in Tokens, PasswordBegins(c, n)
  PROVE  LinkInv'
<1> USE DEF IInv, LinkInv
<1> DEFINE held == [kind |-> "password", user |-> tokens[n].user, token |-> n]
<1>1. tokens[n].st = "live" /\ tokens' = Kill({n}) /\ routed' = routed \ {n} /\ used' = used
  BY DEF PasswordBegins, Consumable
<1>2. call[c].kind = "idle" /\ call' = [call EXCEPT ![c] = held]
  BY DEF PasswordBegins, Begin, Waiting
<1>3. tokens'[n].st = "dead"
  BY <1>1 DEF Kill, TypeOK, Link
<1>4. Single' /\ DeadStay
  <2>1. \A m \in Tokens : tokens'[m].st = "live" /\ m \in routed => m \in routed'
    BY <1>1, <1>3
  <2> QED BY <1>1, <2>1, KillKeeps
<1>5. used[n] = 0 /\ \A d \in Calls : ~Holds(d, n)
  BY <1>1 DEF Spent, Holds
<1>6. \A n1 \in Tokens : used'[n1] <= 1 /\ (tokens'[n1].st # "dead" => used'[n1] = 0)
  BY <1>1, <1>4 DEF Spent, DeadStay
<1>7. call'[c] = held /\ \A d \in Calls : d # c => call'[d] = call[d]
  BY <1>2 DEF TypeOK
<1>8. \A d \in Calls : d # c => (Holds(d, n)' <=> Holds(d, n))
  BY <1>7 DEF Holds
<1>9. ASSUME NEW d \in Calls, call'[d].kind = "password"
      PROVE  /\ call'[d].token \in Tokens
             /\ tokens'[call'[d].token].st = "dead" /\ used'[call'[d].token] = 0
             /\ \A e \in Calls : (call'[e].kind = "password" /\ call'[e].token = call'[d].token) => e = d
  <2>1. CASE d = c
    BY <2>1, <1>1, <1>3, <1>5, <1>7 DEF Holds
  <2>2. CASE d # c
    <3>1. call'[d] = call[d] /\ call[d].token # n /\ call[d].kind = "password"
      BY <2>2, <1>5, <1>7, <1>9 DEF Holds
    <3>2. /\ call[d].token \in Tokens /\ tokens'[call[d].token].st = "dead" /\ used[call[d].token] = 0
          /\ \A e \in Calls : Holds(e, call[d].token) => e = d
      BY <3>1, <1>4 DEF Spent, DeadStay
    <3> QED BY <3>1, <3>2, <1>1, <1>7 DEF Holds
  <2> QED BY <2>1, <2>2
<1>10. Spent'
  BY <1>6, <1>9 DEF Spent, Holds
<1> QED BY <1>4, <1>10

(* No other call holds the link whose password is set now.                 *)
LEMMA EndsHolding ==
  ASSUME IInv, LinkInv, NEW c \in Calls, PasswordEnds(c)
  PROVE  LinkInv'
<1> USE DEF IInv, LinkInv
<1>1. /\ call[c].kind = "password" /\ call' = [call EXCEPT ![c] = Idle]
      /\ UNCHANGED <<tokens, routed>>
      /\ used' = used \/ used' = [used EXCEPT ![call[c].token] = @ + 1]
  BY DEF PasswordEnds, End
<1>2. PICK n \in Tokens : /\ n = call[c].token /\ tokens[n].st = "dead" /\ used[n] = 0
                          /\ \A d \in Calls : Holds(d, n) => d = c
  BY <1>1 DEF Spent
<1>3. call'[c].kind = "idle" /\ \A d \in Calls : d # c => call'[d] = call[d]
  BY <1>1 DEF TypeOK, Idle
<1>4. used'[n] \in {0, 1} /\ \A m \in Tokens : m # n => used'[m] = used[m]
  BY <1>1, <1>2 DEF TypeOK
<1>5. \A m \in Tokens : used'[m] <= 1 /\ (tokens'[m].st # "dead" => used'[m] = 0)
  BY <1>1, <1>2, <1>4 DEF Spent
<1>6. ASSUME NEW d \in Calls, call'[d].kind = "password"
      PROVE  /\ call'[d].token \in Tokens
             /\ tokens'[call'[d].token].st = "dead" /\ used'[call'[d].token] = 0
             /\ \A e \in Calls : (call'[e].kind = "password" /\ call'[e].token = call'[d].token) => e = d
  <2>1. d # c /\ call'[d] = call[d] /\ call[d].kind = "password"
    BY <1>3, <1>6
  <2>2. call[d].token # n
    BY <1>2, <2>1 DEF Holds
  <2>3. /\ call[d].token \in Tokens /\ tokens[call[d].token].st = "dead" /\ used[call[d].token] = 0
        /\ \A e \in Calls : Holds(e, call[d].token) => e = d
    BY <2>1 DEF Spent
  <2> QED BY <1>1, <1>3, <1>4, <2>1, <2>2, <2>3 DEF Holds
<1>7. Spent'
  BY <1>5, <1>6 DEF Spent, Holds
<1>8. Single'
  BY <1>1 DEF Single
<1> QED BY <1>7, <1>8

(* A step that touches neither links nor what calls hold.                  *)
LEMMA LinksAlone ==
  ASSUME TypeOK, LinkInv, UNCHANGED <<tokens, routed, used>>, NoNewHolder
  PROVE  LinkInv'
<1>1. DeadStay /\ Single'
  BY DEF LinkInv, Single, DeadStay
<1> QED BY <1>1, SpentStays DEF LinkInv

LEMMA LinksStep ==
  ASSUME IInv, LinkInv, Next
  PROVE  LinkInv'
<1> USE DEF IInv
<1>1. CASE Administration
  <2>1. ASSUME NEW c \in Calls,
               \/ \E a \in Users : ManageBegins(c, a)
               \/ ManageRefused(c)
               \/ \E r \in Roles, ps \in PermissionSets : CreateRole(c, r, ps) \/ UpdateRole(c, r, ps)
               \/ \E u \in Users, r \in Roles : Assign(c, u, r)
        PROVE  LinkInv'
    <3>1. UNCHANGED <<tokens, routed, used>> /\ (End(c) \/ \E a \in Users : Begin(c, "manage", a, 0))
      BY <2>1 DEF ManageBegins, ManageRefused, CreateRole, UpdateRole, Assign
    <3> QED BY <3>1, CallsEnd, LinksAlone
  <2>2. ASSUME (\E r \in Roles : DeleteRole(r)) \/ \E u \in Users : DeleteRefused(u)
        PROVE  LinkInv'
    <3>1. UNCHANGED <<tokens, routed, used, call>>
      BY <2>2 DEF DeleteRole, DeleteRefused
    <3>2. NoNewHolder
      BY <3>1 DEF NoNewHolder
    <3> QED BY <3>1, <3>2, LinksAlone
  <2>3. ASSUME NEW u \in Users, NEW n \in Tokens,
               ResendInvite(u, n) \/ \E c \in Calls, r \in Roles : Invite(c, u, r, n)
        PROVE  LinkInv'
    <3>1. Issue(n, u, "invite") /\ used' = used /\ (call' = call \/ \E c \in Calls : End(c))
      BY <2>3 DEF Invite, ResendInvite
    <3>2. Single' /\ DeadStay
      BY <3>1, IssueKeeps DEF LinkInv
    <3>3. NoNewHolder
      BY <3>1, CallsEnd DEF NoNewHolder
    <3> QED BY <3>1, <3>2, <3>3, SpentStays DEF LinkInv
  <2>4. ASSUME NEW u \in Users, DeleteUser(u) \/ DeleteFails(u)
        PROVE  LinkInv'
    <3>1. tokens' = Kill(LinksOf(u)) /\ routed' = routed \ LinksOf(u) /\ UNCHANGED <<call, used>>
      BY <2>4 DEF DeleteUser, DeleteFails
    <3>2. \A n \in Tokens : tokens'[n].st = "live" => n \notin LinksOf(u)
      BY <3>1 DEF Kill, TypeOK, Link
    <3>3. Single' /\ DeadStay
      BY <3>1, <3>2, KillKeeps DEF LinkInv
    <3>4. NoNewHolder
      BY <3>1 DEF NoNewHolder
    <3> QED BY <3>1, <3>3, <3>4, SpentStays DEF LinkInv
  <2> QED BY <1>1, <2>1, <2>2, <2>3, <2>4 DEF Administration
<1>2. CASE Signing
  <2>1. ASSUME NEW c \in Calls, NEW u \in Users, LoginBegins(c, u) \/ LoginEnds(c)
        PROVE  LinkInv'
    <3>1. UNCHANGED <<tokens, routed, used>> /\ (End(c) \/ Begin(c, "login", u, 0))
      BY <2>1 DEF LoginBegins, LoginEnds
    <3> QED BY <3>1, CallsEnd, LinksAlone
  <2>2. ASSUME NEW u \in Users, GoogleSignIn(u) \/ Logout(u) \/ ReplicatedPassword(u)
        PROVE  LinkInv'
    <3>1. UNCHANGED <<tokens, routed, used, call>>
      BY <2>2 DEF GoogleSignIn, Logout, ReplicatedPassword
    <3>2. NoNewHolder
      BY <3>1 DEF NoNewHolder
    <3> QED BY <3>1, <3>2, LinksAlone
  <2>3. ASSUME NEW u \in Users, NEW n \in Tokens, RequestReset(u, n)
        PROVE  LinkInv'
    <3>1. Issue(n, u, "reset") /\ UNCHANGED <<used, call>>
      BY <2>3 DEF RequestReset
    <3>2. Single' /\ DeadStay
      BY <3>1, IssueKeeps DEF LinkInv
    <3>3. NoNewHolder
      BY <3>1 DEF NoNewHolder
    <3> QED BY <3>1, <3>2, <3>3, SpentStays DEF LinkInv
  <2>4. ASSUME NEW n \in Tokens, Expire(n)
        PROVE  LinkInv'
    <3>1. tokens' = Kill({n}) /\ routed' = routed \ {n} /\ UNCHANGED <<call, used>>
      BY <2>4 DEF Expire
    <3>2. \A m \in Tokens : tokens'[m].st = "live" => m # n
      BY <3>1 DEF Kill, TypeOK, Link
    <3>3. Single' /\ DeadStay
      BY <3>1, <3>2, KillKeeps DEF LinkInv
    <3>4. NoNewHolder
      BY <3>1 DEF NoNewHolder
    <3> QED BY <3>1, <3>3, <3>4, SpentStays DEF LinkInv
  <2>5. ASSUME NEW c \in Calls, PasswordEnds(c) \/ \E n \in Tokens : PasswordBegins(c, n)
        PROVE  LinkInv'
    BY <2>5, BeginsHolding, EndsHolding
  <2>6. Users # {}
    BY UserAssumption
  <2> QED BY <1>2, <2>1, <2>2, <2>3, <2>4, <2>5, <2>6 DEF Signing
<1>3. CASE Opening
  <2>1. used' = used /\ (call' = call \/ call' = [d \in Calls |-> Idle])
    BY <1>3 DEF Opening, Evicted, Restart, RestartInConsume, RestartInInvite
  <2>2. NoNewHolder
    <3>1. CASE call' = call
      BY <3>1 DEF NoNewHolder
    <3>2. CASE call' = [d \in Calls |-> Idle]
      BY <3>2 DEF NoNewHolder, Idle
    <3> QED BY <2>1, <3>1, <3>2
  <2>3. Single' /\ DeadStay
    <3>1. CASE Evicted \/ Restart \/ \E n \in Tokens : RestartInConsume(n)
      <4>1. PICK ts : Reopen(ts) /\ (ts = tokens \/ \E n \in Tokens : ts = Kill({n}))
        BY <3>1 DEF Evicted, Restart, RestartInConsume
      <4> QED BY <4>1, ReopenKeeps DEF LinkInv
    <3>2. CASE \E c \in Calls, u \in Users, r \in Roles : RestartInInvite(c, u, r)
      <4>1. tokens' = tokens /\ routed' = {n \in Tokens : tokens[n].st = "live"}
        BY <3>2 DEF RestartInInvite
      <4> QED BY <4>1 DEF LinkInv, Single, DeadStay
    <3> QED BY <1>3, <3>1, <3>2 DEF Opening
  <2> QED BY <2>1, <2>2, <2>3, SpentStays DEF LinkInv
<1> QED BY <1>1, <1>2, <1>3 DEF Next

LEMMA LinksInvariant == Spec => []LinkInv
<1>1. Init => LinkInv
  BY DEF Init, LinkInv, Single, Spent, Holds, Idle
<1>2. ASSUME IInv, LinkInv, [Next]_vars
      PROVE  LinkInv'
  <2>1. CASE UNCHANGED vars
    BY <1>2, <2>1 DEF vars, LinkInv, Single, Spent, Holds
  <2> QED BY <1>2, <2>1, LinksStep
<1> QED BY <1>1, <1>2, Invariant, PTL DEF Spec

(* A link sets one password at most, although its use is awaited between   *)
(* the check and the write; and of the links of a kind a user has one that *)
(* works, which a request can be routed by.                                *)
THEOREM LinksStaySingle == Spec => []LinksAreSingle
<1>1. LinkInv => LinksAreSingle
  BY DEF LinkInv, Single, Spent, LinksAreSingle, UsedOnce, OneLiveLink, LiveLinks
<1> QED BY <1>1, LinksInvariant, PTL
-----------------------------------------------------------------------------
(***************************************************************************)
(* Calendar.  A reading of a clock means the first instant at which the    *)
(* clock has reached it (FirstAt): the searches of the code and of Meaning *)
(* both find it, and it never falls as the reading rises.  So the runs a   *)
(* schedule means come in the order of their dates, NextOccurrence finds   *)
(* the next of them, and PreviewRuns the first few.                        *)
(***************************************************************************)

(* The calendar: days, weeks and the clock of a zone.                      *)
LEMMA DayIs ==
  ASSUME NEW x \in Int
  PROVE  DateOf(x) \in Int /\ DateOf(x) * DayLength <= x /\ x < DateOf(x) * DayLength + DayLength
BY DayAssumption DEF DateOf

LEMMA DaysAreApart ==
  ASSUME NEW d \in Int, NEW e \in Int, d < e
  PROVE  d * DayLength \in Int /\ e * DayLength \in Int /\ d * DayLength + DayLength <= e * DayLength
BY DayAssumption

LEMMA ReachIs == Reach \in Nat /\ 2 * Reach <= 3 * DayLength /\ DayLength \in Nat /\ DayLength > 1
BY DayAssumption DEF Reach

LEMMA RemainderIs ==
  ASSUME NEW x \in Int, NEW q \in Int, NEW r \in 0 .. WeekLength - 1, x = q * WeekLength + r
  PROVE  x % WeekLength = r
<1> DEFINE p == x \div WeekLength
           s == x % WeekLength
<1>1. p \in Int /\ s \in 0 .. WeekLength - 1 /\ x = p * WeekLength + s
  BY DayAssumption
<1>2. \A a, b \in Int : a < b => a * WeekLength \in Int /\ b * WeekLength \in Int /\ a * WeekLength + WeekLength <= b * WeekLength
  BY DayAssumption
<1> HIDE DEF p
<1>3. q * WeekLength \in Int /\ p * WeekLength \in Int
  BY <1>1, DayAssumption
<1>4. p = q
  <2>1. p < q => p * WeekLength + WeekLength <= q * WeekLength
    BY <1>1, <1>2
  <2>2. q < p => q * WeekLength + WeekLength <= p * WeekLength
    BY <1>1, <1>2
  <2> DEFINE pw == p * WeekLength
             qw == q * WeekLength
  <2>3. pw \in Int /\ qw \in Int /\ WeekLength \in Int /\ pw + s = qw + r
    BY <1>1, <1>3, DayAssumption
  <2> HIDE DEF pw, qw, s
  <2>4. ~(pw + WeekLength <= qw) /\ ~(qw + WeekLength <= pw)
    BY <2>3, <1>1
  <2>5. ~(p < q) /\ ~(q < p)
    BY <2>1, <2>2, <2>4 DEF pw, qw
  <2> QED BY <2>5, <1>1
<1> QED BY <1>1, <1>3, <1>4

(* Every day of the week is among the dates of a week, wherever it begins. *)
LEMMA EveryDayComes ==
  ASSUME NEW d \in Int, NEW r \in 0 .. WeekLength - 1
  PROVE  \E i \in 0 .. WeekLength - 1 : (d + i) % WeekLength = r
<1> DEFINE i == (r - d) % WeekLength
           q == (r - d) \div WeekLength
<1>1. i \in 0 .. WeekLength - 1 /\ q \in Int /\ r - d = q * WeekLength + i
  BY DayAssumption
<1>2. d + i \in Int /\ -q \in Int /\ d + i = (-q) * WeekLength + r
  BY <1>1, DayAssumption
<1> HIDE DEF i, q
<1>3. (d + i) % WeekLength = r
  BY <1>2, RemainderIs
<1> QED BY <1>1, <1>3

(* The first instant at which the clock has reached a reading.             *)
FirstAt(z, local) ==
  IF local - z.base < z.at THEN local - z.base
  ELSE IF local - z.base - z.shift >= z.at THEN local - z.base - z.shift ELSE z.at

LEMMA ZoneIs ==
  ASSUME NEW z \in Zones
  PROVE  /\ z.at \in Int /\ z.base \in Int /\ z.shift \in Int
         /\ -Reach <= z.base /\ z.base <= Reach
         /\ -Reach <= z.base + z.shift /\ z.base + z.shift <= Reach
         /\ -DayLength <= z.shift /\ z.shift <= DayLength
         /\ \A t \in Int : /\ WallClock(z, t) \in Int
                           /\ t < z.at => Offset(z, t) = z.base /\ WallClock(z, t) = t + z.base
                           /\ t >= z.at => Offset(z, t) = z.base + z.shift /\ WallClock(z, t) = t + z.base + z.shift
<1>1. /\ z.at \in Int /\ z.base \in Int /\ z.shift \in Int
      /\ z.base \in -Reach .. Reach /\ z.base + z.shift \in -Reach .. Reach
      /\ z.shift \in -DayLength .. DayLength
  BY ZoneAssumption
<1> QED BY <1>1, ReachIs DEF WallClock, Offset

LEMMA FirstReaches ==
  ASSUME NEW z \in Zones, NEW local \in Int
  PROVE  /\ FirstAt(z, local) \in Int /\ WallClock(z, FirstAt(z, local)) >= local
         /\ \A t \in Int : t < FirstAt(z, local) => WallClock(z, t) < local
         /\ (\E t \in Int : WallClock(z, t) = local) => WallClock(z, FirstAt(z, local)) = local
         /\ FirstAt(z, local) >= local - Reach /\ FirstAt(z, local) <= local + Reach
<1>1. FirstAt(z, local) \in Int /\ WallClock(z, FirstAt(z, local)) >= local
  BY ZoneIs DEF FirstAt
<1>2. ASSUME NEW t \in Int, t < FirstAt(z, local) PROVE WallClock(z, t) < local
  BY <1>2, ZoneIs DEF FirstAt
<1>3. ASSUME NEW t \in Int, WallClock(z, t) = local PROVE WallClock(z, FirstAt(z, local)) = local
  BY <1>3, ZoneIs DEF FirstAt
<1>4. FirstAt(z, local) >= local - Reach /\ FirstAt(z, local) <= local + Reach
  BY ZoneIs, ReachIs DEF FirstAt
<1> QED BY <1>1, <1>2, <1>3, <1>4

(* It is known by that.                                                    *)
LEMMA FirstIsUnique ==
  ASSUME NEW z \in Zones, NEW local \in Int, NEW t \in Int,
         WallClock(z, t) >= local, \A u \in Int : u < t => WallClock(z, u) < local
  PROVE  t = FirstAt(z, local)
<1>1. ~(FirstAt(z, local) < t) /\ ~(t < FirstAt(z, local))
  <2>1. /\ FirstAt(z, local) \in Int /\ WallClock(z, FirstAt(z, local)) \in Int /\ WallClock(z, t) \in Int
        /\ WallClock(z, FirstAt(z, local)) >= local
        /\ \A u \in Int : u < FirstAt(z, local) => WallClock(z, u) < local
    BY FirstReaches, ZoneIs
  <2> QED BY <2>1
<1> QED BY <1>1, FirstReaches

(* Later readings are not reached sooner.                                  *)
LEMMA FirstIsMonotone ==
  ASSUME NEW z \in Zones, NEW l \in Int, NEW m \in Int, l <= m
  PROVE  FirstAt(z, l) <= FirstAt(z, m)
<1>1. /\ FirstAt(z, l) \in Int /\ FirstAt(z, m) \in Int /\ WallClock(z, FirstAt(z, m)) \in Int
      /\ WallClock(z, FirstAt(z, m)) >= m
      /\ \A u \in Int : u < FirstAt(z, l) => WallClock(z, u) < l
  BY FirstReaches, ZoneIs
<1> QED BY <1>1
-----------------------------------------------------------------------------
(* The two searches for it: that of the code, and that of Meaning.         *)
HalvedWell(z, local, low, high, pair) ==
  /\ pair[1] \in Int /\ pair[2] \in Int /\ pair = <<pair[1], pair[2]>>
  /\ low <= pair[1] /\ pair[1] < FirstAt(z, local) /\ FirstAt(z, local) <= pair[2] /\ pair[2] <= high

LEMMA HalvedKeeps ==
  ASSUME NEW z \in Zones, NEW local \in Int, NEW low \in Int, NEW high \in Int, NEW pair,
         z.shift >= 0, HalvedWell(z, local, low, high, pair)
  PROVE  LET next == Halved(z, local, pair) IN
           /\ HalvedWell(z, local, low, high, next)
           /\ pair[2] - pair[1] > 1 => next[2] - next[1] < pair[2] - pair[1]
           /\ pair[2] - pair[1] <= 1 => next = pair
<1> DEFINE mid == pair[1] + (pair[2] - pair[1]) \div 2
<1>1. pair[1] \in Int /\ pair[2] \in Int
  BY DEF HalvedWell
<1>2. mid \in Int /\ (pair[2] - pair[1] > 1 => pair[1] < mid /\ mid < pair[2])
  BY <1>1
<1> HIDE DEF mid
<1>3. WallClock(z, mid) >= local <=> FirstAt(z, local) <= mid
  <2>1. /\ FirstAt(z, local) \in Int /\ WallClock(z, FirstAt(z, local)) >= local
        /\ \A u \in Int : u < FirstAt(z, local) => WallClock(z, u) < local
        /\ WallClock(z, mid) \in Int
    BY FirstReaches, ZoneIs, <1>2
  <2>2. FirstAt(z, local) <= mid => WallClock(z, mid) >= local
    BY <1>2, ZoneIs DEF FirstAt
  <2> QED BY <2>1, <2>2, <1>2
<1>4. Halved(z, local, pair) =
        IF pair[2] - pair[1] <= 1 THEN pair
        ELSE IF WallClock(z, mid) >= local THEN <<pair[1], mid>> ELSE <<mid, pair[2]>>
  BY DEF Halved, mid
<1>5. FirstAt(z, local) \in Int
  BY FirstReaches
<1>6. CASE pair[2] - pair[1] <= 1
  BY <1>1, <1>4, <1>6
<1>7. CASE pair[2] - pair[1] > 1 /\ FirstAt(z, local) <= mid
  <2>1. Halved(z, local, pair) = <<pair[1], mid>>
    BY <1>1, <1>3, <1>4, <1>7
  <2> QED BY <2>1, <1>1, <1>2, <1>5, <1>7 DEF HalvedWell
<1>8. CASE pair[2] - pair[1] > 1 /\ ~(FirstAt(z, local) <= mid)
  <2>1. Halved(z, local, pair) = <<mid, pair[2]>>
    BY <1>1, <1>3, <1>4, <1>8
  <2> QED BY <2>1, <1>1, <1>2, <1>5, <1>8 DEF HalvedWell
<1> QED BY <1>1, <1>6, <1>7, <1>8

LEMMA BisectIs ==
  ASSUME NEW z \in Zones, NEW local \in Int, NEW low \in Int, NEW high \in Int,
         z.shift >= 0, low < FirstAt(z, local), FirstAt(z, local) <= high
  PROVE  Bisect(z, local, low, high) = FirstAt(z, local)
<1> DEFINE n == high - low
           W == {pair \in Int \X Int : HalvedWell(z, local, low, high, pair)}
           next(pair) == Halved(z, local, pair)
           base == <<low, high>>
           step == [i \in 1 .. n |-> [pair \in W |-> next(pair)]]
           Eq(f) == f = [i \in 0 .. n |-> IF i = 0 THEN base ELSE next(f[i - 1])]
           g == CHOOSE f : Eq(f)
<1>0. FirstAt(z, local) \in Int
  BY FirstReaches
<1>1. n \in Nat /\ n > 0
  BY <1>0
<1>2. \A pair \in W : next(pair) \in W
  <2> TAKE pair \in W
  <2>1. HalvedWell(z, local, low, high, Halved(z, local, pair))
    BY HalvedKeeps
  <2>2. Halved(z, local, pair) \in Int \X Int
    BY <2>1 DEF HalvedWell
  <2> QED BY <2>1, <2>2
<1>3. step \in [1 .. n -> [W -> W]]
  <2> HIDE DEF W, next, n
  <2> QED BY <1>2
<1>4. base \in W
  BY <1>0 DEF HalvedWell
<1>5. PICK f : Follows(f, W, base, n, step)
  <2> HIDE DEF W, step, n, base
  <2> QED BY <1>1, <1>3, <1>4, StepsExist
<1>6. f \in [0 .. n -> W] /\ f[0] = base /\ \A i \in 1 .. n : f[i] = step[i][f[i - 1]]
  BY <1>5 DEF Follows
<1>7. Eq(f)
  <2> HIDE DEF W, next, n, base
  <2>1. \A k \in 1 .. n : k - 1 \in 0 .. n /\ f[k] = next(f[k - 1])
    <3> TAKE k \in 1 .. n
    <3>1. k - 1 \in 0 .. n
      BY <1>1
    <3> QED BY <3>1, <1>6
  <2> QED BY <2>1, <1>1, <1>6
<1>8. Bisect(z, local, low, high) = g[n][2]
  BY DEF Bisect
<1>9. Eq(g)
  <2> HIDE DEF Eq
  <2> QED BY <1>7
<1>10. g[0] = base /\ \A k \in 1 .. n : k - 1 \in 0 .. n /\ g[k] = next(g[k - 1])
  <2> HIDE DEF g, next, n, base
  <2> QED BY <1>9, <1>1
<1> DEFINE T == {k \in 0 .. n : /\ HalvedWell(z, local, low, high, g[k])
                                /\ g[k][2] - g[k][1] <= 1 \/ g[k][2] - g[k][1] <= n - k}
<1>11. \A k \in 0 .. n : k \in T
  <2> HIDE DEF g
  <2>1. 0 \in T
    BY <1>1, <1>4, <1>10
  <2>2. ASSUME NEW k \in 1 .. n, k - 1 \in T PROVE k \in T
    <3>1. HalvedWell(z, local, low, high, g[k - 1])
      BY <2>2
    <3>2. g[k - 1][2] - g[k - 1][1] <= 1 \/ g[k - 1][2] - g[k - 1][1] <= n - (k - 1)
      BY <2>2
    <3>3. g[k] = Halved(z, local, g[k - 1])
      BY <1>10
    <3>4. /\ HalvedWell(z, local, low, high, g[k])
          /\ g[k - 1][2] - g[k - 1][1] > 1 => g[k][2] - g[k][1] < g[k - 1][2] - g[k - 1][1]
          /\ g[k - 1][2] - g[k - 1][1] <= 1 => g[k] = g[k - 1]
      <4> DEFINE pair == g[k - 1]
      <4> HIDE DEF pair
      <4>1. HalvedWell(z, local, low, high, pair) /\ g[k] = Halved(z, local, pair)
        BY <3>1, <3>3 DEF pair
      <4>2. LET half == Halved(z, local, pair) IN
              /\ HalvedWell(z, local, low, high, half)
              /\ pair[2] - pair[1] > 1 => half[2] - half[1] < pair[2] - pair[1]
              /\ pair[2] - pair[1] <= 1 => half = pair
        BY <4>1, HalvedKeeps
      <4> QED BY <4>1, <4>2 DEF pair
    <3>5. g[k][1] \in Int /\ g[k][2] \in Int /\ g[k - 1][1] \in Int /\ g[k - 1][2] \in Int
      BY <3>1, <3>4 DEF HalvedWell
    <3>6. g[k][2] - g[k][1] <= 1 \/ g[k][2] - g[k][1] <= n - k
      BY <3>2, <3>4, <3>5, <1>1
    <3> QED BY <3>4, <3>6
  <2> HIDE DEF T
  <2> QED BY <2>1, <2>2, <1>1, UpTo
<1>12. HalvedWell(z, local, low, high, g[n]) /\ (g[n][2] - g[n][1] <= 1 \/ g[n][2] - g[n][1] <= n - n)
  <2> HIDE DEF g
  <2> QED BY <1>1, <1>11
<1> HIDE DEF g
<1> QED BY <1>0, <1>1, <1>8, <1>12 DEF HalvedWell

(* resolveLocal finds the first instant that has reached the reading.      *)
LEMMA ResolvesFirst ==
  ASSUME NEW z \in Zones, NEW local \in Int
  PROVE  ResolveLocal(z, local) = FirstAt(z, local)
<1> DEFINE offsets == {Offset(z, t) : t \in {local - Reach, local, local + Reach}}
           hits == {t \in {local - o : o \in offsets} : WallClock(z, t) = local}
<1>1. ResolveLocal(z, local) = IF hits # {} THEN FirstOf(hits)
                               ELSE Bisect(z, local, local - Max(offsets), local - Min(offsets))
  BY DEF ResolveLocal
<1>2. FirstAt(z, local) \in Int
  BY FirstReaches
<1>3. \A o \in offsets : o \in {z.base, z.base + z.shift}
  BY ZoneIs, ReachIs DEF Offset
<1>4. offsets = {Offset(z, local - Reach), Offset(z, local), Offset(z, local + Reach)}
  OBVIOUS
<1> HIDE DEF offsets
<1>5. CASE local - z.base < z.at \/ local - z.base - z.shift >= z.at
  <2>1. WallClock(z, FirstAt(z, local)) = local
    BY <1>5, ZoneIs DEF FirstAt
  <2>2. \E o \in offsets : FirstAt(z, local) = local - o
    <3>1. CASE local - z.base < z.at
      <4>1. Offset(z, local - Reach) = z.base
        BY <3>1, ZoneIs, ReachIs
      <4> QED BY <3>1, <4>1, <1>4 DEF FirstAt
    <3>2. CASE ~(local - z.base < z.at) /\ local - z.base - z.shift >= z.at
      <4>1. Offset(z, local + Reach) = z.base + z.shift
        BY <3>2, ZoneIs, ReachIs
      <4>2. FirstAt(z, local) = local - (z.base + z.shift)
        BY <3>2, ZoneIs DEF FirstAt
      <4> QED BY <4>1, <4>2, <1>4
    <3> QED BY <3>1, <3>2, <1>5
  <2>3. FirstAt(z, local) \in hits
    BY <2>1, <2>2
  <2>4. \A t \in hits : t \in Int /\ FirstAt(z, local) <= t
    <3> TAKE t \in hits
    <3>1. t \in Int /\ WallClock(z, t) = local
      BY <1>3, ZoneIs
    <3>2. t < FirstAt(z, local) => WallClock(z, t) < local
      BY <3>1, FirstReaches
    <3> QED BY <3>1, <3>2, <1>2
  <2> HIDE DEF hits
  <2>5. FirstOf(hits) = FirstAt(z, local)
    <3>1. \A t \in hits : (\A u \in hits : t <= u) => t = FirstAt(z, local)
      BY <2>3, <2>4, <1>2
    <3> QED BY <3>1, <2>3, <2>4 DEF FirstOf, Min
  <2> QED BY <1>1, <2>3, <2>5
<1>6. CASE ~(local - z.base < z.at) /\ ~(local - z.base - z.shift >= z.at)
  <2>1. hits = {}
    <3> SUFFICES ASSUME NEW t \in hits PROVE FALSE
      OBVIOUS
    <3>1. t \in Int /\ WallClock(z, t) = local
      BY <1>3, ZoneIs
    <3> QED BY <3>1, <1>6, ZoneIs
  <2>2. FirstAt(z, local) = z.at /\ z.shift > 0
    BY <1>6, ZoneIs DEF FirstAt
  <2>3. Offset(z, local - Reach) = z.base /\ Offset(z, local + Reach) = z.base + z.shift
    BY <1>6, ZoneIs, ReachIs
  <2>4. offsets = {z.base, z.base + z.shift}
    <3>1. z.base \in offsets /\ z.base + z.shift \in offsets
      BY <2>3, <1>4
    <3> QED BY <3>1, <1>3
  <2>5. Max(offsets) = z.base + z.shift /\ Min(offsets) = z.base
    BY <2>2, <2>4, ZoneIs DEF Max, Min
  <2>6. ResolveLocal(z, local) = Bisect(z, local, local - (z.base + z.shift), local - z.base)
    <3> HIDE DEF hits
    <3> QED BY <1>1, <2>1, <2>5
  <2>7. /\ local - (z.base + z.shift) \in Int /\ local - z.base \in Int
        /\ local - (z.base + z.shift) < FirstAt(z, local) /\ FirstAt(z, local) <= local - z.base
    BY <1>6, <2>2, ZoneIs
  <2>8. z.shift >= 0
    BY <2>2, ZoneIs
  <2> QED BY <2>6, <2>7, <2>8, BisectIs
<1> QED BY <1>5, <1>6

(* And it is what a schedule means.                                        *)
LEMMA MeaningIsFirst ==
  ASSUME NEW z \in Zones, NEW local \in Int
  PROVE  Meaning(z, local) = FirstAt(z, local)
<1> DEFINE around == local - 2 * DayLength .. local + 2 * DayLength
           exact == {t \in around : WallClock(z, t) = local}
           past == {t \in around : WallClock(z, t) >= local}
<1>1. Meaning(z, local) = IF exact # {} THEN Min(exact) ELSE Min(past)
  BY DEF Meaning
<1>2. /\ FirstAt(z, local) \in Int /\ WallClock(z, FirstAt(z, local)) >= local
      /\ \A t \in Int : t < FirstAt(z, local) => WallClock(z, t) < local
      /\ (\E t \in Int : WallClock(z, t) = local) => WallClock(z, FirstAt(z, local)) = local
      /\ FirstAt(z, local) >= local - Reach /\ FirstAt(z, local) <= local + Reach
  BY FirstReaches
<1>3. FirstAt(z, local) \in around
  BY <1>2, ReachIs
<1>4. \A t \in around : t \in Int /\ WallClock(z, t) \in Int
  BY ZoneIs, ReachIs
<1> HIDE DEF around
<1>5. \A t \in past \cup exact : t \in Int /\ FirstAt(z, local) <= t
  BY <1>2, <1>4
<1>6. FirstAt(z, local) \in past /\ (exact # {} => FirstAt(z, local) \in exact)
  BY <1>2, <1>3, <1>4
<1> HIDE DEF past, exact
<1>7. ASSUME NEW S \in {past, exact}, FirstAt(z, local) \in S PROVE Min(S) = FirstAt(z, local)
  <2>1. \A t \in S : (\A u \in S : t <= u) => t = FirstAt(z, local)
    BY <1>2, <1>5, <1>7
  <2>2. \A u \in S : FirstAt(z, local) <= u
    BY <1>5
  <2> QED BY <2>1, <2>2, <1>7 DEF Min
<1> QED BY <1>1, <1>6, <1>7
-----------------------------------------------------------------------------
(* The runs a schedule means, and the next of them.                        *)
Specs ==
  [kind : {"once"}, at : Int] \cup [kind : {"daily"}, time : 0 .. DayLength - 1]
    \cup {s \in [kind : {"weekly"}, days : Seq(0 .. WeekLength - 1), time : 0 .. DayLength - 1] : s.days # << >>}

(* The reading of a clock on a date at which a schedule is due, all of     *)
(* them, and the instants they mean.                                       *)
Reading(spec, date) == date * DayLength + spec.time
Readings(spec) ==
  IF spec.kind = "once" THEN {spec.at} ELSE {Reading(spec, d) : d \in {d \in Int : RunsOn(spec, d)}}
RunsOf(spec, z) == {FirstAt(z, l) : l \in Readings(spec)}

(* t is the next of the instants R after a given one, Null if there is     *)
(* none.                                                                   *)
IsNext(R, after, t) ==
  IF t = Null THEN \A u \in R : u <= after
  ELSE t \in R /\ t > after /\ \A u \in R : u > after => t <= u

(* A reading lies in its date.                                             *)
LEMMA ReadingIs ==
  ASSUME NEW spec \in Specs, spec.kind # "once", NEW d \in Int
  PROVE  /\ Reading(spec, d) \in Int
         /\ d * DayLength <= Reading(spec, d) /\ Reading(spec, d) < d * DayLength + DayLength
         /\ d * DayLength \in Int
<1>1. spec.time \in 0 .. DayLength - 1
  BY DEF Specs
<1> QED BY <1>1, DayAssumption DEF Reading

(* Later dates have later readings.                                        *)
LEMMA ReadingsRise ==
  ASSUME NEW spec \in Specs, spec.kind # "once", NEW d \in Int, NEW e \in Int, d <= e
  PROVE  Reading(spec, d) <= Reading(spec, e)
<1>1. CASE d = e
  BY <1>1, ReadingIs
<1>2. CASE d < e
  <2>1. /\ d * DayLength \in Int /\ e * DayLength \in Int
        /\ d * DayLength + DayLength <= e * DayLength /\ DayLength \in Int
    BY <1>2, DaysAreApart, ReachIs
  <2>2. /\ Reading(spec, d) \in Int /\ Reading(spec, e) \in Int
        /\ e * DayLength <= Reading(spec, e) /\ Reading(spec, d) < d * DayLength + DayLength
    BY ReadingIs
  <2> DEFINE dd == d * DayLength
             ee == e * DayLength
  <2>3. dd \in Int /\ ee \in Int /\ dd + DayLength <= ee /\ ee <= Reading(spec, e) /\ Reading(spec, d) < dd + DayLength
    BY <2>1, <2>2
  <2> HIDE DEF dd, ee
  <2> QED BY <2>2, <2>3, <2>1
<1> QED BY <1>1, <1>2

LEMMA ReadingsAreInt ==
  ASSUME NEW spec \in Specs
  PROVE  Readings(spec) \subseteq Int
<1>1. CASE spec.kind = "once"
  <2>1. spec.at \in Int
    BY <1>1 DEF Specs
  <2> QED BY <1>1, <2>1 DEF Readings
<1>2. CASE spec.kind # "once"
  BY <1>2, ReadingIs DEF Readings
<1> QED BY <1>1, <1>2

LEMMA RunsAreInt ==
  ASSUME NEW spec \in Specs, NEW z \in Zones
  PROVE  RunsOf(spec, z) \subseteq Int
BY ReadingsAreInt, FirstReaches DEF RunsOf

(* A date before that of an instant does not run after it, and one two     *)
(* days later does.                                                        *)
LEMMA BeforeAndAfter ==
  ASSUME NEW spec \in Specs, spec.kind # "once", NEW z \in Zones, NEW after \in Int, NEW d \in Int
  PROVE  /\ d < DateOf(WallClock(z, after)) => FirstAt(z, Reading(spec, d)) <= after
         /\ d >= DateOf(WallClock(z, after)) + 2 => FirstAt(z, Reading(spec, d)) > after
<1> DEFINE wall == WallClock(z, after)
           start == DateOf(wall)
           r == Reading(spec, d)
           ss == start * DayLength
           dd == d * DayLength
<1>1. wall \in Int /\ start \in Int
  BY ZoneIs, DayIs
<1>2. ss \in Int /\ ss <= wall /\ wall < ss + DayLength
  <2> HIDE DEF wall
  <2> QED BY <1>1, DayIs, DayAssumption
<1>3. r \in Int /\ dd \in Int /\ dd <= r /\ r < dd + DayLength
  BY ReadingIs
<1>4. /\ FirstAt(z, r) \in Int /\ \A t \in Int : t < FirstAt(z, r) => WallClock(z, t) < r
  BY <1>3, FirstReaches
<1>5. ASSUME d < start PROVE FirstAt(z, r) <= after
  <2>1. dd + DayLength <= ss
    <3> HIDE DEF start
    <3> QED BY <1>1, <1>5, DaysAreApart
  <2>2. r < wall
    <3> HIDE DEF wall, r, ss, dd
    <3> QED BY <1>1, <1>2, <1>3, <2>1, ReachIs
  <2>3. r \in Int /\ (after < FirstAt(z, r) => wall < r)
    BY <1>3, <1>4
  <2> HIDE DEF r, wall
  <2> QED BY <1>1, <1>4, <2>2, <2>3
<1>6. ASSUME d >= start + 2 PROVE FirstAt(z, r) > after
  <2>1. ss + DayLength + DayLength <= dd
    <3>1. ss + DayLength <= (start + 1) * DayLength /\ (start + 1) * DayLength \in Int
      <4> HIDE DEF start
      <4>1. start < start + 1 /\ start + 1 \in Int
        BY <1>1
      <4> QED BY <1>1, <4>1, DaysAreApart
    <3>2. (start + 1) * DayLength + DayLength <= dd
      <4> HIDE DEF start
      <4>1. start + 1 < d /\ start + 1 \in Int
        BY <1>1, <1>6
      <4> QED BY <1>1, <4>1, DaysAreApart
    <3> DEFINE mm == (start + 1) * DayLength
    <3>3. mm \in Int /\ ss + DayLength <= mm /\ mm + DayLength <= dd
      BY <3>1, <3>2
    <3> HIDE DEF ss, dd, mm
    <3> QED BY <1>2, <1>3, <3>3, ReachIs
  <2>2. wall + DayLength < r
    <3> HIDE DEF wall, r, ss, dd
    <3> QED BY <1>1, <1>2, <1>3, <2>1, ReachIs
  <2> HIDE DEF r, start, ss, dd
  <2>3. after < z.at => wall = after + z.base
    BY ZoneIs
  <2>4. after >= z.at => wall = after + z.base + z.shift
    BY ZoneIs
  <2> HIDE DEF wall
  <2> QED BY <1>1, <1>3, <2>2, <2>3, <2>4, ZoneIs, ReachIs DEF FirstAt
<1> QED BY <1>5, <1>6

LEMMA NextIs ==
  ASSUME NEW spec \in Specs, NEW z \in Zones, NEW after \in Int
  PROVE  /\ IsNext(RunsOf(spec, z), after, NextOccurrence(spec, z, after))
         /\ NextOccurrence(spec, z, after) \in Int \cup {Null}
<1>1. CASE spec.kind = "once"
  <2>1. spec.at \in Int
    BY <1>1 DEF Specs
  <2>2. ResolveLocal(z, spec.at) = FirstAt(z, spec.at) /\ FirstAt(z, spec.at) \in Int
    BY <2>1, ResolvesFirst, FirstReaches
  <2>3. RunsOf(spec, z) = {FirstAt(z, spec.at)}
    BY <1>1 DEF RunsOf, Readings
  <2> QED BY <1>1, <2>2, <2>3, TimeAssumption DEF NextOccurrence, IsNext, IsLater
<1>2. CASE spec.kind # "once"
  <2> DEFINE start == DateOf(WallClock(z, after))
             R == RunsOf(spec, z)
             run == [i \in 0 .. Lookahead |-> ResolveLocal(z, (start + i) * DayLength + spec.time)]
             usable == {i \in 0 .. Lookahead : RunsOn(spec, start + i) /\ IsLater(run[i], after)}
  <2>1. NextOccurrence(spec, z, after) = IF usable = {} THEN Null ELSE run[Min(usable)]
    BY <1>2 DEF NextOccurrence
  <2>2. start \in Int
    BY ZoneIs, DayIs
  <2> HIDE DEF start
  <2>3. Lookahead \in Nat /\ Lookahead = WeekLength + 1 /\ WeekLength \in Nat /\ WeekLength >= 1
    BY DayAssumption DEF Lookahead
  <2>4. \A i \in 0 .. Lookahead : run[i] = FirstAt(z, Reading(spec, start + i)) /\ run[i] \in Int
    <3> TAKE i \in 0 .. Lookahead
    <3>1. start + i \in Int
      BY <2>2, <2>3
    <3>2. Reading(spec, start + i) \in Int
      BY <1>2, <3>1, ReadingIs
    <3>3. ResolveLocal(z, Reading(spec, start + i)) = FirstAt(z, Reading(spec, start + i))
            /\ FirstAt(z, Reading(spec, start + i)) \in Int
      BY <3>2, ResolvesFirst, FirstReaches
    <3> QED BY <3>3 DEF Reading
  <2> HIDE DEF run
  <2>5. PICK j \in 0 .. Lookahead : j >= 2 /\ RunsOn(spec, start + j)
    <3>1. CASE spec.kind # "weekly"
      <4>1. 2 \in 0 .. Lookahead
        BY <2>3
      <4> QED BY <3>1, <4>1 DEF RunsOn
    <3>2. CASE spec.kind = "weekly"
      <4>1. spec.days \in Seq(0 .. WeekLength - 1) /\ spec.days # << >>
        BY <3>2 DEF Specs
      <4>2. 1 \in DOMAIN spec.days /\ spec.days[1] \in 0 .. WeekLength - 1
        <5> DEFINE days == spec.days
                   S == 0 .. WeekLength - 1
        <5>1. days \in Seq(S) /\ days # << >>
          BY <4>1
        <5> HIDE DEF days, S
        <5>2. 1 \in DOMAIN days /\ days[1] \in S
          BY <5>1
        <5> QED BY <5>2 DEF days, S
      <4>3. PICK i \in 0 .. WeekLength - 1 : ((start + 2) + i) % WeekLength = spec.days[1]
        BY <2>2, <4>2, EveryDayComes, start + 2 \in Int
      <4>4. 2 + i \in 0 .. Lookahead /\ start + (2 + i) = (start + 2) + i
        BY <2>2, <2>3
      <4>5. RunsOn(spec, start + (2 + i))
        BY <4>2, <4>3, <4>4 DEF RunsOn
      <4> QED BY <4>4, <4>5
    <3> QED BY <3>1, <3>2
  <2>6. \A i \in 0 .. Lookahead : RunsOn(spec, start + i) => FirstAt(z, Reading(spec, start + i)) \in R
    <3> TAKE i \in 0 .. Lookahead
    <3>1. start + i \in Int
      BY <2>2, <2>3
    <3> QED BY <1>2, <3>1 DEF RunsOf, Readings
  <2>7. j \in usable
    <3>1. start + j \in Int /\ start + j >= start + 2
      BY <2>2, <2>5
    <3>2. FirstAt(z, Reading(spec, start + j)) > after
      BY <1>2, <3>1, BeforeAndAfter DEF start
    <3> QED BY <2>4, <2>5, <3>2 DEF IsLater
  <2>8. PICK k \in usable : \A i \in usable : k <= i
    <3>1. usable \in SUBSET Nat
      BY <2>3
    <3> HIDE DEF usable
    <3> QED BY <2>7, <3>1, LeastNat
  <2>9. Min(usable) = k
    <3>1. \A i \in usable : i \in Int
      BY <2>3
    <3> HIDE DEF usable
    <3>2. \A i \in usable : (\A m \in usable : i <= m) => i = k
      BY <2>8, <3>1
    <3> QED BY <2>8, <3>2 DEF Min
  <2>10. k \in 0 .. Lookahead /\ RunsOn(spec, start + k) /\ run[k] > after /\ run[k] \in R /\ run[k] \in Int
    BY <2>4, <2>6, <2>8 DEF IsLater
  <2>11. \A u \in R : u > after => run[k] <= u
    <3> SUFFICES ASSUME NEW d \in Int, RunsOn(spec, d), FirstAt(z, Reading(spec, d)) > after
                 PROVE run[k] <= FirstAt(z, Reading(spec, d))
      BY <1>2 DEF RunsOf, Readings
    <3>1. d >= start
      <4>1. FirstAt(z, Reading(spec, d)) \in Int
        BY <1>2, ReadingIs, FirstReaches
      <4>2. d < start => FirstAt(z, Reading(spec, d)) <= after
        BY <1>2, BeforeAndAfter DEF start
      <4> QED BY <2>2, <4>1, <4>2
    <3>2. ASSUME NEW i \in usable, start + i <= d PROVE run[k] <= FirstAt(z, Reading(spec, d))
      <4>1. i \in 0 .. Lookahead /\ k <= i
        BY <2>8
      <4>2. start + k \in Int /\ start + k <= d
        BY <2>2, <2>10, <3>2, <4>1
      <4>3. Reading(spec, start + k) <= Reading(spec, d)
        BY <1>2, <4>2, ReadingsRise
      <4>4. Reading(spec, start + k) \in Int /\ Reading(spec, d) \in Int
        BY <1>2, <4>2, ReadingIs
      <4> QED BY <2>4, <2>10, <4>3, <4>4, FirstIsMonotone
    <3>3. CASE d <= start + Lookahead
      <4>1. d - start \in 0 .. Lookahead /\ start + (d - start) = d
        BY <2>2, <2>3, <3>1, <3>3
      <4>2. d - start \in usable
        BY <2>4, <4>1 DEF IsLater
      <4>3. start + (d - start) <= d
        BY <4>1
      <4> HIDE DEF usable
      <4> QED BY <3>2, <4>2, <4>3
    <3>4. CASE ~(d <= start + Lookahead)
      <4>1. start + k <= d
        BY <2>2, <2>3, <2>10, <3>4
      <4> QED BY <3>2, <2>8, <4>1
    <3> QED BY <3>3, <3>4
  <2> HIDE DEF usable, R
  <2>12. NextOccurrence(spec, z, after) = run[k] /\ run[k] # Null
    BY <2>1, <2>8, <2>9, <2>10, TimeAssumption
  <2> QED BY <2>10, <2>11, <2>12 DEF IsNext, R
<1> QED BY <1>1, <1>2
-----------------------------------------------------------------------------
(* The preview: the first n runs after an instant, or all there are.       *)
FirstFew(R, from, n, p) ==
  /\ p \in Seq(Int) /\ Len(p) <= n
  /\ \A i \in DOMAIN p : p[i] \in R /\ p[i] > from
  /\ \A i, j \in DOMAIN p : i < j => p[i] < p[j]
  /\ \A u \in R : u > from =>
       (\E i \in DOMAIN p : p[i] = u) \/ (Len(p) = n /\ \A i \in DOMAIN p : p[i] < u)

LEMMA OneMore ==
  ASSUME NEW R \in SUBSET Int, NEW from \in Int, NEW n \in Nat \ {0}, NEW p, NEW t \in Int \cup {Null},
         FirstFew(R, from, n - 1, p), IsNext(R, IF p = << >> THEN from ELSE Last(p), t)
  PROVE  FirstFew(R, from, n, IF Len(p) < n - 1 \/ t = Null THEN p ELSE Append(p, t))
<1> DEFINE after == IF p = << >> THEN from ELSE Last(p)
           q == Append(p, t)
<1>1. p \in Seq(Int) /\ Len(p) \in Nat /\ DOMAIN p = 1 .. Len(p) /\ Len(p) <= n - 1 /\ (p = << >> <=> Len(p) = 0)
  BY DEF FirstFew
<1>2. after \in Int /\ (p # << >> => Len(p) \in DOMAIN p /\ after = p[Len(p)])
  BY <1>1 DEF Last
<1>3. /\ \A i \in DOMAIN p : p[i] \in Int /\ p[i] \in R /\ p[i] > from /\ p[i] <= after
      /\ after >= from
  <2>1. \A i, j \in DOMAIN p : i < j => p[i] < p[j]
    BY DEF FirstFew
  <2>2. \A i \in DOMAIN p : p[i] \in Int /\ p[i] \in R /\ p[i] > from
    BY <1>1 DEF FirstFew
  <2>3. \A i \in DOMAIN p : p[i] <= after
    BY <1>1, <1>2, <2>1, <2>2
  <2>4. after >= from
    BY <1>1, <1>2, <2>2
  <2> QED BY <2>2, <2>3, <2>4
<1>4. IsNext(R, after, t)
  OBVIOUS
<1> HIDE DEF after
<1>5. \A u \in R : u > from =>
         (\E i \in DOMAIN p : p[i] = u) \/ (Len(p) = n - 1 /\ u > after)
  <2> TAKE u \in R
  <2> HAVE u > from
  <2>1. (\E i \in DOMAIN p : p[i] = u) \/ (Len(p) = n - 1 /\ \A i \in DOMAIN p : p[i] < u)
    BY DEF FirstFew
  <2>2. ASSUME \A i \in DOMAIN p : p[i] < u PROVE u > after
    BY <2>2, <1>1, <1>2, u > from DEF after
  <2> QED BY <2>1, <2>2
<1>9. (\A u \in R : u > from => \E i \in DOMAIN p : p[i] = u) => FirstFew(R, from, n, p)
  <2>1. p \in Seq(Int) /\ Len(p) <= n
    BY <1>1
  <2>2. \A i, j \in DOMAIN p : i < j => p[i] < p[j]
    BY DEF FirstFew
  <2>3. \A i \in DOMAIN p : p[i] \in R /\ p[i] > from
    BY <1>3
  <2>4. ASSUME \A u \in R : u > from => \E i \in DOMAIN p : p[i] = u
        PROVE  \A u \in R : u > from =>
                  (\E i \in DOMAIN p : p[i] = u) \/ (Len(p) = n /\ \A i \in DOMAIN p : p[i] < u)
    BY <2>4
  <2> QED BY <2>1, <2>2, <2>3, <2>4, Zenon DEF FirstFew
<1>6. CASE Len(p) < n - 1
  <2>1. \A u \in R : u > from => \E i \in DOMAIN p : p[i] = u
    BY <1>1, <1>5, <1>6
  <2>2. FirstFew(R, from, n, p)
    BY <1>9, <2>1
  <2> QED BY <1>6, <2>2
<1>7. CASE t = Null
  <2>1. \A u \in R : u > from => \E i \in DOMAIN p : p[i] = u
    <3>1. \A u \in R : u \in Int /\ ~(u > after)
      BY <1>2, <1>4, <1>7 DEF IsNext
    <3> QED BY <1>5, <3>1
  <2>2. FirstFew(R, from, n, p)
    BY <1>9, <2>1
  <2> QED BY <1>7, <2>2
<1>8. CASE ~(Len(p) < n - 1) /\ t # Null
  <2>1. t \in R /\ t \in Int /\ t > after /\ \A u \in R : u > after => t <= u
    BY <1>4, <1>8 DEF IsNext
  <2>2. /\ q \in Seq(Int) /\ Len(q) = Len(p) + 1 /\ DOMAIN q = 1 .. Len(p) + 1
        /\ q[Len(p) + 1] = t /\ \A i \in DOMAIN p : q[i] = p[i]
    BY <1>1, <2>1, AppendProperties
  <2> HIDE DEF q
  <2>3. Len(q) = n /\ Len(p) + 1 = n
    BY <1>1, <1>8, <2>2
  <2>4. \A i \in DOMAIN q : i \in DOMAIN p \/ i = Len(p) + 1
    BY <1>1, <2>2
  <2>5. \A i \in DOMAIN q : q[i] \in R /\ q[i] > from
    <3>1. t > from
      BY <1>2, <1>3, <2>1
    <3> QED BY <1>3, <2>1, <2>2, <2>4, <3>1
  <2>6. \A i, j \in DOMAIN q : i < j => q[i] < q[j]
    <3> TAKE i, j \in DOMAIN q
    <3> HAVE i < j
    <3>1. CASE j \in DOMAIN p
      <4>1. i \in DOMAIN p
        BY <1>1, <2>2, <3>1
      <4>2. p[i] < p[j]
        BY <3>1, <4>1 DEF FirstFew
      <4> QED BY <2>2, <3>1, <4>1, <4>2
    <3>2. CASE j = Len(p) + 1
      <4>1. i \in DOMAIN p
        BY <1>1, <2>2, <3>2
      <4> QED BY <1>2, <1>3, <2>1, <2>2, <3>2, <4>1
    <3> QED BY <2>4, <3>1, <3>2
  <2>7. \A u \in R : u > from =>
          (\E i \in DOMAIN q : q[i] = u) \/ (Len(q) = n /\ \A i \in DOMAIN q : q[i] < u)
    <3> TAKE u \in R
    <3> HAVE u > from
    <3>1. ASSUME NEW i \in DOMAIN p, p[i] = u PROVE i \in DOMAIN q /\ q[i] = u
      BY <1>1, <2>2, <3>1
    <3>2. ASSUME u > after PROVE u = t \/ \A i \in DOMAIN q : q[i] < u
      BY <1>2, <1>3, <2>1, <2>2, <2>4, <3>2
    <3>3. Len(p) + 1 \in DOMAIN q
      BY <1>1, <2>2
    <3> QED BY <1>5, <2>2, <2>3, <3>1, <3>2, <3>3
  <2>8. FirstFew(R, from, n, q)
    BY <2>2, <2>3, <2>5, <2>6, <2>7 DEF FirstFew
  <2> QED BY <1>8, <2>8 DEF q
<1> QED BY <1>6, <1>7, <1>8

(* previewRuns: asking for the next run again and again gives the first    *)
(* few.                                                                    *)
LEMMA PreviewIs ==
  ASSUME NEW spec \in Specs, NEW z \in Zones, NEW from \in Int
  PROVE  FirstFew(RunsOf(spec, z), from, PreviewLength, PreviewRuns(spec, z, from))
<1> DEFINE N == PreviewLength
           R == RunsOf(spec, z)
           W == Seq(Int)
           after(v) == NextOccurrence(spec, z, IF v = << >> THEN from ELSE Last(v))
           next(v, n) == IF Len(v) < n - 1 \/ after(v) = Null THEN v ELSE Append(v, after(v))
           step == [i \in 1 .. N |-> [v \in W |-> next(v, i)]]
           Eq(f) == f = [n \in 0 .. N |-> IF n = 0 THEN << >> ELSE next(f[n - 1], n)]
           g == CHOOSE f : Eq(f)
<1>1. N \in Nat
  BY DEF PreviewLength
<1>2. \A v \in W : /\ (IF v = << >> THEN from ELSE Last(v)) \in Int
                   /\ after(v) \in Int \cup {Null}
                   /\ IsNext(R, IF v = << >> THEN from ELSE Last(v), after(v))
  <2> TAKE v \in W
  <2>1. v # << >> => Last(v) \in Int
    BY DEF Last
  <2> QED BY <2>1, NextIs
<1>3. \A i \in 1 .. N, v \in W : next(v, i) \in W
  <2> TAKE i \in 1 .. N, v \in W
  <2>1. after(v) # Null => after(v) \in Int
    BY <1>2
  <2> HIDE DEF after
  <2>2. after(v) # Null => Append(v, after(v)) \in W
    BY <2>1
  <2> QED BY <2>2
<1> HIDE DEF after
<1>4. step \in [1 .. N -> [W -> W]]
  <2> HIDE DEF W, next, N
  <2> QED BY <1>3
<1>5. << >> \in W
  BY EmptySeq
<1>6. PICK f : Follows(f, W, << >>, N, step)
  <2> HIDE DEF W, step, N
  <2> QED BY <1>1, <1>4, <1>5, StepsExist
<1>7. f \in [0 .. N -> W] /\ f[0] = << >> /\ \A i \in 1 .. N : f[i] = step[i][f[i - 1]]
  BY <1>6 DEF Follows
<1>8. Eq(f)
  <2> HIDE DEF W, next, N
  <2>1. \A k \in 1 .. N : k - 1 \in 0 .. N /\ f[k] = next(f[k - 1], k)
    <3> TAKE k \in 1 .. N
    <3>1. k - 1 \in 0 .. N
      BY <1>1
    <3> QED BY <3>1, <1>7
  <2> QED BY <2>1, <1>1, <1>7
<1>9. PreviewRuns(spec, z, from) = g[N]
  BY DEF PreviewRuns, after
<1>10. Eq(g)
  <2> HIDE DEF Eq
  <2> QED BY <1>8
<1>11. g[0] = << >> /\ \A k \in 1 .. N : k - 1 \in 0 .. N /\ g[k] = next(g[k - 1], k)
  <2> HIDE DEF g, next, N
  <2> QED BY <1>10, <1>1
<1> DEFINE T == {k \in 0 .. N : FirstFew(R, from, k, g[k])}
<1>12. \A k \in 0 .. N : k \in T
  <2>1. 0 \in T
    <3>1. FirstFew(R, from, 0, << >>)
      <4>1. << >> \in Seq(Int) /\ Len(<< >>) = 0 /\ DOMAIN << >> = {}
        OBVIOUS
      <4> HIDE DEF R
      <4> QED BY <4>1 DEF FirstFew
    <3>2. g[0] = << >> /\ 0 \in 0 .. N
      BY <1>1, <1>11
    <3> HIDE DEF g, R, N
    <3> QED BY <3>1, <3>2
  <2>2. ASSUME NEW k \in 1 .. N, k - 1 \in T PROVE k \in T
    <3>1. FirstFew(R, from, k - 1, g[k - 1])
      BY <2>2
    <3>2. g[k - 1] \in W
      BY <3>1 DEF FirstFew
    <3>3. k \in Nat \ {0} /\ R \in SUBSET Int
      BY <1>1, RunsAreInt
    <3> DEFINE p == g[k - 1]
    <3>4. p \in W /\ FirstFew(R, from, k - 1, p) /\ g[k] = next(p, k)
      BY <3>1, <3>2, <1>11
    <3> HIDE DEF p, R
    <3>5. after(p) \in Int \cup {Null} /\ IsNext(R, IF p = << >> THEN from ELSE Last(p), after(p))
      BY <1>2, <3>4
    <3>6. FirstFew(R, from, k, next(p, k))
      BY <3>3, <3>4, <3>5, OneMore
    <3> HIDE DEF next, g
    <3> QED BY <3>4, <3>6
  <2> HIDE DEF T
  <2> QED BY <2>1, <2>2, <1>1, UpTo
<1>13. FirstFew(R, from, N, g[N])
  <2> HIDE DEF g, N, R
  <2> QED BY <1>1, <1>12
<1> HIDE DEF g
<1> QED BY <1>9, <1>13
-----------------------------------------------------------------------------
(* The days of a week, one list in ascending order for every set of them.  *)
Week == 0 .. WeekLength - 1
Rising(r) == \A i, j \in DOMAIN r : i < j => r[i] < r[j]

(* The days below n that occur, in ascending order.                        *)
SpreadTo(times, n, r) ==
  /\ r \in Seq(Week) /\ Rising(r)
  /\ \A i \in DOMAIN r : r[i] < n /\ times[r[i]] = 1
  /\ \A d \in Week : d < n /\ times[d] = 1 => \E i \in DOMAIN r : r[i] = d

LEMMA OneDay ==
  ASSUME NEW d \in Week, NEW k \in {0, 1}, NEW s, s = [i \in 1 .. k |-> d]
  PROVE  s \in Seq(Week) /\ Len(s) = k /\ \A i \in 1 .. k : s[i] = d
<1>1. s \in [1 .. k -> Week] /\ k \in Nat
  OBVIOUS
<1>2. s \in Seq(Week)
  BY <1>1, SeqDef
<1>3. Len(s) \in Nat /\ 1 .. Len(s) = 1 .. k
  BY <1>1, <1>2, LenProperties
<1>4. Len(s) = k
  BY <1>1, <1>3, k = 0 \/ k = 1
<1> QED BY <1>2, <1>4

LEMMA SpreadOneMore ==
  ASSUME NEW times \in [Week -> {0, 1}], NEW n \in 1 .. WeekLength, NEW p, SpreadTo(times, n - 1, p)
  PROVE  SpreadTo(times, n, p \o [i \in 1 .. times[n - 1] |-> n - 1])
<1> DEFINE d == n - 1
           s == [i \in 1 .. times[d] |-> d]
           q == p \o s
<1>1. d \in Week /\ d \in Nat /\ times[d] \in {0, 1} /\ d < n /\ n \in Nat
  BY DayAssumption DEF Week
<1>2. s \in Seq(Week) /\ Len(s) = times[d] /\ \A i \in 1 .. times[d] : s[i] = d
  BY <1>1, OneDay
<1> HIDE DEF s
<1>3. /\ p \in Seq(Week) /\ Rising(p)
      /\ \A i \in DOMAIN p : p[i] < d /\ times[p[i]] = 1
      /\ \A e \in Week : e < d /\ times[e] = 1 => \E i \in DOMAIN p : p[i] = e
  BY DEF SpreadTo
<1>4. Len(p) \in Nat /\ DOMAIN p = 1 .. Len(p) /\ \A i \in DOMAIN p : p[i] \in Week /\ p[i] \in Int
  <2>1. p \in Seq(Week)
    BY <1>3
  <2>2. Len(p) \in Nat /\ DOMAIN p = 1 .. Len(p) /\ \A i \in DOMAIN p : p[i] \in Week
    BY <2>1, LenProperties
  <2>3. \A e \in Week : e \in Int
    BY DEF Week
  <2> QED BY <2>2, <2>3
<1>5. CASE times[d] = 0
  <2>1. s = << >>
    BY <1>2, <1>5, EmptySeq
  <2>2. q = p
    BY <1>3, <2>1, ConcatEmptySeq
  <2>3. \A i \in DOMAIN p : p[i] < n
    BY <1>1, <1>3, <1>4
  <2>4. \A e \in Week : e < n /\ times[e] = 1 => e < d
    BY <1>1, <1>5 DEF Week
  <2>5. SpreadTo(times, n, p)
    BY <1>3, <2>3, <2>4 DEF SpreadTo
  <2> QED BY <2>2, <2>5 DEF s
<1>6. CASE times[d] = 1
  <2>1. /\ q \in Seq(Week) /\ Len(q) = Len(p) + 1
        /\ \A i \in 1 .. Len(p) + 1 : q[i] = IF i <= Len(p) THEN p[i] ELSE s[i - Len(p)]
    BY <1>2, <1>3, <1>6, ConcatProperties
  <2>2. DOMAIN q = 1 .. Len(p) + 1
    BY <2>1, LenProperties
  <2> HIDE DEF q
  <2>3. q[Len(p) + 1] = d /\ Len(p) + 1 \in DOMAIN q
    BY <1>2, <1>4, <1>6, <2>1, <2>2
  <2>4. \A i \in DOMAIN p : i \in DOMAIN q /\ q[i] = p[i]
    BY <1>4, <2>1, <2>2
  <2>5. \A i \in DOMAIN q : i \in DOMAIN p \/ i = Len(p) + 1
    BY <1>4, <2>2
  <2>6. Rising(q)
    <3> SUFFICES ASSUME NEW i \in DOMAIN q, NEW j \in DOMAIN q, i < j PROVE q[i] < q[j]
      BY DEF Rising
    <3>1. i \in DOMAIN p
      BY <1>4, <2>2
    <3>2. CASE j \in DOMAIN p
      BY <1>3, <2>4, <3>1, <3>2 DEF Rising
    <3>3. CASE j = Len(p) + 1
      BY <1>3, <2>3, <2>4, <3>1, <3>3
    <3> QED BY <2>5, <3>2, <3>3
  <2>7. \A i \in DOMAIN q : q[i] < n /\ times[q[i]] = 1
    <3>1. \A i \in DOMAIN p : p[i] < n
      BY <1>1, <1>3, <1>4
    <3> QED BY <1>1, <1>3, <1>6, <2>3, <2>4, <2>5, <3>1
  <2>8. \A e \in Week : e < n /\ times[e] = 1 => \E i \in DOMAIN q : q[i] = e
    <3> TAKE e \in Week
    <3> HAVE e < n /\ times[e] = 1
    <3>1. e < d \/ e = d
      BY <1>1 DEF Week
    <3> QED BY <1>3, <2>3, <2>4, <3>1
  <2>9. SpreadTo(times, n, q)
    BY <2>1, <2>6, <2>7, <2>8 DEF SpreadTo
  <2> QED BY <2>9 DEF q, s
<1> QED BY <1>1, <1>5, <1>6

(* The list of a set of days is ascending and has those days.              *)
LEMMA SpreadIs ==
  ASSUME NEW times \in [Week -> {0, 1}]
  PROVE  SpreadTo(times, WeekLength, Spread(times))
<1> DEFINE N == WeekLength
           W(n) == {r \in Seq(Week) : SpreadTo(times, n, r)}
           All == UNION {W(n) : n \in 0 .. N}
           next(v, n) == v \o [i \in 1 .. times[n - 1] |-> n - 1]
           Eq(f) == f = [n \in 0 .. N |-> IF n = 0 THEN << >> ELSE next(f[n - 1], n)]
           g == CHOOSE f : Eq(f)
           step == [i \in 1 .. N |-> [v \in Seq(Week) |-> next(v, i)]]
<1>1. N \in Nat
  BY DayAssumption
<1>2. \A i \in 1 .. N, v \in Seq(Week) : next(v, i) \in Seq(Week)
  <2> TAKE i \in 1 .. N, v \in Seq(Week)
  <2>1. i - 1 \in Week /\ times[i - 1] \in {0, 1}
    BY DayAssumption DEF Week
  <2>2. [k \in 1 .. times[i - 1] |-> i - 1] \in Seq(Week)
    BY <2>1, OneDay
  <2> QED BY <2>2, ConcatProperties
<1>3. step \in [1 .. N -> [Seq(Week) -> Seq(Week)]]
  <2> HIDE DEF next, N
  <2> QED BY <1>2
<1>4. << >> \in Seq(Week)
  BY EmptySeq
<1>5. PICK f : Follows(f, Seq(Week), << >>, N, step)
  <2> HIDE DEF step, N
  <2> QED BY <1>1, <1>3, <1>4, StepsExist
<1>6. f \in [0 .. N -> Seq(Week)] /\ f[0] = << >> /\ \A i \in 1 .. N : f[i] = step[i][f[i - 1]]
  BY <1>5 DEF Follows
<1>7. Eq(f)
  <2> HIDE DEF next, N
  <2>1. \A k \in 1 .. N : k - 1 \in 0 .. N /\ f[k] = next(f[k - 1], k)
    <3> TAKE k \in 1 .. N
    <3>1. k - 1 \in 0 .. N
      BY <1>1
    <3> QED BY <3>1, <1>6
  <2> QED BY <2>1, <1>1, <1>6
<1>8. Spread(times) = g[N]
  BY DEF Spread
<1>9. Eq(g)
  <2> HIDE DEF Eq
  <2> QED BY <1>7
<1>10. g[0] = << >> /\ \A k \in 1 .. N : k - 1 \in 0 .. N /\ g[k] = next(g[k - 1], k)
  <2> HIDE DEF g, next, N
  <2> QED BY <1>9, <1>1
<1> DEFINE T == {k \in 0 .. N : SpreadTo(times, k, g[k])}
<1>11. \A k \in 0 .. N : k \in T
  <2>1. 0 \in T
    <3>1. SpreadTo(times, 0, << >>)
      <4>1. << >> \in Seq(Week) /\ DOMAIN << >> = {} /\ \A d \in Week : ~(d < 0)
        BY DEF Week
      <4> QED BY <4>1 DEF SpreadTo, Rising
    <3> HIDE DEF g
    <3> QED BY <1>1, <1>10, <3>1
  <2>2. ASSUME NEW k \in 1 .. N, k - 1 \in T PROVE k \in T
    <3>1. SpreadTo(times, k - 1, g[k - 1]) /\ g[k] = next(g[k - 1], k)
      BY <2>2, <1>10
    <3> HIDE DEF g
    <3>2. SpreadTo(times, k, g[k])
      BY <3>1, SpreadOneMore
    <3> QED BY <3>2
  <2> HIDE DEF T
  <2> QED BY <2>1, <2>2, <1>1, UpTo
<1>12. SpreadTo(times, N, g[N])
  <2> HIDE DEF g
  <2> QED BY <1>1, <1>11
<1> HIDE DEF g
<1> QED BY <1>8, <1>12

LEMMA OccurrencesAre ==
  ASSUME NEW days \in Seq(Week), IsInjective(days)
  PROVE  /\ Occurrences(days) \in [Week -> {0, 1}]
         /\ \A d \in Week : Occurrences(days)[d] = 1 <=> \E i \in DOMAIN days : days[i] = d
<1>1. \A d \in Week : /\ Occurrences(days)[d] \in {0, 1}
                      /\ Occurrences(days)[d] = 1 <=> \E i \in DOMAIN days : days[i] = d
  <2> TAKE d \in Week
  <2> DEFINE At == {i \in DOMAIN days : days[i] = d}
  <2>1. Occurrences(days)[d] = Cardinality(At)
    BY DEF Occurrences, Week
  <2>2. CASE At = {}
    BY <2>1, <2>2, FS_EmptySet
  <2>3. CASE At # {}
    <3>1. PICK i \in DOMAIN days : days[i] = d
      BY <2>3
    <3>2. At = {i}
      BY <3>1 DEF IsInjective
    <3> HIDE DEF At
    <3>3. Cardinality(At) = 1
      BY <3>2, FS_Singleton
    <3> QED BY <2>1, <3>1, <3>3
  <2> QED BY <2>2, <2>3
<1>2. Occurrences(days) = [d \in Week |-> Occurrences(days)[d]]
  BY DEF Occurrences, Week
<1> QED BY <1>1, <1>2

(* The sorted list of a draft's days: no day twice, no day lost, and       *)
(* sorting it again changes nothing.                                       *)
LEMMA AscendingIs ==
  ASSUME NEW days \in Seq(Week), IsInjective(days)
  PROVE  /\ Ascending(days) \in Seq(Week) /\ IsInjective(Ascending(days))
         /\ Ascending(days) = << >> => days = << >>
         /\ Ascending(Ascending(days)) = Ascending(days)
<1> DEFINE times == Occurrences(days)
           r == Ascending(days)
<1>1. /\ times \in [Week -> {0, 1}]
      /\ \A d \in Week : times[d] = 1 <=> \E i \in DOMAIN days : days[i] = d
  BY OccurrencesAre
<1>2. SpreadTo(times, WeekLength, r)
  BY <1>1, SpreadIs DEF Ascending
<1>3. r \in Seq(Week) /\ Len(r) \in Nat /\ DOMAIN r = 1 .. Len(r) /\ \A i \in DOMAIN r : r[i] \in Week
  BY <1>2, LenProperties DEF SpreadTo
<1> HIDE DEF r
<1>4. IsInjective(r)
  <2> SUFFICES ASSUME NEW i \in DOMAIN r, NEW j \in DOMAIN r, r[i] = r[j] PROVE i = j
    BY DEF IsInjective
  <2>1. ~(i < j) /\ ~(j < i)
    BY <1>2, <1>3 DEF SpreadTo, Rising, Week
  <2> QED BY <1>3, <2>1
<1>5. \A d \in Week : (\E i \in DOMAIN days : days[i] = d) <=> \E i \in DOMAIN r : r[i] = d
  <2>1. \A d \in Week : d < WeekLength
    BY DayAssumption DEF Week
  <2> QED BY <1>1, <1>2, <1>3, <2>1 DEF SpreadTo
<1>6. r = << >> => days = << >>
  <2> SUFFICES ASSUME days # << >> PROVE r # << >>
    OBVIOUS
  <2>1. 1 \in DOMAIN days /\ days[1] \in Week
    BY EmptySeq, LenProperties
  <2>2. \E i \in DOMAIN r : r[i] = days[1]
    BY <1>5, <2>1
  <2> QED BY <2>2
<1>7. Occurrences(r) = times
  <2>1. /\ Occurrences(r) \in [Week -> {0, 1}]
        /\ \A d \in Week : Occurrences(r)[d] = 1 <=> \E i \in DOMAIN r : r[i] = d
    BY <1>3, <1>4, OccurrencesAre
  <2> HIDE DEF times
  <2>2. \A d \in Week : Occurrences(r)[d] = times[d]
    <3> TAKE d \in Week
    <3>1. Occurrences(r)[d] \in {0, 1} /\ times[d] \in {0, 1}
      BY <1>1, <2>1
    <3>2. Occurrences(r)[d] = 1 <=> times[d] = 1
      BY <1>1, <1>5, <2>1
    <3> QED BY <3>1, <3>2
  <2> QED BY <1>1, <2>1, <2>2
<1>8. Ascending(r) = r
  BY <1>7 DEF Ascending, r
<1> QED BY <1>3, <1>4, <1>6, <1>8 DEF r

(* Switching a day keeps the list free of repetitions.                     *)
LEMMA ToggleKeeps ==
  ASSUME NEW days \in Seq(Week), IsInjective(days), NEW day \in Week
  PROVE  ToggleDay(days, day) \in Seq(Week) /\ IsInjective(ToggleDay(days, day))
<1>0. Len(days) \in Nat /\ DOMAIN days = 1 .. Len(days) /\ \A i \in DOMAIN days : days[i] \in Week
  BY LenProperties
<1>1. CASE \E i \in DOMAIN days : days[i] = day
  <2> DEFINE k == CHOOSE i \in DOMAIN days : days[i] = day
             r == RemoveAt(days, k)
  <2>1. k \in 1 .. Len(days)
    BY <1>0, <1>1
  <2>2. ToggleDay(days, day) = r
    BY <1>1 DEF ToggleDay
  <2> HIDE DEF k
  <2>3. /\ r \in Seq(Week) /\ Len(r) = Len(days) - 1
        /\ \A i \in 1 .. Len(days) - 1 : r[i] = IF i < k THEN days[i] ELSE days[i + 1]
    BY <2>1, RemovedIs
  <2>4. DOMAIN r = 1 .. Len(days) - 1
    BY <2>3, LenProperties
  <2> HIDE DEF r
  <2>6. IsInjective(r)
    <3> SUFFICES ASSUME NEW i \in DOMAIN r, NEW j \in DOMAIN r, r[i] = r[j] PROVE i = j
      BY DEF IsInjective
    <3>1. \A a, b \in 1 .. Len(days) : days[a] = days[b] => a = b
      BY <1>0 DEF IsInjective
    <3> QED BY <1>0, <2>1, <2>3, <2>4, <3>1
  <2> QED BY <2>2, <2>3, <2>6
<1>2. CASE ~ \E i \in DOMAIN days : days[i] = day
  <2>1. ToggleDay(days, day) = Append(days, day)
    BY <1>2 DEF ToggleDay
  <2> DEFINE r == Append(days, day)
  <2>2. /\ r \in Seq(Week) /\ Len(r) = Len(days) + 1 /\ r[Len(days) + 1] = day
        /\ \A i \in 1 .. Len(days) : r[i] = days[i]
    BY AppendProperties
  <2>3. DOMAIN r = 1 .. Len(days) + 1
    BY <2>2, LenProperties
  <2> HIDE DEF r
  <2>4. IsInjective(r)
    <3> SUFFICES ASSUME NEW i \in DOMAIN r, NEW j \in DOMAIN r, r[i] = r[j] PROVE i = j
      BY DEF IsInjective
    <3> QED BY <1>0, <1>2, <2>2, <2>3 DEF IsInjective
  <2> QED BY <2>1, <2>2, <2>4 DEF r
<1> QED BY <1>1, <1>2
-----------------------------------------------------------------------------
(* The draft and the request it makes.                                     *)
Kinds == {"once", "daily", "weekly"}
(* What the editor's fields hold: empty or well formed values, and a list  *)
(* of days without repetition.                                             *)
DraftIsWell(d) ==
  /\ d \in [kind : Kinds, at : Int \cup {Null}, time : 0 .. DayLength - 1 \cup {Null},
            days : Seq(Week), timezone : Zones]
  /\ IsInjective(d.days)

LEMMA DefaultsAre ==
  /\ DefaultTime \in 0 .. DayLength - 1 /\ DefaultDays \in Seq(Week) /\ IsInjective(DefaultDays)
  /\ BrowserTimeZone \in Zones
<1>1. BrowserTimeZone \in Zones
  BY ZoneAssumption DEF BrowserTimeZone, IsValidTimeZone
<1> QED BY <1>1, DraftAssumption DEF Week

(* A request that is made is one the server accepts, and the draft seeded  *)
(* from it makes it again.                                                 *)
BodyIsWell(body) ==
  /\ body.spec \in Specs /\ body.timezone \in Zones
  /\ ServerAccepts(body)
  /\ DraftIsWell(DraftFromSeries(body))
  /\ DraftToBody(DraftFromSeries(body)) = body

LEMMA BodyIs ==
  ASSUME NEW d, DraftIsWell(d), DraftToBody(d) # Null
  PROVE  BodyIsWell(DraftToBody(d))
<1> DEFINE spec == DraftSpec(d)
           zone == d.timezone
           body == [spec |-> spec, timezone |-> zone]
           days == Ascending(d.days)
           seed == DraftFromSeries(body)
           empty == EmptyScheduleDraft(zone)
<1>1. /\ d.kind \in Kinds /\ d.at \in Int \cup {Null} /\ d.time \in 0 .. DayLength - 1 \cup {Null}
      /\ d.days \in Seq(Week) /\ zone \in Zones /\ IsInjective(d.days)
  BY DEF DraftIsWell
<1>2. ScheduleIsValid(spec, zone) /\ DraftToBody(d) = body
  BY DEF DraftToBody
<1>3. /\ days \in Seq(Week) /\ IsInjective(days) /\ Ascending(days) = days
  BY <1>1, AscendingIs
<1>4. empty = [kind |-> "daily", at |-> Null, time |-> DefaultTime, days |-> DefaultDays, timezone |-> zone]
  BY DEF EmptyScheduleDraft
<1>5. body.spec = spec /\ body.timezone = zone
  OBVIOUS
<1> HIDE DEF days, zone
<1>6. seed = [empty EXCEPT !.kind = spec.kind,
                           !.at   = IF spec.kind = "once" THEN spec.at ELSE @,
                           !.time = IF spec.kind = "once" THEN @ ELSE spec.time,
                           !.days = IF spec.kind = "weekly" THEN spec.days ELSE @]
  <2> HIDE DEF spec
  <2> QED BY DEF DraftFromSeries
<1> HIDE DEF empty, seed
<1>7. CASE d.kind = "once"
  <2>1. spec = [kind |-> "once", at |-> d.at]
    BY <1>7 DEF DraftSpec
  <2>2. d.at \in Int
    <3>1. spec.kind = "once" /\ spec.at = d.at
      BY <2>1
    <3>2. d.at # Null
      BY <1>2, <3>1 DEF ScheduleIsValid, ParsesAsLocalDateTime
    <3> QED BY <1>1, <3>2
  <2> HIDE DEF spec
  <2>3. spec \in Specs /\ spec.kind = "once" /\ spec.at = d.at
    BY <2>1, <2>2 DEF Specs
  <2>4. ServerAccepts(body)
    <3>1. DOMAIN spec = {"kind", "at"}
      BY <2>1
    <3> QED BY <1>1, <2>2, <2>3, <3>1, TimeAssumption
            DEF ServerAccepts, SpecAccepted, ServerKnowsZone, IsValidLocalDateTime
  <2>5. seed = [kind |-> "once", at |-> d.at, time |-> DefaultTime, days |-> DefaultDays, timezone |-> zone]
    BY <1>4, <1>6, <2>3
  <2>6. DraftIsWell(seed)
    BY <1>1, <2>2, <2>5, DefaultsAre DEF DraftIsWell, Kinds
  <2>7. DraftSpec(seed) = spec /\ seed.timezone = zone
    BY <2>1, <2>5 DEF DraftSpec
  <2>8. DraftToBody(seed) = body
    BY <1>2, <2>7 DEF DraftToBody
  <2>9. BodyIsWell(body)
    BY <1>1, <1>5, <2>3, <2>4, <2>6, <2>8 DEF BodyIsWell, seed
  <2> QED BY <1>2, <2>9
<1>8. CASE d.kind = "daily"
  <2>1. spec = [kind |-> "daily", time |-> d.time]
    BY <1>8 DEF DraftSpec
  <2>2. d.time # Null /\ d.time \in 0 .. DayLength - 1
    <3>1. spec.kind # "once" /\ spec.time = d.time
      BY <2>1
    <3>2. d.time # Null
      BY <1>2, <3>1 DEF ScheduleIsValid
    <3> QED BY <1>1, <3>2
  <2> HIDE DEF spec
  <2>3. spec \in Specs /\ spec.kind = "daily" /\ spec.time = d.time
    BY <2>1, <2>2 DEF Specs
  <2>4. ServerAccepts(body)
    <3>1. DOMAIN spec = {"kind", "time"}
      BY <2>1
    <3> QED BY <1>1, <2>2, <2>3, <3>1 DEF ServerAccepts, SpecAccepted, ServerKnowsZone
  <2>5. seed = [kind |-> "daily", at |-> Null, time |-> d.time, days |-> DefaultDays, timezone |-> zone]
    BY <1>4, <1>6, <2>3
  <2>6. DraftIsWell(seed)
    BY <1>1, <2>2, <2>5, DefaultsAre DEF DraftIsWell, Kinds
  <2>7. DraftSpec(seed) = spec /\ seed.timezone = zone
    BY <2>1, <2>5 DEF DraftSpec
  <2>8. DraftToBody(seed) = body
    BY <1>2, <2>7 DEF DraftToBody
  <2>9. BodyIsWell(body)
    BY <1>1, <1>5, <2>3, <2>4, <2>6, <2>8 DEF BodyIsWell, seed
  <2> QED BY <1>2, <2>9
<1>9. CASE d.kind = "weekly"
  <2>1. spec = [kind |-> "weekly", days |-> days, time |-> d.time]
    BY <1>9 DEF DraftSpec, days
  <2>2. d.time # Null /\ d.time \in 0 .. DayLength - 1 /\ days # << >>
    <3>1. spec.kind = "weekly" /\ spec.time = d.time /\ spec.days = days
      BY <2>1
    <3>2. d.time # Null /\ days # << >>
      BY <1>2, <3>1 DEF ScheduleIsValid
    <3> QED BY <1>1, <3>2
  <2> HIDE DEF spec
  <2>3. spec.kind = "weekly" /\ spec.time = d.time /\ spec.days = days
    BY <2>1
  <2>4. spec \in Specs
    <3>1. spec \in [kind : {"weekly"}, days : Seq(Week), time : 0 .. DayLength - 1]
      BY <1>3, <2>1, <2>2
    <3> QED BY <2>2, <2>3, <3>1 DEF Specs, Week
  <2>5. ServerAccepts(body)
    <3>1. DOMAIN spec = {"kind", "days", "time"}
      BY <2>1
    <3>2. DaysAccepted(days)
      <4>1. \A i \in DOMAIN days : days[i] \in Week
        BY <1>3, LenProperties
      <4> QED BY <1>3, <2>2, <4>1 DEF DaysAccepted, Week
    <3> QED BY <1>1, <2>2, <2>3, <3>1, <3>2 DEF ServerAccepts, SpecAccepted, ServerKnowsZone
  <2>6. seed = [kind |-> "weekly", at |-> Null, time |-> d.time, days |-> days, timezone |-> zone]
    BY <1>4, <1>6, <2>3
  <2>7. DraftIsWell(seed)
    BY <1>1, <1>3, <2>2, <2>6 DEF DraftIsWell, Kinds
  <2>8. DraftSpec(seed) = spec /\ seed.timezone = zone
    BY <1>3, <2>1, <2>6 DEF DraftSpec
  <2>9. DraftToBody(seed) = body
    BY <1>2, <2>8 DEF DraftToBody
  <2>10. BodyIsWell(body)
    BY <1>1, <1>5, <2>4, <2>5, <2>7, <2>9 DEF BodyIsWell, seed
  <2> QED BY <1>2, <2>10
<1> QED BY <1>1, <1>7, <1>8, <1>9 DEF Kinds

-----------------------------------------------------------------------------
(* The inductive invariant: what was run is what the schedule means up to  *)
(* now, what is armed is the next of it, and the preview the first few.    *)
Runs == RunsOf(series.spec, series.timezone)

(* What a saved schedule promises, at every instant from then on.          *)
SeriesIsWell ==
  series # Null =>
    /\ BodyIsWell(series)
    /\ savedAt \in Int /\ 0 <= savedAt /\ savedAt <= now
    /\ armed \in Int \cup {Null} /\ IsNext(Runs, now, armed)
    /\ ran = Runs \cap (savedAt + 1 .. now)
    /\ FirstFew(Runs, savedAt, PreviewLength, preview)

(* The invariant as a whole.                                               *)
CalendarInv ==
  /\ now \in 0 .. Horizon
  /\ DraftIsWell(draft)
  /\ series = Null => armed = Null
  /\ SeriesIsWell

LEMMA CalendarInitHolds == CalendarInit => CalendarInv
<1> SUFFICES ASSUME CalendarInit PROVE CalendarInv
  OBVIOUS
<1>1. now \in 0 .. Horizon
  <2>1. EditTimes \subseteq Nat /\ EditTimes # {}
    BY TimeAssumption
  <2>2. PICK m \in EditTimes : \A n \in EditTimes : m <= n
    BY <2>1, LeastNat
  <2>3. \A i \in EditTimes : (\A k \in EditTimes : i <= k) => i = m
    BY <2>1, <2>2
  <2>4. Min(EditTimes) = m
    BY <2>2, <2>3 DEF Min
  <2> QED BY <2>2, <2>4, TimeAssumption DEF CalendarInit
<1>2. DraftIsWell(draft)
  BY DefaultsAre DEF CalendarInit, DraftIsWell, EmptyScheduleDraft, Kinds
<1>3. series = Null /\ armed = Null
  BY DEF CalendarInit
<1> QED BY <1>1, <1>2, <1>3 DEF CalendarInv, SeriesIsWell

(* A change to the draft leaves the rest alone.                            *)
LEMMA EditKeeps ==
  ASSUME CalendarInv, NEW next, Edit(next), DraftIsWell(next)
  PROVE  CalendarInv'
<1>1. draft' = next /\ UNCHANGED <<series, preview, savedAt, armed, ran, now>>
  BY DEF Edit
<1>2. SeriesIsWell'
  BY <1>1 DEF CalendarInv, SeriesIsWell, Runs
<1>3. DraftIsWell(draft')
  BY <1>1
<1> QED BY <1>1, <1>2, <1>3 DEF CalendarInv

LEMMA EditsKeep ==
  ASSUME CalendarInv, SetKind \/ SetAt \/ SetTime \/ SetDays \/ SetZone
  PROVE  CalendarInv'
<1>0. /\ draft \in [kind : Kinds, at : Int \cup {Null}, time : 0 .. DayLength - 1 \cup {Null},
                    days : Seq(Week), timezone : Zones]
      /\ IsInjective(draft.days)
  BY DEF CalendarInv, DraftIsWell
<1>1. CASE SetKind
  <2>1. PICK kind \in Kinds : Edit([draft EXCEPT !.kind = kind])
    BY <1>1 DEF SetKind, Kinds
  <2>2. DraftIsWell([draft EXCEPT !.kind = kind])
    BY <1>0 DEF DraftIsWell
  <2> QED BY <2>1, <2>2, EditKeeps
<1>2. CASE SetAt
  <2>1. PICK at \in {date * DayLength + time : date \in Dates, time \in Times} \cup {Null} :
            Edit([draft EXCEPT !.at = at])
    BY <1>2 DEF SetAt
  <2>2. at \in Int \cup {Null}
    <3> SUFFICES ASSUME NEW date \in Dates, NEW time \in Times PROVE date * DayLength + time \in Int
      BY <2>1
    <3>1. date \in Int /\ time \in Int /\ DayLength \in Int
      BY DayAssumption, DraftAssumption
    <3> QED BY <3>1
  <2>3. DraftIsWell([draft EXCEPT !.at = at])
    BY <1>0, <2>2 DEF DraftIsWell
  <2> QED BY <2>1, <2>3, EditKeeps
<1>3. CASE SetTime
  <2>1. PICK time \in Times \cup {Null} : Edit([draft EXCEPT !.time = time])
    BY <1>3 DEF SetTime
  <2>2. time \in 0 .. DayLength - 1 \cup {Null}
    BY <2>1, DraftAssumption
  <2>3. DraftIsWell([draft EXCEPT !.time = time])
    BY <1>0, <2>2 DEF DraftIsWell
  <2> QED BY <2>1, <2>3, EditKeeps
<1>4. CASE SetDays
  <2>1. PICK day \in Week : Edit([draft EXCEPT !.days = ToggleDay(draft.days, day)])
    BY <1>4 DEF SetDays, Week
  <2>2. ToggleDay(draft.days, day) \in Seq(Week) /\ IsInjective(ToggleDay(draft.days, day))
    BY <1>0, ToggleKeeps
  <2>3. DraftIsWell([draft EXCEPT !.days = ToggleDay(draft.days, day)])
    BY <1>0, <2>2 DEF DraftIsWell
  <2> QED BY <2>1, <2>3, EditKeeps
<1>5. CASE SetZone
  <2>1. PICK zone \in Zones : Edit([draft EXCEPT !.timezone = zone])
    BY <1>5 DEF SetZone
  <2>2. DraftIsWell([draft EXCEPT !.timezone = zone])
    BY <1>0 DEF DraftIsWell
  <2> QED BY <2>1, <2>2, EditKeeps
<1> QED BY <1>1, <1>2, <1>3, <1>4, <1>5

(* Saving stores a request made of the draft, arms its next run and shows  *)
(* its first few.                                                          *)
LEMMA SaveKeeps ==
  ASSUME CalendarInv, Save
  PROVE  CalendarInv'
<1> DEFINE body == DraftToBody(draft)
           R == RunsOf(body.spec, body.timezone)
<1>1. /\ body # Null /\ series' = body /\ savedAt' = now /\ ran' = {} /\ now' = now
      /\ preview' = PreviewRuns(body.spec, body.timezone, now)
      /\ armed' = NextOccurrence(body.spec, body.timezone, now)
      /\ draft' = DraftFromSeries(body)
  BY DEF Save
<1>2. BodyIsWell(body)
  BY <1>1, BodyIs DEF CalendarInv
<1>3. body.spec \in Specs /\ body.timezone \in Zones /\ now \in Int /\ 0 <= now /\ now \in 0 .. Horizon
  BY <1>2, TimeAssumption DEF BodyIsWell, CalendarInv
<1> HIDE DEF body
<1>4. Runs' = R
  BY <1>1 DEF Runs
<1>5. armed' \in Int \cup {Null} /\ IsNext(R, now, armed')
  BY <1>1, <1>3, NextIs
<1>6. FirstFew(R, now, PreviewLength, preview')
  BY <1>1, <1>3, PreviewIs
<1>7. ran' = R \cap (now + 1 .. now)
  <2>1. now + 1 .. now = {}
    BY <1>3
  <2> QED BY <1>1, <2>1
<1> HIDE DEF R
<1>8. SeriesIsWell'
  BY <1>1, <1>2, <1>3, <1>4, <1>5, <1>6, <1>7 DEF SeriesIsWell
<1>9. DraftIsWell(draft')
  BY <1>1, <1>2 DEF BodyIsWell
<1> QED BY <1>1, <1>3, <1>8, <1>9 DEF CalendarInv

(* A minute passes: a run is made exactly if one is due.                   *)
LEMMA TickKeeps ==
  ASSUME CalendarInv, Tick
  PROVE  CalendarInv'
<1> DEFINE R == Runs
           from == savedAt + 1
<1>1. /\ now < Horizon /\ now' = now + 1 /\ UNCHANGED <<draft, series, preview, savedAt>>
      /\ armed = now + 1 => ran' = ran \cup {armed} /\ armed' = NextOccurrence(series.spec, series.timezone, armed)
      /\ armed # now + 1 => ran' = ran /\ armed' = armed
  BY DEF Tick
<1>2. now \in Int /\ now \in 0 .. Horizon /\ now' \in 0 .. Horizon /\ Null \notin Int
  BY <1>1, TimeAssumption DEF CalendarInv
<1>3. DraftIsWell(draft')
  BY <1>1 DEF CalendarInv
<1>4. series' = Null => armed' = Null
  <2> HAVE series' = Null
  <2>1. armed = Null
    BY <1>1 DEF CalendarInv
  <2>2. armed # now + 1
    BY <1>2, <2>1
  <2> QED BY <1>1, <2>1, <2>2
<1>5. SeriesIsWell'
  <2> SUFFICES ASSUME series' # Null
               PROVE  /\ BodyIsWell(series') /\ savedAt' \in Int /\ 0 <= savedAt' /\ savedAt' <= now'
                      /\ armed' \in Int \cup {Null} /\ IsNext(Runs', now', armed')
                      /\ ran' = Runs' \cap (savedAt' + 1 .. now')
                      /\ FirstFew(Runs', savedAt', PreviewLength, preview')
    BY DEF SeriesIsWell
  <2>1. /\ BodyIsWell(series) /\ savedAt \in Int /\ 0 <= savedAt /\ savedAt <= now
        /\ armed \in Int \cup {Null} /\ IsNext(R, now, armed)
        /\ ran = R \cap (savedAt + 1 .. now)
        /\ FirstFew(R, savedAt, PreviewLength, preview)
    BY <1>1 DEF CalendarInv, SeriesIsWell
  <2>2. Runs' = R
    BY <1>1 DEF Runs
  <2>3. series.spec \in Specs /\ series.timezone \in Zones
    BY <2>1 DEF BodyIsWell
  <2>4. R \subseteq Int
    BY <2>3, RunsAreInt DEF Runs
  <2>5. \A u \in savedAt + 1 .. now + 1 : u \in savedAt + 1 .. now \/ u = now + 1
    BY <1>2, <2>1
  <2>6. \A u \in savedAt + 1 .. now : u \in savedAt + 1 .. now + 1
    BY <1>2, <2>1
  <2>7. now + 1 \in savedAt + 1 .. now + 1
    BY <1>2, <2>1
  <2> HIDE DEF R
  <2>8. CASE armed = now + 1
    <3>1. armed \in R /\ armed # Null /\ armed \in Int
      BY <1>2, <2>1, <2>8 DEF IsNext
    <3>2. armed' \in Int \cup {Null} /\ IsNext(R, armed, armed')
      BY <1>1, <2>3, <2>8, <3>1, NextIs DEF R, Runs
    <3>3. ran' = R \cap (savedAt + 1 .. now + 1)
      BY <1>1, <2>1, <2>5, <2>6, <2>7, <2>8, <3>1
    <3> QED BY <1>1, <1>2, <2>1, <2>2, <2>8, <3>2, <3>3
  <2>9. CASE armed # now + 1
    <3>1. now + 1 \notin R
      BY <1>2, <2>1, <2>4, <2>9 DEF IsNext
    <3>2. IsNext(R, now + 1, armed)
      BY <1>2, <2>1, <2>4, <2>9 DEF IsNext
    <3>3. ran = R \cap (savedAt + 1 .. now + 1)
      BY <2>1, <2>5, <2>6, <3>1
    <3> QED BY <1>1, <1>2, <2>1, <2>2, <2>9, <3>2, <3>3
  <2> QED BY <2>8, <2>9
<1> QED BY <1>2, <1>3, <1>4, <1>5 DEF CalendarInv

LEMMA CalendarStepKeeps == CalendarInv /\ [CalendarNext]_calendarVars => CalendarInv'
<1> SUFFICES ASSUME CalendarInv, [CalendarNext]_calendarVars PROVE CalendarInv'
  OBVIOUS
<1>1. CASE SetKind \/ SetAt \/ SetTime \/ SetDays \/ SetZone
  BY <1>1, EditsKeep
<1>2. CASE Save
  BY <1>2, SaveKeeps
<1>3. CASE Tick
  BY <1>3, TickKeeps
<1>4. CASE UNCHANGED calendarVars
  BY <1>4 DEF calendarVars, CalendarInv, SeriesIsWell, Runs
<1> QED BY <1>1, <1>2, <1>3, <1>4 DEF CalendarNext

(* The invariant holds, for any zones, lengths of day and week, and        *)
(* horizon: what the hub armed with nextOccurrence is the next run the     *)
(* schedule means, what it ran is every such run since the schedule was    *)
(* saved, and previewRuns showed the first of them.                        *)
THEOREM CalendarInvariance == CalendarSpec => []CalendarInv
<1>1. CalendarInit => CalendarInv
  BY CalendarInitHolds
<1>2. CalendarInv /\ [CalendarNext]_calendarVars => CalendarInv'
  BY CalendarStepKeeps
<1> QED BY <1>1, <1>2, PTL DEF CalendarSpec

(* The dates LocalRuns tries are all that can matter.                      *)
LEMMA DatesSuffice ==
  ASSUME NEW spec \in Specs, spec.kind # "once", NEW z \in Zones, NEW d \in Int,
         FirstAt(z, Reading(spec, d)) \in 0 .. Horizon
  PROVE  d \in -2 .. DateOf(Horizon) + 2
<1> DEFINE r == Reading(spec, d)
           dd == d * DayLength
           last == DateOf(Horizon)
           ll == last * DayLength
           t == FirstAt(z, r)
<1>1. r \in Int /\ dd \in Int /\ dd <= r /\ r < dd + DayLength
  BY ReadingIs
<1>2. t \in Int /\ t >= r - Reach /\ t <= r + Reach
  BY <1>1, FirstReaches
<1>3. last \in Int /\ ll \in Int /\ ll <= Horizon /\ Horizon < ll + DayLength
  <2>1. Horizon \in Int
    BY TimeAssumption
  <2>2. last \in Int /\ ll <= Horizon /\ Horizon < ll + DayLength
    BY <2>1, DayIs
  <2> HIDE DEF last
  <2> QED BY <2>2, DayAssumption
<1>4. t \in 0 .. Horizon /\ Horizon \in Int
  BY TimeAssumption
<1> HIDE DEF r, t, last
<1>5. d >= -2
  <2> SUFFICES ASSUME d < -2 PROVE FALSE
    BY <1>3
  <2>1. dd + DayLength <= (-2) * DayLength
    BY DaysAreApart
  <2>2. (-2) * DayLength = -(2 * DayLength)
    BY DayAssumption
  <2> HIDE DEF dd
  <2> QED BY <1>1, <1>2, <1>4, <2>1, <2>2, ReachIs
<1>6. d <= last + 2
  <2> SUFFICES ASSUME d > last + 2 PROVE FALSE
    BY <1>3
  <2>1. (last + 2) * DayLength + DayLength <= dd
    BY <1>3, DaysAreApart
  <2>2. (last + 2) * DayLength = ll + 2 * DayLength
    BY <1>3, DayAssumption
  <2> HIDE DEF dd, ll
  <2> QED BY <1>1, <1>2, <1>3, <1>4, <2>1, <2>2, ReachIs
<1> QED BY <1>3, <1>5, <1>6 DEF last

(* The runs the properties name by a search over a bounded range of dates  *)
(* are the runs meant, up to the horizon.                                  *)
LEMMA MeantRunsAre ==
  ASSUME NEW spec \in Specs, NEW z \in Zones, NEW S \in SUBSET (0 .. Horizon)
  PROVE  {Meaning(z, local) : local \in LocalRuns(spec)} \cap S = RunsOf(spec, z) \cap S
<1>1. CASE spec.kind = "once"
  <2>1. spec.at \in Int /\ LocalRuns(spec) = {spec.at} /\ Readings(spec) = {spec.at}
    BY <1>1 DEF Specs, LocalRuns, Readings
  <2> QED BY <2>1, MeaningIsFirst DEF RunsOf
<1>2. CASE spec.kind # "once"
  <2> DEFINE D == -2 .. DateOf(Horizon) + 2
  <2>1. LocalRuns(spec) = {Reading(spec, d) : d \in {e \in D : RunsOn(spec, e)}}
    BY <1>2 DEF LocalRuns, Reading
  <2>2. DateOf(Horizon) \in Int
    BY TimeAssumption, DayIs
  <2>3. \A d \in D : d \in Int
    BY <2>2
  <2>4. ASSUME NEW d \in Int PROVE Meaning(z, Reading(spec, d)) = FirstAt(z, Reading(spec, d))
    BY <1>2, ReadingIs, MeaningIsFirst
  <2>5. ASSUME NEW d \in Int, FirstAt(z, Reading(spec, d)) \in S PROVE d \in D
    BY <1>2, <2>5, DatesSuffice
  <2> HIDE DEF D
  <2>6. {Meaning(z, local) : local \in LocalRuns(spec)}
          = {FirstAt(z, Reading(spec, d)) : d \in {e \in D : RunsOn(spec, e)}}
    BY <2>1, <2>3, <2>4
  <2>7. RunsOf(spec, z) = {FirstAt(z, Reading(spec, d)) : d \in {e \in Int : RunsOn(spec, e)}}
    BY <1>2 DEF RunsOf, Readings
  <2> QED BY <2>3, <2>5, <2>6, <2>7
<1> QED BY <1>1, <1>2

(* The instants at which the hub runs a schedule are those the schedule    *)
(* means: none is left out or added where a clock jumps forward or back    *)
(* (resolveLocal, nextOccurrence).                                         *)
THEOREM RunsAreExactHolds == CalendarSpec => []RunsAreExact
<1>1. CalendarInv => RunsAreExact
  <2> SUFFICES ASSUME CalendarInv, series # Null
               PROVE  ran = {Meaning(series.timezone, local) : local \in LocalRuns(series.spec)}
                                \cap (savedAt + 1 .. now)
    BY DEF RunsAreExact
  <2>1. /\ series.spec \in Specs /\ series.timezone \in Zones
        /\ savedAt \in Int /\ 0 <= savedAt /\ ran = Runs \cap (savedAt + 1 .. now)
        /\ now \in 0 .. Horizon
    BY DEF CalendarInv, SeriesIsWell, BodyIsWell
  <2>2. savedAt + 1 .. now \in SUBSET (0 .. Horizon)
    BY <2>1, TimeAssumption
  <2>3. {Meaning(series.timezone, local) : local \in LocalRuns(series.spec)} \cap (savedAt + 1 .. now)
          = RunsOf(series.spec, series.timezone) \cap (savedAt + 1 .. now)
    <3> DEFINE S == savedAt + 1 .. now
               spec == series.spec
               z == series.timezone
    <3>1. S \in SUBSET (0 .. Horizon) /\ spec \in Specs /\ z \in Zones
      BY <2>1, <2>2
    <3> HIDE DEF S, spec, z
    <3>2. {Meaning(z, local) : local \in LocalRuns(spec)} \cap S = RunsOf(spec, z) \cap S
      BY <3>1, MeantRunsAre
    <3> QED BY <3>2 DEF S, spec, z
  <2> QED BY <2>1, <2>3, Zenon DEF Runs
<1> QED BY <1>1, CalendarInvariance, PTL

(* What the editor showed when the schedule was saved (previewRuns) is     *)
(* what the hub ran: in order, no shown run passed over, none made in      *)
(* between.                                                                *)
THEOREM PreviewIsKeptHolds == CalendarSpec => []PreviewIsKept
<1>1. CalendarInv => PreviewIsKept
  <2> SUFFICES ASSUME CalendarInv, series # Null
               PROVE  /\ \A i, j \in DOMAIN preview : i < j => preview[i] < preview[j]
                      /\ \A i \in DOMAIN preview : preview[i] <= now => preview[i] \in ran
                      /\ \A t \in ran \ ToSet(preview) :
                            Len(preview) = PreviewLength /\ \A i \in DOMAIN preview : preview[i] < t
    BY DEF PreviewIsKept
  <2>1. /\ savedAt \in Int /\ now \in Int /\ ran = Runs \cap (savedAt + 1 .. now)
        /\ FirstFew(Runs, savedAt, PreviewLength, preview)
        /\ series.spec \in Specs /\ series.timezone \in Zones
    BY DEF CalendarInv, SeriesIsWell, BodyIsWell
  <2>2. Runs \subseteq Int
    BY <2>1, RunsAreInt DEF Runs
  <2>3. \A i, j \in DOMAIN preview : i < j => preview[i] < preview[j]
    BY <2>1 DEF FirstFew
  <2>4. \A i \in DOMAIN preview : preview[i] \in Runs /\ preview[i] > savedAt /\ preview[i] \in Int
    BY <2>1, <2>2 DEF FirstFew
  <2>5. \A i \in DOMAIN preview : preview[i] <= now => preview[i] \in ran
    BY <2>1, <2>4
  <2>6. \A u \in Runs : u > savedAt =>
           (\E i \in DOMAIN preview : preview[i] = u)
              \/ (Len(preview) = PreviewLength /\ \A i \in DOMAIN preview : preview[i] < u)
    BY <2>1 DEF FirstFew
  <2>7. ASSUME NEW t \in ran \ ToSet(preview)
        PROVE  Len(preview) = PreviewLength /\ \A i \in DOMAIN preview : preview[i] < t
    <3>1. t \in Runs /\ t > savedAt
      BY <2>1
    <3>2. ~ \E i \in DOMAIN preview : preview[i] = t
      BY DEF ToSet
    <3> QED BY <2>6, <3>1, <3>2
  <2> QED BY <2>3, <2>5, <2>7
<1> QED BY <1>1, CalendarInvariance, PTL

(* A draft the editor accepts (validateSchedule, draftToBody) is accepted  *)
(* by the server (REMOTE_SCHEDULE), and the draft seeded from a stored     *)
(* schedule makes that schedule again (draftFromSeries).                   *)
THEOREM RulesAgreeHolds == CalendarSpec => []RulesAgree
<1>1. CalendarInv => RulesAgree
  <2> SUFFICES ASSUME CalendarInv
               PROVE  /\ DraftToBody(draft) # Null =>
                           /\ ServerAccepts(DraftToBody(draft))
                           /\ DraftToBody(DraftFromSeries(DraftToBody(draft))) = DraftToBody(draft)
                      /\ series # Null => DraftToBody(DraftFromSeries(series)) = series
    BY DEF RulesAgree
  <2>1. DraftToBody(draft) # Null => BodyIsWell(DraftToBody(draft))
    BY BodyIs DEF CalendarInv
  <2>2. series # Null => BodyIsWell(series)
    BY DEF CalendarInv, SeriesIsWell
  <2> QED BY <2>1, <2>2 DEF BodyIsWell
<1> QED BY <1>1, CalendarInvariance, PTL
-----------------------------------------------------------------------------
(***************************************************************************)
(* RemotePanel.  As long as a plan has no gaps, its rows are those of a    *)
(* list, and the hub has that list: what renumbers the rows is the same    *)
(* rearrangement as what moves the keys on the hub.                        *)
(***************************************************************************)

(* The rows of a plan without gaps, as a list: order holds their keys and  *)
(* sels their run selection.                                               *)
RowAt(order, sels, i) == [key |-> order[i], order |-> i - 1, sel |-> sels[i]]

RowsOf(order, sels) == {RowAt(order, sels, i) : i \in DOMAIN order}

IsPlan(rows, order, sels) ==
  /\ order \in Seq(Int) /\ IsInjective(order)
  /\ sels \in [DOMAIN order -> BOOLEAN]
  /\ rows = RowsOf(order, sels)

(* Such a plan is listed as it stands.                                     *)
LEMMA ListedIs ==
  ASSUME NEW rows, NEW order, NEW sels, IsPlan(rows, order, sels)
  PROVE  /\ IsFiniteSet(rows) /\ Cardinality(rows) = Len(order)
         /\ Listed(rows) = [i \in 1 .. Len(order) |-> RowAt(order, sels, i)]
         /\ ListedKeys(rows) = order
         /\ KeysOf(rows) = {order[i] : i \in DOMAIN order}
<1> DEFINE n == Len(order)
<1>1. /\ n \in Nat /\ DOMAIN order = 1 .. n /\ order \in [1 .. n -> Int]
      /\ rows = {RowAt(order, sels, i) : i \in 1 .. n}
  BY LenProperties DEF IsPlan, RowsOf
<1> HIDE DEF n
<1>2. \A i \in 1 .. n : /\ RowAt(order, sels, i).key = order[i]
                        /\ RowAt(order, sels, i).order = i - 1
                        /\ RowAt(order, sels, i) \in rows
  BY <1>1 DEF RowAt
<1>3. \A m \in 0 .. n : \A T : T = {RowAt(order, sels, i) : i \in 1 .. m} => IsFiniteSet(T) /\ Cardinality(T) = m
  <2> SUFFICES ASSUME NEW m \in 0 .. n, NEW T, T = {RowAt(order, sels, i) : i \in 1 .. m}
               PROVE  IsFiniteSet(T) /\ Cardinality(T) = m
    OBVIOUS
  <2> DEFINE f == [i \in 1 .. m |-> RowAt(order, sels, i)]
  <2>1. m \in Nat /\ \A i \in 1 .. m : i \in 1 .. n
    BY <1>1
  <2>2. f \in [1 .. m -> T] /\ \A r \in T : \E i \in 1 .. m : f[i] = r
    OBVIOUS
  <2>3. \A i, j \in 1 .. m : f[i] = f[j] => i = j
    <3> TAKE i, j \in 1 .. m
    <3> HAVE f[i] = f[j]
    <3>1. f[i].order = i - 1 /\ f[j].order = j - 1
      BY <1>2, <2>1
    <3> HIDE DEF f
    <3> QED BY <2>1, <3>1
  <2> HIDE DEF f
  <2>4. f \in Bijection(1 .. m, T)
    BY <2>2, <2>3, Fun_IsBij
  <2>5. ExistsBijection(1 .. m, T)
    BY <2>4 DEF ExistsBijection
  <2> QED BY <2>1, <2>5, FS_CountingElements, FS_NatBijection
<1>4. IsFiniteSet(rows) /\ Cardinality(rows) = n
  <2>1. n \in 0 .. n
    BY <1>1
  <2> QED BY <1>1, <1>3, <2>1
<1>5. ASSUME NEW i \in 1 .. n PROVE Cardinality(Before(rows, RowAt(order, sels, i))) = i - 1
  <2> DEFINE r == RowAt(order, sels, i)
             T == {RowAt(order, sels, j) : j \in 1 .. i - 1}
  <2>1. ASSUME NEW j \in 1 .. n
        PROVE  RowAt(order, sels, j) \in Before(rows, r) <=> j < i
    <3> DEFINE q == RowAt(order, sels, j)
    <3>1. q \in rows /\ q.order = j - 1 /\ r.order = i - 1 /\ (j = i => q.key = r.key /\ q.key \in Int)
      BY <1>1, <1>2, <2>1
    <3>2. i \in Nat /\ j \in Nat
      BY <1>1
    <3> HIDE DEF q, r
    <3>3. q \in Before(rows, r) <=> (q.order < r.order \/ (q.order = r.order /\ q.key < r.key))
      BY <3>1 DEF Before
    <3>4. j = i => ~(q.key < r.key)
      BY <3>1
    <3> QED BY <3>1, <3>2, <3>3, <3>4 DEF q
  <2>2. Before(rows, r) \subseteq rows
    BY DEF Before
  <2>3. \A j \in 1 .. i - 1 : j \in 1 .. n /\ j < i
    BY <1>1
  <2>4. \A j \in 1 .. n : j < i => j \in 1 .. i - 1
    BY <1>1
  <2> HIDE DEF r
  <2>5. Before(rows, r) = T
    BY <1>1, <2>1, <2>2, <2>3, <2>4
  <2>6. i - 1 \in 0 .. n
    BY <1>1
  <2> HIDE DEF T
  <2>7. Cardinality(T) = i - 1
    BY <1>3, <2>6 DEF T
  <2> QED BY <2>5, <2>7 DEF r
<1>6. ASSUME NEW i \in 1 .. n
      PROVE  (CHOOSE r \in rows : Cardinality(Before(rows, r)) = i - 1) = RowAt(order, sels, i)
  <2>1. \A r \in rows : Cardinality(Before(rows, r)) = i - 1 => r = RowAt(order, sels, i)
    <3> TAKE r \in rows
    <3> HAVE Cardinality(Before(rows, r)) = i - 1
    <3>1. PICK j \in 1 .. n : r = RowAt(order, sels, j)
      BY <1>1
    <3>2. j - 1 = i - 1
      BY <1>5, <3>1
    <3>3. j = i
      BY <1>1, <3>2
    <3> QED BY <3>1, <3>3
  <2>2. RowAt(order, sels, i) \in rows /\ Cardinality(Before(rows, RowAt(order, sels, i))) = i - 1
    BY <1>2, <1>5
  <2> QED BY <2>1, <2>2
<1>7. Listed(rows) = [i \in 1 .. n |-> RowAt(order, sels, i)]
  BY <1>4, <1>6 DEF Listed
<1>8. ListedKeys(rows) = order
  <2>1. ListedKeys(rows) = [i \in 1 .. n |-> RowAt(order, sels, i).key]
    <3>1. DOMAIN Listed(rows) = 1 .. n /\ \A i \in 1 .. n : Listed(rows)[i] = RowAt(order, sels, i)
      BY <1>7
    <3> QED BY <3>1 DEF ListedKeys
  <2> QED BY <1>1, <1>2, <2>1
<1>9. KeysOf(rows) = {order[i] : i \in DOMAIN order}
  BY <1>1, <1>2 DEF KeysOf
<1> QED BY <1>4, <1>7, <1>8, <1>9 DEF n

-----------------------------------------------------------------------------
(* Taking the element at p out of a list and putting it back elsewhere.    *)
Place(n, to) == Min({to, n - 1}) + 1

(* Where the element at i was before the one at p went to q.               *)
From(p, q, i) == IF i = q THEN p
                 ELSE LET j == IF i < q THEN i ELSE i - 1 IN IF j < p THEN j ELSE j + 1

(* moveRemoteStep on a list: the element at p, taken out, goes to place    *)
(* to.                                                                     *)
Shifted(seq, p, to) ==
  LET rest == RemoveAt(seq, p) IN InsertAt(rest, Min({to, Len(rest)}) + 1, seq[p])

LEMMA InsertedIs ==
  ASSUME NEW S, NEW seq \in Seq(S), NEW q \in 1 .. Len(seq) + 1, NEW e \in S
  PROVE  /\ InsertAt(seq, q, e) \in Seq(S) /\ Len(InsertAt(seq, q, e)) = Len(seq) + 1
         /\ \A i \in 1 .. Len(seq) + 1 :
              InsertAt(seq, q, e)[i] = IF i < q THEN seq[i] ELSE IF i = q THEN e ELSE seq[i - 1]
<1> DEFINE n == Len(seq)
           front == SubSeq(seq, 1, q - 1)
           back == SubSeq(seq, q, n)
           left == front \o <<e>>
           r == left \o back
<1>1. n \in Nat /\ q \in 1 .. n + 1 /\ \A i \in 1 .. n : seq[i] \in S
  BY LenProperties
<1>2. InsertAt(seq, q, e) = r
  BY DEF InsertAt
<1> HIDE DEF n
<1>3. front \in Seq(S) /\ Len(front) = q - 1 /\ \A i \in 1 .. q - 1 : front[i] = seq[i]
  <2>1. /\ \A i \in 1 .. q - 1 : seq[i] \in S
        /\ q - 1 \in Int /\ 1 \in Int /\ (1 <= q - 1 \/ q - 1 = 0)
    BY <1>1
  <2>2. /\ front \in Seq(S) /\ Len(front) = IF 1 <= q - 1 THEN q - 1 - 1 + 1 ELSE 0
        /\ \A i \in 1 .. q - 1 - 1 + 1 : front[i] = seq[1 + i - 1]
    BY <2>1, SubSeqProperties
  <2> HIDE DEF front
  <2> QED BY <2>1, <2>2
<1>4. back \in Seq(S) /\ Len(back) = n - q + 1 /\ \A i \in 1 .. n - q + 1 : back[i] = seq[q + i - 1]
  <2>1. /\ \A i \in q .. n : seq[i] \in S
        /\ q \in Int /\ n \in Int /\ (q <= n \/ q = n + 1)
    BY <1>1
  <2>2. /\ back \in Seq(S) /\ Len(back) = IF q <= n THEN n - q + 1 ELSE 0
        /\ \A i \in 1 .. n - q + 1 : back[i] = seq[q + i - 1]
    BY <2>1, SubSeqProperties
  <2> HIDE DEF back
  <2> QED BY <1>1, <2>1, <2>2
<1> HIDE DEF front, back
<1>5. <<e>> \in Seq(S) /\ Len(<<e>>) = 1 /\ <<e>>[1] = e
  OBVIOUS
<1>6. left \in Seq(S) /\ Len(left) = q /\ \A i \in 1 .. q : left[i] = IF i < q THEN seq[i] ELSE e
  <2>1. /\ left \in Seq(S) /\ Len(left) = (q - 1) + 1
        /\ \A i \in 1 .. (q - 1) + 1 : left[i] = IF i <= q - 1 THEN front[i] ELSE <<e>>[i - (q - 1)]
    BY <1>3, <1>5, ConcatProperties
  <2> HIDE DEF left
  <2>2. (q - 1) + 1 = q
    BY <1>1
  <2>3. ASSUME NEW i \in 1 .. q PROVE left[i] = IF i < q THEN seq[i] ELSE e
    <3>1. left[i] = IF i <= q - 1 THEN front[i] ELSE <<e>>[i - (q - 1)]
      BY <2>1, <2>2
    <3>2. CASE i < q
      BY <1>1, <1>3, <3>1, <3>2
    <3>3. CASE ~(i < q)
      <4>1. ~(i <= q - 1) /\ i - (q - 1) = 1
        BY <1>1, <3>3
      <4> QED BY <1>5, <3>1, <3>3, <4>1
    <3> QED BY <3>2, <3>3
  <2> QED BY <2>1, <2>2, <2>3
<1> HIDE DEF left
<1>7. /\ r \in Seq(S) /\ Len(r) = q + (n - q + 1)
      /\ \A i \in 1 .. q + (n - q + 1) : r[i] = IF i <= q THEN left[i] ELSE back[i - q]
  <2>1. /\ r \in Seq(S) /\ Len(r) = Len(left) + Len(back)
        /\ \A i \in 1 .. Len(left) + Len(back) :
              r[i] = IF i <= Len(left) THEN left[i] ELSE back[i - Len(left)]
    BY <1>4, <1>6, ConcatProperties
  <2> HIDE DEF r
  <2> QED BY <1>4, <1>6, <2>1
<1> HIDE DEF r
<1>8. q + (n - q + 1) = n + 1
  BY <1>1
<1>9. ASSUME NEW i \in 1 .. n + 1
      PROVE  r[i] = IF i < q THEN seq[i] ELSE IF i = q THEN e ELSE seq[i - 1]
  <2>1. r[i] = IF i <= q THEN left[i] ELSE back[i - q]
    BY <1>7, <1>8
  <2>2. CASE i <= q
    <3>1. i \in 1 .. q /\ (i < q \/ i = q) /\ ~(q < q)
      BY <1>1, <2>2
    <3> QED BY <1>6, <2>1, <2>2, <3>1
  <2>3. CASE ~(i <= q)
    <3>1. i - q \in 1 .. n - q + 1 /\ q + (i - q) - 1 = i - 1 /\ ~(i < q) /\ i # q
      BY <1>1, <2>3
    <3> QED BY <1>4, <2>1, <2>3, <3>1
  <2> QED BY <2>2, <2>3
<1> QED BY <1>2, <1>7, <1>8, <1>9 DEF n

LEMMA MinOfTwo ==
  ASSUME NEW a \in Int, NEW b \in Int
  PROVE  Min({a, b}) = IF a <= b THEN a ELSE b
<1> DEFINE m == IF a <= b THEN a ELSE b
<1>1. m \in {a, b} /\ \A x \in {a, b} : m <= x /\ ((\A y \in {a, b} : x <= y) => x = m)
  OBVIOUS
<1> HIDE DEF m
<1>2. Min({a, b}) = m
  BY <1>1 DEF Min
<1> QED BY <1>2 DEF m

LEMMA ShiftedIs ==
  ASSUME NEW S, NEW seq \in Seq(S), NEW p \in 1 .. Len(seq), NEW to \in Nat
  PROVE  LET q == Place(Len(seq), to) IN
           /\ q \in 1 .. Len(seq)
           /\ \A i \in 1 .. Len(seq) : From(p, q, i) \in 1 .. Len(seq)
           /\ Shifted(seq, p, to) \in Seq(S) /\ Len(Shifted(seq, p, to)) = Len(seq)
           /\ \A i \in 1 .. Len(seq) : Shifted(seq, p, to)[i] = seq[From(p, q, i)]
<1> DEFINE n == Len(seq)
           q == Place(n, to)
           rest == RemoveAt(seq, p)
           r == Shifted(seq, p, to)
<1>1. n \in Nat /\ p \in 1 .. n /\ seq[p] \in S
  BY LenProperties
<1>2. /\ rest \in Seq(S) /\ Len(rest) = n - 1
      /\ \A i \in 1 .. n - 1 : rest[i] = IF i < p THEN seq[i] ELSE seq[i + 1]
  BY RemovedIs
<1> HIDE DEF n
<1>3. q \in 1 .. n
  <2>1. Min({to, n - 1}) = IF to <= n - 1 THEN to ELSE n - 1
    BY <1>1, MinOfTwo
  <2> QED BY <1>1, <2>1 DEF Place
<1>4. r = InsertAt(rest, q, seq[p])
  BY <1>2 DEF Shifted, Place
<1> HIDE DEF q, rest, r
<1>5. (n - 1) + 1 = n
  BY <1>1
<1>6. /\ r \in Seq(S) /\ Len(r) = n
      /\ \A i \in 1 .. n : r[i] = IF i < q THEN rest[i] ELSE IF i = q THEN seq[p] ELSE rest[i - 1]
  <2>1. q \in 1 .. Len(rest) + 1 /\ Len(rest) + 1 = n
    BY <1>2, <1>3, <1>5
  <2> DEFINE e == seq[p]
             ins == InsertAt(rest, q, e)
  <2>2. /\ ins \in Seq(S) /\ Len(ins) = Len(rest) + 1
        /\ \A i \in 1 .. Len(rest) + 1 :
              ins[i] = IF i < q THEN rest[i] ELSE IF i = q THEN e ELSE rest[i - 1]
    <3>1. e \in S /\ rest \in Seq(S)
      BY <1>1, <1>2
    <3> HIDE DEF e
    <3> QED BY <3>1, <2>1, InsertedIs
  <2> HIDE DEF ins
  <2>3. r = ins
    BY <1>4 DEF ins
  <2> QED BY <2>1, <2>2, <2>3
<1>7. ASSUME NEW i \in 1 .. n PROVE From(p, q, i) \in 1 .. n /\ r[i] = seq[From(p, q, i)]
  <2>1. CASE i = q
    <3>1. ~(i < q)
      BY <1>3, <2>1
    <3> QED BY <1>1, <1>6, <2>1, <3>1 DEF From
  <2>2. CASE i < q
    <3>1. i \in 1 .. n - 1 /\ i # q
      BY <1>1, <1>3, <2>2
    <3>2. r[i] = IF i < p THEN seq[i] ELSE seq[i + 1]
      BY <1>2, <1>6, <2>2, <3>1
    <3>3. From(p, q, i) = IF i < p THEN i ELSE i + 1
      BY <2>2, <3>1 DEF From
    <3> QED BY <1>1, <3>1, <3>2, <3>3
  <2>3. CASE ~(i < q) /\ i # q
    <3>1. i - 1 \in 1 .. n - 1 /\ i - 1 + 1 = i
      BY <1>1, <1>3, <2>3
    <3>2. r[i] = IF i - 1 < p THEN seq[i - 1] ELSE seq[i - 1 + 1]
      BY <1>2, <1>6, <2>3, <3>1
    <3>3. From(p, q, i) = IF i - 1 < p THEN i - 1 ELSE i - 1 + 1
      BY <2>3 DEF From
    <3> QED BY <1>1, <3>1, <3>2, <3>3
  <2> QED BY <2>1, <2>2, <2>3
<1> QED BY <1>3, <1>6, <1>7 DEF n, q, r

(* It is a rearrangement.                                                  *)
LEMMA FromIsInjective ==
  ASSUME NEW n \in Nat, NEW p \in 1 .. n, NEW q \in 1 .. n, NEW i \in 1 .. n, NEW j \in 1 .. n,
         From(p, q, i) = From(p, q, j)
  PROVE  i = j
BY DEF From
-----------------------------------------------------------------------------
(* The inductive invariant: a plan without gaps is the list its hub has.   *)
PlansFollow ==
  /\ plan = [w \in Workflows |-> plan[w]]
  /\ hub = [w \in Workflows |-> hub[w]]
  /\ \A w \in Workflows \ unsure : \E sels : IsPlan(plan[w], hub[w], sels)

(* A request names keys and places, as the panel makes them.               *)
WriteIsWell(x) ==
  /\ x.op \in {"add", "remove", "move", "select", "start"}
  /\ x.op = "add" => x.key \in Int
  /\ x.op = "move" => x.to \in Nat

(* The invariant as a whole.                                               *)
PanelInv ==
  /\ PlansFollow
  /\ \E S : writes \in Seq(S) /\ \A x \in S : WriteIsWell(x)

(* A change of one plan keeps the invariant if the new plan, unless in     *)
(* doubt, follows the hub's list.                                          *)
LEMMA SetPlanKeeps ==
  ASSUME PlansFollow, NEW w, NEW rows, NEW order, NEW doubt \in BOOLEAN,
         SetPlan(w, rows, order, doubt),
         w \in Workflows \ unsure /\ ~doubt => \E sels : IsPlan(rows, order, sels)
  PROVE  PlansFollow'
<1>1. /\ plan' = [plan EXCEPT ![w] = rows]
      /\ hub' = [hub EXCEPT ![w] = order]
      /\ unsure' = IF doubt THEN unsure \cup {w} ELSE unsure
  BY DEF SetPlan
<1>2. plan = [v \in Workflows |-> plan[v]] /\ hub = [v \in Workflows |-> hub[v]]
  BY DEF PlansFollow
<1>3. \A v \in Workflows : /\ plan'[v] = IF v = w THEN rows ELSE plan[v]
                           /\ hub'[v] = IF v = w THEN order ELSE hub[v]
  BY <1>1, <1>2
<1>4. plan' = [v \in Workflows |-> plan'[v]] /\ hub' = [v \in Workflows |-> hub'[v]]
  BY <1>1, <1>2
<1>5. ASSUME NEW v \in Workflows \ unsure' PROVE \E sels : IsPlan(plan'[v], hub'[v], sels)
  <2>1. v \in Workflows \ unsure /\ (v = w => ~doubt)
    BY <1>1, <1>5
  <2>2. CASE v = w
    BY <1>3, <2>1, <2>2
  <2>3. CASE v # w
    BY <1>3, <2>1, <2>3 DEF PlansFollow
  <2> QED BY <2>2, <2>3
<1> QED BY <1>4, <1>5 DEF PlansFollow

(* A new key goes to the end.                                              *)
LEMMA UpsertedIs ==
  ASSUME NEW rows, NEW order, NEW sels, IsPlan(rows, order, sels), NEW k \in Int, k \notin KeysOf(rows)
  PROVE  \E more : IsPlan(Upserted(rows, k), Append(order, k), more)
<1> DEFINE n == Len(order)
           long == Append(order, k)
           more == [i \in 1 .. n + 1 |-> IF i = n + 1 THEN TRUE ELSE sels[i]]
           row == [key |-> k, order |-> n, sel |-> TRUE]
<1>1. /\ n \in Nat /\ DOMAIN order = 1 .. n /\ order \in Seq(Int)
      /\ IsInjective(order) /\ sels \in [1 .. n -> BOOLEAN]
      /\ rows = {RowAt(order, sels, i) : i \in 1 .. n}
  BY LenProperties DEF IsPlan, RowsOf
<1>2. Cardinality(rows) = n /\ \A i \in 1 .. n : order[i] # k
  BY <1>1, ListedIs
<1>3. \A r \in rows : r.key # k
  BY DEF KeysOf
<1>4. Upserted(rows, k) = rows \cup {row}
  <2>1. {r \in rows : r.key # k} = rows
    BY <1>3
  <2>2. (\A r \in rows : r.key = k => r.sel) = TRUE
    BY <1>3
  <2> QED BY <1>2, <2>1, <2>2 DEF Upserted
<1>5. /\ long \in Seq(Int) /\ Len(long) = n + 1 /\ long[n + 1] = k
      /\ \A i \in 1 .. n : long[i] = order[i]
  BY <1>1, AppendProperties
<1>6. DOMAIN long = 1 .. n + 1
  BY <1>5, LenProperties
<1> HIDE DEF n, long
<1>7. \A i \in 1 .. n + 1 : i \in 1 .. n \/ i = n + 1
  BY <1>1
<1>8. \A i \in 1 .. n : i \in 1 .. n + 1 /\ i # n + 1
  BY <1>1
<1>9. IsInjective(long)
  <2> SUFFICES ASSUME NEW i \in 1 .. n + 1, NEW j \in 1 .. n + 1, long[i] = long[j] PROVE i = j
    BY <1>6 DEF IsInjective
  <2> QED BY <1>1, <1>2, <1>5, <1>7 DEF IsInjective
<1>10. more \in [1 .. n + 1 -> BOOLEAN]
  BY <1>1, <1>7
<1>11. n + 1 \in 1 .. n + 1 /\ n + 1 - 1 = n
  BY <1>1
<1>12. RowAt(long, more, n + 1) = row
  <2>1. \A j : RowAt(long, more, j) = [key |-> long[j], order |-> j - 1, sel |-> more[j]]
    BY DEF RowAt
  <2>2. more[n + 1] = TRUE
    BY <1>11
  <2> HIDE DEF more
  <2>3. [key |-> k, order |-> n, sel |-> more[n + 1]] = row
    BY <2>2, Zenon
  <2> HIDE DEF row
  <2>4. RowAt(long, more, n + 1) = [key |-> k, order |-> n, sel |-> more[n + 1]]
    BY <1>1, <1>5, <1>11, <2>1
  <2> QED BY <2>3, <2>4
<1>13. \A i \in 1 .. n : RowAt(long, more, i) = RowAt(order, sels, i)
  BY <1>5, <1>8 DEF RowAt
<1> HIDE DEF row, more
<1>14. rows \cup {row} = {RowAt(long, more, i) : i \in 1 .. n + 1}
  BY <1>1, <1>7, <1>8, <1>11, <1>12, <1>13
<1>15. IsPlan(rows \cup {row}, long, more)
  BY <1>5, <1>6, <1>9, <1>10, <1>14 DEF IsPlan, RowsOf
<1> QED BY <1>4, <1>15 DEF long

LEMMA AddKeeps ==
  ASSUME PlansFollow, NEW w, NEW k \in Int, Add(w, k)
  PROVE  PlansFollow'
<1> DEFINE doubt == k \in KeysOf(plan[w])
<1>1. SetPlan(w, Upserted(plan[w], k), Append(Without(hub[w], k), k), doubt)
  BY DEF Add
<1>2. ASSUME w \in Workflows \ unsure, ~doubt
      PROVE  \E sels : IsPlan(Upserted(plan[w], k), Append(Without(hub[w], k), k), sels)
  <2>1. PICK sels : IsPlan(plan[w], hub[w], sels)
    BY <1>2 DEF PlansFollow
  <2>2. KeysOf(plan[w]) = {hub[w][i] : i \in DOMAIN hub[w]}
    BY <2>1, ListedIs
  <2>3. Without(hub[w], k) = hub[w]
    BY <1>2, <2>2 DEF Without
  <2> QED BY <1>2, <2>1, <2>3, UpsertedIs
<1>3. doubt \in BOOLEAN
  OBVIOUS
<1> HIDE DEF doubt
<1> QED BY <1>1, <1>2, <1>3, SetPlanKeeps

LEMMA DropKeeps ==
  ASSUME PlansFollow, NEW w, NEW k, Drop(w, k)
  PROVE  PlansFollow'
BY SetPlanKeeps DEF Drop

(* A choice of steps to run leaves keys and order alone.                   *)
LEMMA SelectKeeps ==
  ASSUME PlansFollow, NEW w, NEW keys, SelectRuns(w, keys)
  PROVE  PlansFollow'
<1>1. ASSUME w \in Workflows \ unsure
      PROVE  \E sels : IsPlan(RunSelected(plan[w], keys), hub[w], sels)
  <2> DEFINE rows == plan[w]
             order == hub[w]
             chosen == [i \in DOMAIN order |-> order[i] \in keys]
  <2>1. PICK sels : IsPlan(rows, order, sels)
    BY <1>1 DEF PlansFollow
  <2> HIDE DEF rows, order
  <2>2. \A i \in DOMAIN order :
          [RowAt(order, sels, i) EXCEPT !.sel = RowAt(order, sels, i).key \in keys] = RowAt(order, chosen, i)
    BY DEF RowAt
  <2>3. rows = {RowAt(order, sels, i) : i \in DOMAIN order}
    BY <2>1 DEF IsPlan, RowsOf
  <2>4. RunSelected(rows, keys) = {RowAt(order, chosen, i) : i \in DOMAIN order}
    <3> HIDE DEF chosen
    <3> QED BY <2>2, <2>3 DEF RunSelected
  <2>5. chosen \in [DOMAIN order -> BOOLEAN]
    OBVIOUS
  <2> HIDE DEF chosen
  <2>6. IsPlan(RunSelected(rows, keys), order, chosen)
    BY <2>1, <2>4, <2>5 DEF IsPlan, RowsOf
  <2> QED BY <2>6 DEF rows, order
<1>2. SetPlan(w, RunSelected(plan[w], keys), hub[w], FALSE)
  BY DEF SelectRuns
<1> QED BY <1>1, <1>2, SetPlanKeeps

(* The rows that are renumbered are the keys the hub has moved.            *)
LEMMA MovedIs ==
  ASSUME NEW rows, NEW order, NEW sels, IsPlan(rows, order, sels),
         NEW k \in KeysOf(rows), NEW to \in Nat
  PROVE  \E moved : IsPlan(Moved(rows, k, to), Inserted(order, k, to), moved)
<1> DEFINE n == Len(order)
           steps == Listed(rows)
           at == CHOOSE i \in DOMAIN steps : steps[i].key = k
           p == CHOOSE i \in DOMAIN order : order[i] = k
           q == Place(n, to)
           Bools == [key : Int, order : Int, sel : BOOLEAN]
           list == Shifted(steps, p, to)
           keys == Shifted(order, p, to)
           more == [i \in 1 .. n |-> sels[From(p, q, i)]]
<1>1. /\ n \in Nat /\ DOMAIN order = 1 .. n /\ order \in Seq(Int) /\ order \in [1 .. n -> Int]
      /\ IsInjective(order) /\ sels \in [1 .. n -> BOOLEAN]
  BY LenProperties DEF IsPlan
<1>2. steps = [i \in 1 .. n |-> RowAt(order, sels, i)] /\ \E i \in DOMAIN order : order[i] = k
  BY ListedIs
<1> HIDE DEF n, steps
<1>3. \A i \in 1 .. n : /\ steps[i] = RowAt(order, sels, i) /\ steps[i].key = order[i]
                        /\ steps[i] \in Bools
  BY <1>1, <1>2 DEF RowAt
<1>4. p \in 1 .. n /\ order[p] = k /\ \A i \in 1 .. n : order[i] = k => i = p
  <2>1. p \in DOMAIN order /\ order[p] = k
    BY <1>2
  <2> HIDE DEF p
  <2> QED BY <1>1, <2>1 DEF IsInjective
<1>5. DOMAIN steps = 1 .. n /\ steps \in Seq(Bools) /\ Len(steps) = n
  <2>1. steps \in [1 .. n -> Bools]
    <3> HIDE DEF Bools
    <3> QED BY <1>2, <1>3
  <2>2. steps \in Seq(Bools)
    <3> HIDE DEF Bools
    <3> QED BY <1>1, <2>1, SeqDef
  <2>3. Len(steps) \in Nat /\ 1 .. Len(steps) = 1 .. n
    BY <2>1, <2>2, LenProperties
  <2>4. Len(steps) = n
    BY <1>1, <2>3
  <2> QED BY <2>1, <2>2, <2>4
<1>6. at = p
  <2>1. at \in DOMAIN steps /\ steps[at].key = k
    BY <1>3, <1>4, <1>5
  <2> HIDE DEF at, p
  <2> QED BY <1>3, <1>4, <1>5, <2>1
<1> HIDE DEF p, at, Bools
<1>7. Moved(rows, k, to) = {[list[i] EXCEPT !.order = i - 1] : i \in DOMAIN list}
  BY <1>6 DEF Moved, Shifted, steps, at
<1>8. Inserted(order, k, to) = keys
  BY <1>2, <1>4 DEF Inserted, Without, Shifted, p
<1>9. /\ q \in 1 .. n /\ (\A i \in 1 .. n : From(p, q, i) \in 1 .. n)
      /\ keys \in Seq(Int) /\ Len(keys) = n
      /\ \A i \in 1 .. n : keys[i] = order[From(p, q, i)]
  BY <1>1, <1>4, ShiftedIs DEF n
<1>10. /\ list \in Seq(Bools) /\ Len(list) = n
       /\ \A i \in 1 .. n : list[i] = steps[From(p, q, i)]
  <2>1. steps \in Seq(Bools) /\ Len(steps) = n /\ p \in 1 .. Len(steps) /\ q = Place(Len(steps), to)
    BY <1>4, <1>5
  <2> HIDE DEF q
  <2>2. /\ Shifted(steps, p, to) \in Seq(Bools) /\ Len(Shifted(steps, p, to)) = Len(steps)
        /\ \A i \in 1 .. Len(steps) : Shifted(steps, p, to)[i] = steps[From(p, q, i)]
    BY <2>1, ShiftedIs
  <2> QED BY <2>1, <2>2
<1>11. DOMAIN list = 1 .. n /\ DOMAIN keys = 1 .. n
  BY <1>9, <1>10, LenProperties
<1> HIDE DEF list, keys, q
<1>12. IsInjective(keys)
  <2> SUFFICES ASSUME NEW i \in 1 .. n, NEW j \in 1 .. n, keys[i] = keys[j] PROVE i = j
    BY <1>11 DEF IsInjective
  <2>1. order[From(p, q, i)] = order[From(p, q, j)] /\ From(p, q, i) \in 1 .. n /\ From(p, q, j) \in 1 .. n
    BY <1>9
  <2>2. From(p, q, i) = From(p, q, j)
    BY <1>1, <2>1 DEF IsInjective
  <2>3. n \in Nat /\ p \in 1 .. n /\ q \in 1 .. n
    BY <1>1, <1>4, <1>9
  <2> QED BY <2>2, <2>3, FromIsInjective
<1>13. more \in [1 .. n -> BOOLEAN]
  BY <1>1, <1>9
<1>14. \A i \in 1 .. n : [list[i] EXCEPT !.order = i - 1] = RowAt(keys, more, i)
  <2> TAKE i \in 1 .. n
  <2> DEFINE j == From(p, q, i)
  <2>1. j \in 1 .. n /\ keys[i] = order[j] /\ more[i] = sels[j] /\ list[i] = steps[j]
    BY <1>9, <1>10
  <2> HIDE DEF j, more
  <2>2. list[i] = [key |-> order[j], order |-> j - 1, sel |-> sels[j]]
    BY <1>3, <2>1 DEF RowAt
  <2> QED BY <2>1, <2>2 DEF RowAt
<1> HIDE DEF more
<1>15. Moved(rows, k, to) = {RowAt(keys, more, i) : i \in 1 .. n}
  BY <1>7, <1>11, <1>14
<1>16. IsPlan(Moved(rows, k, to), keys, more)
  BY <1>9, <1>11, <1>12, <1>13, <1>15 DEF IsPlan, RowsOf
<1> QED BY <1>8, <1>16

LEMMA MoveKeeps ==
  ASSUME PlansFollow, NEW w, NEW k, NEW to \in Nat, Move(w, k, to)
  PROVE  PlansFollow'
<1>1. CASE k \in KeysOf(plan[w])
  <2>1. SetPlan(w, Moved(plan[w], k, to), Inserted(hub[w], k, to), FALSE)
    BY <1>1 DEF Move
  <2>2. w \in Workflows \ unsure => \E sels : IsPlan(Moved(plan[w], k, to), Inserted(hub[w], k, to), sels)
    BY <1>1, MovedIs DEF PlansFollow
  <2> QED BY <2>1, <2>2, SetPlanKeeps
<1>2. CASE k \notin KeysOf(plan[w])
  BY <1>2 DEF Move, server, PlansFollow
<1> QED BY <1>1, <1>2

(* A finite set of numbers has a greatest one.                             *)
LEMMA GreatestInt ==
  ASSUME NEW K \in SUBSET Int, IsFiniteSet(K), K # {}
  PROVE  \E m \in K : \A k \in K : k <= m
<1>1. PICK n \in Nat : ExistsSurjection(1 .. n, K)
  BY FS_NatSurjection
<1>2. PICK f : f \in [1 .. n -> K] /\ \A k \in K : \E i \in 1 .. n : f[i] = k
  BY <1>1 DEF ExistsSurjection, Surjection
<1> DEFINE S == {m \in 0 .. n : m = 0 \/ \E i \in 1 .. m : \A j \in 1 .. m : f[j] <= f[i]}
<1>3. \A m \in 0 .. n : m \in S
  <2>1. 0 \in S
    BY <1>1
  <2>2. ASSUME NEW m \in 1 .. n, m - 1 \in S PROVE m \in S
    <3>1. m \in 0 .. n /\ m \in 1 .. m /\ \A j \in 1 .. m : j \in 1 .. n /\ (j \in 1 .. m - 1 \/ j = m)
      BY <1>1
    <3>2. \A j \in 1 .. m : f[j] \in Int
      BY <1>2, <3>1
    <3>3. CASE m - 1 = 0
      <4>1. \A j \in 1 .. m : j = m
        BY <1>1, <3>3
      <4>2. \A j \in 1 .. m : f[j] <= f[m]
        BY <3>1, <3>2, <4>1
      <4> QED BY <3>1, <4>2
    <3>4. CASE m - 1 # 0
      <4>1. PICK i \in 1 .. m - 1 : \A j \in 1 .. m - 1 : f[j] <= f[i]
        BY <2>2, <3>4
      <4>2. i \in 1 .. m
        BY <1>1, <4>1
      <4>3. CASE f[m] <= f[i]
        <5>1. \A j \in 1 .. m : f[j] <= f[i]
          BY <3>1, <4>1, <4>3
        <5> QED BY <3>1, <4>2, <5>1
      <4>4. CASE ~(f[m] <= f[i])
        <5>1. \A j \in 1 .. m : f[j] <= f[m]
          BY <3>1, <3>2, <4>1, <4>2, <4>4
        <5> QED BY <3>1, <5>1
      <4> QED BY <4>3, <4>4
    <3> QED BY <3>3, <3>4
  <2> HIDE DEF S
  <2> QED BY <2>1, <2>2, <1>1, UpTo
<1>4. n # 0
  <2>1. PICK i \in 1 .. n : TRUE
    BY <1>2
  <2> QED BY <2>1, <1>1
<1>5. PICK i \in 1 .. n : \A j \in 1 .. n : f[j] <= f[i]
  <2>1. n \in 0 .. n
    BY <1>1
  <2>2. n \in S
    BY <1>3, <2>1
  <2> QED BY <1>4, <2>2
<1> QED BY <1>2, <1>5

(* The next key is a new one.                                              *)
LEMMA NextKeyIsNew ==
  ASSUME NEW K \in SUBSET Int, IsFiniteSet(K)
  PROVE  NextKey(K) \in Int /\ \A k \in K : k < NextKey(K)
<1>1. CASE K = {}
  BY <1>1 DEF NextKey
<1>2. CASE K # {}
  <2>1. PICK m \in K : \A k \in K : k <= m
    BY <1>2, GreatestInt
  <2>2. \A x \in K : (\A y \in K : x >= y) => x = m
    BY <2>1
  <2>3. Max(K) = m
    BY <2>1, <2>2 DEF Max
  <2> QED BY <1>2, <2>1, <2>3 DEF NextKey
<1> QED BY <1>1, <1>2

LEMMA TemplateKeeps ==
  ASSUME PlansFollow, NEW w, FromTemplate(w)
  PROVE  PlansFollow'
<1> DEFINE k == NextKey(KeysOf(plan[w]))
           once == Upserted(plan[w], k)
<1>1. SetPlan(w, Upserted(once, k + 1), hub[w] \o <<k, k + 1>>, FALSE)
  BY DEF FromTemplate
<1>2. ASSUME w \in Workflows \ unsure
      PROVE  \E sels : IsPlan(Upserted(once, k + 1), hub[w] \o <<k, k + 1>>, sels)
  <2> DEFINE order == hub[w]
  <2>1. PICK sels : IsPlan(plan[w], order, sels)
    BY <1>2 DEF PlansFollow
  <2>2. order \in Seq(Int) /\ KeysOf(plan[w]) = {order[i] : i \in DOMAIN order} /\ IsFiniteSet(plan[w])
    BY <2>1, ListedIs DEF IsPlan
  <2> HIDE DEF order
  <2>3. KeysOf(plan[w]) \in SUBSET Int
    BY <2>2, LenProperties
  <2>4. IsFiniteSet(KeysOf(plan[w]))
    <3> DEFINE K == KeysOf(plan[w])
               n == Len(order)
    <3>1. n \in Nat /\ DOMAIN order = 1 .. n /\ order \in [1 .. n -> Int]
      BY <2>2, LenProperties
    <3>2. order \in [1 .. n -> K] /\ \A x \in K : \E i \in 1 .. n : order[i] = x
      BY <2>2, <3>1
    <3> HIDE DEF K, n
    <3>3. order \in Surjection(1 .. n, K)
      BY <3>2, Fun_IsSurj
    <3>4. ExistsSurjection(1 .. n, K)
      BY <3>3 DEF ExistsSurjection
    <3>5. IsFiniteSet(K)
      BY <3>1, <3>4, FS_NatSurjection
    <3> QED BY <3>5 DEF K
  <2>5. k \in Int /\ \A j \in KeysOf(plan[w]) : j < k
    BY <2>3, <2>4, NextKeyIsNew
  <2> HIDE DEF k
  <2>6. k \notin KeysOf(plan[w])
    BY <2>5
  <2>7. PICK more : IsPlan(once, Append(order, k), more)
    BY <2>1, <2>5, <2>6, UpsertedIs
  <2>8. KeysOf(once) = {Append(order, k)[i] : i \in DOMAIN Append(order, k)}
    BY <2>7, ListedIs
  <2>9. k + 1 \in Int /\ k + 1 \notin KeysOf(once)
    <3>1. \A i \in DOMAIN Append(order, k) : Append(order, k)[i] # k + 1
      <4> DEFINE long == Append(order, k)
                 n == Len(order)
      <4>1. /\ long \in Seq(Int) /\ Len(long) = n + 1 /\ long[n + 1] = k
            /\ \A i \in 1 .. n : long[i] = order[i]
        BY <2>2, <2>5, AppendProperties
      <4>2. DOMAIN long = 1 .. n + 1 /\ n \in Nat /\ DOMAIN order = 1 .. n
        BY <2>2, <4>1, LenProperties
      <4>3. \A i \in 1 .. n : order[i] < k /\ order[i] \in Int
        BY <2>2, <2>3, <2>5, <4>2
      <4> HIDE DEF long, n
      <4>4. \A i \in DOMAIN long : long[i] # k + 1
        BY <2>5, <4>1, <4>2, <4>3
      <4> QED BY <4>4 DEF long
    <3> QED BY <2>5, <2>8, <3>1
  <2> HIDE DEF once
  <2>10. \E twice : IsPlan(Upserted(once, k + 1), Append(Append(order, k), k + 1), twice)
    BY <2>7, <2>9, UpsertedIs
  <2>11. Append(Append(order, k), k + 1) = order \o <<k, k + 1>>
    BY <2>2, <2>5, <2>9
  <2> QED BY <2>10, <2>11 DEF order
<1> HIDE DEF k, once
<1> QED BY <1>1, <1>2, SetPlanKeeps

LEMMA HandleKeeps ==
  ASSUME PanelInv, Handle
  PROVE  PanelInv'
<1>1. PICK S : writes \in Seq(S) /\ \A x \in S : WriteIsWell(x)
  BY DEF PanelInv
<1>0. PICK i \in DOMAIN writes : Apply(writes[i]) /\ writes' = RemoveAt(writes, i)
  BY DEF Handle
<1> DEFINE x == writes[i]
<1>2. Apply(x)
  BY <1>0
<1>3. x \in S /\ writes' \in Seq(S)
  <2>1. i \in 1 .. Len(writes)
    BY <1>0, <1>1, LenProperties
  <2> QED BY <1>0, <1>1, <2>1, RemovedIs, LenProperties
<1>4. WriteIsWell(x)
  BY <1>1, <1>3
<1> HIDE DEF x
<1>5. PlansFollow'
  <2>0. PlansFollow
    BY DEF PanelInv
  <2>1. CASE x.op = "add"
    <3>1. Add(x.wf, x.key) /\ x.key \in Int
      BY <1>2, <1>4, <2>1 DEF Apply, WriteIsWell
    <3> QED BY <2>0, <3>1, AddKeeps
  <2>2. CASE x.op = "remove"
    <3>1. Drop(x.wf, x.key)
      BY <1>2, <2>2 DEF Apply
    <3> QED BY <2>0, <3>1, DropKeeps
  <2>3. CASE x.op = "move"
    <3>1. Move(x.wf, x.key, x.to) /\ x.to \in Nat
      BY <1>2, <1>4, <2>3 DEF Apply, WriteIsWell
    <3> QED BY <2>0, <3>1, MoveKeeps
  <2>4. CASE x.op = "select"
    <3>1. SelectRuns(x.wf, x.keys)
      BY <1>2, <2>4 DEF Apply
    <3> QED BY <2>0, <3>1, SelectKeeps
  <2>5. CASE x.op = "start"
    <3>1. StartRun(x.wf, x.keys)
      BY <1>2, <2>5 DEF Apply
    <3>2. SelectRuns(x.wf, x.keys) \/ UNCHANGED server
      BY <3>1 DEF StartRun
    <3>3. UNCHANGED server => PlansFollow'
      BY <2>0 DEF server, PlansFollow
    <3> QED BY <2>0, <3>2, <3>3, SelectKeeps
  <2> QED BY <1>4, <2>1, <2>2, <2>3, <2>4, <2>5 DEF WriteIsWell
<1> QED BY <1>1, <1>3, <1>5 DEF PanelInv

LEMMA OtherKeeps ==
  ASSUME PanelInv, Other
  PROVE  PanelInv'
<1>0. PlansFollow
  BY DEF PanelInv
<1>1. PICK w \in Workflows :
         \/ NextKey(KeysOf(plan[w])) \in Keys /\ Add(w, NextKey(KeysOf(plan[w])))
         \/ FromTemplate(w)
         \/ \E k \in KeysOf(plan[w]) : Drop(w, k)
         \/ \E k \in KeysOf(plan[w]), to \in 0 .. MaxKey - 1 : Move(w, k, to)
  BY DEF Other
<1>2. \A k \in Keys : k \in Int
  BY DEF Keys
<1>3. \A to \in 0 .. MaxKey - 1 : to \in Nat
  BY PanelBoundAssumption
<1>4. ASSUME NEW k \in Keys, Add(w, k) PROVE PlansFollow'
  BY <1>0, <1>2, <1>4, AddKeeps
<1>5. ASSUME NEW k, NEW to \in 0 .. MaxKey - 1, Move(w, k, to) PROVE PlansFollow'
  BY <1>0, <1>3, <1>5, MoveKeeps
<1>6. PlansFollow'
  BY <1>0, <1>1, <1>4, <1>5, TemplateKeeps, DropKeeps
<1>7. writes' = writes
  BY DEF Other
<1> QED BY <1>6, <1>7 DEF PanelInv

(* The panel changes plans by its requests only.                           *)
LEMMA SendKeeps ==
  ASSUME PanelInv, UNCHANGED server, NEW x, WriteIsWell(x), writes' = Append(writes, x)
  PROVE  PanelInv'
<1>1. PICK S : writes \in Seq(S) /\ \A y \in S : WriteIsWell(y)
  BY DEF PanelInv
<1> DEFINE T == S \cup {x}
<1>2. writes \in Seq(T)
  BY <1>1, SeqMonotonic
<1>3. writes' \in Seq(T) /\ \A y \in T : WriteIsWell(y)
  BY <1>1, <1>2, AppendProperties
<1>4. PlansFollow'
  BY DEF PanelInv, server, PlansFollow
<1> HIDE DEF T
<1> QED BY <1>3, <1>4 DEF PanelInv

LEMMA RestKeeps ==
  ASSUME PanelInv, UNCHANGED server, writes' = writes
  PROVE  PanelInv'
<1>1. PlansFollow'
  BY DEF PanelInv, server, PlansFollow
<1> QED BY <1>1 DEF PanelInv

LEMMA ClicksKeep ==
  ASSUME PanelInv,
         \/ \E k \in Keys : Toggle(k) \/ RemoveStep(k)
         \/ \E k \in Keys, to \in 0 .. MaxKey - 1 : MoveStep(k, to)
         \/ ToggleAll \/ AddStep \/ PressStart
  PROVE  PanelInv'
<1>0. (\A k \in Keys : k \in Int) /\ \A to \in 0 .. MaxKey - 1 : to \in Nat
  BY PanelBoundAssumption DEF Keys
<1>1. ASSUME NEW write, Send(write) PROVE UNCHANGED server /\ writes' = Append(writes, write)
  BY <1>1 DEF Send
<1>2. ASSUME NEW keys, Check(keys) PROVE PanelInv'
  <2>1. PICK write : write = [op |-> "select", wf |-> Target, keys |-> keys] /\ Send(write)
    BY <1>2 DEF Check
  <2>2. WriteIsWell(write)
    BY <2>1 DEF WriteIsWell
  <2> QED BY <1>1, <2>1, <2>2, SendKeeps
<1>3. ASSUME NEW write, Command(write), WriteIsWell(write) PROVE PanelInv'
  BY <1>1, <1>3, SendKeeps DEF Command
<1>4. ASSUME NEW k \in Keys, Toggle(k) PROVE PanelInv'
  BY <1>2, <1>4 DEF Toggle
<1>5. ASSUME NEW k \in Keys, RemoveStep(k) PROVE PanelInv'
  <2> DEFINE write == [op |-> "remove", wf |-> Target, key |-> k]
  <2>1. Command(write)
    BY <1>5 DEF RemoveStep
  <2>2. WriteIsWell(write)
    BY DEF WriteIsWell
  <2> QED BY <1>3, <2>1, <2>2
<1>6. ASSUME NEW k \in Keys, NEW to \in 0 .. MaxKey - 1, MoveStep(k, to) PROVE PanelInv'
  <2> DEFINE write == [op |-> "move", wf |-> Target, key |-> k, to |-> to]
  <2>1. Command(write)
    BY <1>6 DEF MoveStep
  <2>2. WriteIsWell(write)
    BY <1>0 DEF WriteIsWell
  <2> QED BY <1>3, <2>1, <2>2
<1>7. ASSUME ToggleAll PROVE PanelInv'
  BY <1>2, <1>7 DEF ToggleAll
<1>8. ASSUME AddStep PROVE PanelInv'
  <2> DEFINE k == NextKey(KeysOf(Steps(shown)))
             write == [op |-> "add", wf |-> Target, key |-> k]
  <2>1. k \in Keys /\ Command(write)
    BY <1>8 DEF AddStep
  <2> HIDE DEF k
  <2>2. WriteIsWell(write)
    BY <1>0, <2>1 DEF WriteIsWell
  <2> QED BY <1>3, <2>1, <2>2
<1>9. ASSUME PressStart PROVE PanelInv'
  <2> DEFINE write == [op |-> "start", wf |-> Target, keys |-> checked]
  <2>1. Command(write)
    BY <1>9 DEF PressStart
  <2>2. WriteIsWell(write)
    BY DEF WriteIsWell
  <2> QED BY <1>3, <2>1, <2>2
<1> QED BY <1>4, <1>5, <1>6, <1>7, <1>8, <1>9

LEMMA PanelStepKeeps == PanelInv /\ [PanelNext]_panelVars => PanelInv'
<1> SUFFICES ASSUME PanelInv, [PanelNext]_panelVars PROVE PanelInv'
  OBVIOUS
<1>1. CASE Handle
  BY <1>1, HandleKeeps
<1>2. CASE Other
  BY <1>2, OtherKeeps
<1>3. CASE \E i \in Slots : Poll(i) \/ Arrive(i)
  BY <1>3, RestKeeps DEF Poll, Arrive
<1>4. CASE \E w \in Workflows \cup {None} : Select(w)
  BY <1>4, RestKeeps DEF Select
<1>5. CASE \/ \E k \in Keys : Toggle(k) \/ RemoveStep(k)
           \/ \E k \in Keys, to \in 0 .. MaxKey - 1 : MoveStep(k, to)
           \/ ToggleAll \/ AddStep \/ PressStart
  BY <1>5, ClicksKeep
<1>6. CASE UNCHANGED panelVars
  BY <1>6, RestKeeps DEF panelVars, server
<1> QED BY <1>1, <1>2, <1>3, <1>4, <1>5, <1>6 DEF PanelNext

(* A plan the panel finds whose numbers have no gap is a list.             *)
LEMMA GaplessIsPlan ==
  ASSUME NEW rows \in SUBSET [key : Keys, order : Nat, sel : BOOLEAN], IsFiniteSet(rows),
         \A r, q \in rows : r.key = q.key => r = q,
         {r.order : r \in rows} = 0 .. Cardinality(rows) - 1
  PROVE  \E order, sels : IsPlan(rows, order, sels)
<1> DEFINE n == Cardinality(rows)
           f == [r \in rows |-> r.order]
           At(i) == CHOOSE r \in rows : r.order = i - 1
           order == [i \in 1 .. n |-> At(i).key]
           sels == [i \in 1 .. n |-> At(i).sel]
<1>1. n \in Nat
  BY FS_CardinalityType
<1>2. \A r, q \in rows : r.order = q.order => r = q
  <2>1. f \in Surjection(rows, 0 .. n - 1)
    <3>1. f \in [rows -> 0 .. n - 1]
      OBVIOUS
    <3>2. \A t \in 0 .. n - 1 : \E r \in rows : f[r] = t
      OBVIOUS
    <3> HIDE DEF f, n
    <3> QED BY <3>1, <3>2, Fun_IsSurj
  <2>2. Cardinality(0 .. n - 1) = n
    <3>1. 0 \in Int /\ n - 1 \in Int /\ (0 > n - 1 \/ 0 <= n - 1)
      BY <1>1
    <3>2. Cardinality(0 .. n - 1) = IF 0 > n - 1 THEN 0 ELSE n - 1 - 0 + 1
      BY <3>1, FS_Interval
    <3> HIDE DEF n
    <3> QED BY <1>1, <3>2
  <2>3. f \in Injection(rows, 0 .. n - 1)
    <3> HIDE DEF f
    <3> QED BY <2>1, <2>2, FS_SurjSameCardinalityImpliesInj
  <2>4. \A r, q \in rows : f[r] = f[q] => r = q
    <3> HIDE DEF f
    <3> QED BY <2>3 DEF Injection, IsInjective
  <2> QED BY <2>4
<1>3. \A i \in 1 .. n : i - 1 \in 0 .. n - 1
  BY <1>1
<1>4. ASSUME NEW i \in 1 .. n PROVE At(i) \in rows /\ At(i).order = i - 1
  <2>1. \E r \in rows : r.order = i - 1
    BY <1>3
  <2> QED BY <2>1
<1>5. ASSUME NEW r \in rows PROVE r.order + 1 \in 1 .. n /\ At(r.order + 1) = r
  <2>1. r.order \in 0 .. n - 1 /\ r.order + 1 \in 1 .. n /\ r.order + 1 - 1 = r.order
    BY <1>1
  <2>2. At(r.order + 1) \in rows /\ At(r.order + 1).order = r.order
    BY <1>4, <2>1
  <2> HIDE DEF At
  <2> QED BY <1>2, <2>1, <2>2
<1> HIDE DEF At, n
<1>6. \A i \in 1 .. n : At(i).key \in Int /\ At(i).sel \in BOOLEAN
                        /\ At(i) = [key |-> At(i).key, order |-> i - 1, sel |-> At(i).sel]
  <2> TAKE i \in 1 .. n
  <2>1. At(i) \in [key : Keys, order : Nat, sel : BOOLEAN] /\ At(i).order = i - 1
    BY <1>4
  <2>2. \A k \in Keys : k \in Int
    BY DEF Keys
  <2> QED BY <2>1, <2>2
<1>7. order \in Seq(Int) /\ DOMAIN order = 1 .. n
  <2>1. order \in [1 .. n -> Int]
    BY <1>6
  <2> QED BY <1>1, <2>1, SeqDef
<1>8. IsInjective(order)
  <2> SUFFICES ASSUME NEW i \in 1 .. n, NEW j \in 1 .. n, At(i).key = At(j).key PROVE i = j
    BY <1>7 DEF IsInjective
  <2>1. At(i) = At(j)
    BY <1>4
  <2>2. i - 1 = j - 1
    BY <1>4, <2>1
  <2> QED BY <1>1, <2>2
<1>9. sels \in [1 .. n -> BOOLEAN]
  BY <1>6
<1>10. \A i \in 1 .. n : RowAt(order, sels, i) = At(i)
  BY <1>6 DEF RowAt
<1> HIDE DEF order, sels
<1>11. rows = {RowAt(order, sels, i) : i \in 1 .. n}
  BY <1>4, <1>5, <1>10
<1>12. IsPlan(rows, order, sels)
  BY <1>7, <1>8, <1>9, <1>11 DEF IsPlan, RowsOf
<1> QED BY <1>12

(* The invariant holds, for any workflows, keys, plans to start with,      *)
(* polls on their way, clicks and changes by others: a plan from which     *)
(* nothing was removed and to which no key was added twice has its steps   *)
(* numbered without gaps, in the order of the hub (upsertRemoteStep,       *)
(* moveRemoteStep).                                                        *)
THEOREM PanelInvariance == PanelSpec => []PanelInv
<1>1. PanelInit => PanelInv
  <2> SUFFICES ASSUME PanelInit PROVE PanelInv
    OBVIOUS
  <2>1. /\ plan = Start /\ hub = [w \in Workflows |-> ListedKeys(Start[w])] /\ writes = << >>
        /\ unsure = {w \in Workflows : {r.order : r \in Start[w]} # 0 .. Cardinality(Start[w]) - 1}
    BY DEF PanelInit
  <2>2. \A w \in Workflows \ unsure : \E sels : IsPlan(plan[w], hub[w], sels)
    <3> TAKE w \in Workflows \ unsure
    <3> DEFINE rows == Start[w]
    <3>1. /\ rows \in SUBSET [key : Keys, order : Nat, sel : BOOLEAN] /\ IsFiniteSet(rows)
          /\ \A r, q \in rows : r.key = q.key => r = q
          /\ {r.order : r \in rows} = 0 .. Cardinality(rows) - 1
      BY <2>1, StartAssumption
    <3>2. plan[w] = rows /\ hub[w] = ListedKeys(rows)
      BY <2>1
    <3> HIDE DEF rows
    <3>3. PICK order, sels : IsPlan(rows, order, sels)
      BY <3>1, GaplessIsPlan
    <3>4. ListedKeys(rows) = order
      BY <3>3, ListedIs
    <3> QED BY <3>2, <3>3, <3>4
  <2>3. plan = [w \in Workflows |-> plan[w]] /\ hub = [w \in Workflows |-> hub[w]]
    BY <2>1, StartAssumption
  <2>4. writes \in Seq({}) /\ \A x \in {} : WriteIsWell(x)
    BY <2>1, EmptySeq
  <2> QED BY <2>2, <2>3, <2>4 DEF PanelInv, PlansFollow
<1>2. PanelInv /\ [PanelNext]_panelVars => PanelInv'
  BY PanelStepKeeps
<1> QED BY <1>1, <1>2, PTL DEF PanelSpec

(* The order in which listRemoteSteps shows the steps of such a plan is    *)
(* the order of the steps on the hub.                                      *)
THEOREM OrderFollowsHubHolds == PanelSpec => []OrderFollowsHub
<1>1. PanelInv => OrderFollowsHub
  BY ListedIs DEF PanelInv, PlansFollow, OrderFollowsHub
<1> QED BY <1>1, PanelInvariance, PTL

=============================================================================
