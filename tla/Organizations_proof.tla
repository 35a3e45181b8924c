------------------------------ MODULE Organizations_proof ------------------------------
(***************************************************************************)
(* Theorems about Organizations, for any organizations, names, addresses,  *)
(* calls in flight and number of open handles, with a server that may stop *)
(* anywhere: the invariant (StateGood) says of each listed organization    *)
(* that its file is its own, was brought in step and can be reached; of    *)
(* each call that waits what it will find when it goes on; and of each     *)
(* person that every copy of the password is the one login checks.         *)
(***************************************************************************)
EXTENDS Organizations, FiniteSetTheorems, SequenceTheorems, WellFoundedInduction, TLAPS

(* A set of numbers has a least one: what is to hold at the end of a       *)
(* recursive function is proved by its first counterexample.               *)
LEMMA LeastNat ==
  ASSUME NEW S \in SUBSET Nat, S # {}
  PROVE  \E m \in S : \A n \in S : m <= n
<1>1. PICK m \in S : \A n \in S : <<n, m>> \notin OpToRel(<, Nat)
  BY NatLessThanWellFounded, WFMin
<1>2. \A n \in S : ~(n < m)
  BY <1>1 DEF OpToRel
<1> QED BY <1>2

(* Steps one after the other: a function over an interval that starts at   *)
(* base and follows step exists, and stays in W if every step does.        *)
Follows(f, W, base, n, step) ==
  f \in [0 .. n -> W] /\ f[0] = base /\ \A i \in 1 .. n : f[i] = step[i][f[i - 1]]

(* Such a function exists.                                                 *)
LEMMA StepsExist ==
  ASSUME NEW W, NEW base \in W, NEW n \in Nat, NEW step \in [1 .. n -> [W -> W]]
  PROVE  \E f : Follows(f, W, base, n, step)
<1> DEFINE Bad == {k \in 0 .. n : ~ \E f : Follows(f, W, base, k, step)}
<1>0. Bad \in SUBSET Nat
  OBVIOUS
<1> SUFFICES ASSUME ~ \E f : Follows(f, W, base, n, step) PROVE FALSE
  OBVIOUS
<1>1. Bad # {}
  <2>1. n \in 0 .. n
    OBVIOUS
  <2>2. n \in Bad
    BY <2>1
  <2> QED BY <2>2
<1>2. PICK k \in Bad : \A j \in Bad : k <= j
  <2> HIDE DEF Bad
  <2> QED BY <1>0, <1>1, LeastNat
<1>3. k \in 0 .. n /\ ~ \E f : Follows(f, W, base, k, step)
  BY <1>2
<1>4. k # 0
  <2>1. Follows([i \in 0 .. 0 |-> base], W, base, 0, step)
    BY DEF Follows
  <2> QED BY <2>1, <1>3
<1>5. k - 1 \in 0 .. n /\ k - 1 \notin Bad
  <2>1. k - 1 \in 0 .. n /\ ~(k <= k - 1)
    BY <1>3, <1>4
  <2> QED BY <2>1, <1>2
<1>6. PICK f : Follows(f, W, base, k - 1, step)
  BY <1>5
<1>7. f \in [0 .. k - 1 -> W] /\ f[0] = base /\ \A i \in 1 .. k - 1 : f[i] = step[i][f[i - 1]]
  BY <1>6 DEF Follows
<1> DEFINE g == [i \in 0 .. k |-> IF i = k THEN step[k][f[k - 1]] ELSE f[i]]
<1>8. step[k][f[k - 1]] \in W
  BY <1>3, <1>4, <1>7
<1>9. g \in [0 .. k -> W]
  BY <1>3, <1>4, <1>7, <1>8
<1>10. g[0] = base
  BY <1>3, <1>4, <1>7
<1>11. \A i \in 1 .. k : g[i] = step[i][g[i - 1]]
  <2> TAKE i \in 1 .. k
  <2>1. CASE i = k
    BY <2>1, <1>3, <1>4, <1>7
  <2>2. CASE i # k
    <3>1. i \in 1 .. k - 1 /\ i - 1 \in 0 .. k - 1 /\ i - 1 # k
      BY <2>2, <1>3, <1>4
    <3> QED BY <3>1, <2>2, <1>7, <1>3
  <2> QED BY <2>1, <2>2
<1> HIDE DEF g
<1>12. Follows(g, W, base, k, step)
  BY <1>9, <1>10, <1>11 DEF Follows
<1> QED BY <1>12, <1>3

(* Induction up to n.                                                      *)
LEMMA UpTo ==
  ASSUME NEW n \in Nat, NEW S, 0 \in S, \A i \in 1 .. n : i - 1 \in S => i \in S
  PROVE  \A i \in 0 .. n : i \in S
<1> SUFFICES ASSUME {i \in 0 .. n : i \notin S} # {} PROVE FALSE
  OBVIOUS
<1> DEFINE Bad == {i \in 0 .. n : i \notin S}
<1>1. PICK k \in Bad : \A j \in Bad : k <= j
  <2>1. Bad \in SUBSET Nat /\ Bad # {}
    OBVIOUS
  <2> HIDE DEF Bad
  <2> QED BY <2>1, LeastNat
<1>2. k \in 1 .. n /\ k - 1 \in 0 .. n /\ ~(k <= k - 1) /\ k \notin S
  <2>1. k \in 0 .. n /\ k \notin S
    BY <1>1
  <2>2. k # 0
    BY <2>1
  <2> QED BY <2>1, <2>2
<1>3. k - 1 \in S
  BY <1>1, <1>2
<1> QED BY <1>2, <1>3
-----------------------------------------------------------------------------
(* What the databases and the process's memory may be.                     *)
Numbers == {-1} \cup Nat   \* -1 none

Controls ==
  [status : [Orgs -> {"none", "active", "disabled"}], slug : [Orgs -> Paths \cup {"none"}],
   dir : SUBSET (Orgs \X Emails), tok : SUBSET (Orgs \X Emails), ident : [Emails -> Numbers]]
Rows == [pw : Numbers, inv : BOOLEAN]
Files == [born : Numbers, row : [Emails -> Rows]]
Handles == [org : Orgs, path : Paths, live : BOOLEAN]
Processes == [lru : Seq(Handles), synced : SUBSET Orgs, retired : SUBSET Paths]
Worlds == [control : Controls, disk : [Paths -> Files], process : Processes]

(* A handle is live and on the file of its organization.                   *)
OnFile(c, h) == h.live /\ c.slug[h.org] = h.path
HandlesGood(c, lru) ==
  Len(lru) <= MaxOpen /\ \A i \in DOMAIN lru : OnFile(c, lru[i])

(* What is left of the handles without those of some organizations.        *)
LEMMA WithoutIs ==
  ASSUME NEW lru \in Seq(Handles), NEW os
  PROVE  LET rest == Without(lru, os) IN
         /\ rest \in Seq(Handles) /\ Len(rest) <= Len(lru)
         /\ \A k \in DOMAIN rest : rest[k].org \notin os /\ \E i \in DOMAIN lru : lru[i] = rest[k]
         /\ \A i \in DOMAIN lru : lru[i].org \in os => Len(rest) < Len(lru)
<1> DEFINE n == Len(lru)
           W == Seq(Handles)
           next(s, h) == IF h.org \in os THEN s ELSE Append(s, h)
           step == [i \in 1 .. n |-> [s \in W |-> next(s, lru[i])]]
           Eq(f) == f = [k \in 0 .. n |-> IF k = 0 THEN << >> ELSE next(f[k - 1], lru[k])]
<1>0. n \in Nat /\ DOMAIN lru = 1 .. n /\ \A i \in 1 .. n : lru[i] \in Handles
  BY LenProperties
<1>1. step \in [1 .. n -> [W -> W]]
  BY <1>0, AppendProperties
<1>2. PICK f : Follows(f, W, << >>, n, step)
  <2>1. << >> \in W
    OBVIOUS
  <2> HIDE DEF W, step, n
  <2> QED BY <1>0, <1>1, <2>1, StepsExist
<1>3. f \in [0 .. n -> W] /\ f[0] = << >> /\ \A i \in 1 .. n : f[i] = step[i][f[i - 1]]
  BY <1>2 DEF Follows
<1>4. Eq(f)
  <2> HIDE DEF W, next, n
  <2>1. \A k \in 1 .. n : f[k] = next(f[k - 1], lru[k])
    <3> TAKE k \in 1 .. n
    <3>1. k - 1 \in 0 .. n
      BY <1>0
    <3> QED BY <3>1, <1>3
  <2> QED BY <2>1, <1>0, <1>3
<1> DEFINE g == CHOOSE h : Eq(h)
<1>5. Without(lru, os) = g[n]
  BY DEF Without
<1>6. g[0] = << >> /\ \A k \in 1 .. n : k - 1 \in 0 .. n /\ g[k] = next(g[k - 1], lru[k])
  <2>1. Eq(g)
    <3> HIDE DEF Eq
    <3> QED BY <1>4
  <2> HIDE DEF g, next, n
  <2> QED BY <2>1, <1>0
<1> HIDE DEF g, Eq, step
<1> DEFINE Good(k) ==
             /\ g[k] \in W /\ Len(g[k]) <= k
             /\ \A j \in DOMAIN g[k] : g[k][j].org \notin os /\ \E i \in DOMAIN lru : lru[i] = g[k][j]
             /\ \A i \in 1 .. k : lru[i].org \in os => Len(g[k]) < k
           S == {k \in 0 .. n : Good(k)}
<1>7. \A k \in 0 .. n : k \in S
  <2>1. 0 \in S
    <3>1. g[0] \in W /\ Len(g[0]) = 0 /\ DOMAIN g[0] = {}
      BY <1>6
    <3>2. 0 \in 0 .. n
      BY <1>0
    <3> QED BY <3>1, <3>2
  <2>2. ASSUME NEW k \in 1 .. n, k - 1 \in S PROVE k \in S
    <3> DEFINE s == g[k - 1]
               t == g[k]
    <3>1. k \in 0 .. n /\ k - 1 \in Nat /\ Good(k - 1) /\ lru[k] \in Handles /\ k \in DOMAIN lru
      BY <2>2, <1>0
    <3>2. t = next(s, lru[k])
      BY <1>6
    <3>3. s \in W /\ Len(s) \in Nat /\ Len(s) <= k - 1
      BY <3>1, LenProperties
    <3>4. \A i \in 1 .. k : i = k \/ i \in 1 .. k - 1
      BY <3>1
    <3>5. CASE lru[k].org \in os
      <4>1. t = s
        BY <3>2, <3>5
      <4>2. Len(t) < k
        BY <4>1, <3>3
      <4> HIDE DEF s, t
      <4> QED BY <3>1, <4>1, <4>2 DEF s, t
    <3>6. CASE lru[k].org \notin os
      <4>1. t = Append(s, lru[k])
        BY <3>2, <3>6
      <4>2. t \in W /\ Len(t) = Len(s) + 1 /\ DOMAIN t = 1 .. Len(s) + 1
        BY <4>1, <3>1, <3>3, AppendProperties, LenProperties
      <4>3. \A j \in DOMAIN t : (j = Len(s) + 1 /\ t[j] = lru[k]) \/ (j \in DOMAIN s /\ t[j] = s[j])
        BY <4>1, <4>2, <3>1, <3>3, AppendProperties, LenProperties
      <4>4. Len(t) <= k
        BY <4>2, <3>3
      <4>5. \A j \in DOMAIN t : t[j].org \notin os /\ \E i \in DOMAIN lru : lru[i] = t[j]
        BY <4>3, <3>1, <3>6
      <4>6. \A i \in 1 .. k : lru[i].org \in os => Len(t) < k
        <5> SUFFICES ASSUME NEW i \in 1 .. k, lru[i].org \in os PROVE Len(t) < k
          OBVIOUS
        <5>1. i \in 1 .. k - 1
          BY <3>4, <3>6
        <5>2. Len(s) < k - 1
          BY <5>1, <3>1
        <5> HIDE DEF s, t
        <5> QED BY <5>2, <4>2, <3>3
      <4> HIDE DEF s
      <4> QED BY <3>1, <4>2, <4>4, <4>5, <4>6
    <3> QED BY <3>5, <3>6
  <2> HIDE DEF S
  <2> QED BY <2>1, <2>2, <1>0, UpTo
<1>8. Good(n)
  BY <1>0, <1>7
<1> HIDE DEF n
<1> QED BY <1>0, <1>5, <1>8
-----------------------------------------------------------------------------
(* The operations on handles.                                              *)

(* What a world consists of.                                               *)
LEMMA WorldIs ==
  ASSUME NEW w \in Worlds
  PROVE  /\ w = [control |-> w.control, disk |-> w.disk, process |-> w.process]
         /\ w.control \in Controls /\ w.disk \in [Paths -> Files] /\ w.process \in Processes
         /\ w.process = [lru |-> w.process.lru, synced |-> w.process.synced, retired |-> w.process.retired]
         /\ w.process.lru \in Seq(Handles) /\ w.process.synced \in SUBSET Orgs /\ w.process.retired \in SUBSET Paths
BY DEF Worlds, Processes

(* What makes a world.                                                     *)
LEMMA WorldMade ==
  ASSUME NEW v, v = [control |-> v.control, disk |-> v.disk, process |-> v.process],
         v.process = [lru |-> v.process.lru, synced |-> v.process.synced, retired |-> v.process.retired],
         v.control \in Controls, v.disk \in [Paths -> Files],
         v.process.lru \in Seq(Handles), v.process.synced \in SUBSET Orgs, v.process.retired \in SUBSET Paths
  PROVE  v \in Worlds
BY DEF Worlds, Processes

(* An absent file is one of Files.                                         *)
LEMMA NoFileTyped == NoFile \in Files
BY DEF NoFile, Files, Rows, Numbers

(* Closing handles changes nothing else.                                   *)
LEMMA CloseIs ==
  ASSUME NEW w \in Worlds, NEW os
  PROVE  /\ CloseOrgDb(w, os) \in Worlds
         /\ CloseOrgDb(w, os).control = w.control /\ CloseOrgDb(w, os).disk = w.disk
         /\ CloseOrgDb(w, os).process.lru = Without(w.process.lru, os)
         /\ CloseOrgDb(w, os).process.synced = w.process.synced \ os
         /\ CloseOrgDb(w, os).process.retired = w.process.retired
<1>1. Without(w.process.lru, os) \in Seq(Handles)
  BY WorldIs, WithoutIs
<1> QED BY <1>1 DEF CloseOrgDb, Worlds, Processes

(* Handles that were among those of w.                                     *)
Fewer(v, w) ==
  \A i \in DOMAIN v.process.lru : \E j \in DOMAIN w.process.lru : w.process.lru[j] = v.process.lru[i]

(* It leaves good handles, none of them of the closed organizations.       *)
LEMMA CloseKeeps ==
  ASSUME NEW w \in Worlds, NEW os, HandlesGood(w.control, w.process.lru)
  PROVE  /\ HandlesGood(CloseOrgDb(w, os).control, CloseOrgDb(w, os).process.lru)
         /\ Fewer(CloseOrgDb(w, os), w)
         /\ \A i \in DOMAIN CloseOrgDb(w, os).process.lru : CloseOrgDb(w, os).process.lru[i].org \notin os
<1> DEFINE v == CloseOrgDb(w, os)
           rest == Without(w.process.lru, os)
<1>1. v.process.lru = rest /\ v.control = w.control
  BY CloseIs
<1>2. w.process.lru \in Seq(Handles)
  BY WorldIs
<1>3. /\ rest \in Seq(Handles) /\ Len(rest) <= Len(w.process.lru)
      /\ \A k \in DOMAIN rest : rest[k].org \notin os /\ \E i \in DOMAIN w.process.lru : w.process.lru[i] = rest[k]
  BY <1>2, WithoutIs
<1>4. Len(w.process.lru) \in Nat /\ Len(rest) \in Nat /\ MaxOpen \in Nat
  BY <1>2, <1>3, LenProperties, SizeAssumption
<1> HIDE DEF rest, v
<1>5. HandlesGood(w.control, rest)
  BY <1>3, <1>4 DEF HandlesGood
<1> QED BY <1>1, <1>3, <1>5 DEF v, Fewer

(* Files are only removed when no handle is on them.                       *)
LEMMA UnlinkIs ==
  ASSUME NEW w \in Worlds, NEW p \in Paths, \A i \in DOMAIN w.process.lru : w.process.lru[i].path # p
  PROVE  /\ Unlink(w, p) \in Worlds
         /\ Unlink(w, p).control = w.control /\ Unlink(w, p).process = w.process
         /\ Unlink(w, p).disk = [w.disk EXCEPT ![p] = NoFile]
<1> DEFINE lru == w.process.lru
           same == [i \in DOMAIN lru |-> IF lru[i].path = p THEN [lru[i] EXCEPT !.live = FALSE] ELSE lru[i]]
<1>1. lru \in Seq(Handles)
  BY WorldIs
<1>2. same = lru
  <2>1. lru = [i \in DOMAIN lru |-> lru[i]]
    BY <1>1
  <2> HIDE DEF lru
  <2>2. same = [i \in DOMAIN lru |-> lru[i]]
    BY DEF lru
  <2> QED BY <2>1, <2>2
<1>3. Unlink(w, p) = [w EXCEPT !.disk[p] = NoFile, !.process.lru = same]
  BY DEF Unlink
<1> HIDE DEF same
<1>4. /\ Unlink(w, p).control = w.control /\ Unlink(w, p).disk = [w.disk EXCEPT ![p] = NoFile]
      /\ Unlink(w, p).process.lru = lru /\ Unlink(w, p).process.synced = w.process.synced
      /\ Unlink(w, p).process.retired = w.process.retired
  BY <1>2, <1>3 DEF Worlds, Processes
<1>5. Unlink(w, p) \in Worlds
  <2>1. [w.disk EXCEPT ![p] = NoFile] \in [Paths -> Files]
    BY WorldIs, NoFileTyped
  <2>2. Unlink(w, p) = [control |-> Unlink(w, p).control, disk |-> Unlink(w, p).disk, process |-> Unlink(w, p).process]
    BY <1>3 DEF Worlds
  <2>3. Unlink(w, p).process = [lru |-> Unlink(w, p).process.lru, synced |-> Unlink(w, p).process.synced,
                                retired |-> Unlink(w, p).process.retired]
    BY <1>3 DEF Worlds, Processes
  <2> QED BY <1>4, <2>1, <2>2, <2>3, WorldIs, WorldMade
<1>6. Unlink(w, p).process = w.process
  BY <1>4, <1>5, WorldIs
<1> QED BY <1>4, <1>5, <1>6

(* Closing by path closes every handle on the path.                        *)
LEMMA ClosedByPath ==
  ASSUME NEW w \in Worlds, NEW p \in Paths
  PROVE  /\ CloseOrgDbByPath(w, p) = CloseOrgDb(w, HandlesAt(w, p))
         /\ \A i \in DOMAIN CloseOrgDbByPath(w, p).process.lru : CloseOrgDbByPath(w, p).process.lru[i].path # p
<1> DEFINE os == HandlesAt(w, p)
           rest == Without(w.process.lru, os)
<1>1. CloseOrgDbByPath(w, p).process.lru = rest
  BY CloseIs DEF CloseOrgDbByPath
<1>0. w.process.lru \in Seq(Handles)
  BY WorldIs
<1>2. \A k \in DOMAIN rest : rest[k].org \notin os /\ \E i \in DOMAIN w.process.lru : w.process.lru[i] = rest[k]
  <2> HIDE DEF os
  <2> QED BY <1>0, WithoutIs
<1>3. \A i \in DOMAIN w.process.lru : w.process.lru[i].path = p => w.process.lru[i].org \in os
  BY DEF HandlesAt
<1> HIDE DEF rest, os
<1>4. \A k \in DOMAIN rest : rest[k].path # p
  BY <1>2, <1>3
<1> QED BY <1>1, <1>4 DEF CloseOrgDbByPath, os

(* The handles of a path are those of organizations of that path.          *)
LEMMA HandlesAtAre ==
  ASSUME NEW w \in Worlds, NEW p, HandlesGood(w.control, w.process.lru), NEW q \in HandlesAt(w, p)
  PROVE  w.control.slug[q] = p
BY DEF HandlesAt, HandlesGood, OnFile

(* Removing a file first closes what is open on it.                        *)
LEMMA RemoveIs ==
  ASSUME NEW w \in Worlds, NEW p \in Paths, HandlesGood(w.control, w.process.lru)
  PROVE  LET v == RemoveSqliteFiles(w, p) IN
         /\ v \in Worlds /\ v.control = w.control /\ v.disk = [w.disk EXCEPT ![p] = NoFile]
         /\ v.process.retired = w.process.retired
         /\ HandlesGood(v.control, v.process.lru) /\ Fewer(v, w)
         /\ \A q \in w.process.synced : w.control.slug[q] # p => q \in v.process.synced
<1> DEFINE u == CloseOrgDbByPath(w, p)
           v == RemoveSqliteFiles(w, p)
<1>1. u = CloseOrgDb(w, HandlesAt(w, p)) /\ \A i \in DOMAIN u.process.lru : u.process.lru[i].path # p
  BY ClosedByPath
<1>2. /\ u \in Worlds /\ u.control = w.control /\ u.disk = w.disk /\ u.process.retired = w.process.retired
      /\ u.process.synced = w.process.synced \ HandlesAt(w, p)
  BY <1>1, CloseIs
<1>3. HandlesGood(u.control, u.process.lru) /\ Fewer(u, w)
  BY <1>1, CloseKeeps
<1>4. v = Unlink(u, p)
  BY DEF RemoveSqliteFiles
<1> HIDE DEF u, v
<1>5. v \in Worlds /\ v.control = u.control /\ v.process = u.process /\ v.disk = [u.disk EXCEPT ![p] = NoFile]
  BY <1>1, <1>2, <1>4, UnlinkIs
<1>6. \A q \in w.process.synced : w.control.slug[q] # p => q \in v.process.synced
  BY <1>2, <1>5, HandlesAtAre
<1>7. HandlesGood(v.control, v.process.lru) /\ Fewer(v, w)
  BY <1>3, <1>5 DEF Fewer
<1> QED BY <1>2, <1>5, <1>6, <1>7 DEF v

(* Evicting makes room for one more handle.                                *)
LEMMA EvictIs ==
  ASSUME NEW w \in Worlds, HandlesGood(w.control, w.process.lru)
  PROVE  LET v == EvictLru(w) IN
         /\ v \in Worlds /\ v.control = w.control /\ v.disk = w.disk
         /\ v.process.synced = w.process.synced /\ v.process.retired = w.process.retired
         /\ Len(v.process.lru) < MaxOpen /\ HandlesGood(v.control, v.process.lru) /\ Fewer(v, w)
<1> DEFINE lru == w.process.lru
           l == Len(lru)
           m == IF l >= MaxOpen THEN l - MaxOpen + 2 ELSE 1
           rest == SubSeq(lru, m, l)
<1>1. EvictLru(w) = [w EXCEPT !.process.lru = rest]
  BY DEF EvictLru
<1>2. lru \in Seq(Handles) /\ l \in Nat /\ MaxOpen \in Nat \ {0} /\ l <= MaxOpen
  BY WorldIs, LenProperties, SizeAssumption DEF HandlesGood
<1>3. \A i \in 1 .. l : OnFile(w.control, lru[i])
  BY <1>2, LenProperties DEF HandlesGood
<1> HIDE DEF lru, l
<1>4. m \in 1 .. l + 1 /\ l - m + 1 < MaxOpen
  BY <1>2
<1> HIDE DEF m
<1>5. /\ rest \in Seq(Handles) /\ Len(rest) = l - m + 1
      /\ \A i \in 1 .. l - m + 1 : rest[i] = lru[m + i - 1]
  <2>1. \A i \in m .. l : lru[i] \in Handles
    BY <1>2, <1>4, LenProperties DEF l
  <2> QED BY <1>2, <1>4, <2>1, SubSeqProperties DEF l
<1>6. Len(rest) < MaxOpen
  BY <1>4, <1>5
<1>7. \A i \in DOMAIN rest : \E j \in DOMAIN lru : lru[j] = rest[i]
  <2> TAKE i \in DOMAIN rest
  <2>1. i \in 1 .. l - m + 1
    BY <1>5, LenProperties
  <2>2. m + i - 1 \in 1 .. l
    BY <2>1, <1>2, <1>4
  <2>3. DOMAIN lru = 1 .. l
    BY <1>2, LenProperties DEF l
  <2> QED BY <2>1, <2>2, <2>3, <1>5
<1> HIDE DEF rest
<1>8. EvictLru(w) \in Worlds
  BY <1>1, <1>5 DEF Worlds, Processes
<1>9. /\ EvictLru(w).control = w.control /\ EvictLru(w).disk = w.disk /\ EvictLru(w).process.lru = rest
      /\ EvictLru(w).process.synced = w.process.synced /\ EvictLru(w).process.retired = w.process.retired
  BY <1>1 DEF Worlds, Processes
<1>10. HandlesGood(w.control, rest)
  <2>1. Len(rest) \in Nat
    BY <1>5, LenProperties
  <2>2. \A i \in DOMAIN rest : OnFile(w.control, rest[i])
    <3>1. DOMAIN lru = 1 .. l
      BY <1>2, LenProperties DEF l
    <3> QED BY <1>3, <1>7, <3>1
  <2> QED BY <1>2, <1>6, <2>1, <2>2 DEF HandlesGood
<1> QED BY <1>6, <1>7, <1>8, <1>9, <1>10 DEF Fewer, lru

(* A file comes into being where there was none, and nothing else changes. *)
Created(d, f, o, p) == f = d \/ (d[p].born = -1 /\ f = [d EXCEPT ![p].born = o])

(* Opening creates at most the one missing file.                           *)
LEMMA CreatedKeeps ==
  ASSUME NEW d \in [Paths -> Files], NEW o \in Orgs, NEW p \in Paths, NEW f, Created(d, f, o, p)
  PROVE  /\ f \in [Paths -> Files]
         /\ \A q \in Paths : f[q].row = d[q].row /\ (q # p => f[q] = d[q])
         /\ d[p].born # -1 => f = d
<1>1. CASE f = d
  BY <1>1
<1>2. CASE d[p].born = -1 /\ f = [d EXCEPT ![p].born = o]
  <2>1. o \in Numbers
    BY SizeAssumption DEF Orgs, Numbers
  <2>2. [d[p] EXCEPT !.born = o] \in Files /\ [d[p] EXCEPT !.born = o].row = d[p].row
    BY <2>1 DEF Files
  <2>3. f = [d EXCEPT ![p] = [d[p] EXCEPT !.born = o]]
    BY <1>2
  <2> QED BY <1>2, <2>2, <2>3
<1> QED BY <1>1, <1>2 DEF Created

(* getOrgDb puts a live handle into the pool and keeps its bound.          *)
LEMMA HandleIs ==
  ASSUME NEW w \in Worlds, NEW o \in Orgs, NEW p \in Paths, w.control.slug[o] = p,
         HandlesGood(w.control, w.process.lru)
  PROVE  LET v == Handle(w, o, p) IN
         /\ v \in Worlds /\ v.control = w.control
         /\ v.process.synced = w.process.synced /\ v.process.retired = w.process.retired
         /\ HandlesGood(v.control, v.process.lru)
         /\ Created(w.disk, v.disk, o, p)
         /\ (\A i \in DOMAIN w.process.lru : w.process.lru[i].org # o) /\ w.disk[p].born = -1
              => v.disk[p].born = o
<1> DEFINE v == Handle(w, o, p)
           lru == w.process.lru
<1>1. lru \in Seq(Handles) /\ Len(lru) \in Nat /\ DOMAIN lru = 1 .. Len(lru) /\ MaxOpen \in Nat
  BY WorldIs, LenProperties, SizeAssumption
<1>2. Len(lru) <= MaxOpen /\ \A i \in DOMAIN lru : OnFile(w.control, lru[i])
  BY DEF HandlesGood
<1>3. CASE \E i \in DOMAIN lru : lru[i].org = o
  <2> DEFINE k == CHOOSE i \in DOMAIN lru : lru[i].org = o
             os == {o}
             rest == Without(lru, os)
             moved == Append(rest, lru[k])
  <2>1. k \in DOMAIN lru /\ lru[k].org \in os
    BY <1>3
  <2>2. v = [w EXCEPT !.process.lru = moved]
    BY <1>3 DEF Handle
  <2> HIDE DEF k, lru, os
  <2>3. /\ rest \in Seq(Handles) /\ Len(rest) < Len(lru)
        /\ \A j \in DOMAIN rest : \E i \in DOMAIN lru : lru[i] = rest[j]
    BY <1>1, <2>1, WithoutIs
  <2>4. lru[k] \in Handles
    BY <1>1, <2>1
  <2> HIDE DEF rest
  <2>5. /\ moved \in Seq(Handles) /\ Len(moved) = Len(rest) + 1
        /\ \A j \in 1 .. Len(rest) : moved[j] = rest[j]
        /\ moved[Len(rest) + 1] = lru[k]
    BY <2>3, <2>4, AppendProperties
  <2>6. Len(rest) \in Nat /\ DOMAIN rest = 1 .. Len(rest) /\ DOMAIN moved = 1 .. Len(rest) + 1
    BY <2>3, <2>5, LenProperties
  <2> HIDE DEF moved
  <2>7. HandlesGood(w.control, moved)
    <3>1. \A j \in DOMAIN moved : OnFile(w.control, moved[j])
      <4> TAKE j \in DOMAIN moved
      <4>1. j = Len(rest) + 1 \/ j \in 1 .. Len(rest)
        BY <2>6
      <4> QED BY <4>1, <1>2, <2>1, <2>3, <2>5, <2>6
    <3>2. Len(moved) <= MaxOpen
      BY <1>1, <1>2, <2>3, <2>5, <2>6
    <3> QED BY <3>1, <3>2 DEF HandlesGood
  <2>8. v \in Worlds /\ v.control = w.control /\ v.process.lru = moved /\ v.disk = w.disk
        /\ v.process.synced = w.process.synced /\ v.process.retired = w.process.retired
    BY <2>2, <2>5 DEF Worlds, Processes
  <2> QED BY <2>7, <2>8, <1>3 DEF Created, lru
<1>4. CASE ~ \E i \in DOMAIN lru : lru[i].org = o
  <2> DEFINE u == EvictLru(w)
             h == [org |-> o, path |-> p, live |-> TRUE]
             opened == Append(u.process.lru, h)
             born == IF u.disk[p].born = -1 THEN o ELSE u.disk[p].born
  <2>1. /\ u \in Worlds /\ u.control = w.control /\ u.disk = w.disk
        /\ u.process.synced = w.process.synced /\ u.process.retired = w.process.retired
        /\ Len(u.process.lru) < MaxOpen /\ HandlesGood(u.control, u.process.lru)
    BY EvictIs
  <2>2. v = [u EXCEPT !.process.lru = opened, !.disk[p].born = born]
    BY <1>4 DEF Handle
  <2> HIDE DEF u, v
  <2>3. u.process.lru \in Seq(Handles) /\ h \in Handles
    BY <2>1, WorldIs DEF Handles
  <2>4. /\ opened \in Seq(Handles) /\ Len(opened) = Len(u.process.lru) + 1
        /\ \A j \in 1 .. Len(u.process.lru) : opened[j] = u.process.lru[j]
        /\ opened[Len(u.process.lru) + 1] = h
    BY <2>3, AppendProperties
  <2>5. /\ Len(u.process.lru) \in Nat /\ DOMAIN u.process.lru = 1 .. Len(u.process.lru)
        /\ DOMAIN opened = 1 .. Len(u.process.lru) + 1
    BY <2>3, <2>4, LenProperties
  <2> HIDE DEF opened, h
  <2>6. /\ v.control = u.control /\ v.process.lru = opened
        /\ v.process.synced = u.process.synced /\ v.process.retired = u.process.retired
        /\ v.disk = [u.disk EXCEPT ![p].born = born]
        /\ v = [control |-> v.control, disk |-> v.disk, process |-> v.process]
        /\ v.process = [lru |-> v.process.lru, synced |-> v.process.synced, retired |-> v.process.retired]
    BY <2>1, <2>2 DEF Worlds, Processes
  <2>7. u.disk \in [Paths -> Files]
    BY <2>1, WorldIs
  <2>8. u.disk[p].born # -1 => v.disk = u.disk
    BY <2>6, <2>7 DEF Files
  <2>9. Created(w.disk, v.disk, o, p)
    BY <2>1, <2>6, <2>8 DEF Created
  <2>10. v.disk \in [Paths -> Files]
    BY <2>1, <2>7, <2>9, CreatedKeeps
  <2>11. v \in Worlds
    BY <2>1, <2>4, <2>6, <2>10, WorldIs, WorldMade
  <2>12. HandlesGood(v.control, opened)
    <3>1. \A j \in DOMAIN opened : OnFile(w.control, opened[j])
      <4> TAKE j \in DOMAIN opened
      <4>1. CASE j \in 1 .. Len(u.process.lru)
        BY <4>1, <2>1, <2>4, <2>5 DEF HandlesGood
      <4>2. CASE j = Len(u.process.lru) + 1
        BY <4>2, <2>4 DEF OnFile, h
      <4> QED BY <4>1, <4>2, <2>5
    <3>2. Len(opened) <= MaxOpen
      BY <1>1, <2>1, <2>4, <2>5
    <3> QED BY <3>1, <3>2, <2>1, <2>6 DEF HandlesGood
  <2>13. w.disk[p].born = -1 => v.disk[p].born = o
    BY <2>1, <2>6, <2>7 DEF Files
  <2> QED BY <2>1, <2>6, <2>9, <2>11, <2>12, <2>13 DEF v
<1> QED BY <1>3, <1>4

Tells(w, o, p, e) ==
  IF w.control.status[o] = "none" THEN w.control.ident[e]
  ELSE IF w.disk[p].row[e].pw > 0 THEN w.disk[p].row[e].pw
  ELSE IF w.disk[p].row[e].pw = 0 /\ w.control.ident[e] = -1 THEN 0 ELSE w.control.ident[e]

(* Bringing the directories in step adds what the file has, and takes nothing. *)
LEMMA SyncIs ==
  ASSUME NEW w \in Worlds, NEW o \in Orgs, NEW p \in Paths
  PROVE  LET v == SyncDirectory(w, o, p) IN
         /\ v \in Worlds /\ v.disk = w.disk /\ v.process = w.process
         /\ v.control.status = w.control.status /\ v.control.slug = w.control.slug
         /\ w.control.dir \subseteq v.control.dir /\ w.control.tok \subseteq v.control.tok
         /\ w.control.status[o] # "none" =>
              \A e \in Present(w.disk[p]) :
                <<o, e>> \in v.control.dir /\ (w.disk[p].row[e].inv => <<o, e>> \in v.control.tok)
         /\ \A e \in Emails : v.control.ident[e] = Tells(w, o, p, e)
<1> DEFINE v == SyncDirectory(w, o, p)
           row == w.disk[p].row
<1>1. CASE w.control.status[o] = "none"
  BY <1>1 DEF SyncDirectory, Tells
<1>2. CASE w.control.status[o] # "none"
  <2> DEFINE dir == w.control.dir \cup {<<o, e>> : e \in Present(w.disk[p])}
             tok == w.control.tok \cup {<<o, e>> : e \in {x \in Emails : row[x].inv}}
             ident == [e \in Emails |-> IF row[e].pw > 0 THEN row[e].pw
                                        ELSE IF row[e].pw = 0 /\ w.control.ident[e] = -1 THEN 0
                                        ELSE w.control.ident[e]]
  <2>1. v = [w EXCEPT !.control.dir = dir, !.control.tok = tok, !.control.ident = ident]
    BY <1>2 DEF SyncDirectory
  <2>2. w.control \in Controls /\ w.disk[p] \in Files
    BY WorldIs
  <2>3. dir \in SUBSET (Orgs \X Emails) /\ tok \in SUBSET (Orgs \X Emails)
    BY <2>2 DEF Controls, Present
  <2>4. ident \in [Emails -> Numbers]
    <3> SUFFICES ASSUME NEW e \in Emails PROVE ident[e] \in Numbers
      OBVIOUS
    <3>1. row[e].pw \in Numbers /\ w.control.ident[e] \in Numbers
      BY <2>2 DEF Controls, Files, Rows
    <3> QED BY <3>1 DEF Numbers
  <2>5. \A e \in Emails : ident[e] = Tells(w, o, p, e)
    BY <1>2 DEF Tells
  <2>6. \A e \in Present(w.disk[p]) : e \in Emails /\ <<o, e>> \in dir /\ (row[e].inv => <<o, e>> \in tok)
    BY DEF Present
  <2>7. w.control.dir \subseteq dir /\ w.control.tok \subseteq tok
    OBVIOUS
  <2> HIDE DEF dir, tok, ident, v
  <2>8. /\ v.disk = w.disk /\ v.process = w.process
        /\ v.control.status = w.control.status /\ v.control.slug = w.control.slug
        /\ v.control.dir = dir /\ v.control.tok = tok /\ v.control.ident = ident
    BY <2>1 DEF Worlds, Controls
  <2>9. v \in Worlds
    BY <2>1, <2>3, <2>4 DEF Worlds, Controls
  <2> QED BY <1>2, <2>5, <2>6, <2>7, <2>8, <2>9 DEF v
<1> QED BY <1>1, <1>2

(* All that opening an organization does.                                  *)
LEMMA OpenIs ==
  ASSUME NEW w \in Worlds, NEW o \in Orgs, NEW p \in Paths, w.control.slug[o] = p,
         HandlesGood(w.control, w.process.lru)
  PROVE  LET v == OpenOrg(w, o, p) IN
         /\ v \in Worlds /\ HandlesGood(v.control, v.process.lru)
         /\ v.control.status = w.control.status /\ v.control.slug = w.control.slug
         /\ w.control.dir \subseteq v.control.dir /\ w.control.tok \subseteq v.control.tok
         /\ v.process.synced = w.process.synced \cup {o} /\ v.process.retired = w.process.retired
         /\ Created(w.disk, v.disk, o, p)
         /\ (\A i \in DOMAIN w.process.lru : w.process.lru[i].org # o) /\ w.disk[p].born = -1
              => v.disk[p].born = o
         /\ o \in w.process.synced => v.control = w.control
         /\ o \notin w.process.synced =>
              /\ w.control.status[o] # "none" =>
                   \A e \in Present(w.disk[p]) :
                     <<o, e>> \in v.control.dir /\ (w.disk[p].row[e].inv => <<o, e>> \in v.control.tok)
              /\ \A e \in Emails : v.control.ident[e] = Tells(w, o, p, e)
<1> DEFINE u == Handle(w, o, p)
           v == OpenOrg(w, o, p)
<1>1. /\ u \in Worlds /\ u.control = w.control
      /\ u.process.synced = w.process.synced /\ u.process.retired = w.process.retired
      /\ HandlesGood(u.control, u.process.lru)
      /\ Created(w.disk, u.disk, o, p)
      /\ (\A i \in DOMAIN w.process.lru : w.process.lru[i].org # o) /\ w.disk[p].born = -1
           => u.disk[p].born = o
  BY HandleIs
<1>2. CASE o \in w.process.synced
  <2>1. v = u
    BY <1>1, <1>2 DEF OpenOrg
  <2>2. u.process.synced = w.process.synced \cup {o}
    BY <1>1, <1>2
  <2> HIDE DEF u, v
  <2> QED BY <1>1, <1>2, <2>1, <2>2 DEF v
<1>3. CASE o \notin w.process.synced
  <2> DEFINE x == [u EXCEPT !.process.synced = w.process.synced \cup {o}]
  <2>1. v = SyncDirectory(x, o, p)
    BY <1>1, <1>3 DEF OpenOrg
  <2> HIDE DEF u, v
  <2>2. /\ x \in Worlds /\ x.control = u.control /\ x.disk = u.disk /\ x.process.lru = u.process.lru
        /\ x.process.synced = w.process.synced \cup {o} /\ x.process.retired = u.process.retired
    BY <1>1, WorldIs DEF Worlds, Processes
  <2> HIDE DEF x
  <2>3. /\ v \in Worlds /\ v.disk = x.disk /\ v.process = x.process
        /\ v.control.status = x.control.status /\ v.control.slug = x.control.slug
        /\ x.control.dir \subseteq v.control.dir /\ x.control.tok \subseteq v.control.tok
        /\ x.control.status[o] # "none" =>
              \A e \in Present(x.disk[p]) :
                <<o, e>> \in v.control.dir /\ (x.disk[p].row[e].inv => <<o, e>> \in v.control.tok)
        /\ \A e \in Emails : v.control.ident[e] = Tells(x, o, p, e)
    BY <2>1, <2>2, SyncIs
  <2>4. x.disk[p].row = w.disk[p].row
    <3>1. w.disk \in [Paths -> Files]
      BY WorldIs
    <3>2. \A q \in Paths : u.disk[q].row = w.disk[q].row
      BY <3>1, <1>1, CreatedKeeps
    <3> QED BY <3>2, <2>2
  <2>5. Present(x.disk[p]) = Present(w.disk[p]) /\ \A e : Tells(x, o, p, e) = Tells(w, o, p, e)
    BY <1>1, <2>2, <2>4 DEF Present, Tells
  <2>6. HandlesGood(v.control, v.process.lru)
    BY <1>1, <2>2, <2>3, SMTT(30), ZenonT(30) DEF HandlesGood, OnFile
  <2> QED BY <1>1, <1>3, <2>2, <2>3, <2>4, <2>5, <2>6 DEF v
<1> QED BY <1>2, <1>3
-----------------------------------------------------------------------------
(* The inductive invariant.                                                *)

(* No two listed organizations are of one slug.                            *)
SlugsGood(c) ==
  \A o, q \in Listed(c) : c.slug[o] \in Paths /\ (c.slug[o] = c.slug[q] => o = q)

FileOf(w, o) == w.disk[w.control.slug[o]]

(* The directories reach every member and every open invite.               *)
Reached(w, o) ==
  \A e \in Present(FileOf(w, o)) :
    <<o, e>> \in w.control.dir /\ (FileOf(w, o).row[e].inv => <<o, e>> \in w.control.tok)

Owned(w, o) == FileOf(w, o).born = o /\ Present(FileOf(w, o)) # {}

Sound(w, o) ==
  /\ Owned(w, o)
  /\ w.control.slug[o] \notin w.process.retired
  /\ o \in w.process.synced
  /\ Reached(w, o)

Apart(w, mx) == {o \in Listed(w.control) : w.control.slug[o] \notin mx}

WorldGood(w, mx) ==
  /\ w \in Worlds
  /\ HandlesGood(w.control, w.process.lru)
  /\ SlugsGood(w.control)
  /\ \A o \in Apart(w, mx) : Sound(w, o)

Kinds == {"provision", "invite", "password"}
CallTypes == [kind : Kinds, org : Orgs, path : Paths, email : Emails, live : BOOLEAN] \cup {Idle}

(* The file of an organization that is being provisioned has its first     *)
(* member alone, who is invited.                                           *)
Pending(w, r) ==
  /\ w.control.status[r.org] = "none" /\ Owner(w, r.path) = {} /\ r.path \notin w.process.retired
  /\ w.disk[r.path].born = r.org
  /\ w.disk[r.path].row = [x \in Emails |-> IF x = r.email THEN [pw |-> 0, inv |-> TRUE] ELSE [pw |-> -1, inv |-> FALSE]]

(* A waiting call is about an organization that is listed, unless its path *)
(* is retired.                                                             *)
CallGood(w, r, mx) ==
  /\ r.kind # "idle" => w.control.slug[r.org] = r.path
  /\ r.kind # "idle" /\ r.path \notin mx =>
       IF r.kind = "provision" THEN Pending(w, r)
       ELSE /\ r.org \in Listed(w.control) \/ r.path \in w.process.retired
            /\ r.kind = "password" /\ r.live => r.org \in Listed(w.control) /\ w.disk[r.path].row[r.email].pw >= 0

CallsGood(w, cs, mx) ==
  /\ cs \in [Calls -> CallTypes]
  /\ \A c \in Calls : CallGood(w, cs[c], mx)
  /\ \A c, d \in Calls :
       (cs[c].kind = "provision" /\ cs[d].kind = "provision" /\ cs[c].path = cs[d].path /\ cs[c].path \notin mx) => c = d

(* One person has one password, and none before the first organization is  *)
(* listed.                                                                 *)
Agrees(w, e) == \A o \in Listed(w.control) : FileOf(w, o).row[e].pw >= 0 => w.control.ident[e] = FileOf(w, o).row[e].pw
Expected(cs, e) == \E c \in Calls : cs[c].kind = "provision" /\ cs[c].email = e

PasswordsGood(w, cs, mx, dr) ==
  mx = {} => \A e \in Emails \ dr : Agrees(w, e) /\ (Expected(cs, e) => w.control.ident[e] <= 0)

-----------------------------------------------------------------------------
(* Opening leaves everything as it was, but for files of mixed paths.      *)
Like(w, v, mx) ==
  /\ v.control.status = w.control.status /\ v.control.slug = w.control.slug
  /\ v.process.retired = w.process.retired
  /\ \A q \in Paths \ mx : v.disk[q] = w.disk[q]
  /\ \A q \in Paths : v.disk[q].row = w.disk[q].row
  /\ mx = {} => v.control.ident = w.control.ident

(* Who is listed, and where, is the same.                                  *)
LEMMA LikeListed ==
  ASSUME NEW w, NEW v, NEW mx, Like(w, v, mx)
  PROVE  /\ Listed(v.control) = Listed(w.control) /\ Apart(v, mx) = Apart(w, mx)
         /\ \A p : Owner(v, p) = Owner(w, p)
         /\ \A o : FileOf(v, o) = v.disk[w.control.slug[o]]
         /\ SlugsGood(w.control) => SlugsGood(v.control)
BY DEF Like, Listed, Apart, Owner, FileOf, SlugsGood

(* A sound organization stays sound.                                       *)
LEMMA LikeSound ==
  ASSUME NEW w, NEW v, NEW mx, Like(w, v, mx), SlugsGood(w.control),
         NEW o \in Apart(w, mx), Sound(w, o), o \in v.process.synced,
         w.control.dir \subseteq v.control.dir, w.control.tok \subseteq v.control.tok
  PROVE  Sound(v, o)
<1>1. w.control.slug[o] \in Paths \ mx
  BY DEF Apart, SlugsGood
<1>2. FileOf(v, o) = FileOf(w, o)
  BY <1>1 DEF Like, FileOf
<1> QED BY <1>2 DEF Sound, Owned, Reached, Like

(* What the waiting calls and the copies rely on stays.                    *)
LEMMA LikeKeepsCalls ==
  ASSUME NEW w, NEW v, NEW mx, NEW cs, NEW dr, Like(w, v, mx), SlugsGood(w.control), CallsGood(w, cs, mx)
  PROVE  CallsGood(v, cs, mx) /\ (PasswordsGood(w, cs, mx, dr) => PasswordsGood(v, cs, mx, dr))
<1>1. \A c \in Calls : CallGood(v, cs[c], mx)
  <2> TAKE c \in Calls
  <2> DEFINE r == cs[c]
  <2>1. r.kind = "idle" \/ r \in [kind : Kinds, org : Orgs, path : Paths, email : Emails, live : BOOLEAN]
    BY DEF CallsGood, CallTypes, Idle
  <2>2. CallGood(w, r, mx)
    BY DEF CallsGood
  <2> HIDE DEF r
  <2>3. r.kind # "idle" /\ r.path \notin mx => v.disk[r.path] = w.disk[r.path]
    BY <2>1 DEF Like
  <2>4. /\ v.control.status = w.control.status /\ v.control.slug = w.control.slug
        /\ v.process.retired = w.process.retired
        /\ Listed(v.control) = Listed(w.control) /\ Owner(v, r.path) = Owner(w, r.path)
    <3>1. Listed(v.control) = Listed(w.control) /\ Owner(v, r.path) = Owner(w, r.path)
      BY LikeListed
    <3> QED BY <3>1 DEF Like
  <2>5. CallGood(v, r, mx)
    <3>1. CASE r.kind = "idle"
      BY <3>1 DEF CallGood
    <3>2. CASE r.kind # "idle" /\ r.path \in mx
      BY <3>2, <2>2, <2>4 DEF CallGood
    <3>3. CASE r.kind = "provision" /\ r.path \notin mx
      <4>1. Pending(v, r)
        BY <3>3, <2>2, <2>3, <2>4 DEF CallGood, Pending
      <4> QED BY <3>3, <4>1, <2>2, <2>4 DEF CallGood
    <3>4. CASE r.kind # "idle" /\ r.kind # "provision" /\ r.path \notin mx
      BY <3>4, <2>2, <2>3, <2>4 DEF CallGood
    <3> QED BY <3>1, <3>2, <3>3, <3>4
  <2> QED BY <2>5 DEF r
<1>2. CallsGood(v, cs, mx)
  BY <1>1 DEF CallsGood
<1>3. ASSUME PasswordsGood(w, cs, mx, dr), mx = {}, NEW e \in Emails \ dr
      PROVE  Agrees(v, e) /\ (Expected(cs, e) => v.control.ident[e] <= 0)
  <2>1. v.control.ident = w.control.ident
    BY <1>3 DEF Like
  <2>2. \A o \in Listed(w.control) : FileOf(v, o) = FileOf(w, o)
    BY <1>3 DEF Like, FileOf, SlugsGood
  <2> QED BY <1>3, <2>1, <2>2, LikeListed DEF PasswordsGood, Agrees
<1> QED BY <1>2, <1>3 DEF PasswordsGood

(* Opening an organization keeps the world good.                           *)
LEMMA OpenKeeps ==
  ASSUME NEW w, NEW mx, WorldGood(w, mx), NEW o \in Orgs, NEW p \in Paths, w.control.slug[o] = p,
         o \in Listed(w.control) \/ p \in mx
  PROVE  LET v == OpenOrg(w, o, p) IN
         WorldGood(v, mx) /\ Like(w, v, mx) /\ (mx = {} => v.control = w.control)
<1> DEFINE v == OpenOrg(w, o, p)
<1>1. /\ w \in Worlds /\ HandlesGood(w.control, w.process.lru) /\ SlugsGood(w.control)
      /\ \A q \in Apart(w, mx) : Sound(w, q)
  BY DEF WorldGood
<1>2. /\ v \in Worlds /\ HandlesGood(v.control, v.process.lru)
      /\ v.control.status = w.control.status /\ v.control.slug = w.control.slug
      /\ w.control.dir \subseteq v.control.dir /\ w.control.tok \subseteq v.control.tok
      /\ v.process.synced = w.process.synced \cup {o} /\ v.process.retired = w.process.retired
      /\ Created(w.disk, v.disk, o, p)
      /\ o \in w.process.synced => v.control = w.control
  BY <1>1, OpenIs
<1> HIDE DEF v
<1>3. p \notin mx => o \in Apart(w, mx) /\ w.disk[p].born = o /\ o \in w.process.synced
  BY <1>1 DEF Apart, Sound, Owned, FileOf
<1>4. w.disk \in [Paths -> Files]
  BY <1>1, WorldIs
<1>5. /\ \A q \in Paths : v.disk[q].row = w.disk[q].row /\ (q # p => v.disk[q] = w.disk[q])
      /\ p \notin mx => v.disk = w.disk
  <2>1. o # -1
    BY SizeAssumption DEF Orgs
  <2> QED BY <1>2, <1>3, <1>4, <2>1, CreatedKeeps
<1>6. mx = {} => v.control = w.control
  BY <1>2, <1>3
<1>7. Like(w, v, mx)
  BY <1>2, <1>5, <1>6 DEF Like
<1>8. \A q \in Apart(v, mx) : Sound(v, q)
  <2> TAKE q \in Apart(v, mx)
  <2>1. q \in Apart(w, mx)
    BY <1>7, LikeListed
  <2>2. Sound(w, q)
    BY <1>1, <2>1
  <2>3. q \in v.process.synced
    BY <1>2, <2>2 DEF Sound
  <2> QED BY <1>1, <1>2, <1>7, <2>1, <2>2, <2>3, LikeSound
<1>9. SlugsGood(v.control)
  BY <1>1, <1>7, LikeListed
<1> QED BY <1>2, <1>6, <1>7, <1>8, <1>9 DEF v, WorldGood

(* A retired path is refused, and only its organization is closed.         *)
LEMMA RefusedKeeps ==
  ASSUME NEW w, NEW mx, WorldGood(w, mx), NEW o, w.control.slug[o] \in w.process.retired
  PROVE  LET v == CloseOrgDb(w, {o}) IN
         WorldGood(v, mx) /\ Like(w, v, mx) /\ v.control = w.control /\ v.disk = w.disk
<1> DEFINE os == {o}
           v == CloseOrgDb(w, os)
<1>1. /\ w \in Worlds /\ HandlesGood(w.control, w.process.lru) /\ SlugsGood(w.control)
      /\ \A q \in Apart(w, mx) : Sound(w, q)
  BY DEF WorldGood
<1>2. /\ v \in Worlds /\ v.control = w.control /\ v.disk = w.disk
      /\ v.process.synced = w.process.synced \ os /\ v.process.retired = w.process.retired
      /\ HandlesGood(v.control, v.process.lru)
  <2> HIDE DEF os
  <2> QED BY <1>1, CloseIs, CloseKeeps
<1> HIDE DEF v
<1>3. Like(w, v, mx)
  BY <1>2 DEF Like
<1>4. \A q \in Apart(v, mx) : Sound(v, q)
  <2> TAKE q \in Apart(v, mx)
  <2>1. q \in Apart(w, mx) /\ Sound(w, q)
    BY <1>1, <1>3, LikeListed
  <2>2. q \in v.process.synced
    BY <1>2, <2>1 DEF Sound
  <2> QED BY <1>1, <1>2, <1>3, <2>1, <2>2, LikeSound
<1> QED BY <1>1, <1>2, <1>3, <1>4 DEF v, WorldGood

(* And so does an attempt that may be refused.                             *)
LEMMA TryOpenKeeps ==
  ASSUME NEW w, NEW mx, WorldGood(w, mx), NEW o \in Orgs, NEW p \in Paths, w.control.slug[o] = p,
         o \in Listed(w.control) \/ p \in mx
  PROVE  LET v == TryOpen(w, o, p) IN
         WorldGood(v, mx) /\ Like(w, v, mx) /\ (mx = {} => v.control = w.control)
BY OpenKeeps, RefusedKeeps DEF TryOpen, Refuses
-----------------------------------------------------------------------------
(* Calls end, and password changes become void.                            *)
Weaker(ds, cs) ==
  /\ ds \in [Calls -> CallTypes]
  /\ \A c \in Calls : ds[c].kind # "idle" =>
       /\ ds[c].kind = cs[c].kind /\ ds[c].org = cs[c].org /\ ds[c].path = cs[c].path /\ ds[c].email = cs[c].email
       /\ ds[c].live => cs[c].live

(* Fewer calls that wait rely on less.                                     *)
LEMMA WeakerGood ==
  ASSUME NEW w, NEW mx, NEW dr, NEW cs, NEW ds, CallsGood(w, cs, mx), Weaker(ds, cs)
  PROVE  CallsGood(w, ds, mx) /\ (PasswordsGood(w, cs, mx, dr) => PasswordsGood(w, ds, mx, dr))
<1>1. ASSUME NEW c \in Calls PROVE CallGood(w, ds[c], mx)
  <2> DEFINE r == cs[c]
             s == ds[c]
  <2>1. CallGood(w, r, mx)
    BY DEF CallsGood
  <2>2. s.kind # "idle" => /\ s.kind = r.kind /\ s.org = r.org /\ s.path = r.path /\ s.email = r.email
                           /\ s.live => r.live
    BY DEF Weaker
  <2> HIDE DEF r, s
  <2>3. Pending(w, r) /\ s.kind # "idle" => Pending(w, s)
    BY <2>2 DEF Pending
  <2>4. CallGood(w, s, mx)
    <3>1. CASE s.kind = "idle"
      BY <3>1 DEF CallGood
    <3>2. CASE s.kind # "idle" /\ s.kind = "provision"
      BY <3>2, <2>1, <2>2, <2>3 DEF CallGood
    <3>3. CASE s.kind # "idle" /\ s.kind # "provision"
      BY <3>3, <2>1, <2>2 DEF CallGood
    <3> QED BY <3>1, <3>2, <3>3
  <2> QED BY <2>4 DEF s
<1>2. \A c, d \in Calls :
        (ds[c].kind = "provision" /\ ds[d].kind = "provision" /\ ds[c].path = ds[d].path /\ ds[c].path \notin mx) => c = d
  BY DEF Weaker, CallsGood
<1>3. CallsGood(w, ds, mx)
  BY <1>1, <1>2 DEF CallsGood, Weaker
<1>4. \A e : Expected(ds, e) => Expected(cs, e)
  BY DEF Expected, Weaker
<1> QED BY <1>3, <1>4 DEF PasswordsGood

(* A call that ends.                                                       *)
LEMMA EndedWeaker ==
  ASSUME NEW cs \in [Calls -> CallTypes], NEW c \in Calls
  PROVE  Weaker([cs EXCEPT ![c] = Idle], cs)
BY DEF Weaker, CallTypes, Idle

(* Calls whose row is gone.                                                *)
LEMMA VoidedWeaker ==
  ASSUME NEW cs \in [Calls -> CallTypes], NEW p, NEW es
  PROVE  /\ Weaker(Voided(cs, p, es), cs)
         /\ \A c \in Calls : LET r == Voided(cs, p, es)[c] IN
              r.kind = "password" /\ r.path = p /\ r.email \in es => ~r.live
<1> DEFINE ds == Voided(cs, p, es)
<1>1. ASSUME NEW c \in Calls
      PROVE  /\ ds[c] \in CallTypes
             /\ ds[c].kind = cs[c].kind /\ ds[c].org = cs[c].org /\ ds[c].path = cs[c].path /\ ds[c].email = cs[c].email
             /\ ds[c].live => cs[c].live
             /\ ds[c].kind = "password" /\ ds[c].path = p /\ ds[c].email \in es => ~ds[c].live
  <2>0. cs[c] \in CallTypes
    OBVIOUS
  <2>1. CASE cs[c].kind = "password" /\ cs[c].path = p /\ cs[c].email \in es
    <3>1. ds[c] = [cs[c] EXCEPT !.live = FALSE]
      BY <2>1 DEF Voided
    <3>2. cs[c] \in [kind : Kinds, org : Orgs, path : Paths, email : Emails, live : BOOLEAN]
      BY <2>0, <2>1 DEF CallTypes, Idle
    <3> HIDE DEF ds
    <3> QED BY <3>1, <3>2 DEF CallTypes
  <2>2. CASE ~(cs[c].kind = "password" /\ cs[c].path = p /\ cs[c].email \in es)
    <3>1. ds[c] = cs[c]
      BY <2>2 DEF Voided
    <3> HIDE DEF ds
    <3> QED BY <3>1, <2>0, <2>2
  <2> QED BY <2>1, <2>2
<1>2. ds = [c \in Calls |-> ds[c]]
  BY DEF Voided
<1> HIDE DEF ds
<1>3. ds \in [Calls -> CallTypes]
  BY <1>1, <1>2
<1> QED BY <1>1, <1>3 DEF Weaker, ds

(* A new call of a member.                                                 *)
LEMMA CallStarts ==
  ASSUME NEW w, NEW mx, NEW dr, NEW cs, NEW c \in Calls, NEW r \in CallTypes,
         CallsGood(w, cs, mx), CallGood(w, r, mx), r.kind # "provision"
  PROVE  LET ds == [cs EXCEPT ![c] = r] IN
         CallsGood(w, ds, mx) /\ (PasswordsGood(w, cs, mx, dr) => PasswordsGood(w, ds, mx, dr))
<1> DEFINE ds == [cs EXCEPT ![c] = r]
<1>1. ds \in [Calls -> CallTypes] /\ \A d \in Calls : ds[d] = IF d = c THEN r ELSE cs[d]
  BY DEF CallsGood
<1> HIDE DEF ds
<1>2. CallsGood(w, ds, mx)
  BY <1>1 DEF CallsGood
<1>3. \A e : Expected(ds, e) => Expected(cs, e)
  BY <1>1 DEF Expected
<1> QED BY <1>2, <1>3 DEF PasswordsGood, ds

-----------------------------------------------------------------------------
(* One row of one file is written, and what the directories say of it.     *)
RowSet(w, v, o, p, e) ==
  /\ v \in Worlds /\ v.process = w.process
  /\ v.control.status = w.control.status /\ v.control.slug = w.control.slug
  /\ \A q \in Paths : q # p => v.disk[q] = w.disk[q]
  /\ v.disk[p].born = w.disk[p].born
  /\ \A x \in Emails : x # e => v.disk[p].row[x] = w.disk[p].row[x] /\ v.control.ident[x] = w.control.ident[x]
  /\ \A q \in Orgs, x \in Emails : <<q, x>> # <<o, e>> =>
       /\ <<q, x>> \in w.control.dir => <<q, x>> \in v.control.dir
       /\ <<q, x>> \in w.control.tok => <<q, x>> \in v.control.tok

(* Another row of a file leaves the other organizations alone.             *)
LEMMA RowOthers ==
  ASSUME NEW w, NEW v, NEW mx, NEW o \in Orgs, NEW p \in Paths, NEW e,
         w.control.slug[o] = p, o \in Listed(w.control) \/ p \in mx,
         SlugsGood(w.control), RowSet(w, v, o, p, e)
  PROVE  /\ Listed(v.control) = Listed(w.control) /\ Apart(v, mx) = Apart(w, mx)
         /\ \A q : Owner(v, q) = Owner(w, q)
         /\ \A q \in Listed(w.control) : q \in Orgs /\ w.control.slug[q] \in Paths
         /\ \A q \in Apart(w, mx) : q # o => w.control.slug[q] # p /\ FileOf(v, q) = FileOf(w, q)
         /\ o \in Listed(w.control) => \A q \in Listed(w.control) : q # o => FileOf(v, q) = FileOf(w, q)
<1>1. v.control.status = w.control.status /\ v.control.slug = w.control.slug
  BY DEF RowSet
<1>2. Listed(v.control) = Listed(w.control) /\ Apart(v, mx) = Apart(w, mx) /\ \A q : Owner(v, q) = Owner(w, q)
  BY <1>1 DEF Listed, Apart, Owner
<1>3. \A q \in Listed(w.control) : q \in Orgs /\ w.control.slug[q] \in Paths
  BY DEF SlugsGood, Listed
<1>4. \A q \in Apart(w, mx) : q # o => w.control.slug[q] # p
  BY DEF SlugsGood, Apart
<1>5. \A q \in Listed(w.control) : w.control.slug[q] # p => FileOf(v, q) = FileOf(w, q)
  BY <1>1, <1>3 DEF RowSet, FileOf
<1> QED BY <1>2, <1>3, <1>4, <1>5 DEF Apart, SlugsGood

(* It keeps the world good, if the member it leaves can be reached.        *)
LEMMA RowKeeps ==
  ASSUME NEW w, NEW v, NEW mx, NEW o \in Orgs, NEW p \in Paths, NEW e \in Emails,
         w.control.slug[o] = p, o \in Listed(w.control) \/ p \in mx,
         WorldGood(w, mx), RowSet(w, v, o, p, e),
         p \notin mx =>
           /\ Present(v.disk[p]) # {}
           /\ v.disk[p].row[e].pw >= 0 =>
                <<o, e>> \in v.control.dir /\ (v.disk[p].row[e].inv => <<o, e>> \in v.control.tok)
  PROVE  WorldGood(v, mx)
<1>1. /\ w \in Worlds /\ HandlesGood(w.control, w.process.lru) /\ SlugsGood(w.control)
      /\ \A q \in Apart(w, mx) : Sound(w, q)
  BY DEF WorldGood
<1>2. v.control.status = w.control.status /\ v.control.slug = w.control.slug /\ v.process = w.process /\ v \in Worlds
  BY DEF RowSet
<1>3. HandlesGood(v.control, v.process.lru)
  BY <1>1, <1>2 DEF HandlesGood, OnFile
<1>4. SlugsGood(v.control)
  BY <1>1, <1>2 DEF SlugsGood, Listed
<1>5. ASSUME NEW q \in Apart(v, mx) PROVE Sound(v, q)
  <2>1. q \in Apart(w, mx) /\ q \in Orgs /\ Sound(w, q)
    <3>1. Apart(v, mx) = Apart(w, mx)
      BY <1>1, RowOthers
    <3> QED BY <1>1, <1>5, <3>1 DEF Apart, Listed
  <2>2. CASE q # o
    <3>1. FileOf(v, q) = FileOf(w, q)
      BY <1>1, <2>1, <2>2, RowOthers
    <3>2. \A x \in Emails : <<q, x>> # <<o, e>>
      BY <2>2
    <3>3. Reached(v, q)
      BY <2>1, <3>1, <3>2 DEF Sound, Reached, RowSet, Present
    <3> QED BY <1>2, <2>1, <3>1, <3>3 DEF Sound, Owned
  <2>3. CASE q = o
    <3>1. p \notin mx /\ FileOf(v, q) = v.disk[p] /\ FileOf(w, q) = w.disk[p]
      BY <1>2, <2>1, <2>3 DEF Apart, FileOf
    <3>2. Owned(v, q)
      BY <2>1, <2>3, <3>1 DEF Sound, Owned, RowSet
    <3>3. Reached(v, q)
      <4> SUFFICES ASSUME NEW x \in Present(v.disk[p])
                   PROVE  <<o, x>> \in v.control.dir /\ (v.disk[p].row[x].inv => <<o, x>> \in v.control.tok)
        BY <2>3, <3>1 DEF Reached
      <4>1. x \in Emails /\ v.disk[p].row[x].pw >= 0
        BY DEF Present
      <4>2. CASE x = e
        BY <4>1, <4>2, <3>1
      <4>3. CASE x # e
        <5>1. v.disk[p].row[x] = w.disk[p].row[x] /\ <<o, x>> # <<o, e>>
          BY <4>1, <4>3 DEF RowSet
        <5>2. x \in Present(w.disk[p])
          BY <4>1, <5>1 DEF Present
        <5>3. <<o, x>> \in w.control.dir /\ (w.disk[p].row[x].inv => <<o, x>> \in w.control.tok)
          BY <5>2, <2>1, <2>3, <3>1 DEF Sound, Reached
        <5> QED BY <4>1, <5>1, <5>3 DEF RowSet
      <4> QED BY <4>2, <4>3
    <3> QED BY <1>2, <2>1, <3>2, <3>3 DEF Sound
  <2> QED BY <2>2, <2>3
<1> QED BY <1>2, <1>3, <1>4, <1>5 DEF WorldGood

(* It keeps what calls rely on, if it is not the row one waits for.        *)
LEMMA RowCalls ==
  ASSUME NEW w, NEW v, NEW mx, NEW cs, NEW o \in Orgs, NEW p \in Paths, NEW e \in Emails,
         w.control.slug[o] = p, o \in Listed(w.control) \/ p \in mx,
         SlugsGood(w.control), RowSet(w, v, o, p, e), CallsGood(w, cs, mx),
         p \notin mx => \A c \in Calls :
           cs[c].kind = "password" /\ cs[c].live /\ cs[c].path = p /\ cs[c].email = e => v.disk[p].row[e].pw >= 0
  PROVE  CallsGood(v, cs, mx)
<1>1. ASSUME NEW c \in Calls PROVE CallGood(v, cs[c], mx)
  <2> DEFINE r == cs[c]
  <2> SUFFICES CallGood(v, r, mx)
    OBVIOUS
  <2>1. CallGood(w, r, mx)
    BY DEF CallsGood
  <2>2. r.kind = "idle" \/ r \in [kind : Kinds, org : Orgs, path : Paths, email : Emails, live : BOOLEAN]
    BY DEF CallsGood, CallTypes, Idle
  <2>3. p \notin mx /\ r.kind = "password" /\ r.live /\ r.path = p /\ r.email = e => v.disk[p].row[e].pw >= 0
    OBVIOUS
  <2> HIDE DEF r
  <2>4. /\ v.control.status = w.control.status /\ v.control.slug = w.control.slug /\ v.process = w.process
        /\ \A q \in Paths : q # p => v.disk[q] = w.disk[q]
    BY DEF RowSet
  <2>5. Listed(v.control) = Listed(w.control) /\ Owner(v, r.path) = Owner(w, r.path)
    BY RowOthers
  <2>6. CASE r.kind = "idle" \/ r.path \in mx
    BY <2>6, <2>1, <2>4 DEF CallGood
  <2>7. CASE r.kind = "provision" /\ r.path \notin mx
    <3>1. Pending(w, r)
      BY <2>1, <2>7 DEF CallGood
    <3>2. r.path # p
      BY <2>7, <3>1 DEF Pending, Owner
    <3>3. Pending(v, r)
      BY <2>2, <2>4, <2>5, <2>7, <3>1, <3>2 DEF Pending
    <3> QED BY <2>1, <2>4, <2>7, <3>3 DEF CallGood
  <2>8. CASE r.kind # "idle" /\ r.kind # "provision" /\ r.path \notin mx
    <3>1. r.kind = "password" /\ r.live => v.disk[r.path].row[r.email].pw >= 0
      <4> SUFFICES ASSUME r.kind = "password", r.live PROVE v.disk[r.path].row[r.email].pw >= 0
        OBVIOUS
      <4>1. w.disk[r.path].row[r.email].pw >= 0 /\ r.path \in Paths /\ r.email \in Emails
        BY <2>1, <2>2, <2>8 DEF CallGood
      <4>2. CASE r.path # p
        BY <4>1, <4>2, <2>4
      <4>3. CASE r.path = p /\ r.email # e
        BY <4>1, <4>3 DEF RowSet
      <4>4. CASE r.path = p /\ r.email = e
        BY <4>4, <2>3, <2>8
      <4> QED BY <4>2, <4>3, <4>4
    <3> QED BY <2>1, <2>4, <2>5, <2>8, <3>1 DEF CallGood
  <2> QED BY <2>6, <2>7, <2>8
<1> QED BY <1>1 DEF CallsGood

(* It keeps the copies equal, if the person of the row agrees or has drifted. *)
LEMMA RowPasswords ==
  ASSUME NEW w, NEW v, NEW mx, NEW cs, NEW dr, NEW ds,
         NEW o \in Orgs, NEW p \in Paths, NEW e \in Emails,
         w.control.slug[o] = p, o \in Listed(w.control) \/ p \in mx,
         SlugsGood(w.control), RowSet(w, v, o, p, e),
         PasswordsGood(w, cs, mx, dr), dr \ {e} \subseteq ds,
         mx = {} /\ e \notin ds => Agrees(v, e) /\ (Expected(cs, e) => v.control.ident[e] <= 0)
  PROVE  PasswordsGood(v, cs, mx, ds)
<1> SUFFICES ASSUME mx = {}, NEW x \in Emails \ ds, x # e
             PROVE  Agrees(v, x) /\ (Expected(cs, x) => v.control.ident[x] <= 0)
  BY DEF PasswordsGood
<1>1. x \in Emails \ dr /\ v.control.ident[x] = w.control.ident[x]
  BY DEF RowSet
<1>2. Agrees(w, x) /\ (Expected(cs, x) => w.control.ident[x] <= 0)
  BY <1>1 DEF PasswordsGood
<1>3. \A q \in Listed(w.control) : FileOf(v, q).row[x] = FileOf(w, q).row[x]
  <2> TAKE q \in Listed(w.control)
  <2>1. CASE q # o
    BY <2>1, RowOthers
  <2>2. CASE q = o
    BY <2>2, <1>1 DEF RowSet, FileOf
  <2> QED BY <2>1, <2>2
<1>4. Listed(v.control) = Listed(w.control)
  BY RowOthers
<1> QED BY <1>1, <1>2, <1>3, <1>4 DEF Agrees

(* The written row has the identity's password, which is not changed, but  *)
(* for an identity that was missing.                                       *)
LEMMA RowAgrees ==
  ASSUME NEW w, NEW v, NEW mx, NEW o \in Orgs, NEW p \in Paths, NEW e \in Emails,
         w.control.slug[o] = p, o \in Listed(w.control), mx = {},
         SlugsGood(w.control), RowSet(w, v, o, p, e), Agrees(w, e),
         v.control.ident[e] = w.control.ident[e] \/ w.control.ident[e] = -1,
         v.disk[p].row[e].pw >= 0 => v.control.ident[e] = v.disk[p].row[e].pw
  PROVE  Agrees(v, e)
<1> SUFFICES ASSUME NEW q \in Listed(w.control), FileOf(v, q).row[e].pw >= 0
             PROVE  v.control.ident[e] = FileOf(v, q).row[e].pw
  BY RowOthers DEF Agrees
<1>1. CASE q = o
  BY <1>1 DEF RowSet, FileOf
<1>2. CASE q # o
  <2>1. FileOf(v, q) = FileOf(w, q)
    <3>1. \A x \in Listed(w.control) : x # o => FileOf(v, x) = FileOf(w, x)
      BY RowOthers
    <3> QED BY <1>2, <3>1
  <2>2. w.control.ident[e] = FileOf(v, q).row[e].pw
    BY <2>1 DEF Agrees
  <2>3. w.control.ident[e] # -1
    BY <2>2
  <2> QED BY <2>2, <2>3
<1> QED BY <1>1, <1>2
-----------------------------------------------------------------------------
(* The calls of members.                                                   *)

StateGood(w, cs, mx, dr) == WorldGood(w, mx) /\ CallsGood(w, cs, mx) /\ PasswordsGood(w, cs, mx, dr)

(* No file appears but at a mixed path.                                    *)
NoNewFile(w, v, mx) == \A q \in Paths \ mx : w.disk[q] = NoFile => v.disk[q] = NoFile

(* Two steps without new files make one.                                   *)
LEMMA NoNewFileComposes ==
  ASSUME NEW w, NEW u, NEW v, NEW mx, NoNewFile(w, u, mx), NoNewFile(u, v, mx)
  PROVE  NoNewFile(w, v, mx)
BY DEF NoNewFile

(* Opening makes none.                                                     *)
LEMMA LikeNoNewFile == ASSUME NEW w, NEW v, NEW mx, Like(w, v, mx) PROVE NoNewFile(w, v, mx)
BY DEF Like, NoNewFile

(* Writing a row makes none.                                               *)
LEMMA RowNoNewFile ==
  ASSUME NEW w, NEW v, NEW mx, NEW o \in Orgs, NEW p \in Paths, NEW e, w.control.slug[o] = p,
         o \in Listed(w.control) \/ p \in mx, WorldGood(w, mx), RowSet(w, v, o, p, e)
  PROVE  NoNewFile(w, v, mx)
<1>1. p \notin mx => w.disk[p].born = o
  BY DEF WorldGood, Apart, Sound, Owned, FileOf
<1>2. NoFile.born # o
  BY SizeAssumption DEF NoFile, Orgs
<1>3. p \notin mx => w.disk[p] # NoFile
  BY <1>1, <1>2
<1> QED BY <1>3 DEF RowSet, NoNewFile

(* Opening keeps the whole state good.                                     *)
LEMMA OpenState ==
  ASSUME NEW w, NEW mx, NEW dr, NEW cs, StateGood(w, cs, mx, dr), NEW o \in Orgs, NEW p \in Paths, w.control.slug[o] = p,
         o \in Listed(w.control) \/ p \in mx
  PROVE  LET v == OpenOrg(w, o, p) IN StateGood(v, cs, mx, dr) /\ Like(w, v, mx) /\ NoNewFile(w, v, mx)
<1>1. WorldGood(w, mx) /\ CallsGood(w, cs, mx) /\ PasswordsGood(w, cs, mx, dr) /\ SlugsGood(w.control)
  BY DEF StateGood, WorldGood
<1> DEFINE v == OpenOrg(w, o, p)
<1>2. WorldGood(v, mx) /\ Like(w, v, mx)
  BY <1>1, OpenKeeps
<1> HIDE DEF v
<1>3. CallsGood(v, cs, mx) /\ PasswordsGood(v, cs, mx, dr)
  BY <1>1, <1>2, LikeKeepsCalls
<1> QED BY <1>2, <1>3, LikeNoNewFile DEF StateGood, v

(* So does refusing a retired path, which closes the handle.               *)
LEMMA RefusedState ==
  ASSUME NEW w, NEW mx, NEW dr, NEW cs, StateGood(w, cs, mx, dr), NEW o, w.control.slug[o] \in w.process.retired
  PROVE  LET v == CloseOrgDb(w, {o}) IN StateGood(v, cs, mx, dr) /\ NoNewFile(w, v, mx)
<1>1. WorldGood(w, mx) /\ CallsGood(w, cs, mx) /\ PasswordsGood(w, cs, mx, dr) /\ SlugsGood(w.control)
  BY DEF StateGood, WorldGood
<1> DEFINE v == CloseOrgDb(w, {o})
<1>2. WorldGood(v, mx) /\ Like(w, v, mx)
  BY <1>1, RefusedKeeps
<1> HIDE DEF v
<1>3. CallsGood(v, cs, mx) /\ PasswordsGood(v, cs, mx, dr)
  BY <1>1, <1>2, LikeKeepsCalls
<1> QED BY <1>2, <1>3, LikeNoNewFile DEF StateGood, v

(* So does a call that ends.                                               *)
LEMMA WeakerState ==
  ASSUME NEW w, NEW mx, NEW dr, NEW cs, NEW ds, StateGood(w, cs, mx, dr), Weaker(ds, cs)
  PROVE  StateGood(w, ds, mx, dr)
BY WeakerGood DEF StateGood

(* Writing one row of one file.                                            *)
LEMMA RowTyped ==
  ASSUME NEW d \in [Paths -> Files], NEW p \in Paths, NEW e \in Emails, NEW r \in Rows
  PROVE  LET f == [d EXCEPT ![p].row[e] = r] IN
         /\ f \in [Paths -> Files] /\ \A q \in Paths : q # p => f[q] = d[q]
         /\ f[p].born = d[p].born /\ f[p].row[e] = r /\ \A x \in Emails : x # e => f[p].row[x] = d[p].row[x]
<1> DEFINE g == [d[p] EXCEPT !.row[e] = r]
<1>1. d[p] \in Files
  OBVIOUS
<1>2. g \in Files /\ g.born = d[p].born /\ g.row[e] = r /\ \A x \in Emails : x # e => g.row[x] = d[p].row[x]
  BY <1>1 DEF Files
<1>3. [d EXCEPT ![p].row[e] = r] = [d EXCEPT ![p] = g]
  OBVIOUS
<1> HIDE DEF g
<1> QED BY <1>2, <1>3

(* The password a new member brings along.                                 *)
LEMMA CopiedIs ==
  ASSUME NEW w \in Worlds, NEW e \in Emails
  PROVE  /\ CopiedPassword(w, e) \in Nat /\ w.control.ident[e] \in Numbers
         /\ w.control.ident[e] # -1 => CopiedPassword(w, e) = w.control.ident[e]
         /\ w.control.ident[e] = -1 => CopiedPassword(w, e) = 0
<1>1. w.control.ident[e] \in Numbers
  BY WorldIs DEF Controls
<1> QED BY <1>1 DEF CopiedPassword, Numbers

(* All that creating a member changes.                                     *)
LEMMA CreatedUserIs ==
  ASSUME NEW w \in Worlds, NEW o \in Orgs, NEW p \in Paths, NEW e \in Emails
  PROVE  LET v == CreateAuthUser(w, o, p, e) IN
         /\ v \in Worlds /\ v.process = w.process
         /\ v.control.status = w.control.status /\ v.control.slug = w.control.slug /\ v.control.tok = w.control.tok
         /\ v.control.dir = IF w.control.status[o] = "none" THEN w.control.dir ELSE w.control.dir \cup {<<o, e>>}
         /\ v.control.ident = [w.control.ident EXCEPT ![e] = IF w.control.ident[e] = -1 THEN 0 ELSE w.control.ident[e]]
         /\ v.disk = [w.disk EXCEPT ![p].row[e] = [pw |-> CopiedPassword(w, e), inv |-> FALSE]]
<1> DEFINE v == CreateAuthUser(w, o, p, e)
           dir == IF w.control.status[o] = "none" THEN w.control.dir ELSE w.control.dir \cup {<<o, e>>}
           i == IF w.control.ident[e] = -1 THEN 0 ELSE w.control.ident[e]
           r == [pw |-> CopiedPassword(w, e), inv |-> FALSE]
<1>1. v = [w EXCEPT !.disk[p].row[e] = r, !.control.dir = dir, !.control.ident[e] = i]
  BY DEF CreateAuthUser
<1>2. w.control \in Controls /\ w.disk \in [Paths -> Files]
  BY WorldIs
<1>3. dir \in SUBSET (Orgs \X Emails)
  BY <1>2 DEF Controls
<1>4. i \in Numbers /\ r \in Rows
  BY <1>2, CopiedIs DEF Controls, Numbers, Rows
<1> HIDE DEF v, dir, i, r
<1>5. /\ v.process = w.process
      /\ v.control.status = w.control.status /\ v.control.slug = w.control.slug /\ v.control.tok = w.control.tok
      /\ v.control.dir = dir /\ v.control.ident = [w.control.ident EXCEPT ![e] = i]
      /\ v.disk = [w.disk EXCEPT ![p].row[e] = r]
      /\ v = [control |-> v.control, disk |-> v.disk, process |-> v.process]
  BY <1>1 DEF Worlds, Controls
<1>6. v.control = [status |-> v.control.status, slug |-> v.control.slug, dir |-> v.control.dir,
                   tok |-> v.control.tok, ident |-> v.control.ident]
  BY <1>1 DEF Worlds, Controls
<1>7. v.control \in Controls
  BY <1>2, <1>3, <1>4, <1>5, <1>6 DEF Controls
<1>8. v.disk \in [Paths -> Files]
  BY <1>2, <1>4, <1>5, RowTyped
<1>9. v \in Worlds
  BY <1>5, <1>7, <1>8 DEF Worlds
<1> QED BY <1>5, <1>9 DEF v, dir, i, r

(* All that inviting changes.                                              *)
LEMMA InvitedIs ==
  ASSUME NEW w \in Worlds, NEW o \in Orgs, NEW p \in Paths, NEW e \in Emails
  PROVE  LET v == Invited(w, o, p, e) IN
         /\ RowSet(w, v, o, p, e)
         /\ v.disk[p].row[e].pw = CopiedPassword(w, e)
         /\ v.disk[p].row[e].inv <=> CopiedPassword(w, e) = 0
         /\ w.control.status[o] # "none" =>
              <<o, e>> \in v.control.dir /\ (v.disk[p].row[e].inv => <<o, e>> \in v.control.tok)
         /\ v.control.ident[e] = IF w.control.ident[e] = -1 THEN 0 ELSE w.control.ident[e]
         /\ w.control.dir \subseteq v.control.dir /\ w.control.tok \subseteq v.control.tok
<1> DEFINE u == CreateAuthUser(w, o, p, e)
           v == Invited(w, o, p, e)
           copied == CopiedPassword(w, e)
<1>1. /\ u \in Worlds /\ u.process = w.process
      /\ u.control.status = w.control.status /\ u.control.slug = w.control.slug /\ u.control.tok = w.control.tok
      /\ u.control.dir = IF w.control.status[o] = "none" THEN w.control.dir ELSE w.control.dir \cup {<<o, e>>}
      /\ u.control.ident = [w.control.ident EXCEPT ![e] = IF w.control.ident[e] = -1 THEN 0 ELSE w.control.ident[e]]
      /\ u.disk = [w.disk EXCEPT ![p].row[e] = [pw |-> copied, inv |-> FALSE]]
  BY CreatedUserIs, SMTT(30), ZenonT(30)
<1>2. copied \in Nat /\ [pw |-> copied, inv |-> FALSE] \in Rows /\ [pw |-> copied, inv |-> TRUE] \in Rows
  BY CopiedIs DEF Rows, Numbers
<1>3. v = IF u.disk[p].row[e].pw > 0 THEN u ELSE IssueInvite(u, o, p, e)
  BY DEF Invited
<1>4. w.disk \in [Paths -> Files] /\ w.control \in Controls
  BY WorldIs
<1> HIDE DEF u, v, copied
<1>5. /\ u.disk \in [Paths -> Files] /\ \A q \in Paths : q # p => u.disk[q] = w.disk[q]
      /\ u.disk[p].born = w.disk[p].born /\ u.disk[p].row[e] = [pw |-> copied, inv |-> FALSE]
      /\ \A x \in Emails : x # e => u.disk[p].row[x] = w.disk[p].row[x]
  <2> DEFINE r == [pw |-> copied, inv |-> FALSE]
  <2>1. r \in Rows /\ u.disk = [w.disk EXCEPT ![p].row[e] = r]
    BY <1>1, <1>2
  <2> SUFFICES /\ u.disk \in [Paths -> Files] /\ \A q \in Paths : q # p => u.disk[q] = w.disk[q]
               /\ u.disk[p].born = w.disk[p].born /\ u.disk[p].row[e] = r
               /\ \A x \in Emails : x # e => u.disk[p].row[x] = w.disk[p].row[x]
    OBVIOUS
  <2> HIDE DEF r
  <2> QED BY <2>1, <1>4, RowTyped
<1>6. u.control.ident[e] = IF w.control.ident[e] = -1 THEN 0 ELSE w.control.ident[e]
  BY <1>1, <1>4 DEF Controls
<1>7. \A x \in Emails : x # e => u.control.ident[x] = w.control.ident[x]
  BY <1>1, <1>4 DEF Controls
<1> DEFINE Issues(x) ==
             /\ RowSet(w, x, o, p, e)
             /\ x.disk[p].row[e].pw = copied
             /\ x.disk[p].row[e].inv <=> copied = 0
             /\ w.control.status[o] # "none" =>
                  <<o, e>> \in x.control.dir /\ (x.disk[p].row[e].inv => <<o, e>> \in x.control.tok)
             /\ x.control.ident[e] = IF w.control.ident[e] = -1 THEN 0 ELSE w.control.ident[e]
             /\ w.control.dir \subseteq x.control.dir /\ w.control.tok \subseteq x.control.tok
<1> SUFFICES Issues(v)
  BY DEF v, copied
<1>8. CASE copied > 0
  <2>1. v = u
    BY <1>3, <1>5, <1>8
  <2>2. RowSet(w, v, o, p, e)
    BY <1>1, <1>5, <1>7, <2>1 DEF RowSet
  <2>3. v.disk[p].row[e].pw = copied /\ v.disk[p].row[e].inv = FALSE /\ copied # 0
    BY <1>2, <1>5, <1>8, <2>1
  <2>4. w.control.status[o] # "none" => <<o, e>> \in v.control.dir
    BY <1>1, <2>1
  <2>5. w.control.dir \subseteq v.control.dir /\ w.control.tok \subseteq v.control.tok
    BY <1>1, <2>1
  <2> QED BY <1>6, <2>1, <2>2, <2>3, <2>4, <2>5
<1>9. CASE ~(copied > 0)
  <2> DEFINE tok == IF u.control.status[o] = "none" THEN u.control.tok ELSE u.control.tok \cup {<<o, e>>}
  <2>1. v = [u EXCEPT !.disk[p].row[e].inv = TRUE, !.control.tok = tok]
    BY <1>3, <1>5, <1>9 DEF IssueInvite
  <2>2. tok \in SUBSET (Orgs \X Emails)
    BY <1>1, WorldIs DEF Controls
  <2> HIDE DEF tok
  <2>3. /\ v.process = u.process
        /\ v.control.status = u.control.status /\ v.control.slug = u.control.slug /\ v.control.tok = tok
        /\ v.control.dir = u.control.dir /\ v.control.ident = u.control.ident
        /\ v.disk = [u.disk EXCEPT ![p].row[e].inv = TRUE]
        /\ v = [control |-> v.control, disk |-> v.disk, process |-> v.process]
        /\ v.control = [status |-> v.control.status, slug |-> v.control.slug, dir |-> v.control.dir,
                        tok |-> v.control.tok, ident |-> v.control.ident]
    BY <1>1, <2>1 DEF Worlds, Controls
  <2>4. [u.disk EXCEPT ![p].row[e].inv = TRUE] = [u.disk EXCEPT ![p].row[e] = [pw |-> copied, inv |-> TRUE]]
    <3>1. [u.disk[p].row[e] EXCEPT !.inv = TRUE] = [pw |-> copied, inv |-> TRUE]
      <4>1. u.disk[p].row[e] \in Rows /\ u.disk[p].row[e].pw = copied
        BY <1>2, <1>5
      <4>2. \A x \in Rows : [x EXCEPT !.inv = TRUE] = [pw |-> x.pw, inv |-> TRUE]
        <5> TAKE x \in Rows
        <5> DEFINE y == [x EXCEPT !.inv = TRUE]
                   z == [pw |-> x.pw, inv |-> TRUE]
        <5>1. y \in Rows /\ y.pw = x.pw /\ y.inv = TRUE
          BY DEF Rows
        <5>2. z \in Rows /\ z.pw = x.pw /\ z.inv = TRUE
          BY DEF Rows
        <5> HIDE DEF y, z
        <5>3. y = z
          BY <5>1, <5>2 DEF Rows
        <5> QED BY <5>3 DEF y, z
      <4> QED BY <4>1, <4>2
    <3> DEFINE r == [pw |-> copied, inv |-> TRUE]
    <3>2. [u.disk EXCEPT ![p].row[e].inv = TRUE] = [u.disk EXCEPT ![p].row[e] = [u.disk[p].row[e] EXCEPT !.inv = TRUE]]
      OBVIOUS
    <3> QED BY <3>1, <3>2
  <2>5. /\ v.disk \in [Paths -> Files] /\ \A q \in Paths : q # p => v.disk[q] = u.disk[q]
        /\ v.disk[p].born = u.disk[p].born /\ v.disk[p].row[e] = [pw |-> copied, inv |-> TRUE]
        /\ \A x \in Emails : x # e => v.disk[p].row[x] = u.disk[p].row[x]
    <3> DEFINE r == [pw |-> copied, inv |-> TRUE]
    <3>1. r \in Rows /\ v.disk = [u.disk EXCEPT ![p].row[e] = r]
      BY <1>2, <2>3, <2>4
    <3> SUFFICES /\ v.disk \in [Paths -> Files] /\ \A q \in Paths : q # p => v.disk[q] = u.disk[q]
                 /\ v.disk[p].born = u.disk[p].born /\ v.disk[p].row[e] = r
                 /\ \A x \in Emails : x # e => v.disk[p].row[x] = u.disk[p].row[x]
      OBVIOUS
    <3> HIDE DEF r
    <3> QED BY <3>1, <1>5, RowTyped
  <2>6. v.control \in Controls
    BY <1>1, <2>2, <2>3, WorldIs DEF Controls
  <2>7. v \in Worlds
    BY <1>1, <2>3, <2>5, <2>6, WorldIs DEF Worlds
  <2>8. RowSet(w, v, o, p, e)
    <3>1. u.control.dir \subseteq v.control.dir /\ w.control.tok \subseteq v.control.tok /\ w.control.dir \subseteq u.control.dir
      BY <1>1, <2>3 DEF tok
    <3>2. /\ v.process = w.process /\ v.control.status = w.control.status /\ v.control.slug = w.control.slug
          /\ v.control.ident = u.control.ident
      BY <1>1, <2>3
    <3>3. /\ \A q \in Paths : q # p => v.disk[q] = w.disk[q]
          /\ v.disk[p].born = w.disk[p].born
          /\ \A x \in Emails : x # e => v.disk[p].row[x] = w.disk[p].row[x]
      BY <1>5, <2>5
    <3> QED BY <1>7, <2>7, <3>1, <3>2, <3>3 DEF RowSet
  <2>9. w.control.status[o] # "none" => <<o, e>> \in v.control.dir /\ <<o, e>> \in v.control.tok
    BY <1>1, <2>3 DEF tok
  <2>10. v.disk[p].row[e].pw = copied /\ v.disk[p].row[e].inv = TRUE /\ copied = 0
    BY <1>2, <1>9, <2>5
  <2>11. w.control.dir \subseteq v.control.dir /\ w.control.tok \subseteq v.control.tok
    BY <1>1, <2>3 DEF tok
  <2> QED BY <1>6, <2>3, <2>8, <2>9, <2>10, <2>11
<1> QED BY <1>2, <1>8, <1>9

(* The writes of one row, together.                                        *)
At(w, mx, o, p) ==
  o \in Orgs /\ p \in Paths /\ w.control.slug[o] = p /\ (o \in Listed(w.control) \/ p \in mx)

RowReady(w, v, mx, dr, cs, ds, o, p, e) ==
  /\ StateGood(w, cs, mx, dr) /\ At(w, mx, o, p) /\ e \in Emails /\ RowSet(w, v, o, p, e)
  /\ dr \ {e} \subseteq ds
  /\ p \notin mx =>
       /\ Present(v.disk[p]) # {}
       /\ v.disk[p].row[e].pw >= 0 =>
            <<o, e>> \in v.control.dir /\ (v.disk[p].row[e].inv => <<o, e>> \in v.control.tok)
       /\ v.disk[p].row[e].pw >= 0 \/
          \A c \in Calls : ~(cs[c].kind = "password" /\ cs[c].live /\ cs[c].path = p /\ cs[c].email = e)
  /\ mx = {} /\ e \notin ds =>
       /\ e \notin dr
       /\ v.control.ident[e] = w.control.ident[e] \/ (w.control.ident[e] = -1 /\ v.control.ident[e] = 0)
       /\ v.disk[p].row[e].pw >= 0 => v.control.ident[e] = v.disk[p].row[e].pw

(* A row that is ready leaves the whole state good.                        *)
LEMMA RowState ==
  ASSUME NEW w, NEW v, NEW mx, NEW dr, NEW cs, NEW ds, NEW o, NEW p, NEW e, RowReady(w, v, mx, dr, cs, ds, o, p, e)
  PROVE  StateGood(v, cs, mx, ds) /\ NoNewFile(w, v, mx)
<1>0. /\ o \in Orgs /\ p \in Paths /\ e \in Emails /\ w.control.slug[o] = p /\ (o \in Listed(w.control) \/ p \in mx)
      /\ RowSet(w, v, o, p, e) /\ dr \ {e} \subseteq ds
  BY DEF RowReady, At
<1>1. WorldGood(w, mx) /\ CallsGood(w, cs, mx) /\ PasswordsGood(w, cs, mx, dr) /\ SlugsGood(w.control)
  BY DEF RowReady, StateGood, WorldGood
<1>2. WorldGood(v, mx)
  BY <1>0, <1>1, RowKeeps DEF RowReady
<1>3. CallsGood(v, cs, mx)
  BY <1>0, <1>1, RowCalls DEF RowReady
<1>4. ASSUME mx = {}, e \notin ds
      PROVE  Agrees(v, e) /\ (Expected(cs, e) => v.control.ident[e] <= 0)
  <2>0. /\ e \notin dr
        /\ v.control.ident[e] = w.control.ident[e] \/ (w.control.ident[e] = -1 /\ v.control.ident[e] = 0)
        /\ v.disk[p].row[e].pw >= 0 => v.control.ident[e] = v.disk[p].row[e].pw
    BY <1>4 DEF RowReady
  <2>1. Agrees(w, e) /\ (Expected(cs, e) => w.control.ident[e] <= 0)
    BY <1>0, <1>1, <1>4, <2>0 DEF PasswordsGood
  <2>2. Agrees(v, e)
    BY <1>0, <1>1, <1>4, <2>0, <2>1, RowAgrees
  <2> QED BY <2>0, <2>1, <2>2
<1>5. PasswordsGood(v, cs, mx, ds)
  BY <1>0, <1>1, <1>4, RowPasswords
<1>6. NoNewFile(w, v, mx)
  BY <1>0, <1>1, RowNoNewFile
<1> QED BY <1>2, <1>3, <1>5, <1>6 DEF StateGood

(* What a good state says of the file of a listed organization.            *)
LEMMA FileKnown ==
  ASSUME NEW w, NEW mx, NEW dr, NEW cs, StateGood(w, cs, mx, dr), NEW o, NEW p, At(w, mx, o, p)
  PROVE  /\ p \notin mx =>
              /\ o \in Listed(w.control) /\ w.control.status[o] # "none"
              /\ w.disk[p].born = o /\ Present(w.disk[p]) # {} /\ p \notin w.process.retired
              /\ \A e \in Emails : w.disk[p].row[e].pw >= 0 =>
                   <<o, e>> \in w.control.dir /\ (w.disk[p].row[e].inv => <<o, e>> \in w.control.tok)
         /\ mx = {} => \A e \in Emails \ dr : w.disk[p].row[e].pw >= 0 => w.control.ident[e] = w.disk[p].row[e].pw
<1> USE DEF At
<1>1. p \notin mx => o \in Apart(w, mx) /\ Sound(w, o)
  BY DEF StateGood, WorldGood, Apart
<1>2. p \notin mx => o \in Listed(w.control) /\ w.control.status[o] # "none"
  BY DEF Listed
<1>3. mx = {} => \A e \in Emails \ dr : w.disk[p].row[e].pw >= 0 => w.control.ident[e] = w.disk[p].row[e].pw
  BY DEF StateGood, PasswordsGood, Agrees, FileOf
<1> QED BY <1>1, <1>2, <1>3 DEF Sound, Owned, Reached, FileOf, Present

(* Inviting keeps the state good.                                          *)
LEMMA InviteState ==
  ASSUME NEW w, NEW mx, NEW dr, NEW cs, StateGood(w, cs, mx, dr), NEW o, NEW p, At(w, mx, o, p), NEW e \in Emails
  PROVE  LET v == InviteOf(w, o, p, e) IN StateGood(v, cs, mx, dr) /\ NoNewFile(w, v, mx)
<1> DEFINE v == InviteOf(w, o, p, e)
<1>0. w \in Worlds /\ w.control.dir \in SUBSET (Orgs \X Emails) /\ o \in Orgs /\ p \in Paths
  <2>1. w \in Worlds
    BY DEF StateGood, WorldGood
  <2> QED BY <2>1, WorldIs DEF At, Controls
<1>1. /\ p \notin mx => /\ w.control.status[o] # "none" /\ Present(w.disk[p]) # {}
                        /\ \A x \in Emails : w.disk[p].row[x].pw >= 0 =>
                             <<o, x>> \in w.control.dir /\ (w.disk[p].row[x].inv => <<o, x>> \in w.control.tok)
      /\ mx = {} => \A x \in Emails \ dr : w.disk[p].row[x].pw >= 0 => w.control.ident[x] = w.disk[p].row[x].pw
  BY FileKnown
<1>2. CASE w.disk[p].row[e].pw >= 0
  <2> DEFINE dir == w.control.dir \cup {<<o, e>>}
  <2>1. v = [w EXCEPT !.control.dir = dir]
    BY <1>2 DEF InviteOf
  <2>2. dir \in SUBSET (Orgs \X Emails)
    BY <1>0
  <2>3. w.control.dir \subseteq dir /\ <<o, e>> \in dir
    OBVIOUS
  <2> HIDE DEF v, dir
  <2>4. /\ v \in Worlds /\ v.process = w.process /\ v.disk = w.disk
        /\ v.control.status = w.control.status /\ v.control.slug = w.control.slug
        /\ v.control.dir = dir /\ v.control.tok = w.control.tok /\ v.control.ident = w.control.ident
    BY <1>0, <2>1, <2>2 DEF Worlds, Controls
  <2>5. RowSet(w, v, o, p, e)
    BY <2>3, <2>4 DEF RowSet
  <2>6. StateGood(v, cs, mx, dr) /\ NoNewFile(w, v, mx)
    <3>1. p \notin mx =>
             /\ Present(v.disk[p]) # {}
             /\ v.disk[p].row[e].pw >= 0 =>
                  <<o, e>> \in v.control.dir /\ (v.disk[p].row[e].inv => <<o, e>> \in v.control.tok)
             /\ v.disk[p].row[e].pw >= 0
      BY <1>1, <1>2, <2>3, <2>4
    <3>2. mx = {} /\ e \notin dr =>
             /\ v.control.ident[e] = w.control.ident[e]
             /\ v.disk[p].row[e].pw >= 0 => v.control.ident[e] = v.disk[p].row[e].pw
      BY <1>1, <1>2, <2>4
    <3>3. RowReady(w, v, mx, dr, cs, dr, o, p, e)
      BY <2>5, <3>1, <3>2 DEF RowReady
    <3> QED BY <3>3, RowState
  <2> QED BY <2>6 DEF v
<1>3. CASE ~(w.disk[p].row[e].pw >= 0)
  <2>1. v = Invited(w, o, p, e)
    BY <1>3 DEF InviteOf
  <2> HIDE DEF v
  <2>2. /\ RowSet(w, v, o, p, e)
        /\ v.disk[p].row[e].pw = CopiedPassword(w, e)
        /\ v.disk[p].row[e].inv <=> CopiedPassword(w, e) = 0
        /\ w.control.status[o] # "none" =>
             <<o, e>> \in v.control.dir /\ (v.disk[p].row[e].inv => <<o, e>> \in v.control.tok)
        /\ v.control.ident[e] = IF w.control.ident[e] = -1 THEN 0 ELSE w.control.ident[e]
    BY <1>0, <2>1, InvitedIs
  <2>3. /\ CopiedPassword(w, e) \in Nat
        /\ w.control.ident[e] # -1 => CopiedPassword(w, e) = w.control.ident[e]
        /\ w.control.ident[e] = -1 => CopiedPassword(w, e) = 0
    BY <1>0, CopiedIs
  <2>4. v.disk[p].row[e].pw >= 0 /\ e \in Present(v.disk[p])
    BY <2>2, <2>3 DEF Present
  <2>5. v.control.ident[e] = v.disk[p].row[e].pw
    BY <2>2, <2>3
  <2>6. v.control.ident[e] = w.control.ident[e] \/ (w.control.ident[e] = -1 /\ v.control.ident[e] = 0)
    BY <2>2
  <2>7. StateGood(v, cs, mx, dr) /\ NoNewFile(w, v, mx)
    <3>1. RowReady(w, v, mx, dr, cs, dr, o, p, e)
      BY <1>1, <2>2, <2>4, <2>5, <2>6 DEF RowReady
    <3> QED BY <3>1, RowState
  <2> QED BY <2>7 DEF v
<1> QED BY <1>2, <1>3

(* The row of a member goes; its password change is void by then.          *)
LEMMA GoneState ==
  ASSUME NEW w, NEW v, NEW mx, NEW dr, NEW cs, StateGood(w, cs, mx, dr), NEW o, NEW p, At(w, mx, o, p),
         NEW e \in Emails, NEW a \in Emails,
         a # e, w.disk[p].row[a].pw >= 0,
         \A c \in Calls : ~(cs[c].kind = "password" /\ cs[c].live /\ cs[c].path = p /\ cs[c].email = e),
         v = RowGone(w, p, e) \/ v = MemberGone(w, o, p, e)
  PROVE  StateGood(v, cs, mx, dr) /\ NoNewFile(w, v, mx)
<1> DEFINE r == [pw |-> -1, inv |-> FALSE]
           d == [w.disk EXCEPT ![p].row[e] = r]
<1>0. w \in Worlds /\ w.disk \in [Paths -> Files] /\ w.control \in Controls /\ p \in Paths /\ o \in Orgs
  <2>1. w \in Worlds
    BY DEF StateGood, WorldGood
  <2> QED BY <2>1, WorldIs DEF At
<1>1. r \in Rows /\ r.pw = -1
  BY DEF Rows, Numbers
<1>2. RowGone(w, p, e) = [w EXCEPT !.disk[p].row[e] = r]
  BY DEF RowGone
<1> HIDE DEF r
<1>3. /\ d \in [Paths -> Files] /\ \A q \in Paths : q # p => d[q] = w.disk[q]
      /\ d[p].born = w.disk[p].born /\ d[p].row[e] = r /\ \A x \in Emails : x # e => d[p].row[x] = w.disk[p].row[x]
  <2> DEFINE old == w.disk
  <2>1. d = [old EXCEPT ![p].row[e] = r] /\ old \in [Paths -> Files]
    BY <1>0
  <2> SUFFICES /\ d \in [Paths -> Files] /\ \A q \in Paths : q # p => d[q] = old[q]
               /\ d[p].born = old[p].born /\ d[p].row[e] = r /\ \A x \in Emails : x # e => d[p].row[x] = old[p].row[x]
    OBVIOUS
  <2> HIDE DEF d, old
  <2> QED BY <1>0, <1>1, <2>1, RowTyped
<1>4. RowGone(w, p, e) = [w EXCEPT !.disk = d]
  BY <1>2
<1> HIDE DEF d
<1>5. LET u == RowGone(w, p, e) IN u \in Worlds /\ u.process = w.process /\ u.control = w.control /\ u.disk = d
  BY <1>0, <1>3, <1>4 DEF Worlds
<1>6. /\ v \in Worlds /\ v.process = w.process /\ v.disk = d
      /\ v.control.status = w.control.status /\ v.control.slug = w.control.slug /\ v.control.ident = w.control.ident
      /\ w.control.dir \ {<<o, e>>} \subseteq v.control.dir /\ w.control.tok \ {<<o, e>>} \subseteq v.control.tok
  <2>1. CASE v = RowGone(w, p, e)
    BY <1>5, <2>1
  <2>2. CASE v = MemberGone(w, o, p, e)
    <3> DEFINE u == RowGone(w, p, e)
    <3>1. v = [u EXCEPT !.control.dir = @ \ {<<o, e>>}, !.control.tok = @ \ {<<o, e>>}]
      BY <2>2 DEF MemberGone
    <3>2. u \in Worlds /\ u.process = w.process /\ u.control = w.control /\ u.disk = d
      BY <1>5
    <3> HIDE DEF u
    <3>3. u.control.dir \ {<<o, e>>} \in SUBSET (Orgs \X Emails) /\ u.control.tok \ {<<o, e>>} \in SUBSET (Orgs \X Emails)
      BY <1>0, <3>2 DEF Controls
    <3> DEFINE dir == u.control.dir \ {<<o, e>>}
               tok == u.control.tok \ {<<o, e>>}
    <3>4. v = [u EXCEPT !.control.dir = dir, !.control.tok = tok]
      BY <3>1
    <3>5. dir = w.control.dir \ {<<o, e>>} /\ tok = w.control.tok \ {<<o, e>>}
      BY <3>2
    <3>6. dir \in SUBSET (Orgs \X Emails) /\ tok \in SUBSET (Orgs \X Emails)
      BY <3>3
    <3> HIDE DEF dir, tok
    <3>7. /\ v \in Worlds /\ v.process = u.process /\ v.disk = u.disk
          /\ v.control.status = u.control.status /\ v.control.slug = u.control.slug /\ v.control.ident = u.control.ident
          /\ v.control.dir = dir /\ v.control.tok = tok
      BY <3>2, <3>4, <3>6 DEF Worlds, Controls
    <3> QED BY <3>2, <3>5, <3>7
  <2> QED BY <2>1, <2>2
<1>7. RowSet(w, v, o, p, e)
  BY <1>3, <1>6 DEF RowSet
<1>8. a \in Present(v.disk[p])
  BY <1>3, <1>6 DEF Present
<1>9. ~(v.disk[p].row[e].pw >= 0)
  BY <1>1, <1>3, <1>6
<1> QED
  <2>1. p \notin mx =>
           /\ Present(v.disk[p]) # {}
           /\ v.disk[p].row[e].pw >= 0 =>
                <<o, e>> \in v.control.dir /\ (v.disk[p].row[e].inv => <<o, e>> \in v.control.tok)
    BY <1>8, <1>9
  <2>2. mx = {} /\ e \notin dr =>
           /\ v.control.ident[e] = w.control.ident[e]
           /\ v.disk[p].row[e].pw >= 0 => v.control.ident[e] = v.disk[p].row[e].pw
    BY <1>6, <1>9
  <2>3. RowReady(w, v, mx, dr, cs, dr, o, p, e)
    BY <1>7, <2>1, <2>2 DEF RowReady
  <2> QED BY <2>3, RowState

-----------------------------------------------------------------------------
(* A password reaches every membership.                                    *)

(* So does storing a password in its own organization.                     *)
LEMMA OwnState ==
  ASSUME NEW w, NEW mx, NEW dr, NEW cs, StateGood(w, cs, mx, dr), NEW r, At(w, mx, r.org, r.path), r.email \in Emails,
         lastPw \in Nat, r.path \notin mx => w.disk[r.path].row[r.email].pw >= 0
  PROVE  LET v == OwnCopies(w, r) IN
         /\ StateGood(v, cs, mx, dr \cup {r.email}) /\ NoNewFile(w, v, mx)
         /\ v.control.ident[r.email] >= 0
         /\ v.control.status = w.control.status /\ v.control.slug = w.control.slug /\ v.control.dir = w.control.dir
         /\ v.process = w.process
<1> DEFINE o == r.org
           p == r.path
           e == r.email
           v == OwnCopies(w, r)
           d == [w.disk EXCEPT ![p].row[e].pw = lastPw + 1]
           ident == [w.control.ident EXCEPT ![e] = lastPw + 1]
           row == w.disk[p].row[e]
           new == [pw |-> lastPw + 1, inv |-> row.inv]
<1>0. /\ w \in Worlds /\ w.disk \in [Paths -> Files] /\ w.control \in Controls /\ p \in Paths /\ o \in Orgs /\ e \in Emails
      /\ row \in Rows /\ lastPw + 1 \in Nat /\ w.control.ident \in [Emails -> Numbers]
  <2>1. w \in Worlds
    BY DEF StateGood, WorldGood
  <2>2. w.disk \in [Paths -> Files] /\ w.control \in Controls /\ p \in Paths /\ o \in Orgs /\ e \in Emails
    BY <2>1, WorldIs DEF At
  <2>3. w.disk[p] \in Files
    BY <2>2
  <2> QED BY <2>1, <2>2, <2>3 DEF Files, Controls
<1>1. v = [w EXCEPT !.disk[p].row[e].pw = lastPw + 1, !.control.ident[e] = lastPw + 1]
  BY DEF OwnCopies
<1>2. new \in Rows /\ new.pw = lastPw + 1 /\ new.inv = row.inv
  BY <1>0 DEF Rows, Numbers
<1>3. [row EXCEPT !.pw = lastPw + 1] = new
  <2> DEFINE y == [row EXCEPT !.pw = lastPw + 1]
  <2>1. y \in Rows /\ y.pw = lastPw + 1 /\ y.inv = row.inv
    BY <1>0 DEF Rows, Numbers
  <2> HIDE DEF y, new, row
  <2>2. y = new
    BY <1>2, <2>1 DEF Rows
  <2> QED BY <2>2 DEF y
<1>4. d = [w.disk EXCEPT ![p].row[e] = new]
  <2>1. [w.disk EXCEPT ![p].row[e].pw = lastPw + 1] = [w.disk EXCEPT ![p].row[e] = [row EXCEPT !.pw = lastPw + 1]]
    OBVIOUS
  <2> HIDE DEF new, row
  <2> QED BY <1>3, <2>1
<1>5. /\ d \in [Paths -> Files] /\ \A q \in Paths : q # p => d[q] = w.disk[q]
      /\ d[p].born = w.disk[p].born /\ d[p].row[e] = new /\ \A x \in Emails : x # e => d[p].row[x] = w.disk[p].row[x]
  <2> DEFINE old == w.disk
  <2>1. d = [old EXCEPT ![p].row[e] = new] /\ old \in [Paths -> Files]
    BY <1>0, <1>4
  <2> SUFFICES /\ d \in [Paths -> Files] /\ \A q \in Paths : q # p => d[q] = old[q]
               /\ d[p].born = old[p].born /\ d[p].row[e] = new /\ \A x \in Emails : x # e => d[p].row[x] = old[p].row[x]
    OBVIOUS
  <2> HIDE DEF d, old, new, p, e
  <2> QED BY <1>0, <1>2, <2>1, RowTyped
<1>6. ident \in [Emails -> Numbers] /\ ident[e] = lastPw + 1 /\ \A x \in Emails : x # e => ident[x] = w.control.ident[x]
  <2>1. lastPw + 1 \in Numbers
    BY <1>0 DEF Numbers
  <2> HIDE DEF e
  <2> QED BY <1>0, <2>1
<1>7. v = [w EXCEPT !.disk = d, !.control.ident = ident]
  BY <1>1
<1> HIDE DEF d, ident, v, new
<1>8. /\ v \in Worlds /\ v.process = w.process /\ v.disk = d
      /\ v.control.status = w.control.status /\ v.control.slug = w.control.slug /\ v.control.ident = ident
      /\ v.control.dir = w.control.dir /\ v.control.tok = w.control.tok
  BY <1>0, <1>5, <1>6, <1>7 DEF Worlds, Controls
<1>9. RowSet(w, v, o, p, e)
  <2> HIDE DEF o, p, e
  <2> QED BY <1>5, <1>6, <1>8 DEF RowSet
<1>10. v.disk[p].row[e].pw >= 0 /\ e \in Present(v.disk[p]) /\ v.disk[p].row[e].inv = row.inv
  <2> HIDE DEF o, p, e
  <2> QED BY <1>0, <1>2, <1>5, <1>8 DEF Present
<1>11. p \notin mx => <<o, e>> \in v.control.dir /\ (v.disk[p].row[e].inv => <<o, e>> \in v.control.tok)
  <2>1. p \notin mx => \A x \in Emails : w.disk[p].row[x].pw >= 0 =>
                   <<o, x>> \in w.control.dir /\ (w.disk[p].row[x].inv => <<o, x>> \in w.control.tok)
    BY FileKnown
  <2> QED BY <1>0, <1>8, <1>10, <2>1
<1>12. RowReady(w, v, mx, dr, cs, dr \cup {e}, o, p, e)
  BY <1>0, <1>9, <1>10, <1>11 DEF RowReady
<1>13. StateGood(v, cs, mx, dr \cup {e}) /\ NoNewFile(w, v, mx)
  <2> HIDE DEF o, p, e
  <2> QED BY <1>12, RowState
<1> QED BY <1>0, <1>6, <1>8, <1>13 DEF v

(* A row of the member e that is in o has the identity's password.         *)
Copied(w, e, o) == FileOf(w, o).row[e].pw >= 0 => FileOf(w, o).row[e].pw = w.control.ident[e]

(* So does copying it to one organization.                                 *)
LEMMA ReplicateToState ==
  ASSUME NEW w, NEW mx, NEW dr, NEW cs, StateGood(w, cs, mx, dr), NEW e \in Emails, e \in dr,
         NEW o \in Listed(w.control), w.control.ident[e] >= 0
  PROVE  LET v == ReplicateTo(w, e, o) IN
         /\ StateGood(v, cs, mx, dr) /\ NoNewFile(w, v, mx) /\ v.control.ident[e] >= 0
         /\ v.control.status = w.control.status /\ v.control.slug = w.control.slug
         /\ mx = {} => /\ v.control = w.control
                       /\ \A q \in Listed(w.control) : q = o \/ Copied(w, e, q) => Copied(v, e, q)
<1> DEFINE p == w.control.slug[o]
           u == OpenOrg(w, o, p)
           v == ReplicateTo(w, e, o)
<1>0. /\ w \in Worlds /\ HandlesGood(w.control, w.process.lru) /\ SlugsGood(w.control)
      /\ o \in Orgs /\ p \in Paths /\ At(w, mx, o, p)
  <2>1. w \in Worlds /\ HandlesGood(w.control, w.process.lru) /\ SlugsGood(w.control)
    BY DEF StateGood, WorldGood
  <2> QED BY <2>1 DEF SlugsGood, Listed, At
<1>1. StateGood(u, cs, mx, dr) /\ Like(w, u, mx) /\ NoNewFile(w, u, mx)
  BY <1>0, OpenState
<1>2. u.control.ident[e] >= 0 /\ (mx = {} => u.control = w.control)
  <2>1. mx = {} => u.control = w.control
    <3>1. WorldGood(w, mx)
      BY DEF StateGood
    <3> HIDE DEF p
    <3> QED BY <1>0, <3>1, OpenKeeps DEF At
  <2>2. /\ o \in w.process.synced => u.control = w.control
        /\ o \notin w.process.synced => \A x \in Emails : u.control.ident[x] = Tells(w, o, p, x)
    <3> HIDE DEF p
    <3> QED BY <1>0, OpenIs DEF At
  <2>3. Tells(w, o, p, e) >= 0
    <3>1. w.disk[p] \in Files
      BY <1>0, WorldIs
    <3>2. w.disk[p].row[e].pw \in Numbers
      BY <3>1 DEF Files, Rows
    <3> HIDE DEF p
    <3> QED BY <3>2 DEF Tells, Numbers
  <2> QED BY <2>1, <2>2, <2>3
<1>3. v = IF u.disk[p].row[e].pw >= 0 THEN [u EXCEPT !.disk[p].row[e].pw = u.control.ident[e]] ELSE u
  BY DEF ReplicateTo
<1>4. At(u, mx, o, p) /\ u.control.status = w.control.status /\ u.control.slug = w.control.slug
  <2>1. Listed(u.control) = Listed(w.control)
    <3> HIDE DEF u
    <3> QED BY <1>1, LikeListed
  <2> QED BY <1>0, <1>1, <2>1 DEF At, Like
<1>5. u \in Worlds /\ SlugsGood(u.control) /\ u.disk \in [Paths -> Files] /\ u.control.ident[e] \in Numbers
  <2>1. u \in Worlds /\ SlugsGood(u.control)
    BY <1>1 DEF StateGood, WorldGood
  <2>2. u.disk \in [Paths -> Files] /\ u.control \in Controls
    BY <2>1, WorldIs
  <2> QED BY <2>1, <2>2 DEF Controls
<1>6. mx = {} => \A q \in Listed(w.control) : Copied(w, e, q) => Copied(u, e, q)
  <2> SUFFICES ASSUME mx = {}, NEW q \in Listed(w.control) PROVE FileOf(u, q) = FileOf(w, q)
    BY <1>2 DEF Copied
  <2>1. w.control.slug[q] \in Paths
    BY <1>0 DEF SlugsGood
  <2> QED BY <1>1, <2>1 DEF Like, FileOf
<1> HIDE DEF u, v
<1>7. CASE ~(u.disk[p].row[e].pw >= 0)
  <2>1. v = u
    BY <1>3, <1>7
  <2>2. Copied(u, e, o)
    BY <1>4, <1>7 DEF Copied, FileOf
  <2> QED BY <1>1, <1>2, <1>4, <1>6, <2>1, <2>2 DEF v
<1>8. CASE u.disk[p].row[e].pw >= 0
  <2> DEFINE row == u.disk[p].row[e]
             new == [pw |-> u.control.ident[e], inv |-> row.inv]
  <2>1. row \in Rows /\ new \in Rows /\ new.pw = u.control.ident[e] /\ new.inv = row.inv
    <3>1. u.disk[p] \in Files
      BY <1>0, <1>5
    <3>2. row \in Rows
      BY <3>1 DEF Files
    <3> QED BY <3>2, <1>5 DEF Rows
  <2>2. [row EXCEPT !.pw = u.control.ident[e]] = new
    <3> DEFINE y == [row EXCEPT !.pw = u.control.ident[e]]
    <3>1. y \in Rows /\ y.pw = u.control.ident[e] /\ y.inv = row.inv
      BY <1>5, <2>1 DEF Rows
    <3> HIDE DEF y, new, row
    <3>2. y = new
      BY <2>1, <3>1 DEF Rows
    <3> QED BY <3>2 DEF y
  <2>3. v = [u EXCEPT !.disk[p].row[e] = new]
    <3>1. v = [u EXCEPT !.disk[p].row[e] = [row EXCEPT !.pw = u.control.ident[e]]]
      BY <1>3, <1>8
    <3> HIDE DEF new, row
    <3> QED BY <2>2, <3>1
  <2> DEFINE d == [u.disk EXCEPT ![p].row[e] = new]
  <2>4. v = [u EXCEPT !.disk = d]
    BY <2>3
  <2>5. /\ d \in [Paths -> Files] /\ \A q \in Paths : q # p => d[q] = u.disk[q]
        /\ d[p].born = u.disk[p].born /\ d[p].row[e] = new /\ \A x \in Emails : x # e => d[p].row[x] = u.disk[p].row[x]
    <3> DEFINE old == u.disk
    <3>1. d = [old EXCEPT ![p].row[e] = new] /\ old \in [Paths -> Files]
      BY <1>5
    <3> SUFFICES /\ d \in [Paths -> Files] /\ \A q \in Paths : q # p => d[q] = old[q]
                 /\ d[p].born = old[p].born /\ d[p].row[e] = new /\ \A x \in Emails : x # e => d[p].row[x] = old[p].row[x]
      OBVIOUS
    <3> HIDE DEF d, old, new, p
    <3> QED BY <1>0, <2>1, <3>1, RowTyped, SMTT(30), ZenonT(30)
  <2> HIDE DEF d, new
  <2>6. v \in Worlds /\ v.process = u.process /\ v.control = u.control /\ v.disk = d
    BY <1>5, <2>4, <2>5 DEF Worlds
  <2>7. RowSet(u, v, o, p, e)
    BY <2>5, <2>6 DEF RowSet
  <2>8. v.disk[p].row[e].pw >= 0 /\ e \in Present(v.disk[p]) /\ v.disk[p].row[e].inv = row.inv
    BY <1>2, <2>1, <2>5, <2>6 DEF Present
  <2>9. p \notin mx => <<o, e>> \in v.control.dir /\ (v.disk[p].row[e].inv => <<o, e>> \in v.control.tok)
    <3>1. p \notin mx => \A x \in Emails : u.disk[p].row[x].pw >= 0 =>
                   <<o, x>> \in u.control.dir /\ (u.disk[p].row[x].inv => <<o, x>> \in u.control.tok)
      BY <1>1, <1>4, FileKnown, SMTT(30), ZenonT(30)
    <3> QED BY <1>8, <2>6, <2>8, <3>1
  <2>10. RowReady(u, v, mx, dr, cs, dr, o, p, e)
    BY <1>1, <1>4, <2>7, <2>8, <2>9 DEF RowReady
  <2>11. StateGood(v, cs, mx, dr) /\ NoNewFile(u, v, mx)
    BY <2>10, RowState
  <2>12. ASSUME mx = {}, NEW q \in Listed(w.control), q = o \/ Copied(w, e, q) PROVE Copied(v, e, q)
    <3>1. CASE q = o
      BY <3>1, <1>4, <2>1, <2>5, <2>6 DEF Copied, FileOf
    <3>2. CASE q # o
      <4>1. w.control.slug[q] # p /\ w.control.slug[q] \in Paths
        BY <1>0, <3>2 DEF SlugsGood
      <4>2. FileOf(v, q) = FileOf(u, q)
        BY <1>4, <2>5, <2>6, <4>1, SMTT(30), ZenonT(30) DEF FileOf
      <4>3. Copied(u, e, q)
        BY <1>6, <2>12, <3>2
      <4> QED BY <2>6, <4>2, <4>3 DEF Copied
    <3> QED BY <3>1, <3>2
  <2>13. NoNewFile(w, v, mx)
    BY <1>1, <2>11, NoNewFileComposes
  <2> QED BY <1>2, <1>4, <2>6, <2>11, <2>12, <2>13 DEF v
<1> QED BY <1>7, <1>8

(* SetToSeq lists every member of a finite set.                            *)
LEMMA ListOf ==
  ASSUME NEW S, IsFiniteSet(S)
  PROVE  LET list == SetToSeq(S) IN
         Len(list) \in Nat /\ list \in [1 .. Len(list) -> S] /\ \A m \in S : \E i \in 1 .. Len(list) : list[i] = m
<1> DEFINE n == Cardinality(S)
           list == SetToSeq(S)
<1>1. n \in Nat /\ ExistsBijection(1 .. n, S)
  BY FS_CardinalityType
<1>2. PICK f : f \in Bijection(1 .. n, S)
  BY <1>1 DEF ExistsBijection
<1>3. f \in [1 .. n -> S] /\ IsInjective(f)
  BY <1>2 DEF Bijection, Injection
<1>4. list \in [1 .. n -> S] /\ IsInjective(list)
  <2> HIDE DEF n
  <2> QED BY <1>3 DEF SetToSeq, n
<1> HIDE DEF list
<1>5. list \in Injection(1 .. n, S)
  BY <1>4 DEF Injection
<1>6. Cardinality(1 .. n) = n
  BY <1>1, FS_Interval
<1>7. list \in Surjection(1 .. n, S)
  BY <1>5, <1>6, FS_Injection
<1> HIDE DEF n
<1>8. list \in Seq(S)
  BY <1>1, <1>4
<1>9. Len(list) \in Nat /\ DOMAIN list = 1 .. Len(list)
  BY <1>8, LenProperties
<1>10. Len(list) = n
  BY <1>1, <1>4, <1>9
<1>11. \A m \in S : \E i \in 1 .. n : list[i] = m
  BY <1>7 DEF Surjection
<1> QED BY <1>4, <1>9, <1>10, <1>11 DEF list

(* There are finitely many organizations.                                  *)
LEMMA OrgsFinite == IsFiniteSet(Orgs)
BY FS_Interval, SizeAssumption DEF Orgs

(* And so does copying it to all of them, one after the other.             *)
LEMMA ReplicateState ==
  ASSUME NEW w, NEW mx, NEW dr, NEW cs, StateGood(w, cs, mx, dr), NEW e \in Emails, e \in dr,
         w.control.ident[e] >= 0,
         NEW ms \in SUBSET Memberships(w, e), \A m \in ms : w.control.status[m[1]] # "none"
  PROVE  LET v == Replicate(w, e, ms) IN
         /\ StateGood(v, cs, mx, dr) /\ NoNewFile(w, v, mx)
         /\ mx = {} /\ ms = Memberships(w, e) => Agrees(v, e)
<1>0. w \in Worlds /\ \A m \in ms : m \in Orgs \X Emails /\ m[2] = e /\ m[1] \in Listed(w.control)
  <2>1. w \in Worlds
    BY DEF StateGood, WorldGood
  <2>2. w.control.dir \subseteq Orgs \X Emails
    BY <2>1, WorldIs DEF Controls
  <2> QED BY <2>1, <2>2 DEF Memberships, Listed
<1>1. IsFiniteSet(ms)
  <2> DEFINE f == [m \in ms |-> m[1]]
  <2>1. f \in [ms -> Orgs]
    BY <1>0
  <2>2. \A a, b \in ms : f[a] = f[b] => a = b
    BY <1>0
  <2> HIDE DEF f
  <2>3. f \in Injection(ms, Orgs)
    BY <2>1, <2>2 DEF Injection, IsInjective
  <2> QED BY <2>3, OrgsFinite, FS_Injection
<1> DEFINE list == SetToSeq(ms)
           n == Len(list)
           next(v, i) == ReplicateTo(v, e, list[i][1])
           Fine(v) == /\ StateGood(v, cs, mx, dr) /\ NoNewFile(w, v, mx) /\ v.control.ident[e] >= 0
                      /\ v.control.status = w.control.status /\ v.control.slug = w.control.slug
                      /\ mx = {} => v.control = w.control
           W == {v \in Worlds : Fine(v)}
           step == [i \in 1 .. n |-> [v \in W |-> next(v, i)]]
           Eq(f) == f = [k \in 0 .. n |-> IF k = 0 THEN w ELSE next(f[k - 1], k)]
<1>2. n \in Nat /\ list \in [1 .. n -> ms] /\ \A m \in ms : \E i \in 1 .. n : list[i] = m
  BY <1>1, ListOf
<1> HIDE DEF list, n
<1>3. \A i \in 1 .. n : list[i] \in ms /\ list[i][1] \in Listed(w.control)
  BY <1>0, <1>2
<1>4. ASSUME NEW v \in W, NEW i \in 1 .. n
      PROVE  /\ next(v, i) \in W
             /\ mx = {} => \A q \in Listed(w.control) :
                  q = list[i][1] \/ Copied(v, e, q) => Copied(next(v, i), e, q)
  <2> DEFINE o == list[i][1]
             x == ReplicateTo(v, e, o)
  <2>1. Fine(v) /\ o \in Listed(v.control) /\ Listed(v.control) = Listed(w.control)
    BY <1>3 DEF Listed
  <2> HIDE DEF o
  <2>2. /\ StateGood(x, cs, mx, dr) /\ NoNewFile(v, x, mx) /\ x.control.ident[e] >= 0
        /\ x.control.status = v.control.status /\ x.control.slug = v.control.slug
        /\ mx = {} => /\ x.control = v.control
                      /\ \A q \in Listed(v.control) : q = o \/ Copied(v, e, q) => Copied(x, e, q)
    BY <2>1, ReplicateToState
  <2> HIDE DEF x
  <2>3. NoNewFile(w, x, mx)
    BY <2>1, <2>2, NoNewFileComposes
  <2>4. x \in Worlds
    BY <2>2 DEF StateGood, WorldGood
  <2>5. x \in W
    BY <2>1, <2>2, <2>3, <2>4
  <2> QED BY <2>1, <2>2, <2>5 DEF x, o
<1>5. w \in W
  BY <1>0 DEF NoNewFile
<1>6. step \in [1 .. n -> [W -> W]]
  <2> HIDE DEF W, next
  <2> QED BY <1>4
<1>7. PICK f : Follows(f, W, w, n, step)
  <2> HIDE DEF W, step
  <2> QED BY <1>2, <1>5, <1>6, StepsExist
<1>8. f \in [0 .. n -> W] /\ f[0] = w /\ \A i \in 1 .. n : f[i] = step[i][f[i - 1]]
  BY <1>7 DEF Follows
<1>9. Eq(f)
  <2> HIDE DEF W, next
  <2>1. \A k \in 1 .. n : f[k] = next(f[k - 1], k)
    <3> TAKE k \in 1 .. n
    <3>1. k - 1 \in 0 .. n
      BY <1>2
    <3> QED BY <3>1, <1>8
  <2> QED BY <2>1, <1>2, <1>8
<1> DEFINE g == CHOOSE h : Eq(h)
<1>10. Replicate(w, e, ms) = g[n]
  BY DEF Replicate, list, n
<1>11. g[0] = w /\ \A k \in 1 .. n : k - 1 \in 0 .. n /\ g[k] = next(g[k - 1], k)
  <2>1. Eq(g)
    <3> HIDE DEF Eq
    <3> QED BY <1>9
  <2> HIDE DEF g, next
  <2> QED BY <2>1, <1>2
<1> HIDE DEF g, Eq, step
<1> DEFINE Good(k) == g[k] \in W /\ (mx = {} => \A i \in 1 .. k : Copied(g[k], e, list[i][1]))
           S == {k \in 0 .. n : Good(k)}
<1>12. \A k \in 0 .. n : k \in S
  <2>1. 0 \in S
    <3> HIDE DEF W
    <3> QED BY <1>2, <1>5, <1>11
  <2>2. ASSUME NEW k \in 1 .. n, k - 1 \in S PROVE k \in S
    <3>1. k \in 0 .. n /\ k - 1 \in Nat /\ Good(k - 1) /\ g[k] = next(g[k - 1], k)
      BY <2>2, <1>11
    <3>2. \A i \in 1 .. k : i = k \/ i \in 1 .. k - 1
      BY <3>1
    <3> HIDE DEF W, next
    <3>3. g[k] \in W /\ (mx = {} => \A q \in Listed(w.control) :
                  q = list[k][1] \/ Copied(g[k - 1], e, q) => Copied(g[k], e, q))
      BY <1>4, <3>1
    <3>4. mx = {} => \A i \in 1 .. k : Copied(g[k], e, list[i][1])
      <4> SUFFICES ASSUME mx = {}, NEW i \in 1 .. k PROVE Copied(g[k], e, list[i][1])
        OBVIOUS
      <4>1. list[i][1] \in Listed(w.control)
        <5>1. i \in 1 .. n
          BY <1>2
        <5> QED BY <5>1, <1>3
      <4>2. i = k \/ Copied(g[k - 1], e, list[i][1])
        BY <3>1, <3>2
      <4> QED BY <4>1, <4>2, <3>3
    <3> QED BY <3>1, <3>3, <3>4
  <2> HIDE DEF S
  <2> QED BY <2>1, <2>2, <1>2, UpTo
<1>13. Good(n)
  BY <1>2, <1>12
<1> DEFINE v == g[n]
<1>14. Fine(v) /\ (mx = {} => \A i \in 1 .. n : Copied(v, e, list[i][1]))
  BY <1>13
<1> HIDE DEF v
<1>15. ASSUME mx = {}, ms = Memberships(w, e) PROVE Agrees(v, e)
  <2> SUFFICES ASSUME NEW q \in Listed(v.control), FileOf(v, q).row[e].pw >= 0
               PROVE  v.control.ident[e] = FileOf(v, q).row[e].pw
    BY DEF Agrees
  <2>1. Sound(v, q) /\ v.control = w.control
    BY <1>14, <1>15 DEF StateGood, WorldGood, Apart
  <2>2. <<q, e>> \in ms
    BY <1>15, <2>1 DEF Sound, Reached, Present, Memberships
  <2>3. PICK i \in 1 .. n : list[i] = <<q, e>>
    BY <1>2, <2>2
  <2>4. Copied(v, e, q)
    BY <1>14, <1>15, <2>3
  <2> QED BY <2>4 DEF Copied
<1> QED BY <1>10, <1>14, <1>15 DEF v

-----------------------------------------------------------------------------
(* A start opens every organization, which repairs what a stop left in the *)
(* directories and in the identities.                                      *)

Ready(w, mx) == w \in Worlds /\ SlugsGood(w.control) /\ \A o \in Apart(w, mx) : Owned(w, o)

(* An identity that is missing agrees with members without password.       *)
Close(w, e) ==
  \A o \in Listed(w.control) : FileOf(w, o).row[e].pw >= 0 =>
    \/ w.control.ident[e] = FileOf(w, o).row[e].pw
    \/ w.control.ident[e] = -1 /\ FileOf(w, o).row[e].pw = 0

Same(w, e, o) == FileOf(w, o).row[e].pw >= 0 => w.control.ident[e] = FileOf(w, o).row[e].pw

(* The organizations below k are open.                                     *)
Up(w, v, k, mx) ==
  /\ v \in Worlds /\ HandlesGood(v.control, v.process.lru)
  /\ v.control.status = w.control.status /\ v.control.slug = w.control.slug
  /\ v.process.retired = {} /\ \A o \in v.process.synced : o < k
  /\ w.control.dir \subseteq v.control.dir /\ w.control.tok \subseteq v.control.tok
  /\ \A q \in Paths : v.disk[q].row = w.disk[q].row /\ (q \notin mx => v.disk[q] = w.disk[q])
  /\ \A o \in Apart(w, mx) : o < k => o \in v.process.synced /\ Reached(v, o)
  /\ mx = {} => \A e \in Emails : Close(w, e) =>
       Close(v, e) /\ \A o \in Listed(w.control) : o < k => Same(v, e, o)

(* One organization of the start of the server.                            *)
LEMMA MigrateKeeps ==
  ASSUME NEW w, NEW mx, Ready(w, mx), NEW k \in Orgs, NEW u, Up(w, u, k, mx)
  PROVE  Up(w, Migrate(u, k), k + 1, mx)
<1> DEFINE v == Migrate(u, k)
           p == u.control.slug[k]
<1>0. k \in Nat /\ \A o \in Orgs : o \in Nat /\ (o < k + 1 => o = k \/ o < k) /\ (o < k => o < k + 1) /\ k < k + 1
  BY SizeAssumption DEF Orgs
<1>1. /\ u \in Worlds /\ HandlesGood(u.control, u.process.lru)
      /\ u.control.status = w.control.status /\ u.control.slug = w.control.slug
      /\ u.process.retired = {} /\ \A o \in u.process.synced : o < k
      /\ w.control.dir \subseteq u.control.dir /\ w.control.tok \subseteq u.control.tok
      /\ \A q \in Paths : u.disk[q].row = w.disk[q].row /\ (q \notin mx => u.disk[q] = w.disk[q])
      /\ \A o \in Apart(w, mx) : o < k => o \in u.process.synced /\ Reached(u, o)
      /\ mx = {} => \A e \in Emails : Close(w, e) =>
           Close(u, e) /\ \A o \in Listed(w.control) : o < k => Same(u, e, o)
  BY DEF Up
<1>2. /\ w \in Worlds /\ SlugsGood(w.control) /\ \A o \in Apart(w, mx) : Owned(w, o)
      /\ Listed(u.control) = Listed(w.control) /\ Apart(w, mx) \subseteq Listed(w.control)
      /\ \A o \in Listed(w.control) : o \in Orgs /\ w.control.slug[o] \in Paths
      /\ \A o \in u.process.synced : o \in Orgs
  <2>1. w \in Worlds /\ SlugsGood(w.control) /\ \A o \in Apart(w, mx) : Owned(w, o)
    BY DEF Ready
  <2>2. u.process.synced \subseteq Orgs
    BY <1>1, WorldIs
  <2> QED BY <1>1, <2>1, <2>2 DEF SlugsGood, Listed, Apart
<1>3. CASE k \notin Listed(w.control)
  <2>1. v = u
    BY <1>2, <1>3 DEF Migrate
  <2>2. \A o \in Listed(w.control) : o < k + 1 => o < k
    BY <1>0, <1>2, <1>3
  <2>3. \A o \in u.process.synced : o < k + 1
    BY <1>0, <1>1, <1>2
  <2> HIDE DEF v
  <2> QED BY <1>1, <1>2, <2>1, <2>2, <2>3 DEF Up, v
<1>4. CASE k \in Listed(w.control)
  <2> DEFINE x == OpenOrg(u, k, p)
  <2>0. v = x /\ p \in Paths /\ p = w.control.slug[k] /\ u.control.slug[k] = p
    BY <1>1, <1>2, <1>4 DEF Migrate
  <2> HIDE DEF v, p
  <2>1. /\ v \in Worlds /\ HandlesGood(v.control, v.process.lru)
        /\ v.control.status = u.control.status /\ v.control.slug = u.control.slug
        /\ u.control.dir \subseteq v.control.dir /\ u.control.tok \subseteq v.control.tok
        /\ v.process.synced = u.process.synced \cup {k} /\ v.process.retired = u.process.retired
        /\ Created(u.disk, v.disk, k, p)
        /\ k \notin u.process.synced =>
             /\ u.control.status[k] # "none" =>
                  \A e \in Present(u.disk[p]) :
                    <<k, e>> \in v.control.dir /\ (u.disk[p].row[e].inv => <<k, e>> \in v.control.tok)
             /\ \A e \in Emails : v.control.ident[e] = Tells(u, k, p, e)
    <3>0. u \in Worlds /\ HandlesGood(u.control, u.process.lru) /\ k \in Orgs /\ p \in Paths /\ u.control.slug[k] = p
      BY <1>1, <2>0
    <3>1. /\ x \in Worlds /\ HandlesGood(x.control, x.process.lru)
          /\ x.control.status = u.control.status /\ x.control.slug = u.control.slug
          /\ u.control.dir \subseteq x.control.dir /\ u.control.tok \subseteq x.control.tok
          /\ x.process.synced = u.process.synced \cup {k} /\ x.process.retired = u.process.retired
          /\ Created(u.disk, x.disk, k, p)
          /\ k \notin u.process.synced =>
               /\ u.control.status[k] # "none" =>
                    \A e \in Present(u.disk[p]) :
                      <<k, e>> \in x.control.dir /\ (u.disk[p].row[e].inv => <<k, e>> \in x.control.tok)
               /\ \A e \in Emails : x.control.ident[e] = Tells(u, k, p, e)
      BY <3>0, OpenIs, SMTT(30), ZenonT(30)
    <3> HIDE DEF x
    <3> QED BY <2>0, <3>1
  <2>2. k \notin u.process.synced /\ u.control.status[k] # "none" /\ w.control.status[k] # "none"
    BY <1>0, <1>1, <1>4 DEF Listed
  <2>3. /\ \A q \in Paths : v.disk[q].row = w.disk[q].row /\ (q \notin mx => v.disk[q] = w.disk[q])
        /\ \A q \in Paths : v.disk[q].row = u.disk[q].row
    <3>1. u.disk \in [Paths -> Files]
      BY <1>1, WorldIs
    <3>2. /\ \A q \in Paths : v.disk[q].row = u.disk[q].row /\ (q # p => v.disk[q] = u.disk[q])
          /\ u.disk[p].born # -1 => v.disk = u.disk
      <4> DEFINE d == u.disk
                 f == v.disk
      <4>1. d \in [Paths -> Files] /\ Created(d, f, k, p)
        BY <2>1, <3>1
      <4> SUFFICES /\ \A q \in Paths : f[q].row = d[q].row /\ (q # p => f[q] = d[q])
                   /\ d[p].born # -1 => f = d
        OBVIOUS
      <4> HIDE DEF d, f
      <4> QED BY <2>0, <4>1, CreatedKeeps
    <3>3. p \notin mx => u.disk[p].born = k /\ k # -1
      <4>1. p \notin mx => k \in Apart(w, mx)
        BY <1>4, <2>0 DEF Apart
      <4> QED BY <4>1, <1>0, <1>1, <1>2, <2>0 DEF Owned, FileOf
    <3> QED BY <1>1, <3>2, <3>3
  <2>4. ASSUME NEW o \in Apart(w, mx), o < k + 1 PROVE o \in v.process.synced /\ Reached(v, o)
    <3>1. o \in Orgs /\ w.control.slug[o] \in Paths /\ FileOf(v, o).row = FileOf(u, o).row
      BY <1>1, <1>2, <2>1, <2>3 DEF FileOf
    <3>2. CASE o = k
      <4>0. FileOf(v, o) = v.disk[p] /\ o \in v.process.synced
        BY <3>2, <2>0, <2>1 DEF FileOf
      <4> SUFFICES ASSUME NEW e \in Present(v.disk[p])
                   PROVE  <<k, e>> \in v.control.dir /\ (v.disk[p].row[e].inv => <<k, e>> \in v.control.tok)
        BY <3>2, <4>0 DEF Reached
      <4>1. v.disk[p].row = u.disk[p].row
        BY <2>0, <2>3
      <4>2. e \in Present(u.disk[p])
        BY <4>1 DEF Present
      <4> QED BY <2>1, <2>2, <4>1, <4>2
    <3>3. CASE o # k
      <4>1. o \in u.process.synced /\ Reached(u, o)
        BY <1>0, <1>1, <2>4, <3>1, <3>3
      <4> QED BY <2>1, <3>1, <4>1 DEF Reached, Present
    <3> QED BY <3>2, <3>3
  <2>5. ASSUME mx = {}, NEW e \in Emails, Close(w, e)
        PROVE  Close(v, e) /\ \A o \in Listed(w.control) : o < k + 1 => Same(v, e, o)
    <3> DEFINE i == u.control.ident[e]
               j == v.control.ident[e]
               pw(o) == FileOf(u, o).row[e].pw
    <3>1. /\ \A o \in Listed(w.control) : pw(o) >= 0 => i = pw(o) \/ (i = -1 /\ pw(o) = 0)
          /\ \A o \in Listed(w.control) : o < k => (pw(o) >= 0 => i = pw(o))
      BY <1>1, <1>2, <2>5 DEF Close, Same
    <3>2. \A o \in Listed(w.control) : FileOf(v, o).row[e].pw = pw(o)
      BY <1>1, <1>2, <2>1, <2>3, SMTT(30), ZenonT(30) DEF FileOf
    <3>3. pw(k) \in Numbers
      <4>1. u.disk[p] \in Files
        BY <1>1, <2>0, WorldIs
      <4> QED BY <4>1, <2>0 DEF FileOf, Files, Rows
    <3>4. j = IF pw(k) > 0 THEN pw(k) ELSE IF pw(k) = 0 /\ i = -1 THEN 0 ELSE i
      BY <2>0, <2>1, <2>2 DEF Tells, FileOf
    <3> SUFFICES /\ \A o \in Listed(w.control) : pw(o) >= 0 => j = pw(o) \/ (j = -1 /\ pw(o) = 0)
                 /\ \A o \in Listed(w.control) : o < k + 1 => (pw(o) >= 0 => j = pw(o))
      BY <1>1, <2>1, <3>2 DEF Close, Same, Listed
    <3> HIDE DEF pw, i, j
    <3>5. j = i \/ (i = -1 /\ j = 0 /\ pw(k) = 0)
      BY <1>4, <3>1, <3>3, <3>4 DEF Numbers
    <3>6. pw(k) >= 0 => j = pw(k)
      BY <1>4, <3>1, <3>3, <3>4 DEF Numbers
    <3>7. \A o \in Listed(w.control) : o < k + 1 => o = k \/ o < k
      BY <1>0, <1>2
    <3>8. \A o \in Listed(w.control) : pw(o) >= 0 => j = pw(o) \/ (j = -1 /\ pw(o) = 0)
      BY <3>1, <3>5
    <3>9. \A o \in Listed(w.control) : o < k => (pw(o) >= 0 => j = pw(o))
      BY <3>1, <3>5
    <3> QED BY <3>6, <3>7, <3>8, <3>9
  <2>6. \A o \in v.process.synced : o < k + 1
    BY <1>0, <1>1, <1>2, <2>1
  <2> QED BY <1>1, <2>1, <2>3, <2>4, <2>5, <2>6 DEF Up, v
<1> QED BY <1>3, <1>4

(* The start of the server: every listed organization is sound afterwards. *)
LEMMA BootKeeps ==
  ASSUME NEW w, NEW mx, Ready(w, mx)
  PROVE  LET v == Boot(w) IN
         /\ WorldGood(v, mx)
         /\ \A q \in Paths \ mx : v.disk[q] = w.disk[q]
         /\ v.control.slug = w.control.slug
         /\ mx = {} => \A e \in Emails : Close(w, e) => Agrees(v, e)
<1> DEFINE n == MaxOrgs + 1
           none == [lru |-> << >>, synced |-> {}, retired |-> {}]
           started == [w EXCEPT !.process = none]
           W == {v \in Worlds : /\ HandlesGood(v.control, v.process.lru)
                                /\ v.control.status = w.control.status /\ v.control.slug = w.control.slug}
           next(v, i) == Migrate(v, i - 1)
           Eq(f) == f = [k \in 0 .. n |-> IF k = 0 THEN started ELSE next(f[k - 1], k)]
<1>0. n \in Nat /\ Orgs = 0 .. n - 1 /\ w \in Worlds /\ SlugsGood(w.control) /\ \A o \in Apart(w, mx) : Owned(w, o)
  BY SizeAssumption DEF Orgs, Ready
<1>1. Up(w, started, 0, mx)
  <2>1. none \in Processes /\ none.lru = << >> /\ none.synced = {} /\ none.retired = {}
    BY DEF Processes
  <2> HIDE DEF none
  <2>2. started \in Worlds /\ started.control = w.control /\ started.disk = w.disk /\ started.process = none
    BY <1>0, <2>1 DEF Worlds
  <2> HIDE DEF started
  <2>3. HandlesGood(started.control, started.process.lru)
    <3>1. Len(<< >>) = 0 /\ DOMAIN << >> = {} /\ 0 <= MaxOpen
      BY SizeAssumption
    <3> QED BY <3>1, <2>1, <2>2 DEF HandlesGood
  <2>4. \A o \in Listed(w.control) : ~(o < 0)
    BY SizeAssumption DEF Listed, Orgs
  <2>5. Apart(w, mx) \subseteq Listed(w.control)
    BY DEF Apart
  <2>6. \A e : Close(w, e) => Close(started, e)
    BY <2>2 DEF Close, FileOf
  <2> QED BY <2>1, <2>2, <2>3, <2>4, <2>5, <2>6 DEF Up
<1> HIDE DEF started
<1>2. \A i \in 1 .. n : \A v : Up(w, v, i - 1, mx) => Up(w, next(v, i), i, mx)
  <2> TAKE i \in 1 .. n
  <2> TAKE v
  <2> HAVE Up(w, v, i - 1, mx)
  <2> DEFINE k == i - 1
  <2>1. k \in Orgs /\ k + 1 = i
    BY <1>0
  <2>2. Up(w, v, k, mx)
    OBVIOUS
  <2> HIDE DEF k
  <2>3. Up(w, Migrate(v, k), k + 1, mx)
    BY <2>1, <2>2, MigrateKeeps
  <2> QED BY <2>1, <2>3 DEF k
<1> HIDE DEF n
<1>3. \A v \in W, i \in 1 .. n : next(v, i) \in W
  <2> TAKE v \in W, i \in 1 .. n
  <2> DEFINE k == i - 1
             x == OpenOrg(v, k, v.control.slug[k])
  <2>1. k \in Orgs /\ Listed(v.control) = Listed(w.control)
    BY <1>0, SizeAssumption DEF Listed, n
  <2>2. CASE k \in Listed(v.control)
    <3> DEFINE p == v.control.slug[k]
    <3>1. p \in Paths /\ v \in Worlds /\ HandlesGood(v.control, v.process.lru)
      BY <1>0, <2>1, <2>2 DEF SlugsGood
    <3> HIDE DEF p, k
    <3>2. LET y == OpenOrg(v, k, p) IN
          /\ y \in Worlds /\ HandlesGood(y.control, y.process.lru)
          /\ y.control.status = v.control.status /\ y.control.slug = v.control.slug
      BY <2>1, <3>1, OpenIs DEF p
    <3>3. next(v, i) = OpenOrg(v, k, p)
      BY <2>2 DEF Migrate, p, k
    <3> HIDE DEF next
    <3> QED BY <3>2, <3>3
  <2>3. CASE k \notin Listed(v.control)
    BY <2>3 DEF Migrate
  <2> QED BY <2>2, <2>3
<1>4. started \in W
  BY <1>1 DEF Up
<1> DEFINE step == [i \in 1 .. n |-> [v \in W |-> next(v, i)]]
<1>5. step \in [1 .. n -> [W -> W]]
  <2> HIDE DEF W, next
  <2> QED BY <1>3
<1>6. n \in Nat
  BY <1>0 DEF n
<1>7. PICK f : Follows(f, W, started, n, step)
  <2> HIDE DEF W, step
  <2> QED BY <1>4, <1>5, <1>6, StepsExist
<1>8. f \in [0 .. n -> W] /\ f[0] = started /\ \A i \in 1 .. n : f[i] = step[i][f[i - 1]]
  BY <1>7 DEF Follows
<1>9. Eq(f)
  <2> HIDE DEF W, next
  <2>1. \A k \in 1 .. n : f[k] = next(f[k - 1], k)
    <3> TAKE k \in 1 .. n
    <3>1. k - 1 \in 0 .. n
      BY <1>6
    <3> QED BY <3>1, <1>8
  <2> QED BY <2>1, <1>6, <1>8
<1> DEFINE g == CHOOSE h : Eq(h)
<1>10. Boot(w) = g[n]
  BY DEF Boot, started, n
<1>11. g[0] = started /\ \A k \in 1 .. n : k - 1 \in 0 .. n /\ g[k] = next(g[k - 1], k)
  <2>1. Eq(g)
    <3> HIDE DEF Eq
    <3> QED BY <1>9
  <2> HIDE DEF g, next
  <2> QED BY <2>1, <1>6
<1> HIDE DEF g, Eq, step, W, next
<1> DEFINE S == {k \in 0 .. n : Up(w, g[k], k, mx)}
<1>12. \A k \in 0 .. n : k \in S
  <2>1. 0 \in S
    BY <1>1, <1>6, <1>11
  <2>2. ASSUME NEW k \in 1 .. n, k - 1 \in S PROVE k \in S
    BY <2>2, <1>2, <1>6, <1>11
  <2> HIDE DEF S
  <2> QED BY <2>1, <2>2, <1>6, UpTo
<1>13. Up(w, g[n], n, mx)
  BY <1>6, <1>12
<1> DEFINE v == g[n]
<1> HIDE DEF v
<1>14. /\ v \in Worlds /\ HandlesGood(v.control, v.process.lru)
       /\ v.control.status = w.control.status /\ v.control.slug = w.control.slug
       /\ v.process.retired = {}
       /\ \A q \in Paths : v.disk[q].row = w.disk[q].row /\ (q \notin mx => v.disk[q] = w.disk[q])
       /\ \A o \in Apart(w, mx) : o < n => o \in v.process.synced /\ Reached(v, o)
       /\ mx = {} => \A e \in Emails : Close(w, e) => \A o \in Listed(w.control) : o < n => Same(v, e, o)
  BY <1>13 DEF Up, v
<1>15. \A o \in Orgs : o < n
  BY <1>0, SizeAssumption DEF n
<1>16. Listed(v.control) = Listed(w.control) /\ Apart(v, mx) = Apart(w, mx) /\ SlugsGood(v.control)
  BY <1>0, <1>14 DEF Listed, Apart, SlugsGood
<1>17. \A o \in Listed(w.control) : o \in Orgs /\ w.control.slug[o] \in Paths
  BY <1>0 DEF SlugsGood, Listed
<1>18. ASSUME NEW o \in Apart(w, mx) PROVE Sound(v, o)
  <2>1. o \in Orgs /\ w.control.slug[o] \in Paths \ mx
    BY <1>17 DEF Apart
  <2>2. FileOf(v, o) = FileOf(w, o)
    BY <1>14, <2>1 DEF FileOf
  <2> QED BY <1>0, <1>14, <1>15, <2>1, <2>2 DEF Sound, Owned
<1>19. WorldGood(v, mx)
  BY <1>14, <1>16, <1>18 DEF WorldGood
<1>20. mx = {} => \A e \in Emails : Close(w, e) => Agrees(v, e)
  BY <1>14, <1>15, <1>16, <1>17 DEF Agrees, Same
<1> QED BY <1>10, <1>14, <1>19, <1>20 DEF v

-----------------------------------------------------------------------------
(* The inductive invariant.                                                *)
IInv == StateGood(World, call, mixed, drifted) /\ lastPw \in Nat

(* SetWorld assigns what World reads.                                      *)
LEMMA NextWorld ==
  ASSUME NEW w \in Worlds, SetWorld(w)
  PROVE  World' = w
BY WorldIs DEF SetWorld, World

(* What a good state says of each part.                                    *)
LEMMA StateWorld ==
  ASSUME NEW w, NEW mx, NEW dr, NEW cs, StateGood(w, cs, mx, dr)
  PROVE  /\ w \in Worlds /\ w.control \in Controls /\ w.disk \in [Paths -> Files] /\ w.process \in Processes
         /\ SlugsGood(w.control) /\ HandlesGood(w.control, w.process.lru) /\ cs \in [Calls -> CallTypes]
         /\ \A o \in Listed(w.control) : At(w, mx, o, w.control.slug[o])
<1>1. w \in Worlds /\ SlugsGood(w.control) /\ HandlesGood(w.control, w.process.lru) /\ cs \in [Calls -> CallTypes]
  BY DEF StateGood, WorldGood, CallsGood
<1>2. \A o \in Listed(w.control) : At(w, mx, o, w.control.slug[o])
  BY <1>1 DEF At, SlugsGood, Listed
<1> QED BY <1>1, <1>2, WorldIs

(* What the state says of a waiting call.                                  *)
LEMMA CallKnown ==
  ASSUME NEW w, NEW mx, NEW dr, NEW cs, StateGood(w, cs, mx, dr), NEW c \in Calls, cs[c].kind # "idle"
  PROVE  /\ cs[c].kind \in Kinds /\ cs[c].org \in Orgs /\ cs[c].path \in Paths /\ cs[c].email \in Emails
         /\ cs[c].live \in BOOLEAN /\ w.control.slug[cs[c].org] = cs[c].path /\ CallGood(w, cs[c], mx)
         /\ cs[c].kind # "provision" =>
              \/ cs[c].path \in w.process.retired
              \/ At(w, mx, cs[c].org, cs[c].path)
<1> DEFINE r == cs[c]
<1>1. cs \in [Calls -> CallTypes] /\ CallGood(w, r, mx)
  BY DEF StateGood, CallsGood
<1>2. r \in [kind : Kinds, org : Orgs, path : Paths, email : Emails, live : BOOLEAN]
  BY <1>1 DEF CallTypes, Idle
<1> HIDE DEF r
<1>3. r.kind # "idle"
  BY DEF r
<1>4. r.kind # "provision" => r.path \in w.process.retired \/ At(w, mx, r.org, r.path)
  BY <1>1, <1>2, <1>3 DEF CallGood, At
<1> QED BY <1>1, <1>2, <1>3, <1>4 DEF r, CallGood

-----------------------------------------------------------------------------
(* The actions of members.                                                 *)

(* An invite begins.                                                       *)
LEMMA InviteBeginsKeeps ==
  ASSUME IInv, NEW c \in Calls, NEW o \in Orgs, InviteBegins(c, o)
  PROVE  IInv' /\ NoNewFile(World, World', mixed)
<1> DEFINE w == World
           r == [kind |-> "invite", org |-> o, path |-> PathOf(o), email |-> First, live |-> TRUE]
<1>1. StateGood(w, call, mixed, drifted) /\ lastPw \in Nat
  BY DEF IInv
<1>2. World' = w /\ call' = [call EXCEPT ![c] = r] /\ mixed' = mixed /\ drifted' = drifted /\ lastPw' = lastPw
  BY DEF InviteBegins, World
<1>3. o \in Listed(w.control) /\ w.control.slug[o] = PathOf(o)
  BY DEF InviteBegins, SignedIn, Routed, Active, Listed, World, PathOf
<1> HIDE DEF w
<1>4. PathOf(o) \in Paths
  BY <1>1, <1>3, StateWorld DEF SlugsGood
<1>5. r \in CallTypes /\ r.kind = "invite" /\ r.org = o /\ r.path = PathOf(o)
  BY <1>4, MainAssumption DEF CallTypes, Kinds
<1> HIDE DEF r
<1>6. CallGood(w, r, mixed)
  BY <1>3, <1>5 DEF CallGood
<1>7. StateGood(w, [call EXCEPT ![c] = r], mixed, drifted)
  BY <1>1, <1>5, <1>6, CallStarts DEF StateGood
<1> QED BY <1>1, <1>2, <1>7 DEF IInv, NoNewFile, w

(* An invite ends.                                                         *)
LEMMA InviteEndsKeeps ==
  ASSUME IInv, NEW c \in Calls, NEW e \in Emails, InviteEnds(c, e)
  PROVE  IInv' /\ NoNewFile(World, World', mixed)
<1> DEFINE w == World
           r == call[c]
           u == OpenOrg(w, r.org, r.path)
           v == IF Refuses(w, r.path) THEN CloseOrgDb(w, {r.org}) ELSE InviteOf(u, r.org, r.path, e)
           ds == [call EXCEPT ![c] = Idle]
<1>1. StateGood(w, call, mixed, drifted) /\ lastPw \in Nat
  BY DEF IInv
<1>2. SetWorld(v) /\ call' = ds /\ mixed' = mixed /\ drifted' = drifted /\ lastPw' = lastPw /\ r.kind = "invite"
  BY DEF InviteEnds, Ends
<1> HIDE DEF w
<1>3. /\ w.control.slug[r.org] = r.path /\ r.path \in Paths /\ r.org \in Orgs
      /\ r.path \in w.process.retired \/ At(w, mixed, r.org, r.path)
  BY <1>1, <1>2, CallKnown
<1> HIDE DEF r
<1>4. StateGood(v, call, mixed, drifted) /\ NoNewFile(w, v, mixed)
  <2>1. CASE Refuses(w, r.path)
    <3>1. v = CloseOrgDb(w, {r.org})
      BY <2>1
    <3> HIDE DEF v
    <3> QED BY <1>1, <1>3, <2>1, <3>1, RefusedState DEF Refuses
  <2>2. CASE ~Refuses(w, r.path)
    <3>1. v = InviteOf(u, r.org, r.path, e) /\ At(w, mixed, r.org, r.path)
      BY <1>3, <2>2 DEF Refuses
    <3>2. StateGood(u, call, mixed, drifted) /\ Like(w, u, mixed) /\ NoNewFile(w, u, mixed)
      BY <1>1, <3>1, OpenState DEF At
    <3> HIDE DEF u, v
    <3>3. At(u, mixed, r.org, r.path)
      BY <3>1, <3>2, LikeListed DEF At, Like
    <3>4. StateGood(v, call, mixed, drifted) /\ NoNewFile(u, v, mixed)
      BY <3>1, <3>2, <3>3, InviteState
    <3> QED BY <3>2, <3>4, NoNewFileComposes
  <2> QED BY <2>1, <2>2
<1> HIDE DEF v
<1>5. StateGood(v, ds, mixed, drifted)
  <2>1. Weaker(ds, call)
    BY <1>1, StateWorld, EndedWeaker
  <2> QED BY <1>4, <2>1, WeakerState
<1>6. World' = v
  BY <1>2, <1>4, StateWorld, NextWorld
<1> QED BY <1>1, <1>2, <1>4, <1>5, <1>6 DEF IInv, w

(* A member is deleted.                                                    *)
LEMMA DeleteMemberKeeps ==
  ASSUME IInv, NEW o \in Orgs, NEW e \in Emails, DeleteMember(o, e)
  PROVE  IInv' /\ NoNewFile(World, World', mixed)
<1> DEFINE w == World
           p == PathOf(o)
           u == OpenOrg(w, o, p)
           v == MemberGone(u, o, p, e)
           es == {e}
           ds == Voided(call, p, es)
<1>1. StateGood(w, call, mixed, drifted) /\ lastPw \in Nat
  BY DEF IInv
<1>2. SetWorld(v) /\ call' = ds /\ mixed' = mixed /\ drifted' = drifted /\ lastPw' = lastPw
  BY DEF DeleteMember
<1>3. o \in Listed(w.control) /\ w.control.slug[o] = p
  BY DEF DeleteMember, MayDelete, Routed, Active, Listed, World, PathOf
<1>4. PICK a \in Emails \ {e} : w.disk[p].row[a].pw >= 0
  BY DEF DeleteMember, MayDelete, SignedIn, Routed, World
<1> HIDE DEF w, p
<1>5. At(w, mixed, o, p)
  BY <1>1, <1>3, StateWorld
<1>6. StateGood(u, call, mixed, drifted) /\ Like(w, u, mixed) /\ NoNewFile(w, u, mixed)
  BY <1>1, <1>5, OpenState DEF At
<1> HIDE DEF u, v
<1>7. At(u, mixed, o, p) /\ u.disk[p].row[a].pw >= 0 /\ a \in Emails /\ a # e
  <2>1. Listed(u.control) = Listed(w.control)
    BY <1>6, LikeListed
  <2> QED BY <1>4, <1>5, <1>6, <2>1 DEF At, Like
<1>8. /\ Weaker(ds, call)
      /\ \A c \in Calls : ds[c].kind = "password" /\ ds[c].path = p /\ ds[c].email \in es => ~ds[c].live
  <2> HIDE DEF es
  <2>1. call \in [Calls -> CallTypes]
    BY <1>1, StateWorld
  <2> QED BY <2>1, VoidedWeaker
<1> HIDE DEF ds
<1>9. StateGood(u, ds, mixed, drifted)
  BY <1>6, <1>8, WeakerState
<1>10. \A c \in Calls : ~(ds[c].kind = "password" /\ ds[c].live /\ ds[c].path = p /\ ds[c].email = e)
  BY <1>8
<1>11. StateGood(v, ds, mixed, drifted) /\ NoNewFile(u, v, mixed)
  <2>1. v = MemberGone(u, o, p, e)
    BY DEF v
  <2> QED BY <1>7, <1>9, <1>10, <2>1, GoneState
<1>12. World' = v
  BY <1>2, <1>11, StateWorld, NextWorld
<1>13. NoNewFile(w, v, mixed)
  BY <1>6, <1>11, NoNewFileComposes
<1> QED BY <1>1, <1>2, <1>11, <1>12, <1>13 DEF IInv, w

(* An organization is disabled or enabled.                                 *)
LEMMA SetStatusKeeps ==
  ASSUME IInv, NEW o \in Orgs, NEW st \in {"active", "disabled"}, SetStatus(o, st)
  PROVE  IInv' /\ NoNewFile(World, World', mixed)
<1> DEFINE w == World
           v == World'
<1>1. StateGood(w, call, mixed, drifted) /\ lastPw \in Nat
  BY DEF IInv
<1>2. call' = call /\ mixed' = mixed /\ drifted' = drifted /\ lastPw' = lastPw
  BY DEF SetStatus
<1>3. /\ v.disk = w.disk /\ v.process = w.process /\ v.control = [w.control EXCEPT !.status[o] = st]
      /\ v = [control |-> v.control, disk |-> v.disk, process |-> v.process] /\ w.control.status[o] # "none"
  BY DEF SetStatus, World, Listed
<1> HIDE DEF w, v
<1>4. w \in Worlds /\ w.control \in Controls /\ w.disk \in [Paths -> Files] /\ w.process \in Processes
      /\ SlugsGood(w.control) /\ HandlesGood(w.control, w.process.lru)
  BY <1>1, StateWorld
<1>5. /\ v.control \in Controls /\ v.control.slug = w.control.slug /\ v.control.dir = w.control.dir
      /\ v.control.tok = w.control.tok /\ v.control.ident = w.control.ident
      /\ \A q \in Orgs : v.control.status[q] = "none" <=> w.control.status[q] = "none"
  BY <1>3, <1>4 DEF Controls
<1>6. v \in Worlds
  BY <1>3, <1>4, <1>5 DEF Worlds
<1>7. /\ Listed(v.control) = Listed(w.control) /\ Apart(v, mixed) = Apart(w, mixed)
      /\ \A p : Owner(v, p) = Owner(w, p)
  <2>1. Listed(v.control) = Listed(w.control)
    BY <1>5 DEF Listed
  <2> QED BY <1>5, <2>1 DEF Apart, Owner
<1>8. \A q : FileOf(v, q) = FileOf(w, q)
  BY <1>3, <1>5 DEF FileOf
<1>9. WorldGood(v, mixed)
  <2>1. \A q \in Apart(w, mixed) : Sound(w, q)
    BY <1>1 DEF StateGood, WorldGood
  <2>2. \A q \in Apart(v, mixed) : Sound(v, q)
    BY <1>3, <1>5, <1>7, <1>8, <2>1 DEF Sound, Owned, Reached
  <2> QED BY <1>3, <1>4, <1>5, <1>6, <1>7, <2>2 DEF WorldGood, HandlesGood, OnFile, SlugsGood
<1>10. ASSUME NEW c \in Calls PROVE CallGood(v, call[c], mixed)
  <2> DEFINE r == call[c]
  <2>1. CallGood(w, r, mixed) /\ (r.kind # "idle" => r.org \in Orgs)
    BY <1>1, CallKnown DEF StateGood, CallsGood
  <2> HIDE DEF r
  <2>2. r.kind # "idle" /\ Pending(w, r) => Pending(v, r)
    BY <1>3, <1>5, <1>7, <2>1 DEF Pending
  <2>3. CallGood(v, r, mixed)
    BY <1>3, <1>5, <1>7, <2>1, <2>2 DEF CallGood
  <2> QED BY <2>3 DEF r
<1>11. CallsGood(v, call, mixed)
  BY <1>1, <1>10 DEF StateGood, CallsGood
<1>12. PasswordsGood(v, call, mixed, drifted)
  BY <1>1, <1>5, <1>7, <1>8 DEF StateGood, PasswordsGood, Agrees
<1>13. NoNewFile(w, v, mixed)
  BY <1>3 DEF NoNewFile
<1> QED BY <1>1, <1>2, <1>9, <1>11, <1>12, <1>13 DEF IInv, StateGood, w, v

(* A setup or reset starts hashing.                                        *)
LEMMA PasswordBeginsKeeps ==
  ASSUME IInv, NEW c \in Calls, NEW o \in Orgs, NEW e \in Emails, PasswordBegins(c, o, e)
  PROVE  IInv' /\ NoNewFile(World, World', mixed)
<1> DEFINE w == World
           v == World'
           p == PathOf(o)
           row == w.disk[p].row[e]
           new == [pw |-> row.pw, inv |-> FALSE]
           tok == w.control.tok \ {<<o, e>>}
           r == [kind |-> "password", org |-> o, path |-> p, email |-> e, live |-> TRUE]
           d == [w.disk EXCEPT ![p].row[e] = new]
<1>1. StateGood(w, call, mixed, drifted) /\ lastPw \in Nat
  BY DEF IInv
<1>2. call' = [call EXCEPT ![c] = r] /\ mixed' = mixed /\ drifted' = drifted /\ lastPw' = lastPw
  BY DEF PasswordBegins
<1>3. /\ v.disk = [w.disk EXCEPT ![p].row[e].inv = FALSE] /\ v.process = w.process
      /\ v.control = [w.control EXCEPT !.tok = tok]
      /\ v = [control |-> v.control, disk |-> v.disk, process |-> v.process]
      /\ o \in Listed(w.control) /\ w.control.slug[o] = p /\ row.pw >= 0
  BY DEF PasswordBegins, World, Listed, Routed, Active, PathOf
<1> HIDE DEF w, v, p
<1>4. w \in Worlds /\ w.control \in Controls /\ w.disk \in [Paths -> Files] /\ w.process \in Processes /\ At(w, mixed, o, p)
  BY <1>1, <1>3, StateWorld
<1>5. p \in Paths /\ row \in Rows /\ new \in Rows /\ new.pw = row.pw /\ new.inv = FALSE
  <2>1. p \in Paths /\ w.disk[p] \in Files
    BY <1>4 DEF At
  <2>2. row \in Rows
    BY <2>1 DEF Files
  <2> QED BY <2>1, <2>2 DEF Rows
<1>6. [row EXCEPT !.inv = FALSE] = new
  <2> DEFINE y == [row EXCEPT !.inv = FALSE]
  <2>1. y \in Rows /\ y.pw = row.pw /\ y.inv = FALSE
    BY <1>5 DEF Rows
  <2> HIDE DEF y, new, row
  <2>2. y = new
    BY <1>5, <2>1 DEF Rows
  <2> QED BY <2>2 DEF y
<1>7. v.disk = d
  <2>1. v.disk = [w.disk EXCEPT ![p].row[e] = [row EXCEPT !.inv = FALSE]]
    BY <1>3
  <2> HIDE DEF new, row
  <2> QED BY <1>6, <2>1
<1>8. /\ d \in [Paths -> Files] /\ \A q \in Paths : q # p => d[q] = w.disk[q]
      /\ d[p].born = w.disk[p].born /\ d[p].row[e] = new /\ \A x \in Emails : x # e => d[p].row[x] = w.disk[p].row[x]
  <2> DEFINE old == w.disk
  <2>1. d = [old EXCEPT ![p].row[e] = new] /\ old \in [Paths -> Files]
    BY <1>4
  <2> SUFFICES /\ d \in [Paths -> Files] /\ \A q \in Paths : q # p => d[q] = old[q]
               /\ d[p].born = old[p].born /\ d[p].row[e] = new /\ \A x \in Emails : x # e => d[p].row[x] = old[p].row[x]
    OBVIOUS
  <2> HIDE DEF d, old, new
  <2> QED BY <1>5, <2>1, RowTyped
<1> HIDE DEF d
<1>9. tok \in SUBSET (Orgs \X Emails) /\ \A q \in Orgs, x \in Emails : <<q, x>> # <<o, e>> =>
        (<<q, x>> \in w.control.tok => <<q, x>> \in tok)
  BY <1>4 DEF Controls
<1> HIDE DEF tok, new
<1>10. /\ v.control \in Controls /\ v.control.slug = w.control.slug /\ v.control.dir = w.control.dir
       /\ v.control.tok = tok /\ v.control.ident = w.control.ident /\ v.control.status = w.control.status
  BY <1>3, <1>4, <1>9 DEF Controls
<1>11. v \in Worlds
  BY <1>3, <1>4, <1>7, <1>8, <1>10 DEF Worlds
<1>12. RowSet(w, v, o, p, e)
  BY <1>3, <1>7, <1>8, <1>9, <1>10, <1>11 DEF RowSet
<1>13. v.disk[p].row[e].pw = row.pw /\ v.disk[p].row[e].inv = FALSE /\ row.pw >= 0 /\ e \in Present(v.disk[p])
  BY <1>3, <1>5, <1>7, <1>8 DEF Present
<1>14. RowReady(w, v, mixed, drifted, call, drifted, o, p, e)
  <2>1. /\ p \notin mixed => \A x \in Emails : w.disk[p].row[x].pw >= 0 =>
                   <<o, x>> \in w.control.dir /\ (w.disk[p].row[x].inv => <<o, x>> \in w.control.tok)
        /\ mixed = {} => \A x \in Emails \ drifted : w.disk[p].row[x].pw >= 0 => w.control.ident[x] = w.disk[p].row[x].pw
    BY <1>1, <1>4, FileKnown
  <2>2. p \notin mixed => <<o, e>> \in v.control.dir
    BY <1>10, <1>13, <2>1
  <2>3. mixed = {} /\ e \notin drifted => v.control.ident[e] = v.disk[p].row[e].pw
    BY <1>10, <1>13, <2>1
  <2> QED BY <1>1, <1>4, <1>10, <1>12, <1>13, <2>2, <2>3 DEF RowReady
<1>15. StateGood(v, call, mixed, drifted) /\ NoNewFile(w, v, mixed)
  BY <1>14, RowState
<1>16. r \in CallTypes /\ r.kind = "password" /\ r.org = o /\ r.path = p /\ r.email = e
  BY <1>5 DEF CallTypes, Kinds
<1> HIDE DEF r, row
<1>17. CallGood(v, r, mixed)
  <2>1. o \in Listed(v.control) /\ v.control.slug[o] = p
    BY <1>3, <1>10 DEF Listed
  <2> QED BY <1>13, <1>16, <2>1 DEF CallGood
<1>18. StateGood(v, [call EXCEPT ![c] = r], mixed, drifted)
  BY <1>15, <1>16, <1>17, CallStarts DEF StateGood
<1> QED BY <1>1, <1>2, <1>15, <1>18 DEF IInv, w, v

(* A password is stored and copied.                                        *)
LEMMA PasswordEndsKeeps ==
  ASSUME IInv, NEW c \in Calls, PasswordEnds(c)
  PROVE  IInv' /\ NoNewFile(World, World', mixed)
<1> DEFINE w == World
           r == call[c]
           e == r.email
           u == OpenOrg(w, r.org, r.path)
           x == OwnCopies(u, r)
           missed == Unreachable(x, e)
           ds == [call EXCEPT ![c] = Idle]
<1>1. StateGood(w, call, mixed, drifted) /\ lastPw \in Nat
  BY DEF IInv
<1>2. call' = ds /\ mixed' = mixed /\ r.kind = "password"
  BY DEF PasswordEnds, Ends
<1>3. \/ /\ Refuses(w, r.path) /\ SetWorld(CloseOrgDb(w, {r.org})) /\ lastPw' = lastPw /\ drifted' = drifted
      \/ /\ ~Refuses(w, r.path) /\ ~r.live /\ SetWorld(u) /\ lastPw' = lastPw /\ drifted' = drifted
      \/ /\ ~Refuses(w, r.path) /\ r.live
         /\ \E ms \in SUBSET (Memberships(x, e) \ missed) :
              /\ missed = {} => ms = Memberships(x, e)
              /\ SetWorld(Replicate(x, e, ms))
         /\ lastPw' = lastPw + 1
         /\ drifted' = IF missed = {} /\ ~ElsewhereToo(e) THEN drifted \ {e} ELSE drifted \cup {e}
  BY DEF PasswordEnds
<1> HIDE DEF w
<1>4. /\ w.control.slug[r.org] = r.path /\ r.path \in Paths /\ r.org \in Orgs /\ e \in Emails
      /\ r.path \in w.process.retired \/ At(w, mixed, r.org, r.path)
      /\ CallGood(w, r, mixed)
  BY <1>1, <1>2, CallKnown
<1>5. Weaker(ds, call)
  BY <1>1, StateWorld, EndedWeaker
<1>6. Expected(ds, e) => ElsewhereToo(e)
  <2>1. \A d \in Calls : ds[d].kind = "provision" => ds[d] = call[d]
    BY <1>1, StateWorld DEF Idle
  <2> QED BY <2>1 DEF Expected, ElsewhereToo
<1> HIDE DEF ds, u, x, missed
<1>7. CASE Refuses(w, r.path) /\ SetWorld(CloseOrgDb(w, {r.org})) /\ lastPw' = lastPw /\ drifted' = drifted
  <2> DEFINE v == CloseOrgDb(w, {r.org})
  <2>1. StateGood(v, call, mixed, drifted) /\ NoNewFile(w, v, mixed)
    <3> HIDE DEF r
    <3> QED BY <1>1, <1>4, <1>7, RefusedState DEF Refuses
  <2>2. SetWorld(v)
    BY <1>7
  <2> HIDE DEF v
  <2>3. StateGood(v, ds, mixed, drifted) /\ World' = v
    BY <1>5, <2>1, <2>2, WeakerState, StateWorld, NextWorld
  <2> QED BY <1>1, <1>2, <1>7, <2>1, <2>3 DEF IInv, w
<1>8. ASSUME ~Refuses(w, r.path)
      PROVE  At(w, mixed, r.org, r.path) /\ StateGood(u, call, mixed, drifted) /\ Like(w, u, mixed) /\ NoNewFile(w, u, mixed)
             /\ At(u, mixed, r.org, r.path)
  <2>1. At(w, mixed, r.org, r.path)
    BY <1>4, <1>8 DEF Refuses
  <2> HIDE DEF r
  <2>2. StateGood(u, call, mixed, drifted) /\ Like(w, u, mixed) /\ NoNewFile(w, u, mixed)
    BY <1>1, <2>1, OpenState DEF At, u
  <2>3. At(u, mixed, r.org, r.path)
    BY <2>1, <2>2, LikeListed DEF At, Like
  <2> QED BY <2>1, <2>2, <2>3
<1>9. CASE ~Refuses(w, r.path) /\ SetWorld(u) /\ lastPw' = lastPw /\ drifted' = drifted
  <2>1. StateGood(u, ds, mixed, drifted) /\ World' = u
    BY <1>5, <1>8, <1>9, WeakerState, StateWorld, NextWorld
  <2> QED BY <1>1, <1>2, <1>8, <1>9, <2>1 DEF IInv, w
<1>10. ASSUME ~Refuses(w, r.path), r.live,
              NEW ms \in SUBSET (Memberships(x, e) \ missed), missed = {} => ms = Memberships(x, e),
              SetWorld(Replicate(x, e, ms)), lastPw' = lastPw + 1,
              drifted' = IF missed = {} /\ ~ElsewhereToo(e) THEN drifted \ {e} ELSE drifted \cup {e}
       PROVE  IInv' /\ NoNewFile(w, World', mixed)
  <2> DEFINE wide == drifted \cup {e}
             v == Replicate(x, e, ms)
  <2>1. r.path \notin mixed => u.disk[r.path].row[e].pw >= 0
    <3>1. r.path \notin mixed => w.disk[r.path].row[e].pw >= 0
      BY <1>2, <1>4, <1>8, <1>10 DEF CallGood, Refuses
    <3> QED BY <1>4, <1>8, <1>10, <3>1 DEF Like
  <2>2. StateGood(x, call, mixed, wide) /\ NoNewFile(u, x, mixed) /\ x.control.ident[e] >= 0
    <3> HIDE DEF r
    <3> QED BY <1>1, <1>4, <1>8, <1>10, <2>1, OwnState DEF x
  <2>3. ms \in SUBSET Memberships(x, e) /\ \A m \in ms : x.control.status[m[1]] # "none"
    BY <1>10 DEF missed, Unreachable
  <2> HIDE DEF e
  <2>4. e \in wide /\ e \in Emails
    BY <1>4
  <2> HIDE DEF wide
  <2>5. /\ StateGood(v, call, mixed, wide) /\ NoNewFile(x, v, mixed)
        /\ mixed = {} /\ ms = Memberships(x, e) => Agrees(v, e)
    BY <2>2, <2>3, <2>4, ReplicateState
  <2>6. SetWorld(v)
    BY <1>10
  <2> HIDE DEF v
  <2>7. World' = v
    BY <2>5, <2>6, StateWorld, NextWorld
  <2>8. StateGood(v, ds, mixed, wide)
    BY <1>5, <2>5, WeakerState
  <2>9. StateGood(v, ds, mixed, drifted')
    <3>1. CASE missed = {} /\ ~ElsewhereToo(e)
      <4>1. mixed = {} => Agrees(v, e) /\ ~Expected(ds, e)
        BY <1>6, <1>10, <2>5, <3>1
      <4>2. drifted' = wide \ {e}
        BY <1>10, <3>1 DEF wide
      <4> QED BY <2>8, <4>1, <4>2 DEF StateGood, PasswordsGood
    <3>2. CASE ~(missed = {} /\ ~ElsewhereToo(e))
      BY <1>10, <2>8, <3>2 DEF wide
    <3> QED BY <3>1, <3>2
  <2>10. NoNewFile(w, v, mixed)
    <3>1. NoNewFile(w, x, mixed)
      BY <1>8, <1>10, <2>2, NoNewFileComposes
    <3> QED BY <2>5, <3>1, NoNewFileComposes
  <2> QED BY <1>1, <1>2, <1>10, <2>7, <2>9, <2>10 DEF IInv
<1> QED BY <1>3, <1>7, <1>9, <1>10 DEF w

-----------------------------------------------------------------------------
(* Stops and starts.                                                       *)

AllIdle == [c \in Calls |-> Idle]

(* A stop ends every call.                                                 *)
LEMMA IdleWeaker == ASSUME NEW cs PROVE Weaker(AllIdle, cs)
BY DEF AllIdle, Weaker, CallTypes, Idle

(* A good state is one the server can start from.                          *)
LEMMA StateReady ==
  ASSUME NEW w, NEW mx, NEW dr, NEW cs, StateGood(w, cs, mx, dr)
  PROVE  Ready(w, mx) /\ (mx = {} => \A e \in Emails \ dr : Close(w, e))
<1>1. Ready(w, mx)
  BY DEF StateGood, WorldGood, Ready, Sound
<1>2. mx = {} => \A e \in Emails \ dr : Close(w, e)
  BY DEF StateGood, PasswordsGood, Agrees, Close
<1> QED BY <1>1, <1>2

(* Whatever was stored before a stop, the start repairs.                   *)
LEMMA RestartKeeps ==
  ASSUME NEW w, Ready(w, mixed), NoNewFile(World, w, mixed), Restart(w), mixed' = mixed, lastPw' \in Nat,
         mixed = {} => \A e \in Emails \ drifted' : Close(w, e)
  PROVE  IInv' /\ NoNewFile(World, World', mixed)
<1> DEFINE v == Boot(w)
<1>1. /\ WorldGood(v, mixed)
      /\ \A q \in Paths \ mixed : v.disk[q] = w.disk[q]
      /\ mixed = {} => \A e \in Emails : Close(w, e) => Agrees(v, e)
  BY BootKeeps
<1>2. SetWorld(v) /\ call' = AllIdle
  BY DEF Restart, AllIdle
<1> HIDE DEF v
<1>3. CallsGood(v, AllIdle, mixed)
  BY DEF CallsGood, AllIdle, CallTypes, CallGood, Idle
<1>4. PasswordsGood(v, AllIdle, mixed, drifted')
  BY <1>1 DEF PasswordsGood, AllIdle, Idle, Expected
<1>5. StateGood(v, AllIdle, mixed, drifted')
  BY <1>1, <1>3, <1>4 DEF StateGood
<1>6. World' = v
  BY <1>2, <1>5, StateWorld, NextWorld
<1>7. NoNewFile(World, v, mixed)
  BY <1>1 DEF NoNewFile
<1> QED BY <1>2, <1>5, <1>6, <1>7 DEF IInv

(* The server stops.                                                       *)
LEMMA CrashKeeps ==
  ASSUME IInv, Crash
  PROVE  IInv' /\ NoNewFile(World, World', mixed)
<1> DEFINE w == World
<1>1. StateGood(w, call, mixed, drifted) /\ lastPw \in Nat
  BY DEF IInv
<1>2. Restart(w) /\ mixed' = mixed /\ drifted' = drifted /\ lastPw' = lastPw
  BY DEF Crash
<1>3. NoNewFile(w, w, mixed)
  BY DEF NoNewFile
<1> HIDE DEF w
<1>4. Ready(w, mixed) /\ (mixed = {} => \A e \in Emails \ drifted : Close(w, e))
  BY <1>1, StateReady
<1> USE DEF w
<1> QED BY <1>1, <1>2, <1>3, <1>4, RestartKeeps

(* It stops between the rows of a member.                                  *)
LEMMA CrashInDeleteMemberKeeps ==
  ASSUME IInv, NEW o \in Orgs, NEW e \in Emails, CrashInDeleteMember(o, e)
  PROVE  IInv' /\ NoNewFile(World, World', mixed)
<1> DEFINE w == World
           p == PathOf(o)
           v == RowGone(w, p, e)
<1>1. StateGood(w, call, mixed, drifted) /\ lastPw \in Nat
  BY DEF IInv
<1>2. Restart(v) /\ mixed' = mixed /\ drifted' = drifted /\ lastPw' = lastPw
  BY DEF CrashInDeleteMember
<1>3. o \in Listed(w.control) /\ w.control.slug[o] = p
  BY DEF CrashInDeleteMember, MayDelete, Routed, Active, Listed, World, PathOf
<1>4. PICK a \in Emails \ {e} : w.disk[p].row[a].pw >= 0
  BY DEF CrashInDeleteMember, MayDelete, SignedIn, Routed, World
<1> HIDE DEF w, p
<1>5. At(w, mixed, o, p)
  BY <1>1, <1>3, StateWorld
<1>6. StateGood(w, AllIdle, mixed, drifted)
  BY <1>1, IdleWeaker, WeakerState
<1>7. \A c \in Calls : ~(AllIdle[c].kind = "password" /\ AllIdle[c].live /\ AllIdle[c].path = p /\ AllIdle[c].email = e)
  BY DEF AllIdle, Idle
<1>8. v = RowGone(w, p, e) /\ a \in Emails /\ a # e
  BY <1>4
<1> HIDE DEF v
<1>9. StateGood(v, AllIdle, mixed, drifted) /\ NoNewFile(w, v, mixed)
  BY <1>4, <1>5, <1>6, <1>7, <1>8, GoneState
<1>10. Ready(v, mixed) /\ (mixed = {} => \A x \in Emails \ drifted : Close(v, x))
  BY <1>9, StateReady
<1>11. NoNewFile(World, v, mixed)
  BY <1>9 DEF w
<1> QED BY <1>1, <1>2, <1>10, <1>11, RestartKeeps

(* It stops between two copies of a password.                              *)
LEMMA CrashInPasswordKeeps ==
  ASSUME IInv, NEW c \in Calls, CrashInPassword(c)
  PROVE  IInv' /\ NoNewFile(World, World', mixed)
<1> DEFINE w == World
           r == call[c]
           v == OwnCopies(w, r)
<1>1. StateGood(w, call, mixed, drifted) /\ lastPw \in Nat
  BY DEF IInv
<1>2. /\ r.kind = "password" /\ r.live /\ ~Refuses(w, r.path) /\ Restart(v)
      /\ mixed' = mixed /\ drifted' = drifted \cup {r.email} /\ lastPw' = lastPw + 1
  BY DEF CrashInPassword
<1> HIDE DEF w
<1>3. /\ w.control.slug[r.org] = r.path /\ r.path \in Paths /\ r.org \in Orgs /\ r.email \in Emails
      /\ At(w, mixed, r.org, r.path) /\ CallGood(w, r, mixed)
  BY <1>1, <1>2, CallKnown DEF Refuses
<1> HIDE DEF r
<1>4. r.path \notin mixed => w.disk[r.path].row[r.email].pw >= 0
  BY <1>2, <1>3 DEF CallGood
<1>5. StateGood(v, call, mixed, drifted') /\ NoNewFile(w, v, mixed)
  BY <1>1, <1>2, <1>3, <1>4, OwnState
<1> HIDE DEF v
<1>6. Ready(v, mixed) /\ (mixed = {} => \A x \in Emails \ drifted' : Close(v, x))
  BY <1>5, StateReady
<1>7. NoNewFile(World, v, mixed) /\ lastPw' \in Nat
  BY <1>1, <1>2, <1>5 DEF w
<1> QED BY <1>2, <1>6, <1>7, RestartKeeps

(* What deleting an organization removes from the control database.        *)
LEMMA CascadeIs ==
  ASSUME NEW k \in Controls, NEW o \in Orgs
  PROVE  LET c == Cascade(k, o) IN
         /\ c \in Controls /\ c.slug = k.slug
         /\ \A q \in Orgs : c.status[q] = IF q = o THEN "none" ELSE k.status[q]
         /\ c.dir = {m \in k.dir : m[1] # o} /\ c.tok = {m \in k.tok : m[1] # o}
         /\ \A e \in Emails : c.ident[e] = IF e \in Orphans(k, o) THEN -1 ELSE k.ident[e]
         /\ Listed(c) = Listed(k) \ {o}
<1> DEFINE c == Cascade(k, o)
           status == [k.status EXCEPT ![o] = "none"]
           dir == {m \in k.dir : m[1] # o}
           tok == {m \in k.tok : m[1] # o}
           ident == [e \in Emails |-> IF e \in Orphans(k, o) THEN -1 ELSE k.ident[e]]
<1>1. c = [k EXCEPT !.status = status, !.dir = dir, !.tok = tok, !.ident = ident]
  BY DEF Cascade
<1>2. /\ status \in [Orgs -> {"none", "active", "disabled"}]
      /\ \A q \in Orgs : status[q] = IF q = o THEN "none" ELSE k.status[q]
  BY DEF Controls
<1>3. dir \in SUBSET (Orgs \X Emails) /\ tok \in SUBSET (Orgs \X Emails)
  BY DEF Controls
<1>4. ident \in [Emails -> Numbers] /\ \A e \in Emails : ident[e] = IF e \in Orphans(k, o) THEN -1 ELSE k.ident[e]
  BY DEF Controls, Numbers
<1> HIDE DEF c, status, dir, tok, ident
<1>5. /\ c \in Controls /\ c.slug = k.slug
      /\ c.status = status /\ c.dir = dir /\ c.tok = tok /\ c.ident = ident
  BY <1>1, <1>2, <1>3, <1>4 DEF Controls
<1>6. Listed(c) = Listed(k) \ {o}
  BY <1>2, <1>5 DEF Listed
<1> QED BY <1>2, <1>4, <1>5, <1>6 DEF c, dir, tok

(* A member of another organization that the directory has is no orphan.   *)
LEMMA NoOrphan ==
  ASSUME NEW k, NEW o, NEW q \in Orgs, q # o, NEW e, <<q, e>> \in k.dir
  PROVE  e \notin Orphans(k, o)
BY DEF Orphans

(* It stops while an organization is deleted.                              *)
LEMMA CrashInDeleteKeeps ==
  ASSUME IInv, NEW o \in Orgs, CrashInDelete(o)
  PROVE  IInv' /\ NoNewFile(World, World', mixed)
<1> DEFINE w == World
           k == Cascade(w.control, o)
           v == [w EXCEPT !.control = k]
<1>1. StateGood(w, call, mixed, drifted) /\ lastPw \in Nat
  BY DEF IInv
<1>2. Restart(v) /\ mixed' = mixed /\ drifted' = drifted /\ lastPw' = lastPw
  BY DEF CrashInDelete
<1> HIDE DEF w
<1>3. w \in Worlds /\ w.control \in Controls /\ SlugsGood(w.control)
  BY <1>1, StateWorld
<1>4. /\ k \in Controls /\ k.slug = w.control.slug
      /\ \A e \in Emails : k.ident[e] = IF e \in Orphans(w.control, o) THEN -1 ELSE w.control.ident[e]
      /\ Listed(k) = Listed(w.control) \ {o}
  BY <1>3, CascadeIs
<1> HIDE DEF k
<1>5. v \in Worlds /\ v.control = k /\ v.disk = w.disk /\ v.process = w.process
  BY <1>3, <1>4 DEF Worlds
<1> HIDE DEF v
<1>6. SlugsGood(v.control) /\ Apart(v, mixed) \subseteq Apart(w, mixed) /\ \A q : FileOf(v, q) = FileOf(w, q)
  BY <1>3, <1>4, <1>5 DEF SlugsGood, Apart, FileOf
<1>7. \A q \in Apart(w, mixed) : Owned(w, q) /\ Reached(w, q)
  BY <1>1 DEF StateGood, WorldGood, Sound
<1>8. Ready(v, mixed)
  BY <1>5, <1>6, <1>7 DEF Ready, Owned
<1>9. ASSUME mixed = {}, NEW e \in Emails \ drifted PROVE Close(v, e)
  <2> SUFFICES ASSUME NEW q \in Listed(k), FileOf(w, q).row[e].pw >= 0
               PROVE  k.ident[e] = FileOf(w, q).row[e].pw
    BY <1>5, <1>6 DEF Close
  <2>1. q \in Orgs /\ q # o /\ q \in Listed(w.control) /\ q \in Apart(w, mixed)
    BY <1>4, <1>9 DEF Listed, Apart
  <2>2. <<q, e>> \in w.control.dir
    BY <1>7, <2>1 DEF Reached, Present
  <2>3. e \notin Orphans(w.control, o)
    BY <2>1, <2>2, NoOrphan
  <2>4. w.control.ident[e] = FileOf(w, q).row[e].pw
    BY <1>1, <1>9, <2>1 DEF StateGood, PasswordsGood, Agrees
  <2> QED BY <1>4, <2>3, <2>4
<1>10. NoNewFile(World, v, mixed)
  BY <1>5 DEF w, NoNewFile
<1> QED BY <1>1, <1>2, <1>8, <1>9, <1>10, RestartKeeps

(* A row of one organization, seen from the others.                        *)
LEMMA RowElsewhere ==
  ASSUME NEW w, NEW v, NEW mx, NEW o \in Orgs, NEW p \in Paths, NEW e \in Emails, At(w, mx, o, p), SlugsGood(w.control),
         RowSet(w, v, o, p, e)
  PROVE  /\ Listed(v.control) = Listed(w.control) /\ Apart(v, mx) = Apart(w, mx)
         /\ \A q \in Apart(w, mx) : q # o => FileOf(v, q) = FileOf(w, q)
         /\ o \in Listed(w.control) => \A q \in Listed(w.control) : q # o => FileOf(v, q) = FileOf(w, q)
<1>1. w.control.slug[o] = p /\ (o \in Listed(w.control) \/ p \in mx)
  BY DEF At
<1>2. Listed(v.control) = Listed(w.control) /\ Apart(v, mx) = Apart(w, mx)
  BY <1>1, RowOthers
<1>3. \A q \in Apart(w, mx) : q # o => FileOf(v, q) = FileOf(w, q)
  <2> TAKE q \in Apart(w, mx)
  <2> HAVE q # o
  <2>1. w.control.slug[q] # p /\ q \in Orgs /\ w.control.slug[q] \in Paths
    BY <1>1 DEF SlugsGood, Apart, Listed
  <2> QED BY <2>1 DEF RowSet, FileOf
<1>4. o \in Listed(w.control) => \A q \in Listed(w.control) : q # o => FileOf(v, q) = FileOf(w, q)
  BY <1>1, RowOthers, SMTT(30), ZenonT(30)
<1> QED BY <1>2, <1>3, <1>4

(* It stops between the two databases of an invite.                        *)
LEMMA CrashInInviteKeeps ==
  ASSUME IInv, NEW c \in Calls, NEW e \in Emails, CrashInInvite(c, e)
  PROVE  IInv' /\ NoNewFile(World, World', mixed)
<1> DEFINE w == World
           r == call[c]
           o == r.org
           p == r.path
           u == OpenOrg(w, o, p)
           new == [pw |-> CopiedPassword(u, e), inv |-> FALSE]
           v == [u EXCEPT !.disk[p].row[e] = new]
           d == [u.disk EXCEPT ![p].row[e] = new]
<1>1. StateGood(w, call, mixed, drifted) /\ lastPw \in Nat
  BY DEF IInv
<1>2. r.kind = "invite" /\ ~Refuses(w, p) /\ Restart(v) /\ mixed' = mixed /\ drifted' = drifted /\ lastPw' = lastPw
  BY DEF CrashInInvite
<1> HIDE DEF w
<1>3. At(w, mixed, o, p) /\ p \in Paths /\ o \in Orgs
  BY <1>1, <1>2, CallKnown DEF Refuses
<1> HIDE DEF r, o, p
<1>4. StateGood(u, call, mixed, drifted) /\ Like(w, u, mixed) /\ NoNewFile(w, u, mixed)
  BY <1>1, <1>3, OpenState DEF At
<1> HIDE DEF u
<1>5. At(u, mixed, o, p)
  BY <1>3, <1>4, LikeListed DEF At, Like
<1>6. u \in Worlds /\ u.disk \in [Paths -> Files] /\ SlugsGood(u.control)
  BY <1>4, StateWorld
<1>7. /\ CopiedPassword(u, e) \in Nat
      /\ u.control.ident[e] # -1 => CopiedPassword(u, e) = u.control.ident[e]
      /\ u.control.ident[e] = -1 => CopiedPassword(u, e) = 0
  BY <1>6, CopiedIs
<1>8. new \in Rows /\ new.pw = CopiedPassword(u, e)
  BY <1>7 DEF Rows, Numbers
<1> HIDE DEF new
<1>9. /\ d \in [Paths -> Files] /\ \A q \in Paths : q # p => d[q] = u.disk[q]
      /\ d[p].born = u.disk[p].born /\ d[p].row[e] = new /\ \A x \in Emails : x # e => d[p].row[x] = u.disk[p].row[x]
  <2> DEFINE old == u.disk
  <2>1. d = [old EXCEPT ![p].row[e] = new] /\ old \in [Paths -> Files]
    BY <1>6
  <2> SUFFICES /\ d \in [Paths -> Files] /\ \A q \in Paths : q # p => d[q] = old[q]
               /\ d[p].born = old[p].born /\ d[p].row[e] = new /\ \A x \in Emails : x # e => d[p].row[x] = old[p].row[x]
    OBVIOUS
  <2>2. p \in Paths /\ new \in Rows
    BY <1>3, <1>8
  <2> HIDE DEF d, old, v
  <2> QED BY <2>1, <2>2, RowTyped
<1>10. v = [u EXCEPT !.disk = d]
  OBVIOUS
<1> HIDE DEF d, v
<1>11. v \in Worlds /\ v.process = u.process /\ v.control = u.control /\ v.disk = d
  BY <1>6, <1>9, <1>10 DEF Worlds
<1>12. RowSet(u, v, o, p, e)
  BY <1>9, <1>11 DEF RowSet
<1>13. v.disk[p].row[e].pw = CopiedPassword(u, e) /\ e \in Present(v.disk[p])
  BY <1>7, <1>8, <1>9, <1>11 DEF Present
<1>14. /\ Listed(v.control) = Listed(u.control) /\ Apart(v, mixed) = Apart(u, mixed)
       /\ \A q \in Apart(u, mixed) : q # o => FileOf(v, q) = FileOf(u, q)
       /\ o \in Listed(u.control) => \A q \in Listed(u.control) : q # o => FileOf(v, q) = FileOf(u, q)
  BY <1>3, <1>5, <1>6, <1>12, RowElsewhere
<1>15. FileOf(v, o) = v.disk[p] /\ FileOf(u, o) = u.disk[p]
  BY <1>5, <1>11 DEF FileOf, At
<1>16. \A q \in Apart(u, mixed) : Owned(u, q)
  BY <1>4 DEF StateGood, WorldGood, Sound
<1>17. \A q \in Apart(v, mixed) : Owned(v, q)
  <2> TAKE q \in Apart(v, mixed)
  <2>1. q \in Apart(u, mixed) /\ Owned(u, q)
    BY <1>14, <1>16
  <2>2. CASE q # o
    BY <2>1, <2>2, <1>14 DEF Owned
  <2>3. CASE q = o
    BY <2>1, <2>3, <1>9, <1>11, <1>13, <1>15 DEF Owned
  <2> QED BY <2>2, <2>3
<1>18. Ready(v, mixed)
  BY <1>6, <1>11, <1>17 DEF Ready
<1>19. ASSUME mixed = {}, NEW x \in Emails \ drifted PROVE Close(v, x)
  <2>1. \A q \in Listed(u.control) : FileOf(u, q).row[x].pw >= 0 => u.control.ident[x] = FileOf(u, q).row[x].pw
    BY <1>4, <1>19 DEF StateGood, PasswordsGood, Agrees
  <2> SUFFICES ASSUME NEW q \in Listed(u.control), FileOf(v, q).row[x].pw >= 0
               PROVE  \/ u.control.ident[x] = FileOf(v, q).row[x].pw
                      \/ u.control.ident[x] = -1 /\ FileOf(v, q).row[x].pw = 0
    BY <1>11 DEF Close
  <2>2. o \in Listed(u.control)
    BY <1>5, <1>19 DEF At
  <2>3. CASE q # o
    BY <2>1, <2>2, <2>3, <1>14
  <2>4. CASE q = o /\ x # e
    <3>1. FileOf(v, q).row[x] = FileOf(u, q).row[x]
      BY <2>4, <1>9, <1>11, <1>15
    <3> QED BY <2>1, <3>1
  <2>5. CASE q = o /\ x = e
    BY <2>5, <1>7, <1>13, <1>15
  <2> QED BY <2>3, <2>4, <2>5
<1>20. NoNewFile(u, v, mixed)
  BY <1>4, <1>5, <1>12, RowNoNewFile DEF StateGood, At
<1>21. NoNewFile(World, v, mixed)
  BY <1>4, <1>20, NoNewFileComposes DEF w
<1>22. Restart(v) /\ mixed' = mixed /\ lastPw' \in Nat /\ (mixed = {} => \A x \in Emails \ drifted' : Close(v, x))
  BY <1>1, <1>2, <1>19 DEF v
<1> QED BY <1>18, <1>21, <1>22, RestartKeeps

-----------------------------------------------------------------------------
(* Provisioning.                                                           *)

(* The more paths are mixed, the less is promised.                         *)
LEMMA MixedState ==
  ASSUME NEW w, NEW mx, NEW my, NEW dr, NEW cs, StateGood(w, cs, mx, dr), mx \subseteq my
  PROVE  StateGood(w, cs, my, dr)
<1>1. WorldGood(w, my)
  BY DEF StateGood, WorldGood, Apart
<1>2. \A c \in Calls : CallGood(w, cs[c], my)
  BY DEF StateGood, CallsGood, CallGood
<1>3. CallsGood(w, cs, my)
  BY <1>2 DEF StateGood, CallsGood
<1>4. PasswordsGood(w, cs, my, dr)
  <2>1. my = {} => mx = {}
    OBVIOUS
  <2> QED BY <2>1 DEF StateGood, PasswordsGood
<1> QED BY <1>1, <1>3, <1>4 DEF StateGood

(* What happens to the file of a path that no listed organization has.     *)
Aside(w, v, p) ==
  /\ v \in Worlds /\ HandlesGood(v.control, v.process.lru)
  /\ v.control.status = w.control.status
  /\ \A q \in Orgs : w.control.slug[q] = "none" \/ v.control.slug[q] = w.control.slug[q]
  /\ w.control.dir \subseteq v.control.dir /\ w.control.tok \subseteq v.control.tok
  /\ \A x \in Emails : \/ v.control.ident[x] = w.control.ident[x]
                       \/ w.control.ident[x] = -1 /\ v.control.ident[x] = 0
  /\ \A q \in Paths : q # p => v.disk[q] = w.disk[q] /\ (q \in v.process.retired <=> q \in w.process.retired)
  /\ \A q \in Listed(w.control) : q \in w.process.synced /\ w.control.slug[q] # p => q \in v.process.synced

(* No path is missing.                                                     *)
LEMMA NoneIsNoPath == "none" \notin Paths
BY MainAssumption DEF Paths

(* What happens aside of every organization keeps the state good.          *)
LEMMA AsideState ==
  ASSUME NEW w, NEW v, NEW mx, NEW dr, NEW cs, NEW p, StateGood(w, cs, mx, dr), Aside(w, v, p),
         p \in mx \/ Owner(w, p) = {},
         \A c \in Calls : cs[c].kind # "idle" /\ cs[c].path = p => p \in mx
  PROVE  StateGood(v, cs, mx, dr)
<1>1. /\ w \in Worlds /\ SlugsGood(w.control) /\ HandlesGood(w.control, w.process.lru)
      /\ \A q \in Apart(w, mx) : Sound(w, q)
  BY DEF StateGood, WorldGood
<1>2. Listed(v.control) = Listed(w.control)
  BY DEF Aside, Listed
<1>3. \A q \in Listed(w.control) : q \in Orgs /\ w.control.slug[q] \in Paths /\ v.control.slug[q] = w.control.slug[q]
  <2> TAKE q \in Listed(w.control)
  <2>1. q \in Orgs /\ w.control.slug[q] \in Paths
    BY <1>1 DEF SlugsGood, Listed
  <2> QED BY <2>1, NoneIsNoPath DEF Aside
<1>4. SlugsGood(v.control) /\ Apart(v, mx) = Apart(w, mx) /\ \A q : Owner(v, q) = Owner(w, q)
  BY <1>1, <1>2, <1>3 DEF SlugsGood, Apart, Owner
<1>5. \A q \in Listed(w.control) : w.control.slug[q] \notin mx => w.control.slug[q] # p
  BY DEF Owner
<1>6. \A q \in Listed(w.control) : w.control.slug[q] \notin mx => FileOf(v, q) = FileOf(w, q)
  BY <1>3, <1>5 DEF FileOf, Aside
<1>7. ASSUME NEW q \in Apart(v, mx) PROVE Sound(v, q)
  <2>1. q \in Listed(w.control) /\ w.control.slug[q] \notin mx /\ Sound(w, q)
    BY <1>1, <1>4, <1>7 DEF Apart
  <2>2. FileOf(v, q) = FileOf(w, q) /\ v.control.slug[q] = w.control.slug[q] /\ w.control.slug[q] # p
        /\ w.control.slug[q] \in Paths
    BY <1>3, <1>5, <1>6, <2>1
  <2>3. Owned(v, q) /\ q \in v.process.synced /\ v.control.slug[q] \notin v.process.retired
    BY <2>1, <2>2 DEF Sound, Owned, Aside
  <2>4. Reached(v, q)
    BY <2>1, <2>2 DEF Sound, Reached, Aside
  <2> QED BY <2>3, <2>4 DEF Sound
<1>8. WorldGood(v, mx)
  BY <1>4, <1>7 DEF WorldGood, Aside
<1>9. ASSUME NEW c \in Calls PROVE CallGood(v, cs[c], mx)
  <2> DEFINE r == cs[c]
  <2>1. r.kind = "idle" => CallGood(v, r, mx)
    BY DEF CallGood
  <2>2. r.kind # "idle" => /\ r.path = p => p \in mx
                           /\ r.org \in Orgs /\ r.path \in Paths /\ w.control.slug[r.org] = r.path /\ CallGood(w, r, mx)
    BY CallKnown
  <2> HIDE DEF r
  <2>3. ASSUME r.kind # "idle" PROVE CallGood(v, r, mx)
    <3>1. v.control.slug[r.org] = r.path
      BY <2>2, <2>3, NoneIsNoPath DEF Aside
    <3>2. CASE r.path \in mx
      BY <3>1, <3>2 DEF CallGood
    <3>3. CASE r.path \notin mx
      <4>1. v.disk[r.path] = w.disk[r.path] /\ (r.path \in v.process.retired <=> r.path \in w.process.retired)
        BY <2>2, <2>3, <3>3 DEF Aside
      <4>2. CASE r.kind = "provision"
        <5>1. Pending(w, r)
          BY <2>2, <2>3, <3>3, <4>2 DEF CallGood
        <5>2. v.control.status = w.control.status /\ Owner(v, r.path) = Owner(w, r.path)
          BY <1>4 DEF Aside
        <5>3. Pending(v, r)
          BY <4>1, <5>1, <5>2 DEF Pending
        <5> QED BY <3>1, <4>2, <5>3 DEF CallGood
      <4>3. CASE r.kind # "provision"
        BY <1>2, <2>2, <2>3, <3>1, <3>3, <4>1, <4>3 DEF CallGood
      <4> QED BY <4>2, <4>3
    <3> QED BY <3>2, <3>3
  <2>4. CallGood(v, r, mx)
    BY <2>1, <2>3
  <2> QED BY <2>4 DEF r
<1>10. CallsGood(v, cs, mx)
  BY <1>9 DEF StateGood, CallsGood
<1>11. ASSUME mx = {}, NEW x \in Emails \ dr PROVE Agrees(v, x) /\ (Expected(cs, x) => v.control.ident[x] <= 0)
  <2>1. Agrees(w, x) /\ (Expected(cs, x) => w.control.ident[x] <= 0)
    BY <1>11 DEF StateGood, PasswordsGood
  <2>2. v.control.ident[x] = w.control.ident[x] \/ (w.control.ident[x] = -1 /\ v.control.ident[x] = 0)
    BY DEF Aside
  <2>3. ASSUME NEW q \in Listed(v.control), FileOf(v, q).row[x].pw >= 0 PROVE v.control.ident[x] = FileOf(v, q).row[x].pw
    <3>1. FileOf(v, q) = FileOf(w, q) /\ q \in Listed(w.control)
      BY <1>2, <1>6, <1>11
    <3>2. w.control.ident[x] = FileOf(v, q).row[x].pw
      BY <2>1, <2>3, <3>1 DEF Agrees
    <3>3. w.control.ident[x] # -1
      BY <2>3, <3>2
    <3> QED BY <2>2, <3>2, <3>3
  <2> QED BY <2>1, <2>2, <2>3 DEF Agrees
<1>12. PasswordsGood(v, cs, mx, dr)
  BY <1>11 DEF PasswordsGood
<1> QED BY <1>8, <1>10, <1>12 DEF StateGood

(* The file as the first half of provisioning leaves it.                   *)
FirstRow(copied, e) ==
  [x \in Emails |-> IF x = e THEN [pw |-> copied, inv |-> copied = 0] ELSE [pw |-> -1, inv |-> FALSE]]

(* What provisioning has done when it waits for the mail.                  *)
LEMMA BeginIs ==
  ASSUME NEW mx, NEW dr, NEW cs, StateGood(World, cs, mx, dr), NEW o \in Orgs, control.slug[o] = "none",
         NEW p \in Slugs, NEW e \in Emails
  PROVE  LET v == ProvisionBegin(o, p, e)
             copied == CopiedPassword(World, e)
         IN  /\ Aside(World, v, p) /\ v.control.slug[o] = p /\ v.control.status[o] = "none"
             /\ p \notin v.process.retired
             /\ v.disk[p].born = o /\ v.disk[p].row = FirstRow(copied, e)
             /\ v.control.ident[e] = copied
<1> DEFINE w == World
           retired == w.process.retired \ {p}
           slug == [w.control.slug EXCEPT ![o] = p]
           u == [w EXCEPT !.process.retired = retired, !.control.slug = slug]
           x == LeftoversRemoved(u, p)
           y == OpenOrg(x, o, p)
           v == Invited(y, o, p, e)
           copied == CopiedPassword(w, e)
<1>1. v = ProvisionBegin(o, p, e)
  BY DEF ProvisionBegin
<1>2. w.control.slug[o] = "none"
  BY DEF World
<1> HIDE DEF w
<1>3. /\ w \in Worlds /\ w.control \in Controls /\ w.process \in Processes /\ w.disk \in [Paths -> Files]
      /\ SlugsGood(w.control) /\ HandlesGood(w.control, w.process.lru)
  BY StateWorld DEF w
<1>4. p \in Paths
  BY DEF Paths
<1>5. slug \in [Orgs -> Paths \cup {"none"}] /\ slug[o] = p /\ \A q \in Orgs : q # o => slug[q] = w.control.slug[q]
  BY <1>3, <1>4 DEF Controls
<1>6. retired \in SUBSET Paths /\ p \notin retired
      /\ \A q : q # p => (q \in retired <=> q \in w.process.retired)
  BY <1>3 DEF Processes
<1> HIDE DEF slug, retired
<1>7. /\ u \in Worlds /\ u.disk = w.disk /\ u.process.lru = w.process.lru /\ u.process.synced = w.process.synced
      /\ u.process.retired = retired /\ u.control.slug = slug /\ u.control.status = w.control.status
      /\ u.control.dir = w.control.dir /\ u.control.tok = w.control.tok /\ u.control.ident = w.control.ident
  BY <1>3, <1>5, <1>6 DEF Worlds, Controls, Processes
<1> HIDE DEF u
<1>8. \A i \in DOMAIN w.process.lru : w.process.lru[i].org # o /\ w.process.lru[i].org \in Orgs
  <2>1. w.process.lru \in Seq(Handles)
    BY <1>3, WorldIs
  <2>2. \A i \in DOMAIN w.process.lru : w.process.lru[i] \in Handles /\ OnFile(w.control, w.process.lru[i])
    BY <1>3, <2>1 DEF HandlesGood
  <2> QED BY <2>2, <1>2, NoneIsNoPath DEF OnFile, Handles
<1>9. HandlesGood(u.control, u.process.lru)
  BY <1>3, <1>5, <1>7, <1>8 DEF HandlesGood, OnFile
<1>10. /\ x \in Worlds /\ x.control = u.control /\ x.disk = [w.disk EXCEPT ![p] = NoFile]
       /\ x.process.retired = retired /\ HandlesGood(x.control, x.process.lru) /\ Fewer(x, u)
       /\ \A q \in u.process.synced : u.control.slug[q] # p => q \in x.process.synced
  <2>1. CASE u.disk[p] = NoFile
    <3>1. x = u
      BY <2>1 DEF LeftoversRemoved
    <3>2. w.disk = [w.disk EXCEPT ![p] = NoFile]
      BY <1>3, <1>7, <2>1
    <3>3. Fewer(u, u)
      BY DEF Fewer
    <3> HIDE DEF x
    <3> QED BY <1>7, <1>9, <3>1, <3>2, <3>3
  <2>2. CASE u.disk[p] # NoFile
    <3> DEFINE t == RemoveSqliteFiles(u, p)
    <3>1. x = t
      BY <2>2 DEF LeftoversRemoved
    <3>2. u \in Worlds /\ p \in Paths /\ HandlesGood(u.control, u.process.lru)
      BY <1>4, <1>7, <1>9
    <3>3. /\ t \in Worlds /\ t.control = u.control /\ t.disk = [u.disk EXCEPT ![p] = NoFile]
          /\ t.process.retired = u.process.retired
          /\ HandlesGood(t.control, t.process.lru) /\ Fewer(t, u)
          /\ \A q \in u.process.synced : u.control.slug[q] # p => q \in t.process.synced
      <4> HIDE DEF slug, retired
      <4> QED BY <3>2, RemoveIs
    <3> HIDE DEF x, t
    <3> QED BY <1>7, <3>1, <3>3
  <2> QED BY <2>1, <2>2
<1> HIDE DEF x
<1>11. x.disk[p] = NoFile /\ NoFile.born = -1 /\ \A q \in Paths : q # p => x.disk[q] = w.disk[q]
  BY <1>3, <1>4, <1>10 DEF NoFile
<1>12. \A i \in DOMAIN x.process.lru : x.process.lru[i].org # o
  BY <1>7, <1>8, <1>10 DEF Fewer
<1>13. w.control.status[o] = "none"
  <2>1. o \notin Listed(w.control)
    BY <1>2, <1>3, NoneIsNoPath DEF SlugsGood
  <2> QED BY <2>1 DEF Listed
<1>14. /\ y \in Worlds /\ HandlesGood(y.control, y.process.lru)
       /\ y.control.status = x.control.status /\ y.control.slug = x.control.slug
       /\ x.control.dir \subseteq y.control.dir /\ x.control.tok \subseteq y.control.tok
       /\ y.process.synced = x.process.synced \cup {o} /\ y.process.retired = x.process.retired
       /\ Created(x.disk, y.disk, o, p) /\ y.disk[p].born = o
       /\ \A z \in Emails : y.control.ident[z] = x.control.ident[z]
  <2>0. x \in Worlds /\ HandlesGood(x.control, x.process.lru) /\ p \in Paths /\ x.control.slug[o] = p
    BY <1>4, <1>5, <1>7, <1>10
  <2>1. /\ y \in Worlds /\ HandlesGood(y.control, y.process.lru)
        /\ y.control.status = x.control.status /\ y.control.slug = x.control.slug
        /\ x.control.dir \subseteq y.control.dir /\ x.control.tok \subseteq y.control.tok
        /\ y.process.synced = x.process.synced \cup {o} /\ y.process.retired = x.process.retired
        /\ Created(x.disk, y.disk, o, p)
        /\ (\A i \in DOMAIN x.process.lru : x.process.lru[i].org # o) /\ x.disk[p].born = -1 => y.disk[p].born = o
        /\ o \in x.process.synced => y.control = x.control
        /\ o \notin x.process.synced => \A z \in Emails : y.control.ident[z] = Tells(x, o, p, z)
    BY <2>0, OpenIs
  <2>2. \A z \in Emails : Tells(x, o, p, z) = x.control.ident[z]
    BY <1>7, <1>10, <1>13 DEF Tells
  <2> QED BY <1>11, <1>12, <2>1, <2>2
<1> HIDE DEF y
<1>15. \A q \in Paths : y.disk[q].row = x.disk[q].row /\ (q # p => y.disk[q] = x.disk[q])
  <2>1. x.disk \in [Paths -> Files] /\ Created(x.disk, y.disk, o, p)
    BY <1>10, <1>14, WorldIs
  <2> DEFINE a == x.disk
             b == y.disk
  <2>2. a \in [Paths -> Files] /\ Created(a, b, o, p)
    BY <2>1
  <2> SUFFICES \A q \in Paths : b[q].row = a[q].row /\ (q # p => b[q] = a[q])
    OBVIOUS
  <2> HIDE DEF a, b
  <2> QED BY <1>4, <2>2, CreatedKeeps
<1>16. CopiedPassword(y, e) = copied
  BY <1>7, <1>10, <1>14 DEF CopiedPassword
<1> HIDE DEF copied
<1>17. /\ RowSet(y, v, o, p, e)
       /\ v.disk[p].row[e].pw = copied
       /\ v.disk[p].row[e].inv <=> copied = 0
       /\ v.control.ident[e] = IF y.control.ident[e] = -1 THEN 0 ELSE y.control.ident[e]
       /\ y.control.dir \subseteq v.control.dir /\ y.control.tok \subseteq v.control.tok
  <2>1. y \in Worlds
    BY <1>14
  <2>2. /\ RowSet(y, v, o, p, e)
        /\ v.disk[p].row[e].pw = CopiedPassword(y, e)
        /\ v.disk[p].row[e].inv <=> CopiedPassword(y, e) = 0
        /\ v.control.ident[e] = IF y.control.ident[e] = -1 THEN 0 ELSE y.control.ident[e]
        /\ y.control.dir \subseteq v.control.dir /\ y.control.tok \subseteq v.control.tok
    BY <1>4, <2>1, InvitedIs, ZenonT(30)
  <2> HIDE DEF v
  <2> QED BY <2>2, <1>16
<1>18. /\ copied \in Nat
       /\ w.control.ident[e] # -1 => copied = w.control.ident[e]
       /\ w.control.ident[e] = -1 => copied = 0
  BY <1>3, CopiedIs DEF copied
<1> HIDE DEF v
<1>19. v.control.ident[e] = copied
  BY <1>7, <1>10, <1>14, <1>17, <1>18
<1>20. /\ v \in Worlds /\ v.process = y.process /\ v.control.status = w.control.status /\ v.control.slug = slug
       /\ \A q \in Paths : q # p => v.disk[q] = w.disk[q]
       /\ v.disk[p].born = o
       /\ \A z \in Emails : z # e => v.disk[p].row[z] = NoFile.row[z] /\ v.control.ident[z] = w.control.ident[z]
  BY <1>4, <1>7, <1>10, <1>11, <1>14, <1>15, <1>17 DEF RowSet
<1>21. v.disk[p].row = FirstRow(copied, e)
  <2>1. v.disk[p] \in Files
    BY <1>4, <1>20, WorldIs
  <2>2. v.disk[p].row \in [Emails -> Rows]
    BY <2>1 DEF Files
  <2>3. v.disk[p].row[e] = [pw |-> copied, inv |-> copied = 0]
    <3>1. v.disk[p].row[e] \in Rows /\ [pw |-> copied, inv |-> copied = 0] \in Rows
      BY <1>18, <2>2 DEF Rows, Numbers
    <3> QED BY <1>17, <3>1 DEF Rows
  <2>4. \A z \in Emails : z # e => v.disk[p].row[z] = [pw |-> -1, inv |-> FALSE]
    BY <1>20 DEF NoFile
  <2> QED BY <2>2, <2>3, <2>4 DEF FirstRow
<1>22. w.control.dir \subseteq v.control.dir /\ w.control.tok \subseteq v.control.tok
  BY <1>7, <1>10, <1>14, <1>17
<1>23. \A q \in Listed(w.control) : q # o /\ w.control.slug[q] # "none"
  BY <1>2, <1>3, NoneIsNoPath DEF SlugsGood
<1>24. \A q \in Listed(w.control) : q \in w.process.synced /\ w.control.slug[q] # p => q \in v.process.synced
  <2> TAKE q \in Listed(w.control)
  <2> HAVE q \in w.process.synced /\ w.control.slug[q] # p
  <2>1. q \in Orgs /\ q # o
    BY <1>23 DEF Listed
  <2>2. u.control.slug[q] # p /\ q \in u.process.synced
    BY <1>5, <1>7, <2>1
  <2>3. q \in x.process.synced
    BY <1>10, <2>2
  <2> QED BY <1>14, <1>20, <2>3
<1>25. \A z \in Emails : \/ v.control.ident[z] = w.control.ident[z]
                         \/ w.control.ident[z] = -1 /\ v.control.ident[z] = 0
  BY <1>18, <1>19, <1>20
<1>26. HandlesGood(v.control, v.process.lru)
  BY <1>14, <1>17, SMTT(30), ZenonT(30) DEF HandlesGood, OnFile, RowSet
<1>27. v.process.retired = retired
  BY <1>10, <1>14, <1>20
<1>28. \A q \in Orgs : w.control.slug[q] = "none" \/ v.control.slug[q] = w.control.slug[q]
  BY <1>2, <1>5, <1>20
<1>29. Aside(w, v, p)
  BY <1>6, <1>20, <1>22, <1>24, <1>25, <1>26, <1>27, <1>28 DEF Aside
<1>30. v.control.slug[o] = p /\ v.control.status[o] = "none" /\ p \notin v.process.retired
  BY <1>5, <1>6, <1>13, <1>20, <1>27
<1> QED BY <1>1, <1>19, <1>20, <1>21, <1>29, <1>30 DEF v, copied, w

(* An organization enters the list, its file ready unless the path is      *)
(* mixed.                                                                  *)
Enlists(w, v, mx, dr, o, p) ==
  /\ o \in Orgs /\ p \in Paths /\ w.control.slug[o] = p /\ Owner(w, p) = {}
  /\ v \in Worlds /\ HandlesGood(v.control, v.process.lru)
  /\ v.control.status = [w.control.status EXCEPT ![o] = "active"] /\ v.control.slug = w.control.slug
  /\ w.control.dir \subseteq v.control.dir /\ w.control.tok \subseteq v.control.tok
  /\ \A q \in Paths : q # p => v.disk[q] = w.disk[q]
  /\ v.process.retired = w.process.retired
  /\ \A q \in Orgs : q # o /\ q \in w.process.synced => q \in v.process.synced
  /\ p \notin mx => Sound(v, o)
  /\ mx = {} => \A x \in Emails \ dr :
       /\ v.control.ident[x] = w.control.ident[x] \/ (w.control.ident[x] = -1 /\ v.control.ident[x] = 0)
       /\ v.disk[p].row[x].pw >= 0 => v.control.ident[x] = v.disk[p].row[x].pw

(* Listing the organization makes it one of the sound ones.                *)
LEMMA EnlistState ==
  ASSUME NEW w, NEW v, NEW mx, NEW dr, NEW cs, NEW o, NEW p, StateGood(w, cs, mx, dr), Enlists(w, v, mx, dr, o, p),
         \A c \in Calls : cs[c].kind # "idle" /\ cs[c].path = p => p \in mx
  PROVE  StateGood(v, cs, mx, dr)
<1>1. /\ SlugsGood(w.control) /\ \A q \in Apart(w, mx) : Sound(w, q)
      /\ w.control \in Controls /\ o \in Orgs /\ p \in Paths /\ w.control.slug[o] = p /\ Owner(w, p) = {}
      /\ v.control.slug = w.control.slug
  BY StateWorld DEF StateGood, WorldGood, Enlists
<1>2. v.control.status[o] = "active" /\ \A q \in Orgs : q # o => v.control.status[q] = w.control.status[q]
  BY <1>1 DEF Enlists, Controls
<1>3. \A q \in Listed(w.control) : q \in Orgs /\ q # o /\ w.control.slug[q] \in Paths /\ w.control.slug[q] # p
  BY <1>1 DEF Owner, SlugsGood, Listed
<1>4. Listed(v.control) = Listed(w.control) \cup {o}
  BY <1>1, <1>2, <1>3 DEF Listed
<1>5. SlugsGood(v.control)
  BY <1>1, <1>3, <1>4 DEF SlugsGood
<1>6. \A q \in Listed(w.control) : FileOf(v, q) = FileOf(w, q)
  BY <1>1, <1>3 DEF FileOf, Enlists
<1>7. ASSUME NEW q \in Apart(v, mx) PROVE Sound(v, q)
  <2>1. CASE q = o
    BY <1>1, <1>7, <2>1 DEF Apart, Enlists
  <2>2. CASE q # o
    <3>1. q \in Listed(w.control) /\ q \in Apart(w, mx) /\ q \in Orgs
      BY <1>1, <1>3, <1>4, <1>7, <2>2 DEF Apart
    <3>2. Sound(w, q) /\ FileOf(v, q) = FileOf(w, q)
      BY <1>1, <1>6, <3>1
    <3>3. Owned(v, q) /\ q \in v.process.synced /\ v.control.slug[q] \notin v.process.retired
      BY <1>1, <2>2, <3>1, <3>2 DEF Sound, Owned, Enlists
    <3>4. Reached(v, q)
      BY <3>2 DEF Sound, Reached, Enlists
    <3> QED BY <3>3, <3>4 DEF Sound
  <2> QED BY <2>1, <2>2
<1>8. WorldGood(v, mx)
  BY <1>5, <1>7 DEF WorldGood, Enlists
<1>9. \A q : q # p => Owner(v, q) = Owner(w, q)
  BY <1>1, <1>4 DEF Owner
<1>10. ASSUME NEW c \in Calls PROVE CallGood(v, cs[c], mx)
  <2> DEFINE r == cs[c]
  <2>1. r.kind = "idle" => CallGood(v, r, mx)
    BY DEF CallGood
  <2>2. r.kind # "idle" => /\ r.path = p => p \in mx
                           /\ r.org \in Orgs /\ r.path \in Paths /\ w.control.slug[r.org] = r.path /\ CallGood(w, r, mx)
    BY CallKnown
  <2> HIDE DEF r
  <2>3. ASSUME r.kind # "idle" PROVE CallGood(v, r, mx)
    <3>1. v.control.slug[r.org] = r.path
      BY <1>1, <2>2, <2>3
    <3>2. CASE r.path \in mx
      BY <3>1, <3>2 DEF CallGood
    <3>3. CASE r.path \notin mx
      <4>1. r.path # p /\ r.org # o
        BY <1>1, <2>2, <2>3, <3>3
      <4>2. v.disk[r.path] = w.disk[r.path] /\ v.process.retired = w.process.retired
        BY <2>2, <2>3, <4>1 DEF Enlists
      <4>3. CASE r.kind = "provision"
        <5>1. Pending(w, r)
          BY <2>2, <2>3, <3>3, <4>3 DEF CallGood
        <5>2. v.control.status[r.org] = w.control.status[r.org] /\ Owner(v, r.path) = Owner(w, r.path)
          BY <1>2, <1>9, <2>2, <2>3, <4>1
        <5>3. Pending(v, r)
          BY <4>2, <5>1, <5>2 DEF Pending
        <5> QED BY <3>1, <4>3, <5>3 DEF CallGood
      <4>4. CASE r.kind # "provision"
        <5>1. r.org \in Listed(w.control) => r.org \in Listed(v.control)
          BY <1>4
        <5> QED BY <2>2, <2>3, <3>1, <3>3, <4>2, <4>4, <5>1 DEF CallGood
      <4> QED BY <4>3, <4>4
    <3> QED BY <3>2, <3>3
  <2>4. CallGood(v, r, mx)
    BY <2>1, <2>3
  <2> QED BY <2>4 DEF r
<1>11. CallsGood(v, cs, mx)
  BY <1>10 DEF StateGood, CallsGood
<1>12. ASSUME mx = {}, NEW x \in Emails \ dr PROVE Agrees(v, x) /\ (Expected(cs, x) => v.control.ident[x] <= 0)
  <2>1. Agrees(w, x) /\ (Expected(cs, x) => w.control.ident[x] <= 0)
    BY <1>12 DEF StateGood, PasswordsGood
  <2>2. /\ v.control.ident[x] = w.control.ident[x] \/ (w.control.ident[x] = -1 /\ v.control.ident[x] = 0)
        /\ v.disk[p].row[x].pw >= 0 => v.control.ident[x] = v.disk[p].row[x].pw
    BY <1>12 DEF Enlists
  <2>3. ASSUME NEW q \in Listed(v.control), FileOf(v, q).row[x].pw >= 0 PROVE v.control.ident[x] = FileOf(v, q).row[x].pw
    <3>1. CASE q = o
      BY <1>1, <2>2, <2>3, <3>1 DEF FileOf
    <3>2. CASE q # o
      <4>1. FileOf(v, q) = FileOf(w, q) /\ q \in Listed(w.control)
        BY <1>4, <1>6, <3>2
      <4>2. w.control.ident[x] = FileOf(v, q).row[x].pw
        BY <2>1, <2>3, <4>1 DEF Agrees
      <4>3. w.control.ident[x] # -1
        BY <2>3, <4>2
      <4> QED BY <2>2, <4>2, <4>3
    <3> QED BY <3>1, <3>2
  <2> QED BY <2>1, <2>2, <2>3 DEF Agrees
<1>13. PasswordsGood(v, cs, mx, dr)
  BY <1>12 DEF PasswordsGood
<1> QED BY <1>8, <1>11, <1>13 DEF StateGood

(* What the second half of provisioning finds.                             *)
EndReady(w, cs, mx, dr, o, p) ==
  /\ StateGood(w, cs, mx, dr) /\ o \in Orgs /\ p \in Paths /\ w.control.slug[o] = p
  /\ p \notin mx => /\ Owner(w, p) = {} /\ p \notin w.process.retired
                    /\ w.disk[p].born = o /\ Present(w.disk[p]) # {}
  /\ mx = {} => \A x \in Emails \ dr : w.disk[p].row[x].pw >= 0 =>
       w.control.ident[x] = w.disk[p].row[x].pw \/ (w.control.ident[x] = -1 /\ w.disk[p].row[x].pw = 0)
  /\ \A c \in Calls : cs[c].kind # "idle" /\ cs[c].path = p => p \in mx

(* The files of an organization's path are removed.                        *)
LEMMA RemovedAside ==
  ASSUME NEW w \in Worlds, NEW o \in Orgs, NEW p \in Paths, w.control.slug[o] = p,
         HandlesGood(w.control, w.process.lru)
  PROVE  LET v == RemoveSqliteFiles(CloseOrgDb(w, {o}), p) IN
         /\ Aside(w, v, p) /\ v.control = w.control
         /\ v.disk = [w.disk EXCEPT ![p] = NoFile] /\ v.process.retired = w.process.retired
<1> DEFINE os == {o}
           u == CloseOrgDb(w, os)
           v == RemoveSqliteFiles(u, p)
<1>1. /\ u \in Worlds /\ u.control = w.control /\ u.disk = w.disk /\ u.process.retired = w.process.retired
      /\ u.process.synced = w.process.synced \ os /\ HandlesGood(u.control, u.process.lru)
  <2> HIDE DEF os
  <2> QED BY CloseIs, CloseKeeps
<1>2. \A q : q \in os <=> q = o
  OBVIOUS
<1> SUFFICES /\ Aside(w, v, p) /\ v.control = w.control
             /\ v.disk = [w.disk EXCEPT ![p] = NoFile] /\ v.process.retired = w.process.retired
  OBVIOUS
<1> HIDE DEF u, os
<1>3. /\ v \in Worlds /\ v.control = u.control /\ v.disk = [u.disk EXCEPT ![p] = NoFile]
      /\ v.process.retired = u.process.retired /\ HandlesGood(v.control, v.process.lru)
      /\ \A q \in u.process.synced : u.control.slug[q] # p => q \in v.process.synced
  BY <1>1, RemoveIs
<1> HIDE DEF v
<1>4. w.disk \in [Paths -> Files]
  BY WorldIs
<1>5. \A q \in Paths : q # p => v.disk[q] = w.disk[q]
  BY <1>1, <1>3, <1>4
<1>6. \A q \in Listed(w.control) : q \in w.process.synced /\ w.control.slug[q] # p => q \in v.process.synced
  BY <1>1, <1>2, <1>3
<1>7. Aside(w, v, p)
  BY <1>1, <1>3, <1>5, <1>6 DEF Aside
<1> QED BY <1>1, <1>3, <1>7

(* The end of provisioning.                                                *)
LEMMA EndState ==
  ASSUME NEW w, NEW mx, NEW dr, NEW cs, NEW o, NEW p, EndReady(w, cs, mx, dr, o, p)
  PROVE  LET v == ProvisionEnd(w, o, p) IN
         StateGood(v, cs, mx, dr) /\ v.control.slug = w.control.slug /\ NoNewFile(w, v, mx)
<1> DEFINE os == {o}
           u == CloseOrgDb(w, os)
           x == Inserted(u, o)
           removed == RemoveSqliteFiles(u, p)
           refused == CloseOrgDb(x, os)
           opened == OpenOrg(x, o, p)
           v == ProvisionEnd(w, o, p)
<1> SUFFICES StateGood(v, cs, mx, dr) /\ v.control.slug = w.control.slug /\ NoNewFile(w, v, mx)
  OBVIOUS
<1>0. v = IF Owner(u, p) # {} THEN removed ELSE IF Refuses(x, p) THEN refused ELSE opened
  BY DEF ProvisionEnd, TryOpen
<1>1. /\ StateGood(w, cs, mx, dr) /\ o \in Orgs /\ p \in Paths /\ w.control.slug[o] = p
      /\ \A c \in Calls : cs[c].kind # "idle" /\ cs[c].path = p => p \in mx
  BY DEF EndReady
<1>2. /\ w \in Worlds /\ w.control \in Controls /\ w.disk \in [Paths -> Files] /\ SlugsGood(w.control)
      /\ HandlesGood(w.control, w.process.lru)
  BY <1>1, StateWorld
<1>3. /\ u \in Worlds /\ u.control = w.control /\ u.disk = w.disk /\ u.process.retired = w.process.retired
      /\ u.process.synced = w.process.synced \ os /\ HandlesGood(u.control, u.process.lru)
  <2> HIDE DEF os
  <2> QED BY <1>2, CloseIs, CloseKeeps
<1>4. \A q : q \in os <=> q = o
  OBVIOUS
<1> HIDE DEF u, os
<1>5. Owner(u, p) = Owner(w, p)
  BY <1>3 DEF Owner
<1>6. /\ x \in Worlds /\ x.disk = u.disk /\ x.process = u.process
      /\ x.control.status = [w.control.status EXCEPT ![o] = "active"] /\ x.control.slug = w.control.slug
      /\ x.control.dir = w.control.dir /\ x.control.tok = w.control.tok /\ x.control.ident = w.control.ident
  <2> DEFINE st == [u.control.status EXCEPT ![o] = "active"]
  <2>1. x = [u EXCEPT !.control.status = st]
    BY DEF Inserted
  <2>2. st \in [Orgs -> {"none", "active", "disabled"}] /\ st = [w.control.status EXCEPT ![o] = "active"]
    BY <1>2, <1>3 DEF Controls
  <2> HIDE DEF st, x
  <2>3. x \in Worlds /\ x.disk = u.disk /\ x.process = u.process /\ x.control.status = st
        /\ x.control.slug = u.control.slug /\ x.control.dir = u.control.dir /\ x.control.tok = u.control.tok
        /\ x.control.ident = u.control.ident
    BY <1>3, <2>1, <2>2 DEF Worlds, Controls
  <2> QED BY <1>3, <2>2, <2>3
<1> HIDE DEF x
<1>7. HandlesGood(x.control, x.process.lru)
  BY <1>3, <1>6 DEF HandlesGood, OnFile
<1>8. x.control.status[o] = "active"
  BY <1>1, <1>2, <1>6 DEF Controls
<1> HIDE DEF removed, refused, opened, v
<1>9. CASE Owner(w, p) # {}
  <2>1. v = removed /\ p \in mx
    BY <1>0, <1>5, <1>9 DEF EndReady
  <2>2. Aside(w, removed, p) /\ removed.control = w.control /\ removed.disk = [w.disk EXCEPT ![p] = NoFile]
    BY <1>1, <1>2, RemovedAside DEF removed, u, os
  <2>3. StateGood(v, cs, mx, dr)
    BY <1>1, <2>1, <2>2, AsideState
  <2>4. \A q \in Paths : q # p => v.disk[q] = w.disk[q]
    BY <2>1, <2>2 DEF Aside
  <2> QED BY <2>1, <2>2, <2>3, <2>4 DEF NoNewFile
<1>10. CASE Owner(w, p) = {} /\ Refuses(x, p)
  <2>1. v = refused /\ p \in mx
    BY <1>0, <1>3, <1>5, <1>6, <1>10 DEF EndReady, Refuses
  <2>2. /\ refused \in Worlds /\ refused.control = x.control /\ refused.disk = x.disk
        /\ refused.process.synced = x.process.synced \ os /\ refused.process.retired = x.process.retired
        /\ HandlesGood(refused.control, refused.process.lru)
    BY <1>6, <1>7, CloseIs, CloseKeeps DEF refused
  <2>3. \A q \in Orgs : q # o /\ q \in w.process.synced => q \in v.process.synced
    BY <1>3, <1>4, <1>6, <2>1, <2>2
  <2>4. Enlists(w, v, mx, dr, o, p)
    BY <1>1, <1>3, <1>6, <1>10, <2>1, <2>2, <2>3 DEF Enlists
  <2>5. StateGood(v, cs, mx, dr)
    BY <1>1, <2>4, EnlistState
  <2> QED BY <1>3, <1>6, <2>1, <2>2, <2>5 DEF NoNewFile
<1>11. CASE Owner(w, p) = {} /\ ~Refuses(x, p)
  <2>1. v = opened
    BY <1>0, <1>5, <1>11
  <2>2. o \notin x.process.synced
    BY <1>3, <1>4, <1>6
  <2>3. /\ opened \in Worlds /\ HandlesGood(opened.control, opened.process.lru)
        /\ opened.control.status = x.control.status /\ opened.control.slug = x.control.slug
        /\ x.control.dir \subseteq opened.control.dir /\ x.control.tok \subseteq opened.control.tok
        /\ opened.process.synced = x.process.synced \cup {o} /\ opened.process.retired = x.process.retired
        /\ Created(x.disk, opened.disk, o, p)
        /\ \A e \in Present(x.disk[p]) :
             <<o, e>> \in opened.control.dir /\ (x.disk[p].row[e].inv => <<o, e>> \in opened.control.tok)
        /\ \A e \in Emails : opened.control.ident[e] = Tells(x, o, p, e)
    <3>1. x \in Worlds /\ x.control.slug[o] = p /\ x.control.status[o] # "none"
      BY <1>1, <1>6, <1>8
    <3> QED BY <1>1, <1>7, <2>2, <3>1, OpenIs, SMTT(30), ZenonT(30) DEF opened
  <2>4. /\ \A q \in Paths : opened.disk[q].row = x.disk[q].row /\ (q # p => opened.disk[q] = x.disk[q])
        /\ x.disk[p].born # -1 => opened.disk = x.disk
    <3> DEFINE a == x.disk
               b == opened.disk
    <3>1. a \in [Paths -> Files] /\ Created(a, b, o, p)
      BY <1>2, <1>3, <1>6, <2>3
    <3> SUFFICES (\A q \in Paths : b[q].row = a[q].row /\ (q # p => b[q] = a[q])) /\ (a[p].born # -1 => b = a)
      OBVIOUS
    <3> HIDE DEF a, b
    <3> QED BY <1>1, <3>1, CreatedKeeps
  <2>5. \A q \in Paths : v.disk[q].row = w.disk[q].row /\ (q # p => v.disk[q] = w.disk[q])
    BY <1>3, <1>6, <2>1, <2>4
  <2>6. p \notin mx => v.disk = w.disk /\ w.disk[p].born = o /\ Present(w.disk[p]) # {} /\ p \notin w.process.retired
    <3>1. o # -1
      BY <1>1, SizeAssumption DEF Orgs
    <3> QED BY <1>3, <1>6, <2>1, <2>4, <3>1 DEF EndReady
  <2>7. ASSUME p \notin mx PROVE Sound(v, o)
    <3>1. FileOf(v, o) = w.disk[p] /\ v.control.slug[o] = p
      BY <1>1, <1>6, <2>1, <2>3, <2>6, <2>7 DEF FileOf
    <3>2. Owned(v, o)
      BY <2>6, <2>7, <3>1 DEF Owned
    <3>3. Reached(v, o)
      BY <1>3, <1>6, <2>1, <2>3, <3>1 DEF Reached
    <3>4. o \in v.process.synced /\ p \notin v.process.retired
      BY <1>3, <1>6, <2>1, <2>3, <2>6, <2>7
    <3> QED BY <3>1, <3>2, <3>3, <3>4 DEF Sound
  <2>8. ASSUME mx = {}, NEW e \in Emails \ dr
        PROVE  /\ v.control.ident[e] = w.control.ident[e] \/ (w.control.ident[e] = -1 /\ v.control.ident[e] = 0)
               /\ v.disk[p].row[e].pw >= 0 => v.control.ident[e] = v.disk[p].row[e].pw
    <3>1. w.disk[p].row[e].pw >= 0 =>
            w.control.ident[e] = w.disk[p].row[e].pw \/ (w.control.ident[e] = -1 /\ w.disk[p].row[e].pw = 0)
      BY <2>8 DEF EndReady
    <3>2. v.disk[p].row = w.disk[p].row /\ x.disk[p].row = w.disk[p].row
      BY <1>1, <1>3, <1>6, <2>5
    <3>3. v.control.ident[e] = IF w.disk[p].row[e].pw > 0 THEN w.disk[p].row[e].pw
                               ELSE IF w.disk[p].row[e].pw = 0 /\ w.control.ident[e] = -1 THEN 0 ELSE w.control.ident[e]
      BY <1>6, <1>8, <2>1, <2>3, <3>2 DEF Tells
    <3>4. w.disk[p].row[e].pw \in Numbers
      <4>1. w.disk[p] \in Files
        BY <1>1, <1>2
      <4> QED BY <4>1 DEF Files, Rows
    <3> QED BY <3>1, <3>2, <3>3, <3>4 DEF Numbers
  <2>9. \A q \in Orgs : q # o /\ q \in w.process.synced => q \in v.process.synced
    BY <1>3, <1>4, <1>6, <2>1, <2>3
  <2>10. Enlists(w, v, mx, dr, o, p)
    BY <1>1, <1>3, <1>6, <1>11, <2>1, <2>3, <2>5, <2>7, <2>8, <2>9 DEF Enlists
  <2>11. StateGood(v, cs, mx, dr)
    BY <1>1, <2>10, EnlistState
  <2>12. NoNewFile(w, v, mx)
    BY <2>5, <2>6 DEF NoNewFile
  <2> QED BY <1>6, <2>1, <2>3, <2>11, <2>12
<1> QED BY <1>9, <1>10, <1>11

(* Nobody else waits on the path of an organization that is provisioned.   *)
LEMMA PendingAlone ==
  ASSUME NEW w, NEW mx, NEW dr, NEW cs, StateGood(w, cs, mx, dr), NEW c \in Calls, cs[c].kind = "provision",
         cs[c].path \notin mx
  PROVE  /\ Pending(w, cs[c])
         /\ \A d \in Calls : cs[d].kind # "idle" /\ cs[d].path = cs[c].path => d = c
<1> DEFINE r == cs[c]
<1>1. Pending(w, r)
  BY DEF StateGood, CallsGood, CallGood
<1>2. ASSUME NEW d \in Calls, cs[d].kind # "idle", cs[d].path = r.path PROVE d = c
  <2>1. CASE cs[d].kind = "provision"
    BY <1>2, <2>1 DEF StateGood, CallsGood
  <2>2. CASE cs[d].kind # "provision"
    <3> DEFINE s == cs[d]
    <3>1. w.control.slug[s.org] = s.path /\ (s.path \in w.process.retired \/ At(w, mx, s.org, s.path)) /\ s.path = r.path
      BY <1>2, <2>2, CallKnown
    <3> HIDE DEF s, r
    <3>2. s.org \in Owner(w, r.path)
      <4>1. r.path \notin mx
        BY DEF r
      <4> QED BY <1>1, <3>1, <4>1 DEF Pending, At, Owner
    <3> QED BY <1>1, <3>2 DEF Pending
  <2> QED BY <2>1, <2>2
<1> QED BY <1>1, <1>2

(* Provisioning fails and takes back what it did.                          *)
LEMMA ProvisionFailsKeeps ==
  ASSUME IInv, NEW c \in Calls, ProvisionFails(c)
  PROVE  IInv' /\ NoNewFile(World, World', mixed)
<1> DEFINE w == World
           r == call[c]
           o == r.org
           p == r.path
           v == RemoveSqliteFiles(CloseOrgDb(w, {o}), p)
           es == Voided(call, p, Emails)
           ds == [es EXCEPT ![c] = Idle]
<1>1. StateGood(w, call, mixed, drifted) /\ lastPw \in Nat
  BY DEF IInv
<1>2. SetWorld(v) /\ call' = ds /\ mixed' = mixed /\ drifted' = drifted /\ lastPw' = lastPw /\ r.kind = "provision"
  BY DEF ProvisionFails
<1> HIDE DEF w
<1>3. w.control.slug[o] = p /\ p \in Paths /\ o \in Orgs
  BY <1>1, <1>2, CallKnown
<1>4. p \notin mixed => Owner(w, p) = {} /\ \A d \in Calls : call[d].kind # "idle" /\ call[d].path = p => d = c
  <2>1. p \notin mixed => Pending(w, r) /\ \A d \in Calls : call[d].kind # "idle" /\ call[d].path = p => d = c
    BY <1>1, <1>2, PendingAlone
  <2> HIDE DEF r
  <2> QED BY <2>1 DEF Pending
<1> HIDE DEF r, o, p
<1>5. call \in [Calls -> CallTypes] /\ w \in Worlds /\ HandlesGood(w.control, w.process.lru)
  BY <1>1, StateWorld
<1>6. Weaker(es, call) /\ Weaker(ds, es)
  <2>1. Weaker(es, call)
    BY <1>5, VoidedWeaker
  <2> HIDE DEF es
  <2> QED BY <2>1, EndedWeaker DEF Weaker
<1>7. StateGood(w, ds, mixed, drifted)
  <2> HIDE DEF es, ds
  <2> QED BY <1>1, <1>6, WeakerState
<1>8. Aside(w, v, p) /\ v.control = w.control /\ v.disk = [w.disk EXCEPT ![p] = NoFile]
  BY <1>3, <1>5, RemovedAside
<1>9. \A d \in Calls : ds[d].kind # "idle" /\ ds[d].path = p => p \in mixed
  <2>1. ds[c] = Idle
    BY <1>6 DEF Weaker
  <2> HIDE DEF es, ds
  <2> QED BY <1>4, <1>6, <2>1 DEF Weaker, Idle
<1> HIDE DEF v, ds, es
<1>10. StateGood(v, ds, mixed, drifted)
  BY <1>4, <1>7, <1>8, <1>9, AsideState
<1>11. World' = v
  BY <1>2, <1>10, StateWorld, NextWorld
<1>12. NoNewFile(w, v, mixed)
  <2>1. \A q \in Paths : q # p => v.disk[q] = w.disk[q]
    BY <1>8 DEF Aside
  <2> QED BY <1>8, <2>1 DEF NoNewFile
<1> QED BY <1>1, <1>2, <1>10, <1>11, <1>12 DEF IInv, w

(* Provisioning ends.                                                      *)
LEMMA ProvisionedKeeps ==
  ASSUME IInv, NEW c \in Calls, Provisioned(c)
  PROVE  IInv' /\ NoNewFile(World, World', mixed)
<1> DEFINE w == World
           r == call[c]
           o == r.org
           p == r.path
           v == ProvisionEnd(w, o, p)
           ps == {e \in Emails : Owner(w, p) # {}}
           es == Voided(call, p, ps)
           ds == [es EXCEPT ![c] = Idle]
<1>1. StateGood(w, call, mixed, drifted) /\ lastPw \in Nat
  BY DEF IInv
<1>2. SetWorld(v) /\ call' = ds /\ mixed' = mixed /\ drifted' = drifted /\ lastPw' = lastPw /\ r.kind = "provision"
  BY DEF Provisioned
<1> HIDE DEF w, ps
<1>3. w.control.slug[o] = p /\ p \in Paths /\ o \in Orgs /\ r.email \in Emails
  BY <1>1, <1>2, CallKnown
<1>4. p \notin mixed => Pending(w, r) /\ \A d \in Calls : call[d].kind # "idle" /\ call[d].path = p => d = c
  BY <1>1, <1>2, PendingAlone
<1>5. mixed = {} => \A x \in Emails \ drifted : x = r.email => w.control.ident[x] <= 0
  BY <1>1, <1>2 DEF StateGood, PasswordsGood, Expected
<1>6. o = r.org /\ p = r.path
  OBVIOUS
<1> HIDE DEF r, o, p
<1>7. call \in [Calls -> CallTypes] /\ w \in Worlds /\ w.control \in Controls
  BY <1>1, StateWorld
<1>8. Weaker(es, call) /\ Weaker(ds, es)
  <2>1. Weaker(es, call)
    BY <1>7, VoidedWeaker
  <2> HIDE DEF es
  <2> QED BY <2>1, EndedWeaker DEF Weaker
<1>9. ds[c] = Idle
  BY <1>8 DEF Weaker
<1> HIDE DEF v, ds, es
<1>10. StateGood(w, ds, mixed, drifted)
  BY <1>1, <1>8, WeakerState
<1>11. \A d \in Calls : ds[d].kind # "idle" /\ ds[d].path = p => p \in mixed
  BY <1>4, <1>8, <1>9 DEF Weaker, Idle
<1>12. p \notin mixed => /\ Owner(w, p) = {} /\ p \notin w.process.retired /\ w.disk[p].born = o
                         /\ \A x \in Emails : w.disk[p].row[x].pw = IF x = r.email THEN 0 ELSE -1
  BY <1>4, <1>6 DEF Pending
<1>13. p \notin mixed => Present(w.disk[p]) # {}
  <2>1. p \notin mixed => r.email \in Present(w.disk[p])
    BY <1>3, <1>12 DEF Present
  <2> QED BY <2>1
<1>14. ASSUME mixed = {}, NEW x \in Emails \ drifted, w.disk[p].row[x].pw >= 0
       PROVE  w.control.ident[x] = w.disk[p].row[x].pw \/ (w.control.ident[x] = -1 /\ w.disk[p].row[x].pw = 0)
  <2>1. x = r.email /\ w.disk[p].row[x].pw = 0
    BY <1>12, <1>14
  <2>2. w.control.ident[x] <= 0 /\ w.control.ident[x] \in Numbers
    BY <1>5, <1>7, <1>14, <2>1 DEF Controls
  <2> QED BY <2>1, <2>2 DEF Numbers
<1>15. EndReady(w, ds, mixed, drifted, o, p)
  BY <1>3, <1>10, <1>11, <1>12, <1>13, <1>14 DEF EndReady
<1>16. StateGood(v, ds, mixed, drifted) /\ NoNewFile(w, v, mixed)
  BY <1>15, EndState DEF v
<1>17. World' = v
  BY <1>2, <1>16, StateWorld, NextWorld
<1> QED BY <1>1, <1>2, <1>16, <1>17 DEF IInv, w

(* A new provisioning call, on a path where nobody waits.                  *)
LEMMA ProvisionStarts ==
  ASSUME NEW w, NEW mx, NEW dr, NEW cs, NEW c \in Calls, NEW r \in CallTypes,
         StateGood(w, cs, mx, dr), CallGood(w, r, mx), r.kind = "provision", w.control.ident[r.email] = 0,
         \A d \in Calls : cs[d].kind # "idle" /\ cs[d].path = r.path => r.path \in mx
  PROVE  StateGood(w, [cs EXCEPT ![c] = r], mx, dr)
<1> DEFINE ds == [cs EXCEPT ![c] = r]
<1>1. ds \in [Calls -> CallTypes] /\ \A d \in Calls : ds[d] = IF d = c THEN r ELSE cs[d]
  BY DEF StateGood, CallsGood
<1> HIDE DEF ds
<1>2. \A d \in Calls : CallGood(w, ds[d], mx)
  BY <1>1 DEF StateGood, CallsGood
<1>3. \A a, b \in Calls :
        (ds[a].kind = "provision" /\ ds[b].kind = "provision" /\ ds[a].path = ds[b].path /\ ds[a].path \notin mx) => a = b
  BY <1>1 DEF StateGood, CallsGood
<1>4. CallsGood(w, ds, mx)
  BY <1>1, <1>2, <1>3 DEF CallsGood
<1>5. \A x : Expected(ds, x) => Expected(cs, x) \/ x = r.email
  BY <1>1 DEF Expected
<1>6. PasswordsGood(w, ds, mx, dr)
  BY <1>5 DEF StateGood, PasswordsGood
<1> QED BY <1>4, <1>6 DEF StateGood, ds

(* A file appears only at a mixed path or for a new organization.          *)
FilesAreNew ==
  \A q \in Paths : disk[q] = NoFile /\ disk'[q] # NoFile =>
    \/ q \in mixed'
    \/ \E o \in Orgs : o \notin Issued /\ control'.slug[o] = q

(* Provisioning begins, or does it all.                                    *)
LEMMA ProvisionKeeps ==
  ASSUME IInv, NEW c \in Calls, NEW p \in Slugs, NEW e \in Emails, Provision(c, p, e)
  PROVE  IInv' /\ FilesAreNew
<1> DEFINE w == World
           o == CHOOSE x \in Fresh : \A y \in Fresh : x <= y
           u == ProvisionBegin(o, p, e)
           v == ProvisionEnd(u, o, p)
           my == mixed'
           es == Voided(call, p, Emails)
           r == [kind |-> "provision", org |-> o, path |-> p, email |-> e, live |-> TRUE]
           ds == [es EXCEPT ![c] = r]
           copied == CopiedPassword(w, e)
<1>1. StateGood(w, call, mixed, drifted) /\ lastPw \in Nat
  BY DEF IInv
<1>2. /\ drifted' = drifted /\ lastPw' = lastPw /\ Fresh # {} /\ Owner(w, p) = {}
      /\ my = IF \E d \in Calls : Waiting(d) /\ call[d].path = p THEN mixed \cup {p} ELSE mixed
      /\ IF u.disk[p].row[e].inv THEN SetWorld(u) /\ call' = ds ELSE SetWorld(v) /\ call' = es
  BY DEF Provision
<1>3. o \in Fresh
  <2>1. Fresh \in SUBSET Nat
    BY DEF Fresh, Orgs
  <2>2. \E x \in Fresh : \A y \in Fresh : x <= y
    BY <1>2, <2>1, LeastNat
  <2> QED BY <2>2
<1> HIDE DEF o
<1>4. o \in Orgs /\ control.slug[o] = "none" /\ o \notin Issued /\ p \in Paths
  BY <1>3 DEF Fresh, Issued, Paths
<1>5. mixed \subseteq my /\ \A d \in Calls : call[d].kind # "idle" /\ call[d].path = p => p \in my
  BY <1>2 DEF Waiting
<1>6. /\ Aside(w, u, p) /\ u.control.slug[o] = p /\ u.control.status[o] = "none" /\ p \notin u.process.retired
      /\ u.disk[p].born = o /\ u.disk[p].row = FirstRow(copied, e) /\ u.control.ident[e] = copied
  <2>1. StateGood(World, call, mixed, drifted)
    BY <1>1
  <2> QED BY <1>4, <2>1, BeginIs
<1> HIDE DEF my, u
<1>7. w.control \in Controls /\ w \in Worlds /\ SlugsGood(w.control) /\ call \in [Calls -> CallTypes]
  BY <1>1, StateWorld
<1>8. copied \in Nat
  BY <1>7, CopiedIs
<1>9. Weaker(es, call)
  BY <1>7, VoidedWeaker
<1> HIDE DEF es, v, copied
<1>10. StateGood(w, es, my, drifted)
  BY <1>1, <1>5, <1>9, MixedState, WeakerState
<1>11. \A d \in Calls : es[d].kind # "idle" /\ es[d].path = p => p \in my
  BY <1>5, <1>9 DEF Weaker
<1>12. w.control.slug[o] = "none" /\ w.disk = disk
  BY <1>4 DEF World
<1> HIDE DEF w
<1>13. StateGood(u, es, my, drifted)
  BY <1>2, <1>6, <1>10, <1>11, AsideState
<1>14. Owner(u, p) = {}
  <2>1. Listed(u.control) = Listed(w.control)
    BY <1>6 DEF Aside, Listed
  <2>2. \A q \in Listed(w.control) : u.control.slug[q] = w.control.slug[q]
    BY <1>6, <1>7, NoneIsNoPath DEF Aside, SlugsGood, Listed
  <2> QED BY <1>2, <2>1, <2>2 DEF Owner
<1>15. \A x \in Emails : u.disk[p].row[x] = IF x = e THEN [pw |-> copied, inv |-> copied = 0] ELSE [pw |-> -1, inv |-> FALSE]
  BY <1>6 DEF FirstRow
<1>16. \A q \in Paths : q # p => u.disk[q] = disk[q]
  BY <1>6, <1>12 DEF Aside
<1>17. CASE u.disk[p].row[e].inv
  <2>1. copied = 0 /\ SetWorld(u) /\ call' = ds
    <3>1. u.disk[p].row[e].inv = (copied = 0)
      BY <1>15
    <3>2. SetWorld(u) /\ call' = ds
      <4> HIDE DEF ds
      <4> QED BY <1>2, <1>17
    <3> QED BY <1>17, <3>1, <3>2
  <2>2. r \in CallTypes /\ r.kind = "provision" /\ r.org = o /\ r.path = p /\ r.email = e
    BY <1>4 DEF CallTypes, Kinds
  <2> HIDE DEF r
  <2>3. u.disk[p].row = [x \in Emails |-> IF x = e THEN [pw |-> 0, inv |-> TRUE] ELSE [pw |-> -1, inv |-> FALSE]]
    <3>1. u.disk[p].row = [x \in Emails |-> IF x = e THEN [pw |-> 0, inv |-> 0 = 0] ELSE [pw |-> -1, inv |-> FALSE]]
      BY <1>6, <2>1 DEF FirstRow
    <3> QED BY <3>1
  <2>4. CallGood(u, r, my)
    <3>1. Pending(u, r)
      BY <1>6, <1>14, <2>2, <2>3 DEF Pending
    <3> QED BY <1>6, <2>2, <3>1 DEF CallGood
  <2>5. StateGood(u, ds, my, drifted)
    BY <1>6, <1>11, <1>13, <2>1, <2>2, <2>4, ProvisionStarts
  <2>6. World' = u
    BY <2>1, <2>5, StateWorld, NextWorld
  <2>7. disk' = u.disk /\ control' = u.control
    BY <2>1 DEF SetWorld
  <2>8. FilesAreNew
    BY <1>4, <1>6, <1>16, <2>7 DEF FilesAreNew
  <2> QED BY <1>1, <1>2, <2>1, <2>5, <2>6, <2>8 DEF IInv, my
<1>18. CASE ~u.disk[p].row[e].inv
  <2>1. SetWorld(v) /\ call' = es
    BY <1>2, <1>18
  <2>2. \A x \in Emails : u.disk[p].row[x].pw = IF x = e THEN copied ELSE -1
    BY <1>15
  <2>3. Present(u.disk[p]) # {}
    <3>1. e \in Present(u.disk[p])
      BY <1>8, <2>2 DEF Present
    <3> QED BY <3>1
  <2>4. \A x \in Emails : u.disk[p].row[x].pw >= 0 => u.control.ident[x] = u.disk[p].row[x].pw
    BY <1>6, <2>2
  <2>5. EndReady(u, es, my, drifted, o, p)
    BY <1>4, <1>6, <1>11, <1>13, <1>14, <2>3, <2>4 DEF EndReady
  <2>6. StateGood(v, es, my, drifted) /\ v.control.slug = u.control.slug /\ NoNewFile(u, v, my)
    BY <2>5, EndState DEF v
  <2>7. World' = v
    BY <2>1, <2>6, StateWorld, NextWorld
  <2>8. disk' = v.disk /\ control' = v.control
    BY <2>1 DEF SetWorld
  <2>9. FilesAreNew
    BY <1>4, <1>6, <1>16, <2>6, <2>8 DEF FilesAreNew, NoNewFile, my
  <2> QED BY <1>1, <1>2, <2>1, <2>6, <2>7, <2>9 DEF IInv, my
<1> QED BY <1>17, <1>18

-----------------------------------------------------------------------------
(* Deletion.                                                               *)

(* An organization whose file was archived and whose rows are gone.        *)
LEMMA ArchivedState ==
  ASSUME NEW w, NEW mx, NEW dr, NEW cs, StateGood(w, cs, mx, dr), NEW o \in Listed(w.control), NEW p,
         w.control.slug[o] = p,
         \A c \in Calls : cs[c].kind = "password" /\ cs[c].path = p => ~cs[c].live
  PROVE  LET v == Archived(w, o) IN StateGood(v, cs, mx, dr) /\ NoNewFile(w, v, mx)
<1> DEFINE k == Cascade(w.control, o)
           ps == w.process.retired \cup {p}
           u == [w EXCEPT !.control = k, !.process.retired = ps]
           v == RemoveSqliteFiles(CloseOrgDb(u, {o}), p)
<1>1. Archived(w, o) = v
  BY DEF Archived, RemoveSqliteFiles
<1>2. /\ w \in Worlds /\ w.control \in Controls /\ w.process \in Processes /\ SlugsGood(w.control)
      /\ HandlesGood(w.control, w.process.lru) /\ At(w, mx, o, p)
  BY StateWorld
<1>3. o \in Orgs /\ p \in Paths
  BY <1>2 DEF At
<1>4. /\ k \in Controls /\ k.slug = w.control.slug
      /\ \A q \in Orgs : k.status[q] = IF q = o THEN "none" ELSE w.control.status[q]
      /\ k.dir = {m \in w.control.dir : m[1] # o} /\ k.tok = {m \in w.control.tok : m[1] # o}
      /\ \A e \in Emails : k.ident[e] = IF e \in Orphans(w.control, o) THEN -1 ELSE w.control.ident[e]
      /\ Listed(k) = Listed(w.control) \ {o}
  BY <1>2, <1>3, CascadeIs
<1>5. ps \in SUBSET Paths /\ \A q : q \in ps <=> (q \in w.process.retired \/ q = p)
  BY <1>2, <1>3, WorldIs
<1> HIDE DEF k, ps
<1>6. /\ u \in Worlds /\ u.control = k /\ u.disk = w.disk /\ u.process.lru = w.process.lru
      /\ u.process.synced = w.process.synced /\ u.process.retired = ps
  BY <1>2, <1>4, <1>5 DEF Worlds, Processes
<1> HIDE DEF u
<1>7. HandlesGood(u.control, u.process.lru) /\ u.control.slug[o] = p
  BY <1>2, <1>4, <1>6 DEF HandlesGood, OnFile
<1>8. /\ Aside(u, v, p) /\ v.control = u.control
      /\ v.disk = [u.disk EXCEPT ![p] = NoFile] /\ v.process.retired = u.process.retired
  BY <1>3, <1>6, <1>7, RemovedAside
<1> HIDE DEF v
<1>9. /\ v \in Worlds /\ v.control = k /\ HandlesGood(v.control, v.process.lru)
      /\ \A q \in Paths : q # p => v.disk[q] = w.disk[q]
      /\ \A q \in Listed(k) : q \in w.process.synced /\ w.control.slug[q] # p => q \in v.process.synced
  BY <1>4, <1>6, <1>8 DEF Aside
<1>10. v.process.retired = ps
  BY <1>6, <1>8
<1>11. \A q \in Listed(k) : /\ q \in Listed(w.control) /\ q \in Orgs /\ q # o
                            /\ w.control.slug[q] \in Paths /\ w.control.slug[q] # p /\ FileOf(v, q) = FileOf(w, q)
  <2> TAKE q \in Listed(k)
  <2>1. q \in Listed(w.control) /\ q # o /\ q \in Orgs
    BY <1>4 DEF Listed
  <2>2. w.control.slug[q] \in Paths /\ w.control.slug[q] # p
    BY <1>2, <2>1 DEF SlugsGood
  <2> QED BY <1>4, <1>9, <2>1, <2>2 DEF FileOf
<1>12. SlugsGood(v.control)
  BY <1>2, <1>4, <1>9, <1>11 DEF SlugsGood
<1>13. \A q \in Apart(w, mx) : Sound(w, q)
  BY DEF StateGood, WorldGood
<1>14. ASSUME NEW q \in Apart(v, mx) PROVE Sound(v, q)
  <2>1. q \in Listed(k) /\ q \in Apart(w, mx) /\ q \in Orgs /\ q # o
    BY <1>4, <1>9, <1>11, <1>14 DEF Apart
  <2>2. Sound(w, q) /\ FileOf(v, q) = FileOf(w, q) /\ w.control.slug[q] # p
    BY <1>11, <1>13, <2>1
  <2>3. Owned(v, q) /\ q \in v.process.synced
    BY <1>9, <2>1, <2>2 DEF Sound, Owned
  <2>4. v.control.slug[q] \notin v.process.retired
    BY <1>4, <1>5, <1>9, <1>10, <2>2 DEF Sound
  <2>5. Reached(v, q)
    <3>1. \A e : /\ <<q, e>> \in w.control.dir => <<q, e>> \in v.control.dir
                 /\ <<q, e>> \in w.control.tok => <<q, e>> \in v.control.tok
      BY <1>4, <1>9, <2>1
    <3> QED BY <2>2, <3>1 DEF Sound, Reached
  <2> QED BY <2>3, <2>4, <2>5 DEF Sound
<1>15. WorldGood(v, mx)
  BY <1>9, <1>12, <1>14 DEF WorldGood
<1>16. \A q : q # p => Owner(v, q) = Owner(w, q)
  BY <1>4, <1>9 DEF Owner
<1>17. ASSUME NEW c \in Calls PROVE CallGood(v, cs[c], mx)
  <2> DEFINE r == cs[c]
  <2>1. r.kind = "idle" => CallGood(v, r, mx)
    BY DEF CallGood
  <2>2. r.kind # "idle" => r.org \in Orgs /\ r.path \in Paths /\ w.control.slug[r.org] = r.path /\ CallGood(w, r, mx)
    BY CallKnown
  <2>3. r.kind = "password" /\ r.path = p => ~r.live
    OBVIOUS
  <2> HIDE DEF r
  <2>4. ASSUME r.kind # "idle" PROVE CallGood(v, r, mx)
    <3>1. v.control.slug[r.org] = r.path
      BY <1>4, <1>9, <2>2, <2>4
    <3>2. CASE r.path \in mx
      BY <3>1, <3>2 DEF CallGood
    <3>3. CASE r.path \notin mx /\ r.path = p
      <4>1. r.kind # "provision"
        <5>1. o \in Owner(w, p)
          BY DEF Owner
        <5> QED BY <2>2, <2>4, <3>3, <5>1 DEF CallGood, Pending
      <4>2. r.path \in v.process.retired
        BY <1>5, <1>10, <3>3
      <4> QED BY <2>3, <3>1, <3>3, <4>1, <4>2 DEF CallGood
    <3>4. CASE r.path \notin mx /\ r.path # p
      <4>1. r.org # o
        BY <2>2, <2>4, <3>4
      <4>2. v.disk[r.path] = w.disk[r.path] /\ (r.path \in v.process.retired <=> r.path \in w.process.retired)
        BY <1>5, <1>9, <1>10, <2>2, <2>4, <3>4
      <4>3. CASE r.kind = "provision"
        <5>1. Pending(w, r)
          BY <2>2, <2>4, <3>4, <4>3 DEF CallGood
        <5>2. v.control.status[r.org] = w.control.status[r.org] /\ Owner(v, r.path) = Owner(w, r.path)
          BY <1>4, <1>9, <1>16, <2>2, <2>4, <3>4, <4>1
        <5>3. Pending(v, r)
          BY <4>2, <5>1, <5>2 DEF Pending
        <5> QED BY <3>1, <4>3, <5>3 DEF CallGood
      <4>4. CASE r.kind # "provision"
        <5>1. r.org \in Listed(w.control) => r.org \in Listed(v.control)
          BY <1>4, <1>9, <4>1
        <5> QED BY <2>2, <2>4, <3>1, <3>4, <4>2, <4>4, <5>1 DEF CallGood
      <4> QED BY <4>3, <4>4
    <3> QED BY <3>2, <3>3, <3>4
  <2>5. CallGood(v, r, mx)
    BY <2>1, <2>4
  <2> QED BY <2>5 DEF r
<1>18. CallsGood(v, cs, mx)
  BY <1>17 DEF StateGood, CallsGood
<1>19. ASSUME mx = {}, NEW e \in Emails \ dr PROVE Agrees(v, e) /\ (Expected(cs, e) => v.control.ident[e] <= 0)
  <2>1. Agrees(w, e) /\ (Expected(cs, e) => w.control.ident[e] <= 0)
    BY <1>19 DEF StateGood, PasswordsGood
  <2>2. v.control.ident[e] = IF e \in Orphans(w.control, o) THEN -1 ELSE w.control.ident[e]
    BY <1>4, <1>9
  <2>3. Expected(cs, e) => v.control.ident[e] <= 0
    BY <2>1, <2>2
  <2>4. ASSUME NEW q \in Listed(v.control), FileOf(v, q).row[e].pw >= 0 PROVE v.control.ident[e] = FileOf(v, q).row[e].pw
    <3>1. q \in Orgs /\ q # o /\ q \in Listed(w.control) /\ FileOf(v, q) = FileOf(w, q)
      BY <1>9, <1>11
    <3>2. q \in Apart(w, mx) /\ Sound(w, q)
      BY <1>13, <1>19, <3>1 DEF Apart
    <3>3. <<q, e>> \in w.control.dir
      BY <2>4, <3>1, <3>2 DEF Sound, Reached, Present
    <3>4. e \notin Orphans(w.control, o)
      BY <3>1, <3>3, NoOrphan
    <3> QED BY <2>1, <2>2, <2>4, <3>1, <3>4 DEF Agrees
  <2> QED BY <2>3, <2>4 DEF Agrees
<1>20. PasswordsGood(v, cs, mx, dr)
  BY <1>19 DEF PasswordsGood
<1>21. NoNewFile(w, v, mx)
  <2>1. v.disk = [w.disk EXCEPT ![p] = NoFile] /\ w.disk \in [Paths -> Files]
    BY <1>2, <1>6, <1>8, WorldIs
  <2> QED BY <1>9, <2>1 DEF NoNewFile
<1> QED BY <1>1, <1>15, <1>18, <1>20, <1>21 DEF StateGood

(* An organization is deleted.                                             *)
LEMMA DeleteKeeps ==
  ASSUME IInv, NEW o \in Orgs, Delete(o)
  PROVE  IInv' /\ NoNewFile(World, World', mixed)
<1> DEFINE w == World
           p == PathOf(o)
           u == TryOpen(w, o, p)
           v == Archived(u, o)
           ds == Voided(call, p, Emails)
<1>1. StateGood(w, call, mixed, drifted) /\ lastPw \in Nat
  BY DEF IInv
<1>2. SetWorld(v) /\ call' = ds /\ mixed' = mixed /\ drifted' = drifted /\ lastPw' = lastPw
      /\ o \in Listed(w.control) /\ w.control.slug[o] = p
  BY DEF Delete, World, PathOf
<1> HIDE DEF w, p
<1>3. WorldGood(w, mixed) /\ CallsGood(w, call, mixed) /\ PasswordsGood(w, call, mixed, drifted)
      /\ SlugsGood(w.control) /\ call \in [Calls -> CallTypes] /\ p \in Paths
  <2>1. p \in Paths
    BY <1>1, <1>2, StateWorld DEF At
  <2> QED BY <1>1, <2>1, StateWorld DEF StateGood
<1>4. WorldGood(u, mixed) /\ Like(w, u, mixed)
  BY <1>2, <1>3, TryOpenKeeps
<1> HIDE DEF u
<1>5. StateGood(u, call, mixed, drifted)
  BY <1>3, <1>4, LikeKeepsCalls DEF StateGood
<1>6. NoNewFile(w, u, mixed) /\ o \in Listed(u.control) /\ u.control.slug[o] = p
  BY <1>2, <1>4, LikeListed, LikeNoNewFile DEF Like
<1>7. Weaker(ds, call) /\ \A c \in Calls : ds[c].kind = "password" /\ ds[c].path = p => ~ds[c].live
  <2>1. Weaker(ds, call)
        /\ \A c \in Calls : ds[c].kind = "password" /\ ds[c].path = p /\ ds[c].email \in Emails => ~ds[c].live
    BY <1>3, VoidedWeaker
  <2>2. \A c \in Calls : ds[c].kind # "idle" => ds[c].email = call[c].email /\ call[c].kind # "idle"
    BY <2>1 DEF Weaker
  <2>3. \A c \in Calls : call[c].kind # "idle" => call[c].email \in Emails
    BY <1>1, CallKnown
  <2> HIDE DEF ds
  <2> QED BY <2>1, <2>2, <2>3
<1> HIDE DEF ds, v
<1>8. StateGood(u, ds, mixed, drifted)
  BY <1>5, <1>7, WeakerState
<1>9. StateGood(v, ds, mixed, drifted) /\ NoNewFile(u, v, mixed)
  BY <1>6, <1>7, <1>8, ArchivedState DEF v
<1>10. NoNewFile(w, v, mixed)
  BY <1>6, <1>9, NoNewFileComposes
<1>11. World' = v
  BY <1>2, <1>9, StateWorld, NextWorld
<1> QED BY <1>1, <1>2, <1>9, <1>10, <1>11 DEF IInv, w

-----------------------------------------------------------------------------
(* The invariant holds, and what follows from it.                          *)

(* The server starts with its main organization.                           *)
LEMMA InitGood == ASSUME Init PROVE IInv
<1> DEFINE seat == [pw |-> 1, inv |-> FALSE]
           seats == [e \in Emails |-> IF e = First THEN seat ELSE [pw |-> -1, inv |-> FALSE]]
           h == [org |-> Default, path |-> Main, live |-> TRUE]
           lru == <<h>>
<1>0. Default \in Orgs /\ Main \in Paths /\ First \in Emails /\ MaxOpen \in Nat \ {0} /\ Default = 0
  BY MainAssumption, SizeAssumption DEF Orgs, Default, Paths
<1>1. [NoFile.row EXCEPT ![First].pw = 1] = seats
  <2>1. [NoFile.row[First] EXCEPT !.pw = 1] = seat
    <3> DEFINE old == NoFile.row[First]
               new == [old EXCEPT !.pw = 1]
    <3>1. old \in Rows /\ old.inv = FALSE
      BY <1>0 DEF NoFile, Rows, Numbers
    <3> HIDE DEF old
    <3>2. new \in Rows /\ new.pw = 1 /\ new.inv = FALSE
      BY <3>1 DEF Rows, Numbers
    <3>3. seat \in Rows /\ seat.pw = 1 /\ seat.inv = FALSE
      BY DEF Rows, Numbers
    <3> HIDE DEF new, seat
    <3>4. new = seat
      BY <3>2, <3>3 DEF Rows
    <3> QED BY <3>4 DEF new, old
  <2>2. [NoFile.row EXCEPT ![First].pw = 1] = [NoFile.row EXCEPT ![First] = [NoFile.row[First] EXCEPT !.pw = 1]]
    OBVIOUS
  <2>3. [NoFile.row EXCEPT ![First] = seat] = seats
    BY DEF NoFile
  <2> QED BY <2>1, <2>2, <2>3
<1>2. seats \in [Emails -> Rows] /\ seats[First] = seat /\ \A e \in Emails : e # First => seats[e].pw = -1
  BY <1>0 DEF Rows, Numbers
<1>3. World.disk = [p \in Paths |-> IF p = Main THEN [born |-> Default, row |-> seats] ELSE NoFile]
  BY <1>1 DEF Init, World
<1> HIDE DEF seats
<1>4. /\ World.disk \in [Paths -> Files]
      /\ World.disk[Main].born = Default /\ World.disk[Main].row = seats
  BY <1>0, <1>2, <1>3, NoFileTyped DEF Files, Numbers
<1>5. /\ World.control.status = [o \in Orgs |-> IF o = Default THEN "active" ELSE "none"]
      /\ World.control.slug = [o \in Orgs |-> IF o = Default THEN Main ELSE "none"]
      /\ World.control.dir = {<<Default, First>>} /\ World.control.tok = {}
      /\ World.control.ident = [e \in Emails |-> IF e = First THEN 1 ELSE -1]
      /\ World.control \in Controls
  BY <1>0 DEF Init, World, Controls, Numbers
<1>6. h \in Handles /\ h.live /\ h.org = Default /\ h.path = Main
  BY <1>0 DEF Handles
<1>7. World.process = [lru |-> lru, synced |-> {Default}, retired |-> {}]
  BY DEF Init, World
<1> HIDE DEF h
<1>8. lru \in Seq(Handles) /\ Len(lru) = 1 /\ lru[1] = h /\ DOMAIN lru = {1}
  BY <1>6
<1> HIDE DEF lru
<1>9. World \in Worlds /\ World.process.lru = lru /\ World.process.synced = {Default} /\ World.process.retired = {}
  <2>1. World.process \in Processes
    BY <1>0, <1>7, <1>8 DEF Processes
  <2>2. World = [control |-> World.control, disk |-> World.disk, process |-> World.process]
    BY DEF World
  <2>3. World \in Worlds
    BY <1>4, <1>5, <2>1, <2>2 DEF Worlds
  <2>4. World.process.lru = lru /\ World.process.synced = {Default} /\ World.process.retired = {}
    BY <1>7
  <2> QED BY <2>3, <2>4
<1>10. HandlesGood(World.control, World.process.lru)
  <2>1. World.control.slug[Default] = Main
    BY <1>0, <1>5
  <2>2. OnFile(World.control, h)
    BY <1>6, <2>1 DEF OnFile
  <2>3. HandlesGood(World.control, lru)
    BY <1>0, <1>8, <2>2 DEF HandlesGood
  <2> QED BY <1>9, <2>3
<1>11. Listed(World.control) = {Default} /\ World.control.slug[Default] = Main
  BY <1>0, <1>5 DEF Listed
<1>12. SlugsGood(World.control)
  BY <1>0, <1>11 DEF SlugsGood
<1>13. FileOf(World, Default) = World.disk[Main] /\ Present(World.disk[Main]) = {First}
  BY <1>0, <1>2, <1>4, <1>11 DEF FileOf, Present
<1>14. Sound(World, Default)
  BY <1>0, <1>2, <1>4, <1>5, <1>9, <1>11, <1>13 DEF Sound, Owned, Reached
<1>15. WorldGood(World, {})
  BY <1>9, <1>10, <1>11, <1>12, <1>14 DEF WorldGood, Apart
<1>16. CallsGood(World, call, {}) /\ \A c \in Calls : call[c].kind = "idle"
  BY DEF Init, CallsGood, CallGood, CallTypes, Idle
<1>17. PasswordsGood(World, call, {}, {})
  <2> SUFFICES ASSUME NEW e \in Emails PROVE Agrees(World, e) /\ ~Expected(call, e)
    BY DEF PasswordsGood
  <2>1. World.disk[Main].row[e].pw >= 0 => World.control.ident[e] = World.disk[Main].row[e].pw
    BY <1>2, <1>4, <1>5
  <2> QED BY <2>1, <1>11, <1>13, <1>16 DEF Agrees, Expected
<1> QED BY <1>15, <1>16, <1>17 DEF Init, IInv, StateGood

(* Steps that make no file.                                                *)
LEMMA NoNewIsNew ==
  ASSUME NoNewFile(World, World', mixed), mixed' = mixed
  PROVE  FilesAreNew
BY DEF NoNewFile, FilesAreNew, World

(* Every step.                                                             *)
LEMMA NextKeeps ==
  ASSUME IInv, [Next]_vars
  PROVE  IInv' /\ [FilesAreNew]_vars
<1>1. CASE UNCHANGED vars
  BY <1>1 DEF IInv, World, vars
<1>2. ASSUME NEW c \in Calls, NEW p \in Slugs, NEW e \in Emails, Provision(c, p, e)
      PROVE  IInv' /\ FilesAreNew
  BY <1>2, ProvisionKeeps
<1>3. ASSUME NEW c \in Calls, Provisioned(c) \/ ProvisionFails(c) \/ PasswordEnds(c) \/ CrashInPassword(c)
      PROVE  IInv' /\ FilesAreNew
  <2>1. IInv' /\ NoNewFile(World, World', mixed)
    BY <1>3, ProvisionedKeeps, ProvisionFailsKeeps, PasswordEndsKeeps, CrashInPasswordKeeps
  <2>2. mixed' = mixed
    BY <1>3 DEF Provisioned, ProvisionFails, PasswordEnds, CrashInPassword
  <2> QED BY <2>1, <2>2, NoNewIsNew
<1>4. ASSUME NEW o \in Orgs, NEW st \in {"active", "disabled"}, SetStatus(o, st)
      PROVE  IInv' /\ FilesAreNew
  BY <1>4, SetStatusKeeps, NoNewIsNew DEF SetStatus
<1>5. ASSUME NEW o \in Orgs, Delete(o) \/ CrashInDelete(o)
      PROVE  IInv' /\ FilesAreNew
  BY <1>5, DeleteKeeps, CrashInDeleteKeeps, NoNewIsNew DEF Delete, CrashInDelete
<1>6. ASSUME NEW c \in Calls, NEW o \in Orgs, InviteBegins(c, o)
      PROVE  IInv' /\ FilesAreNew
  BY <1>6, InviteBeginsKeeps, NoNewIsNew DEF InviteBegins
<1>7. ASSUME NEW c \in Calls, NEW e \in Emails, InviteEnds(c, e) \/ CrashInInvite(c, e)
      PROVE  IInv' /\ FilesAreNew
  BY <1>7, InviteEndsKeeps, CrashInInviteKeeps, NoNewIsNew DEF InviteEnds, CrashInInvite
<1>8. ASSUME NEW c \in Calls, NEW o \in Orgs, NEW e \in Emails, PasswordBegins(c, o, e)
      PROVE  IInv' /\ FilesAreNew
  BY <1>8, PasswordBeginsKeeps, NoNewIsNew DEF PasswordBegins
<1>9. ASSUME NEW o \in Orgs, NEW e \in Emails, DeleteMember(o, e) \/ CrashInDeleteMember(o, e)
      PROVE  IInv' /\ FilesAreNew
  BY <1>9, DeleteMemberKeeps, CrashInDeleteMemberKeeps, NoNewIsNew DEF DeleteMember, CrashInDeleteMember
<1>10. CASE Crash
  BY <1>10, CrashKeeps, NoNewIsNew DEF Crash
<1> QED BY <1>1, <1>2, <1>3, <1>4, <1>5, <1>6, <1>7, <1>8, <1>9, <1>10 DEF Next

(* The invariant holds in every behaviour, whatever is provisioned,        *)
(* invited, signed in, disabled or deleted and wherever the server stops;  *)
(* and no step makes a database file but for an organization whose         *)
(* identifier it issues.                                                   *)
THEOREM OrgInvariance == Spec => []IInv /\ [][FilesAreNew]_vars
BY InitGood, NextKeeps, PTL DEF Spec

(* What it says is what the properties ask.                                *)
LEMMA InvariantIsEnough ==
  ASSUME IInv
  PROVE  OwnDatabase /\ MembersCanSignIn /\ HandlesAreLive
<1> DEFINE w == World
<1>0. w.control = control /\ w.disk = disk /\ w.process = process /\ \A o : PathOf(o) = control.slug[o]
  BY DEF World, PathOf
<1>1. /\ StateGood(w, call, mixed, drifted) /\ SlugsGood(w.control) /\ HandlesGood(w.control, w.process.lru)
      /\ \A o \in Apart(w, mixed) : Sound(w, o)
  BY StateWorld DEF IInv, StateGood, WorldGood
<1> HIDE DEF w
<1>2. OwnDatabase
  BY <1>0, <1>1 DEF OwnDatabase, Apart, Sound, Owned, FileOf
<1>3. HandlesAreLive
  BY <1>0, <1>1 DEF HandlesAreLive, HandlesGood, OnFile
<1>4. ASSUME NEW o \in Listed(control), NEW e \in Emails, disk[PathOf(o)].row[e].pw >= 0
      PROVE  /\ PathOf(o) \notin mixed => Listing(o, e)
             /\ (mixed = {} /\ e \notin drifted) => SamePassword(o, e)
  <2>1. FileOf(w, o) = disk[PathOf(o)]
    BY <1>0 DEF FileOf
  <2>2. PathOf(o) \notin mixed => Listing(o, e)
    BY <1>0, <1>1, <1>4, <2>1 DEF Apart, Sound, Reached, Present, Listing
  <2>3. (mixed = {} /\ e \notin drifted) => SamePassword(o, e)
    BY <1>0, <1>1, <1>4, <2>1 DEF StateGood, PasswordsGood, Agrees, SamePassword
  <2> QED BY <2>2, <2>3
<1>5. MembersCanSignIn
  BY <1>4 DEF MembersCanSignIn
<1> QED BY <1>2, <1>3, <1>5

(* A listed organization has a database of its own with a member in it,    *)
(* however provisioning fails or is cut short, on every path that no two   *)
(* calls of different organizations overlapped on.                         *)
THEOREM OwnDatabaseHolds == Spec => []OwnDatabase
BY OrgInvariance, InvariantIsEnough, PTL

(* Whoever is a member can be routed to the organization, and so can every *)
(* open invite; and one password opens every door, but for a write that a  *)
(* stop or a provisioning call kept from a copy.  Opening a database that  *)
(* a stop left behind repairs the directories before anyone signs in.      *)
THEOREM MembersCanSignInHolds == Spec => []MembersCanSignIn
BY OrgInvariance, InvariantIsEnough, PTL

(* No handle is left on a file that was removed or archived, and there are *)
(* never more than the pool allows: whatever unlinks or renames a file has *)
(* closed what was open on it.                                             *)
THEOREM HandlesAreLiveHolds == Spec => []HandlesAreLive
BY OrgInvariance, InvariantIsEnough, PTL

(* No call that waited while its organization was deleted brings the file  *)
(* back: only provisioning makes files, under an identifier never issued.  *)
THEOREM NoResurrectionHolds == Spec => NoResurrection
<1>1. [FilesAreNew]_vars =>
        [\A p \in Paths : disk[p] = NoFile /\ disk'[p] # NoFile =>
           \/ p \in mixed'
           \/ \E o \in Orgs : o \notin Issued /\ control'.slug[o] = p]_vars
  BY DEF FilesAreNew
<1> QED BY <1>1, OrgInvariance, PTL DEF NoResurrection
=============================================================================
