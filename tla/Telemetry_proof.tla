---------------------------- MODULE Telemetry_proof ----------------------------
(***************************************************************************)
(* Theorems about what hubs report: about Traces, for any steps, sessions, *)
(* batch size and number of events and faults; and, after them, about      *)
(* Activity and the price table, for any hubs, accounts and rules, batches *)
(* of any size and a clock that may be set back.                           *)
(***************************************************************************)
EXTENDS Traces, Activity, FiniteSetTheorems, SequenceTheorems, WellFoundedInduction, TLAPS

(* A set of numbers has a least one: what holds at the end of a recursive  *)
(* function is proved by its first counterexample.                         *)
LEMMA LeastNat ==
  ASSUME NEW S \in SUBSET Nat, S # {}
  PROVE  \E m \in S : \A n \in S : m <= n
<1>1. PICK m \in S : \A n \in S : <<n, m>> \notin OpToRel(<, Nat)
  BY NatLessThanWellFounded, WFMin
<1>2. \A n \in S : ~(n < m)
  BY <1>1 DEF OpToRel
<1> QED BY <1>2

(* Steps one after the other: a function over an interval that starts at   *)
(* base and follows step exists, and stays in W if every step does.        *)
Follows(f, W, base, n, step) ==
  f \in [0 .. n -> W] /\ f[0] = base /\ \A i \in 1 .. n : f[i] = step[i][f[i - 1]]

(* Such a function exists.                                                 *)
LEMMA StepsExist ==
  ASSUME NEW W, NEW base \in W, NEW n \in Nat, NEW step \in [1 .. n -> [W -> W]]
  PROVE  \E f : Follows(f, W, base, n, step)
<1> DEFINE Bad == {k \in 0 .. n : ~ \E f : Follows(f, W, base, k, step)}
<1>0. Bad \in SUBSET Nat
  OBVIOUS
<1> SUFFICES ASSUME ~ \E f : Follows(f, W, base, n, step) PROVE FALSE
  OBVIOUS
<1>1. Bad # {}
  <2>1. n \in 0 .. n
    OBVIOUS
  <2>2. n \in Bad
    BY <2>1
  <2> QED BY <2>2
<1>2. PICK k \in Bad : \A j \in Bad : k <= j
  <2> HIDE DEF Bad
  <2> QED BY <1>0, <1>1, LeastNat
<1>3. k \in 0 .. n /\ ~ \E f : Follows(f, W, base, k, step)
  BY <1>2
<1>4. k # 0
  <2>1. Follows([i \in 0 .. 0 |-> base], W, base, 0, step)
    BY DEF Follows
  <2> QED BY <2>1, <1>3
<1>5. k - 1 \in 0 .. n /\ k - 1 \notin Bad
  <2>1. k - 1 \in 0 .. n /\ ~(k <= k - 1)
    BY <1>3, <1>4
  <2> QED BY <2>1, <1>2
<1>6. PICK f : Follows(f, W, base, k - 1, step)
  BY <1>5
<1>7. f \in [0 .. k - 1 -> W] /\ f[0] = base /\ \A i \in 1 .. k - 1 : f[i] = step[i][f[i - 1]]
  BY <1>6 DEF Follows
<1> DEFINE g == [i \in 0 .. k |-> IF i = k THEN step[k][f[k - 1]] ELSE f[i]]
<1>8. step[k][f[k - 1]] \in W
  BY <1>3, <1>4, <1>7
<1>9. g \in [0 .. k -> W]
  BY <1>3, <1>4, <1>7, <1>8
<1>10. g[0] = base
  BY <1>3, <1>4, <1>7
<1>11. \A i \in 1 .. k : g[i] = step[i][g[i - 1]]
  <2> TAKE i \in 1 .. k
  <2>1. CASE i = k
    BY <2>1, <1>3, <1>4, <1>7
  <2>2. CASE i # k
    <3>1. i \in 1 .. k - 1 /\ i - 1 \in 0 .. k - 1 /\ i - 1 # k
      BY <2>2, <1>3, <1>4
    <3> QED BY <3>1, <2>2, <1>7, <1>3
  <2> QED BY <2>1, <2>2
<1> HIDE DEF g
<1>12. Follows(g, W, base, k, step)
  BY <1>9, <1>10, <1>11 DEF Follows
<1> QED BY <1>12, <1>3

-----------------------------------------------------------------------------
(* Sums over finite sets: what MapThenSumSet takes from a set, one element *)
(* after the other, comes to the same in whatever order it is taken.       *)
Some(s) == CHOOSE x \in s : TRUE

Takes(g, f, S) == \A s \in SUBSET S : g[s] = IF s = {} THEN 0 ELSE f[Some(s)] + g[s \ {Some(s)}]
IsSum(g, f, S) == g \in [SUBSET S -> Nat] /\ Takes(g, f, S)

(* One element fewer.                                                      *)
LEMMA OneFewer ==
  ASSUME NEW S, IsFiniteSet(S), NEW s \in SUBSET S, NEW x \in s
  PROVE  /\ IsFiniteSet(s) /\ Cardinality(s) \in Nat \ {0} /\ Cardinality(s) <= Cardinality(S)
         /\ s \ {x} \in SUBSET S /\ Cardinality(s \ {x}) = Cardinality(s) - 1
<1>1. IsFiniteSet(s) /\ Cardinality(s) <= Cardinality(S)
  BY FS_Subset
<1>2. Cardinality(s) \in Nat /\ Cardinality(s) # 0
  BY <1>1, FS_CardinalityType, FS_EmptySet
<1>3. Cardinality(s \ {x}) = Cardinality(s) - 1
  BY <1>1, FS_RemoveElement
<1> QED BY <1>1, <1>2, <1>3

LEMMA SomeIs ==
  ASSUME NEW s, s # {}
  PROVE  Some(s) \in s
BY DEF Some

(* What is wrong of a finite set is wrong of a smallest subset.            *)
LEMMA SmallestSubset ==
  ASSUME NEW S, IsFiniteSet(S), NEW Bad \in SUBSET SUBSET S, Bad # {}
  PROVE  \E s \in Bad : \A t \in Bad : Cardinality(s) <= Cardinality(t)
<1> DEFINE N == {Cardinality(s) : s \in Bad}
<1>1. \A s \in Bad : Cardinality(s) \in Nat
  BY FS_Subset, FS_CardinalityType
<1>2. N \in SUBSET Nat /\ N # {}
  BY <1>1
<1>3. PICK m \in N : \A n \in N : m <= n
  <2> HIDE DEF N
  <2> QED BY <1>2, LeastNat
<1> QED BY <1>3

LEMMA SumExists ==
  ASSUME NEW S, IsFiniteSet(S), NEW f \in [S -> Nat]
  PROVE  \E g : IsSum(g, f, S)
<1> DEFINE W == [SUBSET S -> Nat]
           n == Cardinality(S)
           base == [s \in SUBSET S |-> 0]
           next(g) == [s \in SUBSET S |-> IF s = {} THEN 0 ELSE f[Some(s)] + g[s \ {Some(s)}]]
           step == [i \in 1 .. n |-> [g \in W |-> next(g)]]
<1>0. n \in Nat /\ base \in W
  BY FS_CardinalityType
<1>1. step \in [1 .. n -> [W -> W]]
  <2> SUFFICES ASSUME NEW g \in W, NEW s \in SUBSET S
               PROVE  (IF s = {} THEN 0 ELSE f[Some(s)] + g[s \ {Some(s)}]) \in Nat
    OBVIOUS
  <2>1. CASE s = {}
    BY <2>1
  <2>2. CASE s # {}
    <3>1. Some(s) \in S /\ s \ {Some(s)} \in SUBSET S
      BY <2>2, SomeIs
    <3> QED BY <2>2, <3>1
  <2> QED BY <2>1, <2>2
<1>2. PICK h : Follows(h, W, base, n, step)
  <2> HIDE DEF W, base, step, n
  <2> QED BY <1>0, <1>1, StepsExist
<1>3. h \in [0 .. n -> W] /\ h[0] = base /\ \A i \in 1 .. n : h[i] = step[i][h[i - 1]]
  BY <1>2 DEF Follows
<1> DEFINE sum == [s \in SUBSET S |-> h[Cardinality(s)][s]]
<1>4. \A s \in SUBSET S : Cardinality(s) \in 0 .. n
  BY FS_Subset, FS_CardinalityType
<1>5. sum \in [SUBSET S -> Nat]
  <2> HIDE DEF n
  <2> QED BY <1>3, <1>4
<1>6. ASSUME NEW s \in SUBSET S
      PROVE  sum[s] = IF s = {} THEN 0 ELSE f[Some(s)] + sum[s \ {Some(s)}]
  <2>1. CASE s = {}
    <3>1. Cardinality(s) = 0
      BY <2>1, FS_EmptySet
    <3> QED BY <2>1, <3>1, <1>3
  <2>2. CASE s # {}
    <3> DEFINE x == Some(s)
               k == Cardinality(s)
    <3>1. x \in s
      BY <2>2, SomeIs
    <3>2. k \in 1 .. n /\ s \ {x} \in SUBSET S /\ Cardinality(s \ {x}) = k - 1
      <4>1. Cardinality(s) \in Nat \ {0} /\ Cardinality(s) <= Cardinality(S)
        BY <3>1, OneFewer
      <4>2. s \ {x} \in SUBSET S /\ Cardinality(s \ {x}) = Cardinality(s) - 1
        BY <3>1, OneFewer
      <4> QED BY <4>1, <4>2, <1>0
    <3>3. k - 1 \in 0 .. n /\ h[k - 1] \in W
      <4> HIDE DEF W, k, n
      <4> QED BY <3>2, <1>0, <1>3
    <3>4. h[k] = next(h[k - 1])
      <4> HIDE DEF W, k, n, next
      <4> QED BY <3>2, <3>3, <1>3
    <3>5. h[k][s] = f[x] + h[k - 1][s \ {x}]
      BY <2>2, <3>4
    <3> HIDE DEF k
    <3>6. sum[s] = h[k][s] /\ sum[s \ {x}] = h[k - 1][s \ {x}]
      BY <3>2 DEF k
    <3> QED BY <2>2, <3>5, <3>6
  <2> QED BY <2>1, <2>2
<1> HIDE DEF sum
<1>7. IsSum(sum, f, S)
  BY <1>5, <1>6 DEF IsSum, Takes
<1> QED BY <1>7

(* Whatever is taken by the same rule comes to the same.                   *)
LEMMA SumUnique ==
  ASSUME NEW S, IsFiniteSet(S), NEW f, NEW g, IsSum(g, f, S), NEW k, Takes(k, f, S)
  PROVE  k[S] = g[S]
<1> DEFINE Bad == {s \in SUBSET S : k[s] # g[s]}
<1> SUFFICES ASSUME Bad # {} PROVE FALSE
  OBVIOUS
<1>1. PICK s \in Bad : \A t \in Bad : Cardinality(s) <= Cardinality(t)
  <2>1. Bad \in SUBSET SUBSET S
    OBVIOUS
  <2> HIDE DEF Bad
  <2> QED BY <2>1, SmallestSubset
<1>2. s \in SUBSET S /\ k[s] # g[s]
  BY <1>1
<1>3. s # {}
  BY <1>2 DEF IsSum, Takes
<1>4. Some(s) \in s
  BY <1>3, SomeIs
<1>5. s \ {Some(s)} \in SUBSET S /\ ~(Cardinality(s) <= Cardinality(s \ {Some(s)}))
  BY <1>2, <1>4, OneFewer
<1>6. k[s \ {Some(s)}] = g[s \ {Some(s)}]
  BY <1>1, <1>5
<1> QED BY <1>2, <1>3, <1>6 DEF IsSum, Takes

(* Any element may be the first.                                           *)
LEMMA SumSplits ==
  ASSUME NEW S, IsFiniteSet(S), NEW f \in [S -> Nat], NEW g, IsSum(g, f, S)
  PROVE  \A s \in SUBSET S : \A x \in s : g[s] = f[x] + g[s \ {x}]
<1> DEFINE Bad == {s \in SUBSET S : \E x \in s : g[s] # f[x] + g[s \ {x}]}
<1> SUFFICES ASSUME Bad # {} PROVE FALSE
  OBVIOUS
<1>0. g \in [SUBSET S -> Nat]
  BY DEF IsSum, Takes
<1>1. PICK s \in Bad : \A t \in Bad : Cardinality(s) <= Cardinality(t)
  <2>1. Bad \in SUBSET SUBSET S
    OBVIOUS
  <2> HIDE DEF Bad
  <2> QED BY <2>1, SmallestSubset
<1>2. PICK x \in s : g[s] # f[x] + g[s \ {x}]
  BY <1>1
<1> DEFINE y == Some(s)
<1>3. s \in SUBSET S /\ y \in s
  BY <1>1, <1>2, SomeIs
<1>4. g[s] = f[y] + g[s \ {y}] /\ x # y
  BY <1>2, <1>3 DEF IsSum, Takes
<1> HIDE DEF y
<1> DEFINE a == s \ {x}
           b == s \ {y}
           c == s \ {x, y}
<1>5. a \in SUBSET S /\ b \in SUBSET S /\ c \in SUBSET S
  BY <1>3
<1>6. ~(Cardinality(s) <= Cardinality(a)) /\ ~(Cardinality(s) <= Cardinality(b))
  BY <1>2, <1>3, OneFewer
<1>7. a \notin Bad /\ b \notin Bad
  BY <1>1, <1>6
<1>8. y \in a /\ a \ {y} = c /\ x \in b /\ b \ {x} = c
  BY <1>2, <1>3, <1>4
<1>9. g[a] = f[y] + g[c] /\ g[b] = f[x] + g[c]
  <2> HIDE DEF a, b, c
  <2> QED BY <1>5, <1>7, <1>8
<1>10. f[x] \in Nat /\ f[y] \in Nat /\ g[c] \in Nat
  BY <1>0, <1>2, <1>3, <1>5
<1> HIDE DEF a, b, c
<1>11. g[s] = f[x] + g[a]
  BY <1>4, <1>9, <1>10 DEF b
<1> QED BY <1>2, <1>11 DEF a

(* A sum over fewer and smaller numbers is smaller.                        *)
LEMMA SumGrows ==
  ASSUME NEW T, IsFiniteSet(T), NEW S \in SUBSET T, NEW f \in [S -> Nat], NEW h \in [T -> Nat],
         \A x \in S : f[x] <= h[x],
         NEW g, IsSum(g, f, S), NEW k, IsSum(k, h, T)
  PROVE  g[S] <= k[T]
<1> DEFINE Bad == {t \in SUBSET T : ~(g[t \cap S] <= k[t])}
<1>0. IsFiniteSet(S) /\ g \in [SUBSET S -> Nat] /\ k \in [SUBSET T -> Nat]
  BY FS_Subset DEF IsSum, Takes
<1>1. ASSUME Bad # {} PROVE FALSE
  <2>1. PICK t \in Bad : \A u \in Bad : Cardinality(t) <= Cardinality(u)
    <3>1. Bad \in SUBSET SUBSET T
      OBVIOUS
    <3> HIDE DEF Bad
    <3> QED BY <1>1, <3>1, SmallestSubset
  <2>2. t \in SUBSET T /\ t \cap S \in SUBSET S /\ ~(g[t \cap S] <= k[t])
    BY <2>1
  <2>3. t # {}
    <3>1. g[{}] = 0 /\ k[{}] = 0
      BY DEF IsSum, Takes
    <3>2. t = {} => t \cap S = {}
      OBVIOUS
    <3> QED BY <2>2, <3>1, <3>2
  <2>4. PICK x \in t : TRUE
    BY <2>3
  <2> DEFINE u == t \ {x}
  <2>5. u \in SUBSET T /\ u \notin Bad
    <3>1. ~(Cardinality(t) <= Cardinality(u)) /\ u \in SUBSET T
      BY <2>2, OneFewer
    <3> QED BY <2>1, <3>1
  <2>6. g[u \cap S] <= k[u]
    BY <2>5
  <2>7. k[t] = h[x] + k[u]
    BY <2>2, SumSplits
  <2>8. h[x] \in Nat /\ k[u] \in Nat /\ k[t] \in Nat
    BY <1>0, <2>2, <2>5
  <2>9. u \cap S \in SUBSET S /\ g[u \cap S] \in Nat
    BY <1>0
  <2>10. CASE x \in S
    <3>1. (t \cap S) \ {x} = u \cap S
      OBVIOUS
    <3>2. g[t \cap S] = f[x] + g[(t \cap S) \ {x}]
      BY <1>0, <2>2, <2>10, SumSplits
    <3>3. f[x] \in Nat /\ f[x] <= h[x]
      BY <2>10
    <3> HIDE DEF u, Bad
    <3> QED BY <2>2, <2>6, <2>7, <2>8, <2>9, <3>1, <3>2, <3>3
  <2>11. CASE x \notin S
    <3>1. t \cap S = u \cap S
      BY <2>11
    <3> HIDE DEF u, Bad
    <3> QED BY <2>2, <2>6, <2>7, <2>8, <2>9, <3>1
  <2> QED BY <2>10, <2>11
<1>2. T \notin Bad /\ T \cap S = S
  BY <1>1
<1> QED BY <1>2

-----------------------------------------------------------------------------
(* What the sessions of some rows last told, together.                     *)
TotalIn(lg, b, x) == lg[Max({n \in b : lg[n].kind = "usage" /\ lg[n].session = x})].total
Totals(lg, b, R) == MapThenSumSet(LAMBDA x : TotalIn(lg, b, x), R)

LEMMA TotalsAreSums ==
  ASSUME NEW lg, NEW b, NEW R, IsFiniteSet(R), \A x \in R : TotalIn(lg, b, x) \in Nat
  PROVE  \E g : IsSum(g, [x \in R |-> TotalIn(lg, b, x)], R) /\ Totals(lg, b, R) = g[R]
<1> DEFINE f == [x \in R |-> TotalIn(lg, b, x)]
           Eq(k) == k = [s \in SUBSET R |-> IF s = {} THEN 0
                                             ELSE TotalIn(lg, b, Some(s)) + k[s \ {Some(s)}]]
           iter == CHOOSE k : Eq(k)
<1>1. f \in [R -> Nat]
  OBVIOUS
<1>2. PICK g : IsSum(g, f, R)
  <2> HIDE DEF f
  <2> QED BY <1>1, SumExists
<1>3. \A s \in SUBSET R : s # {} => f[Some(s)] = TotalIn(lg, b, Some(s))
  BY SomeIs
<1>4. Eq(g)
  <2> HIDE DEF f
  <2> QED BY <1>2, <1>3 DEF IsSum, Takes
<1>5. Eq(iter)
  <2> HIDE DEF Eq
  <2> QED BY <1>4
<1>6. Totals(lg, b, R) = iter[R]
  BY DEF Totals, MapThenSumSet, MapThenFoldSet, Some
<1> HIDE DEF iter, f
<1>7. iter[R] = g[R]
  <2>1. \A s \in SUBSET R : iter[s] = IF s = {} THEN 0 ELSE TotalIn(lg, b, Some(s)) + iter[s \ {Some(s)}]
    BY <1>5
  <2>2. Takes(iter, f, R)
    <3> HIDE DEF Eq
    <3> QED BY <1>3, <2>1 DEF Takes
  <2>3. IsSum(g, f, R)
    BY <1>2
  <2> HIDE DEF Eq
  <2> QED BY <2>2, <2>3, SumUnique
<1> QED BY <1>2, <1>6, <1>7 DEF f

LEMMA TotalsGrow ==
  ASSUME NEW lg, NEW b, NEW S, NEW lh, NEW c, NEW T, IsFiniteSet(T), S \subseteq T,
         \A x \in S : TotalIn(lg, b, x) \in Nat /\ TotalIn(lg, b, x) <= TotalIn(lh, c, x),
         \A x \in T : TotalIn(lh, c, x) \in Nat
  PROVE  /\ Totals(lg, b, S) \in Nat /\ Totals(lh, c, T) \in Nat
         /\ Totals(lg, b, S) <= Totals(lh, c, T)
<1> DEFINE f == [x \in S |-> TotalIn(lg, b, x)]
           h == [x \in T |-> TotalIn(lh, c, x)]
<1>1. IsFiniteSet(S)
  BY FS_Subset
<1>2. PICK g : IsSum(g, f, S) /\ Totals(lg, b, S) = g[S]
  BY <1>1, TotalsAreSums
<1>3. PICK k : IsSum(k, h, T) /\ Totals(lh, c, T) = k[T]
  BY TotalsAreSums
<1>4. f \in [S -> Nat] /\ h \in [T -> Nat] /\ \A x \in S : f[x] <= h[x]
  OBVIOUS
<1> HIDE DEF f, h
<1>5. g[S] <= k[T]
  BY <1>2, <1>3, <1>4, SumGrows
<1>6. g[S] \in Nat /\ k[T] \in Nat
  BY <1>2, <1>3 DEF IsSum
<1> QED BY <1>2, <1>3, <1>5, <1>6

-----------------------------------------------------------------------------
(* What a hub reports.                                                     *)
HubReports ==
  {[kind |-> "created"]}
    \cup [kind : {"started"}, step : Steps, attempt : Nat]
    \cup [kind : Ends \cup {"judged"}, step : Steps]
    \cup [kind : {"usage"}, session : Sessions, total : 1 .. MaxTotal]
    \cup [kind : {"status"}, to : {"completed", "failed"}]

(* Rows of the outbox are events of the log.                               *)
Typed ==
  /\ log \in Seq(HubReports)
  /\ due \subseteq Rows /\ batch \subseteq Rows /\ sent \subseteq Rows
  /\ \A b \in waiting : b \subseteq Rows
  /\ faults \in Nat

(* The starts of a step before event n, the last of which is n's own.      *)
ShownBefore(s, n) == {m \in StartsOf(Rows, s) : m < n}
StartOf(s, n) == Max(ShownBefore(s, n))

EndsFollowStarts == \A s \in Steps : \A n \in EndsOf(Rows, s) : ShownBefore(s, n) # {}

(* Attempts are counted from 0, so none is ahead of its event.             *)
Numbered == \A s \in Steps : \A n \in StartsOf(Rows, s) : log[n].attempt < n

(* No batch that is sent, or waits to be, tears an end from its start.     *)
WholeIn(b, s) == \A n \in EndsOf(b, s) : StartOf(s, n) \in b
Whole == \A s \in Steps \ split : WholeIn(batch, s) /\ \A b \in waiting : WholeIn(b, s)

(* The destination shows the attempt of each end that was sent.            *)
HasShown(span, s, n) ==
  /\ span.id = StepId(s, TrueAttempt(n))
  /\ span.end \in EndsOf(Rows, s)
  /\ TrueAttempt(span.end) = TrueAttempt(n)
AttemptsShown == \A s \in Steps \ split : \A n \in EndsOf(sent, s) : \E span \in dest : HasShown(span, s, n)

(* While nothing fails the rows are claimed in the order they came, ...    *)
Below(S, T) == \A m \in S : \A n \in T : m < n
InTurn == waiting = {} /\ Below(sent, batch) /\ Below(sent, due) /\ Below(batch, due)

(* ... and the destination shows the last word of what was sent.           *)
StepShown(rows, spans, s) ==
  EndsOf(rows, s) # {} =>
    \E span \in spans : (\E a : span.id = StepId(s, a)) /\ span.end = Max(EndsOf(rows, s))
SessionShown(rows, spans, x) ==
  UsageOf(rows, x) # {} =>
    \E span \in spans : span.id = <<"session", x>> /\ span.usage = LastTold(rows, x)
RootShown(rows, spans) ==
  Terminals(rows) # {} =>
    \E span \in spans : span.id = <<"root">> /\ span.status = log[Max(Terminals(rows))].to
LastShown(rows, spans) ==
  /\ \A s \in Steps : StepShown(rows, spans, s)
  /\ \A x \in Sessions : SessionShown(rows, spans, x)
  /\ RootShown(rows, spans)

IInv ==
  /\ Typed /\ EndsFollowStarts /\ Numbered /\ Whole /\ AttemptsShown
  /\ faults = 0 => InTurn /\ LastShown(sent, dest)
-----------------------------------------------------------------------------
(* A bounded set of numbers has a greatest element, which is its Max.      *)
LEMMA Greatest ==
  ASSUME NEW b \in Nat, NEW S \in SUBSET (0 .. b), S # {}
  PROVE  Max(S) \in S /\ \A y \in S : y <= Max(S)
<1> DEFINE T == {b - x : x \in S}
           R == OpToRel(<, Nat)
<1>1. T \subseteq Nat /\ T # {}
  <2>1. ASSUME NEW x \in S PROVE b - x \in Nat
    <3>1. x \in 0 .. b
      OBVIOUS
    <3> QED BY <3>1
  <2> QED BY <2>1
<1>2. IsWellFoundedOn(R, Nat)
  BY NatLessThanWellFounded
<1>3. PICK t \in T : \A y \in T : ~(<<y, t>> \in R)
  BY <1>1, <1>2, WFMin
<1>4. \A y \in T : ~(y < t)
  BY <1>1, <1>3 DEF OpToRel
<1>5. PICK x \in S : t = b - x
  BY <1>3
<1>6. ASSUME NEW y \in S PROVE x >= y
  <2>1. b - y \in T /\ x \in 0 .. b /\ y \in 0 .. b
    OBVIOUS
  <2>2. ~(b - y < b - x)
    BY <1>4, <1>5, <2>1
  <2> QED BY <2>1, <2>2
<1>7. Max(S) \in S /\ \A y \in S : Max(S) >= y
  BY <1>6 DEF Max
<1> QED BY <1>7

(* The events are numbered 1, 2, ... and have their types one by one.      *)
LEMMA LogTyped ==
  ASSUME Typed
  PROVE  /\ Len(log) \in Nat /\ Rows = 1 .. Len(log)
         /\ \A n \in Rows : n \in Nat /\ log[n] \in HubReports
         /\ \A S \in SUBSET Rows : S \in SUBSET (0 .. Len(log))
BY DEF Typed, Rows

(* A set of events has a latest one.                                       *)
LEMMA LatestRow ==
  ASSUME Typed, NEW S \in SUBSET Rows, S # {}
  PROVE  /\ Max(S) \in S /\ \A y \in S : y <= Max(S)
         /\ \A m \in S : (\A y \in S : y <= m) => m = Max(S)
<1>1. Len(log) \in Nat /\ S \in SUBSET (0 .. Len(log))
  BY LogTyped
<1>2. Max(S) \in S /\ \A y \in S : y <= Max(S)
  BY <1>1, Greatest
<1>3. ASSUME NEW m \in S, \A y \in S : y <= m PROVE m = Max(S)
  <2>1. m \in Nat /\ Max(S) \in Nat
    BY <1>2, LogTyped
  <2> QED BY <1>2, <1>3, <2>1
<1> QED BY <1>2, <1>3

-----------------------------------------------------------------------------
(* Spans of one batch.                                                     *)

(* What a batch has of each kind of row.                                   *)
LEMMA PartsOfBatch ==
  ASSUME NEW b \in SUBSET Rows
  PROVE  /\ \A s : EndsOf(b, s) = b \cap EndsOf(Rows, s) /\ EndsOf(b, s) \subseteq Rows
         /\ \A s : StartsOf(b, s) = b \cap StartsOf(Rows, s) /\ StartsOf(b, s) \subseteq Rows
         /\ \A x : UsageOf(b, x) = b \cap UsageOf(Rows, x) /\ UsageOf(b, x) \subseteq Rows
         /\ Terminals(b) = b \cap Terminals(Rows) /\ Terminals(b) \subseteq Rows
BY DEF EndsOf, StartsOf, UsageOf, Terminals

(* An end belongs to the attempt that started last before it.              *)
LEMMA OwnStart ==
  ASSUME Typed, EndsFollowStarts, NEW s \in Steps, NEW n \in EndsOf(Rows, s)
  PROVE  /\ n \in Rows /\ log[n].step = s
         /\ StartOf(s, n) \in ShownBefore(s, n) /\ \A m \in ShownBefore(s, n) : m <= StartOf(s, n)
         /\ StartOf(s, n) \in Rows /\ StartOf(s, n) < n
         /\ TrueAttempt(n) = log[StartOf(s, n)].attempt
<1>1. n \in Rows /\ log[n].step = s
  BY DEF EndsOf
<1>2. ShownBefore(s, n) # {} /\ ShownBefore(s, n) \in SUBSET Rows
  BY DEF EndsFollowStarts, ShownBefore, StartsOf
<1>3. StartOf(s, n) \in ShownBefore(s, n) /\ \A m \in ShownBefore(s, n) : m <= StartOf(s, n)
  BY <1>2, LatestRow DEF StartOf
<1>4. TrueAttempt(n) = log[StartOf(s, n)].attempt
  BY <1>1 DEF TrueAttempt, StartOf, ShownBefore
<1> QED BY <1>1, <1>2, <1>3, <1>4 DEF ShownBefore

(* A batch that has the starts of its ends finds their attempts.           *)
LEMMA AttemptIsTrue ==
  ASSUME Typed, EndsFollowStarts, NEW b \in SUBSET Rows, NEW s \in Steps, WholeIn(b, s),
         NEW n \in EndsOf(b, s)
  PROVE  Attempt(b, n) = TrueAttempt(n)
<1> DEFINE before == {m \in StartsOf(b, s) : m < n}
<1>1. n \in EndsOf(Rows, s)
  BY PartsOfBatch
<1>2. StartOf(s, n) \in before
  <2>1. StartOf(s, n) \in b
    BY DEF WholeIn
  <2>2. StartOf(s, n) \in StartsOf(Rows, s) /\ StartOf(s, n) < n
    BY <1>1, OwnStart DEF ShownBefore
  <2> QED BY <2>1, <2>2 DEF StartsOf
<1>3. before \in SUBSET Rows /\ before \subseteq ShownBefore(s, n)
  BY DEF ShownBefore, StartsOf
<1>4. \A m \in before : m <= StartOf(s, n)
  BY <1>1, <1>3, OwnStart
<1>5. StartOf(s, n) = Max(before)
  BY <1>2, <1>3, <1>4, LatestRow
<1>6. log[n].step = s
  BY <1>1, OwnStart
<1>7. Attempt(b, n) = log[Max(before)].attempt
  BY <1>2, <1>6 DEF Attempt
<1> QED BY <1>1, <1>5, <1>7, OwnStart

(* Of the ends of one attempt one is kept, and the last of all is.         *)
LEMMA AnEndIsKept ==
  ASSUME Typed, NEW b \in SUBSET Rows, NEW s, NEW n \in EndsOf(b, s)
  PROVE  \E k \in Kept(b, s) : Attempt(b, k) = Attempt(b, n)
<1> DEFINE same == {m \in EndsOf(b, s) : Attempt(b, m) = Attempt(b, n)}
<1>1. same \in SUBSET Rows /\ same # {}
  BY PartsOfBatch
<1>2. PICK k \in same : \A m \in same : m <= k
  BY <1>1, LatestRow
<1>3. k \in Kept(b, s)
  BY <1>2 DEF Kept
<1> QED BY <1>2, <1>3

(* The last end of a step in a batch is among those its spans show.        *)
LEMMA LastEndIsKept ==
  ASSUME Typed, NEW b \in SUBSET Rows, NEW s, EndsOf(b, s) # {}
  PROVE  Max(EndsOf(b, s)) \in Kept(b, s)
<1>1. EndsOf(b, s) \in SUBSET Rows
  BY PartsOfBatch
<1>2. Max(EndsOf(b, s)) \in EndsOf(b, s) /\ \A m \in EndsOf(b, s) : m <= Max(EndsOf(b, s))
  BY <1>1, LatestRow
<1> QED BY <1>2 DEF Kept

(* What is kept has a span.                                                *)
LEMMA SpanOfEnd ==
  ASSUME NEW b, NEW s \in Steps, NEW k \in Kept(b, s)
  PROVE  \E span \in Spans(b) : span.id = StepId(s, Attempt(b, k)) /\ span.end = k
<1> DEFINE span(t, n) == [id |-> StepId(t, Attempt(b, n)), end |-> n, status |-> log[n].kind,
                          judged |-> IF n # Judged(b, t) THEN {}
                                     ELSE {m \in b : log[m].kind = "judged" /\ log[m].step = t}]
           of(t) == {span(t, n) : n \in Kept(b, t)}
<1>1. \E one \in of(s) : one.id = StepId(s, Attempt(b, k)) /\ one.end = k
  <2>1. span(s, k).id = StepId(s, Attempt(b, k)) /\ span(s, k).end = k
    OBVIOUS
  <2> HIDE DEF span
  <2> QED BY <2>1
<1>2. StepSpans(b) = UNION {of(t) : t \in Steps}
  BY DEF StepSpans
<1> HIDE DEF of, span
<1>3. of(s) \subseteq StepSpans(b)
  BY <1>2
<1> QED BY <1>1, <1>3 DEF Spans

(* A batch with usage of a session has the span of its total.              *)
LEMMA SpanOfSession ==
  ASSUME NEW b, NEW x \in Sessions, UsageOf(b, x) # {}
  PROVE  \E span \in Spans(b) : span.id = <<"session", x>> /\ span.usage = SessionTotal(b, x)
<1> DEFINE span == [id |-> <<"session", x>>, start |-> Min(UsageOf(b, x)), end |-> Max(UsageOf(b, x)),
                    usage |-> SessionTotal(b, x)]
<1>1. span \in SessionSpans(b)
  BY DEF SessionSpans, Reporting
<1> QED BY <1>1 DEF Spans

(* A batch with a final status has the root span that says so.             *)
LEMMA SpanOfRoot ==
  ASSUME NEW b, Terminals(b) # {}
  PROVE  \E span \in Spans(b) : span.id = <<"root">> /\ span.status = log[Max(Terminals(b))].to
<1>1. \E span \in RootSpan(b) : span.id = <<"root">> /\ span.status = log[Max(Terminals(b))].to
  BY DEF RootSpan
<1> QED BY <1>1 DEF Spans

(* And a span with an id has what the id names.                            *)
LEMMA NamesOfSpans ==
  ASSUME NEW b, NEW span \in Spans(b)
  PROVE  /\ \A s \in Steps : \A a : span.id = StepId(s, a) =>
              \E k \in Kept(b, s) : a = Attempt(b, k) /\ span.end = k
         /\ \A x : span.id = <<"session", x>> => UsageOf(b, x) # {}
         /\ span.id = <<"root">> => Terminals(b) # {}
<1>1. CASE span \in RootSpan(b)
  <2>1. span.id = <<"root">> /\ Terminals(b) # {}
    BY <1>1 DEF RootSpan
  <2> QED BY <2>1 DEF StepId
<1>2. CASE span \in StepSpans(b)
  <2>1. PICK t \in Steps : \E k \in Kept(b, t) : span.id = StepId(t, Attempt(b, k)) /\ span.end = k
    BY <1>2 DEF StepSpans
  <2> QED BY <2>1 DEF StepId
<1>3. CASE span \in SessionSpans(b)
  <2>1. PICK y \in Reporting(b) : span.id = <<"session", y>>
    BY <1>3 DEF SessionSpans
  <2> QED BY <2>1 DEF StepId, Reporting
<1> QED BY <1>1, <1>2, <1>3 DEF Spans

-----------------------------------------------------------------------------
(* An answered batch.                                                      *)

(* Sent once or again, it replaces what was shown by as good, and shows    *)
(* its own ends.                                                           *)
LEMMA UpsertShows ==
  ASSUME IInv, NEW s \in Steps \ split, NEW n \in EndsOf(sent, s) \cup EndsOf(batch, s)
  PROVE  \E span \in Upsert(Spans(batch)) : HasShown(span, s, n)
<1>1. batch \in SUBSET Rows /\ WholeIn(batch, s) /\ Typed /\ EndsFollowStarts /\ s \in Steps
  BY DEF IInv, Typed, Whole
<1>2. ASSUME NEW k \in Kept(batch, s), Attempt(batch, k) = TrueAttempt(n)
      PROVE  \E span \in Upsert(Spans(batch)) : HasShown(span, s, n)
  <2>1. k \in EndsOf(batch, s) /\ k \in EndsOf(Rows, s)
    BY <1>1, PartsOfBatch DEF Kept
  <2>2. TrueAttempt(k) = TrueAttempt(n)
    BY <1>1, <1>2, <2>1, AttemptIsTrue
  <2>3. PICK span \in Spans(batch) : span.id = StepId(s, Attempt(batch, k)) /\ span.end = k
    BY <1>1, SpanOfEnd
  <2> QED BY <1>2, <2>1, <2>2, <2>3 DEF Upsert, HasShown
<1>3. CASE n \in EndsOf(batch, s)
  BY <1>1, <1>2, <1>3, AnEndIsKept, AttemptIsTrue
<1>4. CASE n \in EndsOf(sent, s)
  <2>1. PICK old \in dest : HasShown(old, s, n)
    BY <1>4 DEF IInv, AttemptsShown
  <2>2. CASE \A new \in Spans(batch) : new.id # old.id
    BY <2>1, <2>2 DEF Upsert
  <2>3. CASE \E new \in Spans(batch) : new.id = old.id
    <3>1. PICK new \in Spans(batch) : new.id = StepId(s, TrueAttempt(n))
      BY <2>1, <2>3 DEF HasShown
    <3> QED BY <1>1, <1>2, <3>1, NamesOfSpans
  <2> QED BY <2>2, <2>3
<1> QED BY <1>3, <1>4

(* While rows are sent in their order the later part has the last word.    *)
LEMMA LaterPart ==
  ASSUME Typed, NEW S \in SUBSET Rows, NEW T \in SUBSET Rows, Below(S, T), T # {}
  PROVE  Max(S \cup T) = Max(T)
<1>1. Max(T) \in T /\ \A y \in T : y <= Max(T)
  BY LatestRow
<1>2. \A y \in S : y <= Max(T)
  <2> SUFFICES ASSUME NEW y \in S PROVE y <= Max(T)
    OBVIOUS
  <2>1. y < Max(T) /\ y \in Nat /\ Max(T) \in Nat
    BY <1>1, LogTyped DEF Below
  <2> QED BY <2>1
<1>3. S \cup T \in SUBSET Rows /\ S \cup T # {}
  OBVIOUS
<1> QED BY <1>1, <1>2, <1>3, LatestRow

(* A batch that arrives in turn has the last word.                         *)
LEMMA UpsertKeepsLast ==
  ASSUME IInv, InTurn, LastShown(sent, dest)
  PROVE  LastShown(sent \cup batch, Upsert(Spans(batch)))
<1> DEFINE all == sent \cup batch
           spans == Upsert(Spans(batch))
<1>1. Typed /\ sent \in SUBSET Rows /\ batch \in SUBSET Rows /\ Below(sent, batch)
  BY DEF IInv, Typed, InTurn
<1>2. Spans(batch) \subseteq spans
  BY DEF Upsert
<1>3. ASSUME NEW s \in Steps, EndsOf(all, s) # {}
      PROVE  \E span \in spans : (\E a : span.id = StepId(s, a)) /\ span.end = Max(EndsOf(all, s))
  <2>1. /\ EndsOf(all, s) = EndsOf(sent, s) \cup EndsOf(batch, s)
        /\ EndsOf(sent, s) \in SUBSET Rows /\ EndsOf(batch, s) \in SUBSET Rows
        /\ Below(EndsOf(sent, s), EndsOf(batch, s))
    BY <1>1 DEF EndsOf, Below
  <2>2. CASE EndsOf(batch, s) # {}
    <3>1. Max(EndsOf(all, s)) = Max(EndsOf(batch, s))
      BY <1>1, <2>1, <2>2, LaterPart
    <3>2. Max(EndsOf(batch, s)) \in Kept(batch, s)
      BY <1>1, <2>2, LastEndIsKept
    <3> QED BY <1>2, <3>1, <3>2, SpanOfEnd
  <2>3. CASE EndsOf(batch, s) = {}
    <3>1. EndsOf(all, s) = EndsOf(sent, s)
      BY <2>1, <2>3
    <3>2. PICK old \in dest : (\E a : old.id = StepId(s, a)) /\ old.end = Max(EndsOf(sent, s))
      BY <1>3, <3>1 DEF LastShown, StepShown
    <3>3. \A new \in Spans(batch) : new.id # old.id
      BY <2>3, <3>2, NamesOfSpans DEF Kept
    <3> QED BY <3>1, <3>2, <3>3 DEF Upsert
  <2> QED BY <2>2, <2>3
<1>4. ASSUME NEW x \in Sessions, UsageOf(all, x) # {}
      PROVE  \E span \in spans : span.id = <<"session", x>> /\ span.usage = LastTold(all, x)
  <2>1. /\ UsageOf(all, x) = UsageOf(sent, x) \cup UsageOf(batch, x)
        /\ UsageOf(sent, x) \in SUBSET Rows /\ UsageOf(batch, x) \in SUBSET Rows
        /\ Below(UsageOf(sent, x), UsageOf(batch, x))
    BY <1>1 DEF UsageOf, Below
  <2>2. CASE UsageOf(batch, x) # {}
    <3>1. Max(UsageOf(all, x)) = Max(UsageOf(batch, x))
      BY <1>1, <2>1, <2>2, LaterPart
    <3> QED BY <1>2, <2>2, <3>1, SpanOfSession DEF LastTold, SessionTotal
  <2>3. CASE UsageOf(batch, x) = {}
    <3>1. UsageOf(all, x) = UsageOf(sent, x)
      BY <2>1, <2>3
    <3>2. PICK old \in dest : old.id = <<"session", x>> /\ old.usage = LastTold(sent, x)
      BY <1>4, <3>1 DEF LastShown, SessionShown
    <3>3. \A new \in Spans(batch) : new.id # old.id
      BY <2>3, <3>2, NamesOfSpans
    <3> QED BY <3>1, <3>2, <3>3 DEF Upsert, LastTold
  <2> QED BY <2>2, <2>3
<1>5. ASSUME Terminals(all) # {}
      PROVE  \E span \in spans : span.id = <<"root">> /\ span.status = log[Max(Terminals(all))].to
  <2>1. /\ Terminals(all) = Terminals(sent) \cup Terminals(batch)
        /\ Terminals(sent) \in SUBSET Rows /\ Terminals(batch) \in SUBSET Rows
        /\ Below(Terminals(sent), Terminals(batch))
    BY <1>1 DEF Terminals, Below
  <2>2. CASE Terminals(batch) # {}
    <3>1. Max(Terminals(all)) = Max(Terminals(batch))
      BY <1>1, <2>1, <2>2, LaterPart
    <3> QED BY <1>2, <2>2, <3>1, SpanOfRoot
  <2>3. CASE Terminals(batch) = {}
    <3>1. Terminals(all) = Terminals(sent)
      BY <2>1, <2>3
    <3>2. PICK old \in dest : old.id = <<"root">> /\ old.status = log[Max(Terminals(sent))].to
      BY <1>5, <3>1 DEF LastShown, RootShown
    <3>3. \A new \in Spans(batch) : new.id # old.id
      BY <2>3, <3>2, NamesOfSpans
    <3> QED BY <3>1, <3>2, <3>3 DEF Upsert
  <2> QED BY <2>2, <2>3
<1> QED BY <1>3, <1>4, <1>5 DEF LastShown, StepShown, SessionShown, RootShown

-----------------------------------------------------------------------------
(* Events are only added behind the others.                                *)

Grows == Len(log) <= Len(log') /\ \A n \in Rows : log'[n] = log[n]

(* What is said of rows that are there stays as it is.                     *)
LEMMA RowsStay ==
  ASSUME Typed, EndsFollowStarts, log' \in Seq(HubReports), Grows
  PROVE  /\ Rows' = 1 .. Len(log') /\ Len(log') \in Nat /\ Rows \subseteq Rows'
         /\ \A b \in SUBSET Rows : /\ \A s : EndsOf(b, s)' = EndsOf(b, s)
                                   /\ \A x : UsageOf(b, x)' = UsageOf(b, x)
                                   /\ Terminals(b)' = Terminals(b)
         /\ \A n \in Rows : \A s : ShownBefore(s, n)' = ShownBefore(s, n)
         /\ \A s \in Steps : \A n \in EndsOf(Rows, s) : TrueAttempt(n)' = TrueAttempt(n)
<1>1. Rows' = 1 .. Len(log') /\ Len(log') \in Nat /\ Rows \subseteq Rows'
  BY LogTyped DEF Rows, Grows
<1>2. ASSUME NEW b \in SUBSET Rows
      PROVE  /\ \A s : EndsOf(b, s)' = EndsOf(b, s)
             /\ \A x : UsageOf(b, x)' = UsageOf(b, x)
             /\ Terminals(b)' = Terminals(b)
  BY DEF Grows, EndsOf, UsageOf, Terminals
<1>3. ASSUME NEW n \in Rows, NEW s PROVE ShownBefore(s, n)' = ShownBefore(s, n)
  <2>1. \A m \in Rows' : m < n => m \in Rows
    BY <1>1, LogTyped
  <2> QED BY <1>1, <2>1 DEF Grows, ShownBefore, StartsOf
<1>4. ASSUME NEW s \in Steps, NEW n \in EndsOf(Rows, s) PROVE TrueAttempt(n)' = TrueAttempt(n)
  <2>1. n \in Rows /\ log[n].step = s /\ StartOf(s, n) \in Rows
        /\ TrueAttempt(n) = log[StartOf(s, n)].attempt
    BY OwnStart
  <2>2. log'[n].step = s /\ ShownBefore(s, n)' = ShownBefore(s, n)
    BY <1>3, <2>1 DEF Grows
  <2>3. TrueAttempt(n)' = log'[Max(ShownBefore(s, n))].attempt
    BY <2>2 DEF TrueAttempt, ShownBefore
  <2> QED BY <2>1, <2>3 DEF Grows, StartOf
<1> QED BY <1>1, <1>2, <1>3, <1>4

(* What was sent stays shown.                                              *)
LEMMA ShownStays ==
  ASSUME IInv, log' \in Seq(HubReports), Grows, UNCHANGED <<sent, dest>>, split \subseteq split'
  PROVE  AttemptsShown' /\ (LastShown(sent, dest) => LastShown(sent, dest)')
<1>1. Typed /\ EndsFollowStarts /\ sent \in SUBSET Rows
  BY DEF IInv, Typed
<1>2. AttemptsShown'
  <2> SUFFICES ASSUME NEW s \in Steps \ split, NEW n \in EndsOf(sent, s)
               PROVE  \E span \in dest : HasShown(span, s, n)'
    BY <1>1, RowsStay DEF AttemptsShown
  <2>1. PICK span \in dest : HasShown(span, s, n)
    BY DEF IInv, AttemptsShown
  <2>2. n \in EndsOf(Rows, s) /\ span.end \in EndsOf(Rows, s)
    <3>1. n \in EndsOf(Rows, s)
      BY <1>1 DEF EndsOf
    <3> QED BY <2>1, <3>1 DEF HasShown
  <2>3. TrueAttempt(n)' = TrueAttempt(n) /\ TrueAttempt(span.end)' = TrueAttempt(span.end)
    <3>1. PICK k \in EndsOf(Rows, s) : k = span.end
      BY <2>2
    <3>2. TrueAttempt(n)' = TrueAttempt(n) /\ TrueAttempt(k)' = TrueAttempt(k)
      BY <1>1, <2>2, <3>1, RowsStay
    <3> QED BY <3>1, <3>2
  <2>4. span.end \in EndsOf(Rows, s)'
    BY <1>1, <2>2, RowsStay DEF EndsOf, Grows
  <2> QED BY <2>1, <2>3, <2>4 DEF HasShown
<1>3. ASSUME LastShown(sent, dest) PROVE LastShown(sent, dest)'
  <2>1. /\ \A s : EndsOf(sent, s)' = EndsOf(sent, s)
        /\ \A x : UsageOf(sent, x)' = UsageOf(sent, x)
        /\ Terminals(sent)' = Terminals(sent)
    BY <1>1, RowsStay
  <2>2. ASSUME NEW x \in Sessions, UsageOf(sent, x) # {}
        PROVE  LastTold(sent, x)' = LastTold(sent, x)
    <3>1. Max(UsageOf(sent, x)) \in Rows
      BY <1>1, <2>2, LatestRow, PartsOfBatch
    <3> QED BY <2>1, <3>1 DEF LastTold, Grows
  <2>3. ASSUME Terminals(sent) # {}
        PROVE  log'[Max(Terminals(sent))] = log[Max(Terminals(sent))]
    <3>1. Max(Terminals(sent)) \in Rows
      BY <1>1, <2>3, LatestRow, PartsOfBatch
    <3> QED BY <3>1 DEF Grows
  <2>4. ASSUME NEW s \in Steps PROVE StepShown(sent, dest, s)'
    BY <1>3, <2>1 DEF LastShown, StepShown, StepId
  <2>5. ASSUME NEW x \in Sessions PROVE SessionShown(sent, dest, x)'
    BY <1>3, <2>1, <2>2 DEF LastShown, SessionShown
  <2>6. RootShown(sent, dest)'
    BY <1>3, <2>1, <2>3 DEF LastShown, RootShown
  <2> QED BY <2>4, <2>5, <2>6 DEF LastShown
<1> QED BY <1>2, <1>3

(* A hub reports an event; an end only of what was started.                *)
LEMMA ReceiveKeeps ==
  ASSUME IInv, NEW event \in HubReports, Receive(event),
         event.kind \in Ends => StartsOf(Rows, event.step) # {},
         event.kind = "started" => event.attempt <= Len(log)
  PROVE  IInv'
<1> DEFINE new == Len(log) + 1
<1>1. /\ log' = Append(log, event) /\ due' = due \cup {new}
      /\ UNCHANGED <<waiting, batch, sent, dest, faults, split>>
  BY DEF Receive
<1>2. Typed /\ EndsFollowStarts /\ log \in Seq(HubReports)
  BY DEF IInv, Typed
<1>3. /\ log' \in Seq(HubReports) /\ Len(log') = new /\ log'[new] = event /\ Grows
      /\ Rows' = Rows \cup {new} /\ \A n \in Rows : n < new
  <2>1. /\ log' \in Seq(HubReports) /\ Len(log') = new /\ log'[new] = event
        /\ \A n \in 1 .. Len(log) : log'[n] = log[n]
    BY <1>1, <1>2, AppendProperties
  <2> QED BY <1>2, <2>1, LogTyped DEF Grows, Rows
<1>4. Typed'
  BY <1>1, <1>3 DEF IInv, Typed
<1>5. EndsFollowStarts'
  <2> SUFFICES ASSUME NEW s \in Steps, NEW n \in EndsOf(Rows, s)' PROVE ShownBefore(s, n)' # {}
    BY DEF EndsFollowStarts
  <2>1. CASE n \in Rows
    <3>1. n \in EndsOf(Rows, s)
      BY <1>3, <2>1 DEF EndsOf, Grows
    <3> QED BY <1>2, <1>3, <2>1, <3>1, RowsStay DEF EndsFollowStarts
  <2>2. CASE n = new
    <3>1. event.kind \in Ends /\ event.step = s
      BY <1>3, <2>2 DEF EndsOf
    <3>2. PICK m \in StartsOf(Rows, s) : TRUE
      BY <3>1
    <3>3. m \in Rows /\ m \in StartsOf(Rows, s)'
      BY <1>3 DEF StartsOf, Grows
    <3> QED BY <1>3, <2>2, <3>3 DEF ShownBefore
  <2> QED BY <1>3, <2>1, <2>2 DEF EndsOf
<1>6. Whole'
  <2>1. ASSUME NEW b \in SUBSET Rows, NEW s \in Steps, WholeIn(b, s) PROVE WholeIn(b, s)'
    <3>1. \A n \in EndsOf(b, s) : n \in Rows
      BY PartsOfBatch
    <3> QED BY <1>2, <1>3, <2>1, <3>1, RowsStay DEF WholeIn, StartOf
  <2> QED BY <1>1, <1>2, <2>1 DEF IInv, Whole, Typed
<1>7. AttemptsShown' /\ (LastShown(sent, dest) => LastShown(sent, dest)')
  BY <1>1, <1>3, ShownStays
<1>8. InTurn => InTurn'
  BY <1>1, <1>2, <1>3 DEF Typed, InTurn, Below
<1>9. Numbered'
  <2> SUFFICES ASSUME NEW s \in Steps, NEW n \in StartsOf(Rows, s)' PROVE log'[n].attempt < n
    BY DEF Numbered
  <2>1. CASE n \in Rows
    <3>1. n \in StartsOf(Rows, s) /\ log'[n] = log[n]
      BY <1>3, <2>1 DEF StartsOf, Grows
    <3> QED BY <3>1 DEF IInv, Numbered
  <2>2. CASE n = new
    <3>1. event.kind = "started"
      BY <1>3, <2>2 DEF StartsOf
    <3>2. event.attempt \in Nat
      BY <3>1 DEF HubReports, Ends
    <3> QED BY <1>2, <1>3, <2>2, <3>1, <3>2, LogTyped
  <2> QED BY <1>3, <2>1, <2>2 DEF StartsOf
<1> QED BY <1>1, <1>4, <1>5, <1>6, <1>7, <1>8, <1>9 DEF IInv

-----------------------------------------------------------------------------
(* The worker.                                                             *)

(* It writes no event.                                                     *)
LEMMA LogIsKept ==
  ASSUME IInv, log' = log
  PROVE  /\ log' \in Seq(HubReports) /\ Grows /\ Rows' = Rows /\ EndsFollowStarts' /\ Numbered'
         /\ \A b \in SUBSET Rows, s \in Steps : WholeIn(b, s) => WholeIn(b, s)'
         /\ \A b, s : EndsOf(b, s)' = EndsOf(b, s)
         /\ \A span, s, n : HasShown(span, s, n) => HasShown(span, s, n)'
<1>1. log' \in Seq(HubReports) /\ Grows /\ Rows' = Rows
  BY LogTyped DEF IInv, Typed, Grows, Rows
<1>2. EndsFollowStarts' /\ Numbered'
  <2>1. EndsFollowStarts'
    BY DEF IInv, EndsFollowStarts, EndsOf, StartsOf, ShownBefore, Rows
  <2>2. Numbered'
    BY DEF IInv, Numbered, StartsOf, Rows
  <2> QED BY <2>1, <2>2
<1>3. ASSUME NEW b \in SUBSET Rows, NEW s \in Steps, WholeIn(b, s) PROVE WholeIn(b, s)'
  <2>1. \A n \in EndsOf(b, s) : n \in Rows
    BY PartsOfBatch
  <2> QED BY <1>1, <1>3, <2>1, RowsStay DEF IInv, WholeIn, StartOf
<1>4. \A b, s : EndsOf(b, s)' = EndsOf(b, s)
  BY DEF EndsOf
<1>5. ASSUME NEW span, NEW s, NEW n, HasShown(span, s, n) PROVE HasShown(span, s, n)'
  <2>1. EndsOf(Rows, s)' = EndsOf(Rows, s)
    BY DEF EndsOf, Rows
  <2>2. ASSUME NEW m PROVE TrueAttempt(m)' = TrueAttempt(m)
    BY DEF TrueAttempt, StartsOf, Rows
  <2>3. PICK e : e = span.end
    OBVIOUS
  <2>4. TrueAttempt(n)' = TrueAttempt(n) /\ TrueAttempt(e)' = TrueAttempt(e)
    BY <2>2
  <2> QED BY <1>5, <2>1, <2>3, <2>4 DEF HasShown
<1> QED BY <1>1, <1>2, <1>3, <1>4, <1>5

(* The oldest of the rows that are due come before the others.             *)
LEMMA OldestFirst ==
  ASSUME Typed
  PROVE  Oldest(due) \subseteq due /\ Below(Oldest(due), due \ Oldest(due))
<1> DEFINE upTo(n) == {m \in due : m <= n}
<1>1. \A n \in due : n \in Nat
  BY LogTyped DEF Typed
<1>2. IsFiniteSet(due)
  <2>1. IsFiniteSet(Rows)
    BY LogTyped, FS_Interval
  <2> QED BY <2>1, FS_Subset DEF Typed
<1>3. ASSUME NEW m \in Oldest(due), NEW n \in due \ Oldest(due) PROVE m < n
  <2>1. m \in due /\ Cardinality(upTo(m)) <= BatchSize /\ ~(Cardinality(upTo(n)) <= BatchSize)
    BY <1>3 DEF Oldest
  <2>2. ASSUME n <= m PROVE FALSE
    <3>1. upTo(n) \subseteq upTo(m)
      BY <1>1, <2>1, <2>2
    <3>2. IsFiniteSet(upTo(m)) /\ IsFiniteSet(upTo(n))
      BY <1>2, FS_Subset
    <3>3. Cardinality(upTo(n)) <= Cardinality(upTo(m))
      BY <3>1, <3>2, FS_Subset
    <3>4. Cardinality(upTo(n)) \in Nat /\ Cardinality(upTo(m)) \in Nat /\ BatchSize \in Nat
      BY <3>2, FS_CardinalityType, BatchAssumption
    <3> HIDE DEF upTo
    <3> QED BY <2>1, <3>3, <3>4
  <2>3. m \in Nat /\ n \in Nat
    BY <1>1, <2>1
  <2> QED BY <2>2, <2>3
<1> QED BY <1>3 DEF Oldest, Below

(* The worker takes a batch.                                               *)
LEMMA ClaimKeeps == IInv /\ Claim => IInv'
<1> SUFFICES ASSUME IInv, Claim PROVE IInv'
  OBVIOUS
<1> DEFINE first == Oldest(due)
<1>1. /\ batch = {} /\ batch' = first /\ due' = due \ first /\ split' = split \cup Torn(first)
      /\ UNCHANGED <<log, waiting, sent, dest, faults>>
  BY DEF Claim
<1>2. Typed /\ first \subseteq due /\ Below(first, due \ first)
  BY OldestFirst DEF IInv
<1>3. log' \in Seq(HubReports) /\ Grows /\ Rows' = Rows /\ EndsFollowStarts' /\ Numbered'
  BY <1>1, LogIsKept
<1>4. Typed'
  BY <1>1, <1>2, <1>3 DEF Typed
<1>5. Whole'
  <2>1. ASSUME NEW s \in Steps \ split' PROVE WholeIn(first, s)
    BY <1>1 DEF Torn, WholeIn, StartOf, ShownBefore
  <2>2. ASSUME NEW s \in Steps \ split', NEW b \in waiting PROVE WholeIn(b, s) /\ b \in SUBSET Rows
    BY <1>1 DEF IInv, Whole, Typed
  <2>3. first \in SUBSET Rows
    BY <1>2 DEF Typed
  <2>4. ASSUME NEW s \in Steps \ split', NEW b \in {first} \cup waiting PROVE WholeIn(b, s)'
    BY <1>1, <2>1, <2>2, <2>3, LogIsKept
  <2> QED BY <1>1, <2>4 DEF Whole, WholeIn
<1>6. AttemptsShown' /\ (LastShown(sent, dest) => LastShown(sent, dest)')
  BY <1>1, <1>3, ShownStays
<1>7. InTurn => InTurn'
  BY <1>1, <1>2 DEF InTurn, Below
<1> QED BY <1>1, <1>3, <1>4, <1>5, <1>6, <1>7 DEF IInv

(* A request that failed changes what waits, and what is shown if only its *)
(* answer was lost.                                                        *)
LEMMA FailKeeps ==
  ASSUME IInv, Fail, dest' = dest \/ dest' = Upsert(Spans(batch))
  PROVE  IInv'
<1>1. /\ waiting' = waiting \cup {batch} /\ batch' = {} /\ faults' = faults + 1
      /\ UNCHANGED <<log, due, sent, split>>
  BY DEF Fail
<1>2. log' \in Seq(HubReports) /\ Grows /\ Rows' = Rows /\ EndsFollowStarts' /\ Numbered'
  BY <1>1, LogIsKept
<1>3. Typed'
  BY <1>1, <1>2 DEF IInv, Typed
<1>4. Whole'
  <2>1. ASSUME NEW s \in Steps \ split, NEW b \in waiting \cup {batch} PROVE WholeIn(b, s)'
    <3>1. WholeIn(b, s) /\ b \in SUBSET Rows
      BY DEF IInv, Whole, Typed
    <3> QED BY <1>1, <3>1, LogIsKept
  <2>2. ASSUME NEW s PROVE WholeIn(batch, s)'
    BY <1>1 DEF WholeIn, EndsOf
  <2> QED BY <1>1, <2>1, <2>2 DEF Whole
<1>5. AttemptsShown'
  <2>1. ASSUME NEW s \in Steps \ split, NEW n \in EndsOf(sent, s)
        PROVE  \E span \in dest' : HasShown(span, s, n)
    BY UpsertShows DEF IInv, AttemptsShown
  <2>2. ASSUME NEW s PROVE EndsOf(sent, s)' = EndsOf(sent, s)
    BY <1>1 DEF EndsOf
  <2> QED BY <1>1, <2>1, <2>2, LogIsKept DEF AttemptsShown
<1>6. faults' # 0
  BY <1>1 DEF IInv, Typed
<1> QED BY <1>2, <1>3, <1>4, <1>5, <1>6 DEF IInv

(* The destination takes it.                                               *)
LEMMA AcceptedKeeps == IInv /\ Accepted => IInv'
<1> SUFFICES ASSUME IInv, Accepted PROVE IInv'
  OBVIOUS
<1>1. /\ dest' = Upsert(Spans(batch)) /\ sent' = sent \cup batch /\ batch' = {}
      /\ UNCHANGED <<log, due, waiting, faults, split>>
  BY DEF Accepted
<1>2. log' \in Seq(HubReports) /\ Grows /\ Rows' = Rows /\ EndsFollowStarts' /\ Numbered'
  BY <1>1, LogIsKept
<1>3. Typed'
  BY <1>1, <1>2 DEF IInv, Typed
<1>4. Whole'
  <2>1. ASSUME NEW s \in Steps \ split, NEW b \in waiting PROVE WholeIn(b, s)'
    <3>1. WholeIn(b, s) /\ b \in SUBSET Rows
      BY DEF IInv, Whole, Typed
    <3> QED BY <1>1, <3>1, LogIsKept
  <2>2. ASSUME NEW s PROVE WholeIn(batch, s)'
    BY <1>1 DEF WholeIn, EndsOf
  <2> QED BY <1>1, <2>1, <2>2 DEF Whole
<1>5. AttemptsShown'
  <2>1. ASSUME NEW s \in Steps \ split, NEW n \in EndsOf(sent \cup batch, s)
        PROVE  \E span \in dest' : HasShown(span, s, n)
    BY <1>1, UpsertShows DEF EndsOf
  <2>2. ASSUME NEW s PROVE EndsOf(sent, s)' = EndsOf(sent \cup batch, s)
    BY <1>1 DEF EndsOf
  <2> QED BY <1>1, <2>1, <2>2, LogIsKept DEF AttemptsShown
<1>6. ASSUME faults' = 0 PROVE InTurn' /\ LastShown(sent, dest)'
  <2>1. InTurn /\ LastShown(sent, dest)
    BY <1>1, <1>6 DEF IInv
  <2>2. LastShown(sent \cup batch, Upsert(Spans(batch)))
    BY <2>1, UpsertKeepsLast
  <2>3. LastShown(sent \cup batch, dest')
    BY <1>1, <2>2
  <2>4. InTurn'
    BY <1>1, <2>1 DEF InTurn, Below
  <2>5. LastShown(sent, dest)'
    BY <1>1, <2>3 DEF LastShown, StepShown, SessionShown, RootShown,
                      EndsOf, UsageOf, Terminals, LastTold, StepId
  <2> QED BY <2>4, <2>5
<1> QED BY <1>2, <1>3, <1>4, <1>5, <1>6 DEF IInv

(* A row that failed becomes due again.                                    *)
LEMMA ElapseKeeps ==
  ASSUME IInv, NEW b \in waiting, Elapse(b)
  PROVE  IInv'
<1>1. /\ waiting' = waiting \ {b} /\ due' = due \cup b
      /\ UNCHANGED <<log, batch, sent, dest, faults, split>>
  BY DEF Elapse
<1>2. log' \in Seq(HubReports) /\ Grows /\ Rows' = Rows /\ EndsFollowStarts' /\ Numbered'
  BY <1>1, LogIsKept
<1>3. Typed'
  BY <1>1, <1>2 DEF IInv, Typed
<1>4. Whole'
  <2>1. ASSUME NEW s \in Steps \ split, NEW c \in waiting \cup {batch} PROVE WholeIn(c, s)'
    <3>1. WholeIn(c, s) /\ c \in SUBSET Rows
      BY DEF IInv, Whole, Typed
    <3> QED BY <1>1, <3>1, LogIsKept
  <2> QED BY <1>1, <2>1 DEF Whole, WholeIn, EndsOf
<1>5. AttemptsShown'
  BY <1>1, <1>2, ShownStays
<1>6. faults' # 0
  BY <1>1 DEF IInv, InTurn
<1> QED BY <1>2, <1>3, <1>4, <1>5, <1>6 DEF IInv

-----------------------------------------------------------------------------
(* Reports of the hub.                                                     *)

(* The hub reports.                                                        *)
LEMMA HubKeeps ==
  ASSUME IInv, \/ Created \/ \E s \in Steps : Started(s) \/ Ended(s) \/ JudgedStep(s)
               \/ \E x \in Sessions : Reported(x)
               \/ \E to \in {"completed", "failed"} : StatusChanged(to)
  PROVE  IInv'
<1>1. CASE Created
  <2>1. Receive([kind |-> "created"]) /\ [kind |-> "created"] \in HubReports
    BY <1>1 DEF Created, HubReports
  <2> QED BY <2>1, ReceiveKeeps DEF Ends
<1>2. ASSUME NEW s \in Steps, Started(s) PROVE IInv'
  <2>1. Len(log) \in Nat /\ \A a \in Attempts(s) : a \in Nat /\ a < Len(log)
    <3>1. \A n \in StartsOf(Rows, s) : log[n].attempt \in Nat /\ log[n].attempt < Len(log)
      <4> SUFFICES ASSUME NEW n \in StartsOf(Rows, s)
                   PROVE  log[n].attempt \in Nat /\ log[n].attempt < Len(log)
        OBVIOUS
      <4>1. n \in 1 .. Len(log) /\ log[n] \in HubReports /\ log[n].kind = "started" /\ Len(log) \in Nat
        BY LogTyped DEF IInv, StartsOf
      <4>2. log[n].attempt \in Nat
        BY <4>1 DEF HubReports, Ends
      <4>3. log[n].attempt < n
        BY DEF IInv, Numbered
      <4> QED BY <4>1, <4>2, <4>3
    <3> QED BY <3>1, LogTyped DEF Attempts, IInv
  <2>2. Attempts(s) # {} => Max(Attempts(s)) \in Attempts(s)
    <3>1. Attempts(s) \in SUBSET (0 .. Len(log))
      BY <2>1
    <3> QED BY <2>1, <3>1, Greatest
  <2>3. PICK a \in IF Attempts(s) = {} THEN {0} ELSE {Max(Attempts(s)), Max(Attempts(s)) + 1} :
          Receive([kind |-> "started", step |-> s, attempt |-> a])
    BY <1>2 DEF Started
  <2>4. a \in Nat /\ a <= Len(log)
    <3>1. CASE Attempts(s) = {}
      BY <2>1, <2>3, <3>1
    <3>2. CASE Attempts(s) # {}
      <4>1. PICK last \in Nat : last = Max(Attempts(s)) /\ last < Len(log)
        BY <2>1, <2>2, <3>2
      <4>2. a = last \/ a = last + 1
        BY <2>3, <3>2, <4>1
      <4> QED BY <2>1, <4>1, <4>2
    <3> QED BY <3>1, <3>2
  <2>5. [kind |-> "started", step |-> s, attempt |-> a] \in HubReports
    BY <2>4 DEF HubReports
  <2> QED BY <2>3, <2>4, <2>5, ReceiveKeeps DEF Ends
<1>3. ASSUME NEW s \in Steps, Ended(s) PROVE IInv'
  <2>1. PICK kind \in Ends : Receive([kind |-> kind, step |-> s])
    BY <1>3 DEF Ended
  <2>2. [kind |-> kind, step |-> s] \in HubReports
    BY DEF HubReports
  <2>3. StartsOf(Rows, s) # {}
    BY <1>3 DEF Ended, Running
  <2> QED BY <2>1, <2>2, <2>3, ReceiveKeeps DEF Ends
<1>4. ASSUME NEW s \in Steps, JudgedStep(s) PROVE IInv'
  <2>1. Receive([kind |-> "judged", step |-> s]) /\ [kind |-> "judged", step |-> s] \in HubReports
    BY <1>4 DEF JudgedStep, HubReports
  <2> QED BY <2>1, ReceiveKeeps DEF Ends
<1>5. ASSUME NEW x \in Sessions, Reported(x) PROVE IInv'
  <2>1. PICK total \in 1 .. MaxTotal : Receive([kind |-> "usage", session |-> x, total |-> total])
    BY <1>5 DEF Reported
  <2>2. [kind |-> "usage", session |-> x, total |-> total] \in HubReports
    BY DEF HubReports
  <2> QED BY <2>1, <2>2, ReceiveKeeps DEF Ends
<1>6. ASSUME NEW to \in {"completed", "failed"}, StatusChanged(to) PROVE IInv'
  <2>1. Receive([kind |-> "status", to |-> to]) /\ [kind |-> "status", to |-> to] \in HubReports
    BY <1>6 DEF StatusChanged, HubReports
  <2> QED BY <2>1, ReceiveKeeps DEF Ends
<1> QED BY <1>1, <1>2, <1>3, <1>4, <1>5, <1>6

(* The invariant holds in every behaviour.                                 *)
THEOREM Invariance == Spec => []IInv
<1>1. Init => IInv
  <2> SUFFICES ASSUME Init PROVE IInv
    OBVIOUS
  <2>1. log = << >> /\ Rows = {} /\ sent = {} /\ batch = {} /\ waiting = {} /\ due = {} /\ faults = 0
    BY DEF Init, Rows
  <2>2. Typed
    BY <2>1 DEF Typed
  <2>3. \A b \in SUBSET Rows : (\A s : EndsOf(b, s) = {}) /\ (\A x : UsageOf(b, x) = {}) /\ Terminals(b) = {}
    BY <2>1 DEF EndsOf, UsageOf, Terminals
  <2>4. EndsFollowStarts /\ Numbered /\ Whole /\ AttemptsShown
    BY <2>1, <2>3 DEF Numbered, StartsOf, EndsFollowStarts, Whole, WholeIn, AttemptsShown
  <2>5. InTurn /\ LastShown(sent, dest)
    BY <2>1, <2>3 DEF InTurn, Below, LastShown, StepShown, SessionShown, RootShown
  <2> QED BY <2>2, <2>4, <2>5 DEF IInv
<1>2. IInv /\ [Next]_vars => IInv'
  <2> SUFFICES ASSUME IInv, [Next]_vars PROVE IInv'
    OBVIOUS
  <2>1. CASE UNCHANGED vars
    <3>1. UNCHANGED <<log, due, waiting, batch, sent, dest, faults, split>>
      BY <2>1 DEF vars
    <3>2. log' \in Seq(HubReports) /\ Grows /\ Rows' = Rows /\ EndsFollowStarts' /\ Numbered'
      BY <3>1, LogIsKept
    <3>3. Typed' /\ (InTurn => InTurn')
      BY <3>1, <3>2 DEF IInv, Typed, InTurn, Below
    <3>4. Whole'
      <4>1. ASSUME NEW s \in Steps \ split, NEW b \in waiting \cup {batch} PROVE WholeIn(b, s)'
        <5>1. WholeIn(b, s) /\ b \in SUBSET Rows
          BY DEF IInv, Whole, Typed
        <5> QED BY <3>1, <5>1, LogIsKept
      <4> QED BY <3>1, <4>1 DEF Whole, WholeIn, EndsOf
    <3>5. AttemptsShown' /\ (LastShown(sent, dest) => LastShown(sent, dest)')
      BY <3>1, <3>2, ShownStays
    <3> QED BY <3>1, <3>2, <3>3, <3>4, <3>5 DEF IInv
  <2>2. CASE Claim
    BY <2>2, ClaimKeeps
  <2>3. CASE Accepted
    BY <2>3, AcceptedKeeps
  <2>4. CASE Refused
    BY <2>4, FailKeeps DEF Refused
  <2>5. CASE AnswerLost
    BY <2>5, FailKeeps DEF AnswerLost
  <2>6. CASE \E b \in waiting : Elapse(b)
    BY <2>6, ElapseKeeps
  <2> QED BY <2>1, <2>2, <2>3, <2>4, <2>5, <2>6, HubKeeps DEF Next
<1> QED BY <1>1, <1>2, PTL DEF Spec

(* A re-sent, delayed or reordered batch never loses an attempt of a step  *)
(* or shows one in another's place, as long as no batch tore an end from   *)
(* its start; for any number of steps, batches and faults.                 *)
THEOREM AttemptsKeptHolds == Spec => []AttemptsKept
<1>1. IInv => AttemptsKept
  BY DEF IInv, AttemptsShown, AttemptsKept, HasShown
<1> QED BY <1>1, Invariance, PTL

(* Wherever the batches were cut, the destination shows the last word of   *)
(* every step, session and workflow that was sent, as long as none failed. *)
THEOREM LastWordHolds == Spec => []LastWordKept
<1>1. IInv => LastWordKept
  <2> SUFFICES ASSUME LastShown(sent, dest)
               PROVE  /\ \A s \in Steps : EndsOf(sent, s) # {} =>
                           \E span \in dest : span.id[1] = "step" /\ span.end = Max(EndsOf(sent, s))
                      /\ \A x \in Sessions : UsageOf(sent, x) # {} =>
                           \E span \in dest : span.id = <<"session", x>> /\ span.usage = LastTold(sent, x)
                      /\ Terminals(sent) # {} =>
                           \E span \in dest : span.id = <<"root">> /\ span.status = log[Max(Terminals(sent))].to
    BY DEF IInv, LastWordKept
  <2>1. \A s, a : StepId(s, a)[1] = "step"
    BY DEF StepId
  <2> QED BY <2>1 DEF LastShown, StepShown, SessionShown, RootShown
<1> QED BY <1>1, Invariance, PTL

-----------------------------------------------------------------------------
(* The totals of a session only grow, and the workflow's span shows no     *)
(* more than what all sessions last told.                                  *)
TotalsRise ==
  \A x \in Sessions : \A m, n \in UsageOf(Rows, x) : m <= n => log[m].total <= log[n].total

Told == Totals(log, Rows, Reporting(Rows))
RootBelow(span, told) == span.id = <<"root">> => span.usage \in Nat /\ span.usage <= told
RootsBelow == \A span \in dest : RootBelow(span, Told)

LEMMA UsageTyped ==
  ASSUME Typed, NEW x, NEW n \in UsageOf(Rows, x)
  PROVE  n \in Rows /\ n \in Nat /\ log[n].total \in Nat
<1>1. n \in Rows /\ log[n].kind = "usage"
  BY DEF UsageOf
<1>2. log[n] \in HubReports /\ n \in Nat
  BY <1>1, LogTyped
<1> QED BY <1>1, <1>2, BoundAssumption DEF HubReports, Ends

(* A session that told something in some rows.                             *)
LEMMA TotalIs ==
  ASSUME Typed, NEW b \in SUBSET Rows, NEW x \in Reporting(b)
  PROVE  /\ Max(UsageOf(b, x)) \in UsageOf(b, x) /\ UsageOf(b, x) \subseteq UsageOf(Rows, x)
         /\ TotalIn(log, b, x) = log[Max(UsageOf(b, x))].total
         /\ TotalIn(log, b, x) \in Nat
<1>1. UsageOf(b, x) # {} /\ UsageOf(b, x) \in SUBSET Rows /\ UsageOf(b, x) \subseteq UsageOf(Rows, x)
  BY PartsOfBatch DEF Reporting
<1>2. Max(UsageOf(b, x)) \in UsageOf(b, x)
  BY <1>1, LatestRow
<1>3. TotalIn(log, b, x) = log[Max(UsageOf(b, x))].total
  BY DEF TotalIn, UsageOf
<1> QED BY <1>1, <1>2, <1>3, UsageTyped

(* Whoever reports in finitely many rows, they are finitely many.          *)
LEMMA FewNamed ==
  ASSUME NEW lg, NEW D, IsFiniteSet(D)
  PROVE  IsFiniteSet({lg[n].session : n \in D})
<1> DEFINE T == {lg[n].session : n \in D}
           name == [n \in D |-> lg[n].session]
<1>1. name \in [D -> T] /\ \A t \in T : \E n \in D : name[n] = t
  OBVIOUS
<1>2. name \in Surjection(D, T)
  <2> HIDE DEF T, name
  <2> QED BY <1>1 DEF Surjection
<1> HIDE DEF T, name
<1>3. IsFiniteSet(T)
  BY <1>2, FS_Surjection
<1> QED BY <1>3 DEF T

LEMMA FewReport ==
  ASSUME Typed, NEW b \in SUBSET Rows
  PROVE  IsFiniteSet(Reporting(b)) /\ Reporting(b) \subseteq Reporting(Rows) /\ Reporting(b) \subseteq Sessions
<1> DEFINE named == {log[n].session : n \in Rows}
<1>1. IsFiniteSet(Rows)
  BY LogTyped, FS_Interval
<1>2. IsFiniteSet(named)
  BY <1>1, FewNamed
<1>3. Reporting(b) \subseteq named
  BY DEF Reporting, UsageOf
<1>4. Reporting(b) \subseteq Reporting(Rows) /\ Reporting(b) \subseteq Sessions
  BY DEF Reporting, UsageOf
<1> HIDE DEF named
<1> QED BY <1>2, <1>3, <1>4, FS_Subset

(* What a batch adds up.                                                   *)
LEMMA BatchBelow ==
  ASSUME Typed, TotalsRise, NEW b \in SUBSET Rows
  PROVE  Totals(log, b, Reporting(b)) \in Nat /\ Told \in Nat /\ Totals(log, b, Reporting(b)) <= Told
<1>1. /\ IsFiniteSet(Reporting(Rows)) /\ Reporting(b) \subseteq Reporting(Rows)
      /\ Reporting(b) \subseteq Sessions /\ Rows \in SUBSET Rows
  BY FewReport
<1>2. ASSUME NEW x \in Reporting(b)
      PROVE  TotalIn(log, b, x) \in Nat /\ TotalIn(log, b, x) <= TotalIn(log, Rows, x)
  <2>1. x \in Reporting(Rows) /\ x \in Sessions
    BY <1>1
  <2>2. /\ Max(UsageOf(b, x)) \in UsageOf(Rows, x) /\ Max(UsageOf(Rows, x)) \in UsageOf(Rows, x)
        /\ TotalIn(log, b, x) = log[Max(UsageOf(b, x))].total
        /\ TotalIn(log, Rows, x) = log[Max(UsageOf(Rows, x))].total
        /\ TotalIn(log, b, x) \in Nat
    BY <1>1, <2>1, TotalIs
  <2>3. Max(UsageOf(b, x)) <= Max(UsageOf(Rows, x))
    BY <2>2, PartsOfBatch, LatestRow
  <2> QED BY <2>1, <2>2, <2>3 DEF TotalsRise
<1>3. \A x \in Reporting(Rows) : TotalIn(log, Rows, x) \in Nat
  BY <1>1, TotalIs
<1> QED BY <1>1, <1>2, <1>3, TotalsGrow DEF Told

(* And its root span shows.                                                *)
LEMMA BatchRootBelow ==
  ASSUME Typed, TotalsRise, NEW b \in SUBSET Rows, NEW span \in Spans(b)
  PROVE  RootBelow(span, Told)
<1>1. CASE span \in RootSpan(b)
  <2>1. span.usage = Totals(log, b, Reporting(b))
    <3>1. span.usage = MapThenSumSet(LAMBDA x : SessionTotal(b, x), Reporting(b))
      BY <1>1 DEF RootSpan
    <3> QED BY <3>1 DEF Totals, TotalIn, SessionTotal, UsageOf, MapThenSumSet, MapThenFoldSet
  <2> QED BY <2>1, BatchBelow DEF RootBelow
<1>2. CASE span \in StepSpans(b)
  <2>1. \E t \in Steps : \E k \in Kept(b, t) : span.id = StepId(t, Attempt(b, k))
    BY <1>2 DEF StepSpans
  <2> QED BY <2>1 DEF StepId, RootBelow
<1>3. CASE span \in SessionSpans(b)
  <2>1. PICK y \in Reporting(b) : span.id = <<"session", y>>
    BY <1>3 DEF SessionSpans
  <2> QED BY <2>1 DEF RootBelow
<1> QED BY <1>1, <1>2, <1>3 DEF Spans

(* A report adds to what was told.                                         *)
LEMMA ReportBelow ==
  ASSUME Typed, TotalsRise, RootsBelow, NEW event \in HubReports, Receive(event),
         event.kind = "usage" => \A n \in UsageOf(Rows, event.session) : log[n].total <= event.total
  PROVE  TotalsRise' /\ RootsBelow'
<1> DEFINE new == Len(log) + 1
<1>1. /\ Len(log) \in Nat /\ Rows = 1 .. Len(log) /\ log' = Append(log, event) /\ dest' = dest
      /\ log \in Seq(HubReports)
  BY LogTyped DEF Receive, Typed
<1>2. /\ Rows' = Rows \cup {new} /\ new \notin Rows /\ new \in Nat /\ log'[new] = event
      /\ \A n \in Rows : log'[n] = log[n] /\ n \in Nat /\ n < new
      /\ log' \in Seq(HubReports)
  <2>1. log' \in Seq(HubReports) /\ Len(log') = new /\ log'[new] = event /\ \A n \in 1 .. Len(log) : log'[n] = log[n]
    BY <1>1, AppendProperties
  <2>2. Rows' = 1 .. new
    BY <2>1, LenProperties DEF Rows
  <2>3. 1 .. new = Rows \cup {new} /\ new \notin Rows /\ new \in Nat /\ \A n \in Rows : n \in Nat /\ n < new
    BY <1>1
  <2> QED BY <1>1, <2>1, <2>2, <2>3
<1> HIDE DEF new
<1>3. \A x : UsageOf(Rows, x)' = UsageOf(Rows, x) \cup (IF event.kind = "usage" /\ event.session = x THEN {new} ELSE {})
  BY <1>2 DEF UsageOf
<1>4. TotalsRise'
  <2> SUFFICES ASSUME NEW x \in Sessions, NEW m \in UsageOf(Rows, x)', NEW n \in UsageOf(Rows, x)', m <= n
               PROVE  log'[m].total <= log'[n].total
    BY DEF TotalsRise
  <2>1. CASE m \in UsageOf(Rows, x) /\ n \in UsageOf(Rows, x)
    <3>1. m \in Rows /\ n \in Rows
      BY <2>1, UsageTyped
    <3> QED BY <1>2, <2>1, <3>1 DEF TotalsRise
  <2>2. CASE n \notin UsageOf(Rows, x)
    <3>1. n = new /\ event.kind = "usage" /\ event.session = x
      BY <1>3, <2>2
    <3>2. event.total \in Nat
      BY <3>1, BoundAssumption DEF HubReports, Ends
    <3>3. CASE m = new
      BY <1>2, <3>1, <3>2, <3>3
    <3>4. CASE m \in UsageOf(Rows, x)
      <4>1. m \in Rows
        BY <3>4, UsageTyped
      <4> QED BY <1>2, <3>1, <3>4, <4>1
    <3> QED BY <1>3, <3>3, <3>4
  <2>3. CASE m \notin UsageOf(Rows, x) /\ n \in UsageOf(Rows, x)
    <3>1. m = new /\ n \in Rows /\ n < new
      BY <1>2, <1>3, <2>3, UsageTyped
    <3> QED BY <1>2, <3>1
  <2> QED BY <2>1, <2>2, <2>3
<1>6. Told \in Nat /\ Told' \in Nat /\ Told <= Told'
  <2> DEFINE R == Reporting(Rows)
             T == Reporting(Rows)'
  <2>1. R \subseteq T /\ IsFiniteSet(T) /\ R \subseteq Sessions /\ T \subseteq Sessions
    <3>1. R \subseteq T
      BY <1>3 DEF Reporting
    <3>2. (IsFiniteSet(Reporting(Rows)) /\ Reporting(Rows) \subseteq Sessions)'
      <4>1. IsFiniteSet(Rows')
        <5>1. IsFiniteSet(Rows)
          BY <1>1, FS_Interval
        <5> QED BY <1>2, <5>1, FS_AddElement
      <4>2. IsFiniteSet({log'[n].session : n \in Rows'})
        BY <4>1, FewNamed
      <4>3. T \subseteq {log'[n].session : n \in Rows'} /\ T \subseteq Sessions
        BY DEF Reporting, UsageOf
      <4> HIDE DEF T
      <4> QED BY <4>2, <4>3, FS_Subset DEF T
    <3> QED BY <3>1, <3>2
  <2>2. ASSUME NEW x \in T
        PROVE  /\ TotalIn(log', Rows', x) = log'[Max(UsageOf(Rows, x)')].total
               /\ Max(UsageOf(Rows, x)') \in UsageOf(Rows, x)'
               /\ \A n \in UsageOf(Rows, x)' : n <= Max(UsageOf(Rows, x)')
               /\ TotalIn(log', Rows', x) \in Nat
    <3>1. UsageOf(Rows, x)' # {} /\ UsageOf(Rows, x)' \in SUBSET (0 .. new)
      <4>1. UsageOf(Rows, x)' # {}
        BY DEF Reporting
      <4>2. UsageOf(Rows, x)' \subseteq Rows'
        BY DEF UsageOf
      <4>3. Rows' \subseteq 0 .. new
        BY <1>2
      <4> QED BY <4>1, <4>2, <4>3
    <3>2. /\ Max(UsageOf(Rows, x)') \in UsageOf(Rows, x)'
          /\ \A n \in UsageOf(Rows, x)' : n <= Max(UsageOf(Rows, x)')
      BY <1>2, <3>1, Greatest
    <3>3. TotalIn(log', Rows', x) = log'[Max(UsageOf(Rows, x)')].total
      BY DEF TotalIn, UsageOf
    <3>4. \A n \in UsageOf(Rows, x)' : log'[n].total \in Nat
      <4> SUFFICES ASSUME NEW n \in UsageOf(Rows, x)' PROVE log'[n].total \in Nat
        OBVIOUS
      <4>1. CASE n \in UsageOf(Rows, x)
        BY <1>2, <4>1, UsageTyped
      <4>2. CASE n \notin UsageOf(Rows, x)
        <5>1. n = new /\ event.kind = "usage"
          BY <1>3, <4>2
        <5> QED BY <1>2, <5>1, BoundAssumption DEF HubReports, Ends
      <4> QED BY <4>1, <4>2
    <3> QED BY <3>2, <3>3, <3>4
  <2>3. ASSUME NEW x \in R
        PROVE  TotalIn(log, Rows, x) \in Nat /\ TotalIn(log, Rows, x) <= TotalIn(log', Rows', x)
    <3> DEFINE m == Max(UsageOf(Rows, x))
               n == Max(UsageOf(Rows, x)')
    <3>1. /\ m \in UsageOf(Rows, x) /\ TotalIn(log, Rows, x) = log[m].total
          /\ TotalIn(log, Rows, x) \in Nat
      BY TotalIs
    <3>2. x \in T /\ x \in Sessions
      BY <2>1
    <3>3. /\ n \in UsageOf(Rows, x)' /\ m \in UsageOf(Rows, x)' /\ m <= n
          /\ TotalIn(log', Rows', x) = log'[n].total
      BY <1>3, <2>2, <3>1, <3>2
    <3>4. log'[m].total <= log'[n].total
      <4> HIDE DEF m, n
      <4> QED BY <1>4, <3>2, <3>3 DEF TotalsRise
    <3>5. log'[m] = log[m]
      BY <1>2, <3>1, UsageTyped
    <3> HIDE DEF m, n
    <3> QED BY <3>1, <3>3, <3>4, <3>5
  <2>4. Told \in Nat
    BY BatchBelow
  <2>5. Told' = Totals(log', Rows', T)
    BY DEF Told, Totals, TotalIn, MapThenSumSet, MapThenFoldSet
  <2> HIDE DEF R, T
  <2>6. Totals(log, Rows, R) <= Totals(log', Rows', T) /\ Totals(log', Rows', T) \in Nat
    BY <2>1, <2>2, <2>3, TotalsGrow
  <2> QED BY <2>4, <2>5, <2>6 DEF Told, R
<1>7. RootsBelow'
  <2> SUFFICES ASSUME NEW span \in dest, span.id = <<"root">>
               PROVE  span.usage \in Nat /\ span.usage <= Told'
    BY <1>1 DEF RootsBelow, RootBelow
  <2>1. span.usage \in Nat /\ span.usage <= Told
    BY DEF RootsBelow, RootBelow
  <2> QED BY <2>1, <1>6
<1> QED BY <1>4, <1>7

LEMMA NothingTwiceKeeps ==
  ASSUME IInv, TotalsRise, RootsBelow, [Next]_vars
  PROVE  TotalsRise' /\ RootsBelow'
<1>0. Typed /\ batch \in SUBSET Rows
  BY DEF IInv, Typed
<1>1. ASSUME UNCHANGED <<log, dest>> PROVE TotalsRise' /\ RootsBelow'
  <2>1. log' = log /\ dest' = dest
    BY <1>1
  <2>2. Told' = Told /\ TotalsRise'
    BY <2>1 DEF TotalsRise, Told, Rows, UsageOf, Reporting, Totals, TotalIn, MapThenSumSet, MapThenFoldSet
  <2> QED BY <2>1, <2>2 DEF RootsBelow
<1>2. ASSUME log' = log, dest' = Upsert(Spans(batch)) PROVE TotalsRise' /\ RootsBelow'
  <2>1. Told' = Told /\ TotalsRise'
    BY <1>2 DEF TotalsRise, Told, Rows, UsageOf, Reporting, Totals, TotalIn, MapThenSumSet, MapThenFoldSet
  <2>2. \A span \in Spans(batch) : RootBelow(span, Told)
    BY <1>0, BatchRootBelow
  <2>3. \A span \in dest' : RootBelow(span, Told)
    BY <1>2, <2>2 DEF Upsert, RootsBelow
  <2> QED BY <2>1, <2>3 DEF RootsBelow
<1>3. CASE Created
  <2>1. Receive([kind |-> "created"]) /\ [kind |-> "created"] \in HubReports
    BY <1>3 DEF Created, HubReports
  <2> QED BY <2>1, <1>0, ReportBelow
<1>4. ASSUME NEW s \in Steps, Started(s) PROVE TotalsRise' /\ RootsBelow'
  <2>1. PICK a : Receive([kind |-> "started", step |-> s, attempt |-> a])
    BY <1>4 DEF Started
  <2>2. [kind |-> "started", step |-> s, attempt |-> a] \in HubReports
    <3>1. log' = Append(log, [kind |-> "started", step |-> s, attempt |-> a]) /\ log \in Seq(HubReports)
      BY <1>0, <2>1 DEF Receive, Typed
    <3>2. IInv'
      BY <1>4, HubKeeps
    <3>3. log'[Len(log) + 1] = [kind |-> "started", step |-> s, attempt |-> a] /\ Len(log) + 1 \in 1 .. Len(log')
      BY <3>1, AppendProperties, LenProperties
    <3>4. log' \in Seq(HubReports)
      BY <3>2 DEF IInv, Typed
    <3> QED BY <3>3, <3>4
  <2> QED BY <2>1, <2>2, <1>0, ReportBelow
<1>5. ASSUME NEW s \in Steps, Ended(s) PROVE TotalsRise' /\ RootsBelow'
  <2>1. PICK kind \in Ends : Receive([kind |-> kind, step |-> s])
    BY <1>5 DEF Ended
  <2>2. [kind |-> kind, step |-> s] \in HubReports /\ kind # "usage"
    BY DEF HubReports, Ends
  <2> QED BY <2>1, <2>2, <1>0, ReportBelow
<1>6. ASSUME NEW s \in Steps, JudgedStep(s) PROVE TotalsRise' /\ RootsBelow'
  <2>1. Receive([kind |-> "judged", step |-> s]) /\ [kind |-> "judged", step |-> s] \in HubReports
    BY <1>6 DEF JudgedStep, HubReports
  <2> QED BY <2>1, <1>0, ReportBelow
<1>7. ASSUME NEW x \in Sessions, Reported(x) PROVE TotalsRise' /\ RootsBelow'
  <2>1. PICK total \in 1 .. MaxTotal : /\ \A n \in UsageOf(Rows, x) : log[n].total <= total
                                       /\ Receive([kind |-> "usage", session |-> x, total |-> total])
    BY <1>7 DEF Reported
  <2>2. [kind |-> "usage", session |-> x, total |-> total] \in HubReports
    BY DEF HubReports
  <2> QED BY <2>1, <2>2, <1>0, ReportBelow
<1>8. ASSUME NEW to \in {"completed", "failed"}, StatusChanged(to) PROVE TotalsRise' /\ RootsBelow'
  <2>1. Receive([kind |-> "status", to |-> to]) /\ [kind |-> "status", to |-> to] \in HubReports
    BY <1>8 DEF StatusChanged, HubReports
  <2> QED BY <2>1, <1>0, ReportBelow
<1>9. CASE Claim
  BY <1>1, <1>9 DEF Claim
<1>10. CASE Accepted
  BY <1>2, <1>10 DEF Accepted
<1>11. CASE Refused
  BY <1>1, <1>11 DEF Refused, Fail
<1>12. CASE AnswerLost
  BY <1>2, <1>12 DEF AnswerLost, Fail
<1>13. CASE \E b \in waiting : Elapse(b)
  BY <1>1, <1>13 DEF Elapse
<1>14. CASE UNCHANGED vars
  BY <1>1, <1>14 DEF vars
<1> QED BY <1>3, <1>4, <1>5, <1>6, <1>7, <1>8, <1>9, <1>10, <1>11, <1>12, <1>13, <1>14 DEF Next

(* Whatever is sent again, late or in another order, the workflow's span   *)
(* counts no session twice; and as long as nothing failed the destination  *)
(* shows the last word of all that was sent.                               *)
THEOREM LastWordShownHolds == Spec => []LastWordShown
<1>1. Init => TotalsRise /\ RootsBelow
  BY DEF Init, TotalsRise, RootsBelow, UsageOf, Rows
<1>2. IInv /\ (TotalsRise /\ RootsBelow) /\ [Next]_vars => (TotalsRise /\ RootsBelow)'
  BY NothingTwiceKeeps
<1>3. RootsBelow => NothingCountedTwice
  BY DEF RootsBelow, RootBelow, NothingCountedTwice, Told, Totals, TotalIn, LastTold, UsageOf, MapThenSumSet, MapThenFoldSet
<1>4. LastWordKept /\ NothingCountedTwice => LastWordShown
  BY DEF LastWordShown
<1> QED BY <1>1, <1>2, <1>3, <1>4, Invariance, LastWordHolds, PTL DEF Spec

-----------------------------------------------------------------------------
(* The events of Activity.                                                 *)
Said == UNION {Reports[d] : d \in Devices \cup {None}}
Event == [what : Said, inst : Instances, device : Devices \cup {None},
          owner : Owners \cup {None}, at : Nat]

(* A workflow whose first event has an owner has no event of another.      *)
FirstOf(ev, i) == \A k \in DOMAIN ev : ev[k].what.wf = ev[i].what.wf => i <= k
OwnersKept(ev) ==
  \A i, j \in DOMAIN ev :
    (FirstOf(ev, i) /\ ev[i].what.wf = ev[j].what.wf /\ ev[i].owner # None) => ev[j].owner = ev[i].owner

LinksKept(ev) ==
  \A i, j \in DOMAIN ev :
    (i < j /\ ev[i].inst = ev[j].inst /\ ev[i].device # None) => ev[j].device = ev[i].device

(* Only linked instances have events of a device, and of their own.        *)
FromLinked(ev, linked) ==
  \A i \in DOMAIN ev : ev[i].device # None => ev[i].device = ev[i].inst /\ ev[i].inst \in linked

Histories(linked) ==
  {ev \in Seq(Event) : OwnersKept(ev) /\ LinksKept(ev) /\ FromLinked(ev, linked)}

Linked == {i \in Instances : instances[i].device # None}
LinkedWith(c) == Linked \cup IF c.device = None THEN {} ELSE {c.inst}

ActivityInv ==
  /\ events \in Histories(Linked)
  /\ instances \in [Instances -> [device : Devices \cup {None}, owner : Owners \cup {None}, count : Int]]

(* Whoever authenticates, and what may be reported.                        *)
LEMMA ClientTyped ==
  ASSUME NEW c \in Clients
  PROVE  /\ c.inst \in Instances /\ c.device \in Devices \cup {None} /\ AccountOf(c) \in Owners \cup {None}
         /\ c.device # None => c.inst = c.device
         /\ Reports[c.device] \subseteq Said
BY DeviceAssumption DEF Clients, Instances, AccountOf, Owners, Said

(* Of some events one is the first to be read.                             *)
LEMMA EarliestExists ==
  ASSUME NEW ev \in Seq(Event), NEW S \in SUBSET DOMAIN ev, S # {}
  PROVE  \E i \in S : \A j \in S \ {i} : Before(ev, i, j)
<1> DEFINE T == {ev[i].at : i \in S}
<1>1. \A i \in S : i \in Nat /\ ev[i].at \in Nat
  <2> TAKE i \in S
  <2>1. i \in 1 .. Len(ev) /\ Len(ev) \in Nat
    BY LenProperties
  <2>2. ev[i] \in Event
    BY <2>1, ElementOfSeq
  <2> QED BY <2>1, <2>2 DEF Event
<1>2. T \in SUBSET Nat /\ T # {}
  BY <1>1
<1>3. PICK t \in T : \A u \in T : t <= u
  <2> HIDE DEF T
  <2> QED BY <1>2, LeastNat
<1> DEFINE E == {i \in S : ev[i].at = t}
<1>4. E \in SUBSET Nat /\ E # {}
  BY <1>1, <1>3
<1>5. PICK i \in E : \A j \in E : i <= j
  <2> HIDE DEF E
  <2> QED BY <1>4, LeastNat
<1>6. ASSUME NEW j \in S \ {i} PROVE Before(ev, i, j)
  <2>1. ev[i].at = t /\ t <= ev[j].at /\ ev[j].at \in Nat /\ t \in Nat /\ i \in Nat /\ j \in Nat
    BY <1>1, <1>2, <1>3, <1>5, <1>6
  <2>2. ev[j].at = t => i < j
    BY <1>5, <1>6, <2>1
  <2> QED BY <2>1, <2>2 DEF Before
<1> QED BY <1>5, <1>6

(* One event more.                                                         *)
LEMMA StoreKeeps ==
  ASSUME NEW c \in Clients, NEW item \in Said \cup {Resent}, NEW at \in Nat,
         NEW linked, c.device = None => c.inst \notin linked, c.device # None => c.inst \in linked,
         NEW ev \in Histories(linked)
  PROVE  StoreEvent(ev, c, item, at) \in Histories(linked)
<1> DEFINE e == [what |-> item, inst |-> c.inst, device |-> c.device, owner |-> AccountOf(c), at |-> at]
           new == Append(ev, e)
           n == Len(ev) + 1
<1>1. CASE item = Resent \/ ~OwnerAllows(WorkflowOwner(ev, item.wf), AccountOf(c))
  BY <1>1 DEF StoreEvent
<1>2. CASE ~(item = Resent \/ ~OwnerAllows(WorkflowOwner(ev, item.wf), AccountOf(c)))
  <2>1. StoreEvent(ev, c, item, at) = new
    BY <1>2 DEF StoreEvent
  <2>2. e \in Event
    BY <1>2, ClientTyped DEF Event
  <2>3. ev \in Seq(Event) /\ OwnersKept(ev) /\ LinksKept(ev) /\ FromLinked(ev, linked)
    BY DEF Histories
  <2>4. /\ new \in Seq(Event) /\ n \in Nat /\ DOMAIN new = 1 .. n /\ DOMAIN ev = 1 .. n - 1
        /\ new[n] = e /\ \A i \in 1 .. n - 1 : new[i] = ev[i]
    BY <2>2, <2>3
  <2> HIDE DEF new, n
  <2>5. OwnersKept(new)
    <3> SUFFICES ASSUME NEW i \in DOMAIN new, NEW j \in DOMAIN new,
                        FirstOf(new, i), new[i].what.wf = new[j].what.wf, new[i].owner # None
                 PROVE  new[j].owner = new[i].owner
      BY DEF OwnersKept
    <3>1. CASE i = n
      <4>1. i <= j
        BY DEF FirstOf
      <4> QED BY <3>1, <4>1, <2>4
    <3>2. CASE i # n /\ j # n
      <4>1. i \in DOMAIN ev /\ j \in DOMAIN ev /\ new[i] = ev[i] /\ new[j] = ev[j]
        BY <3>2, <2>4
      <4>2. FirstOf(ev, i)
        BY <4>1, <2>4 DEF FirstOf
      <4> QED BY <4>1, <4>2, <2>3 DEF OwnersKept
    <3>3. CASE i # n /\ j = n
      <4> DEFINE S == {k \in DOMAIN ev : ev[k].what.wf = item.wf}
                 k0 == CHOOSE k \in S : \A l \in S \ {k} : Before(ev, k, l)
      <4>1. i \in DOMAIN ev /\ new[i] = ev[i] /\ i \in S
        BY <3>3, <2>4
      <4>2. FirstOf(ev, i)
        BY <4>1, <2>4 DEF FirstOf
      <4>3. k0 \in S
        BY <4>1, <2>3, EarliestExists
      <4>4. ev[k0].owner = ev[i].owner
        BY <4>1, <4>2, <4>3, <2>3 DEF OwnersKept
      <4>5. WorkflowOwner(ev, item.wf) = [exists |-> TRUE, owner |-> ev[k0].owner]
        BY <4>1 DEF WorkflowOwner
      <4>6. AccountOf(c) = ev[k0].owner
        BY <1>2, <4>1, <4>4, <4>5 DEF OwnerAllows
      <4> QED BY <3>3, <4>1, <4>4, <4>6, <2>4
    <3> QED BY <3>1, <3>2, <3>3
  <2>6. FromLinked(new, linked)
    <3>1. ASSUME NEW i \in DOMAIN new, new[i].device # None
          PROVE  new[i].device = new[i].inst /\ new[i].inst \in linked
      <4>1. CASE i = n
        BY <4>1, <3>1, <2>4, ClientTyped
      <4>2. CASE i # n
        <5>1. i \in DOMAIN ev /\ new[i] = ev[i]
          BY <4>2, <2>4
        <5> QED BY <5>1, <3>1, <2>3 DEF FromLinked
      <4> QED BY <4>1, <4>2
    <3> QED BY <3>1 DEF FromLinked
  <2>7. LinksKept(new)
    <3> SUFFICES ASSUME NEW i \in DOMAIN new, NEW j \in DOMAIN new,
                        i < j, new[i].inst = new[j].inst, new[i].device # None
                 PROVE  new[j].device = new[i].device
      BY DEF LinksKept
    <3>1. i \in DOMAIN ev /\ new[i] = ev[i]
      BY <2>4
    <3>2. CASE j # n
      <4>1. j \in DOMAIN ev /\ new[j] = ev[j]
        BY <3>2, <2>4
      <4> QED BY <3>1, <4>1, <2>3 DEF LinksKept
    <3>3. CASE j = n
      <4>1. ev[i].device = ev[i].inst /\ ev[i].inst \in linked
        BY <3>1, <2>3 DEF FromLinked
      <4>2. c.inst = ev[i].inst /\ new[j].device = c.device
        BY <3>1, <3>3, <2>4
      <4> QED BY <3>1, <4>1, <4>2, ClientTyped
    <3> QED BY <3>2, <3>3
  <2> QED BY <2>1, <2>4, <2>5, <2>6, <2>7 DEF Histories
<1> QED BY <1>1, <1>2

(* A batch leaves what its events leave one after the other.               *)
LEMMA BatchStays ==
  ASSUME NEW c \in Clients, NEW at \in Nat, NEW n \in Nat, NEW items \in [1 .. n -> Items(c)],
         NEW W, events \in W,
         \A item \in Said \cup {Resent} : \A ev \in W : StoreEvent(ev, c, item, at) \in W
  PROVE  Stored(c, items, at) \in W
<1> DEFINE step == [i \in 1 .. n |-> [ev \in W |-> StoreEvent(ev, c, items[i], at)]]
           Eq(f) == f = [k \in 0 .. Len(items) |-> IF k = 0 THEN events ELSE StoreEvent(f[k - 1], c, items[k], at)]
<1>1. \A i \in 1 .. n : items[i] \in Said \cup {Resent}
  BY ClientTyped DEF Items
<1>2. step \in [1 .. n -> [W -> W]]
  <2>1. \A i \in 1 .. n : \A ev \in W : StoreEvent(ev, c, items[i], at) \in W
    BY <1>1
  <2> QED BY <2>1
<1>3. PICK f : Follows(f, W, events, n, step)
  <2> HIDE DEF step
  <2> QED BY <1>2, StepsExist
<1>a. f \in [0 .. n -> W] /\ f[0] = events /\ \A i \in 1 .. n : f[i] = step[i][f[i - 1]]
  BY <1>3 DEF Follows
<1>4. Len(items) = n
  BY LenProperties
<1>5. Eq(f)
  <2>1. \A k \in 1 .. n : f[k] = StoreEvent(f[k - 1], c, items[k], at)
    <3> TAKE k \in 1 .. n
    <3>1. k - 1 \in 0 .. n
      OBVIOUS
    <3> QED BY <3>1, <1>a
  <2> QED BY <2>1, <1>a, <1>4
<1>6. Stored(c, items, at) = (CHOOSE g : Eq(g))[Len(items)]
  BY DEF Stored
<1>7. ASSUME NEW g, Eq(g) PROVE \A k \in 0 .. n : g[k] = f[k]
  <2> DEFINE Bad == {k \in 0 .. n : g[k] # f[k]}
  <2>1. SUFFICES ASSUME Bad # {} PROVE FALSE
    OBVIOUS
  <2>2. PICK k \in Bad : \A j \in Bad : k <= j
    <3>1. Bad \in SUBSET Nat
      OBVIOUS
    <3> HIDE DEF Bad
    <3> QED BY <3>1, <2>1, LeastNat
  <2>3. k \in 0 .. n /\ g[k] # f[k]
    BY <2>2
  <2>4. g[k] = IF k = 0 THEN events ELSE StoreEvent(g[k - 1], c, items[k], at)
    BY <1>7, <1>4, <2>3
  <2>5. f[k] = IF k = 0 THEN events ELSE StoreEvent(f[k - 1], c, items[k], at)
    BY <1>5, <1>4, <2>3
  <2>6. k # 0
    BY <2>3, <2>4, <2>5
  <2>7. g[k - 1] = f[k - 1]
    <3>1. k - 1 \in 0 .. n /\ ~(k <= k - 1)
      BY <2>3, <2>6
    <3> QED BY <3>1, <2>2
  <2> QED BY <2>3, <2>4, <2>5, <2>6, <2>7
<1>8. Stored(c, items, at) = f[n]
  <2>1. Eq(CHOOSE g : Eq(g))
    <3> HIDE DEF Eq
    <3> QED BY <1>5
  <2> HIDE DEF Eq
  <2> QED BY <2>1, <1>6, <1>7, <1>4
<1> QED BY <1>8, <1>a

LEMMA BatchKeeps ==
  ASSUME NEW c \in Clients, NEW at \in Nat, NEW n \in Nat, NEW items \in [1 .. n -> Items(c)],
         NEW linked, c.device = None => c.inst \notin linked, c.device # None => c.inst \in linked,
         events \in Histories(linked)
  PROVE  Stored(c, items, at) \in Histories(linked)
<1>1. \A item \in Said \cup {Resent} : \A ev \in Histories(linked) : StoreEvent(ev, c, item, at) \in Histories(linked)
  BY StoreKeeps
<1> DEFINE W == Histories(linked)
<1>2. events \in W /\ \A item \in Said \cup {Resent} : \A ev \in W : StoreEvent(ev, c, item, at) \in W
  BY <1>1
<1> HIDE DEF W
<1>3. Stored(c, items, at) \in W
  BY <1>2, BatchStays
<1> QED BY <1>3 DEF W

-----------------------------------------------------------------------------
(* Nothing is stored at first.                                             *)
LEMMA InitKeeps == ActivityInit => ActivityInv
BY EmptySeq DEF ActivityInit, ActivityInv, Histories, OwnersKept, LinksKept, FromLinked, NoInstance, Instances

(* The more instances are linked, the less of them is foreign.             *)
LEMMA LinkedMono ==
  ASSUME NEW A, NEW B, A \subseteq B, NEW ev \in Histories(A)
  PROVE  ev \in Histories(B)
BY DEF Histories, FromLinked

(* A request leaves a history in which its own device is linked.           *)
LEMMA BatchHistory ==
  ASSUME ActivityInv, NEW c \in Clients, NEW at \in 1 .. MaxTime, NEW items \in Batches(c), MayIngest(c)
  PROVE  Stored(c, items, at) \in Histories(LinkedWith(c))
<1>1. PICK n \in Nat : items \in [1 .. n -> Items(c)]
  BY ActivityBounds DEF Batches
<1>2. c.device = None => c.inst \notin LinkedWith(c)
  BY DeviceAssumption, ClientTyped DEF MayIngest, OwnedByDevice, LinkedWith, Linked
<1>3. c.device # None => c.inst \in LinkedWith(c)
  BY DEF LinkedWith
<1>4. events \in Histories(LinkedWith(c))
  BY LinkedMono DEF ActivityInv, LinkedWith
<1>5. at \in Nat
  BY ActivityBounds
<1> QED BY <1>1, <1>2, <1>3, <1>4, <1>5, BatchKeeps

(* What one request leaves, whole or cut short.                            *)
LEMMA RequestKeeps ==
  ASSUME ActivityInv, NEW c \in Clients, NEW at \in 1 .. MaxTime, NEW items \in Batches(c), MayIngest(c),
         events' = Stored(c, items, at), NEW count \in Int,
         instances' = [instances EXCEPT ![c.inst] = [UpsertInstance(c) EXCEPT !.count = count]]
  PROVE  ActivityInv'
<1> DEFINE Row == [device : Devices \cup {None}, owner : Owners \cup {None}, count : Int]
<1>1. Stored(c, items, at) \in Histories(LinkedWith(c))
  BY BatchHistory
<1>2. UpsertInstance(c) \in Row /\ instances[c.inst] \in Row
  BY ClientTyped DEF ActivityInv, UpsertInstance
<1>3. instances' \in [Instances -> Row]
  BY <1>2, ClientTyped DEF ActivityInv
<1>4. \A i \in Instances : instances'[i].device =
        IF i = c.inst THEN (IF c.device = None THEN instances[i].device ELSE c.device) ELSE instances[i].device
  BY <1>2, ClientTyped DEF ActivityInv, UpsertInstance
<1>5. Linked' = LinkedWith(c)
  BY <1>4, ClientTyped DEF Linked, LinkedWith
<1>6. ActivityInv' = (events' \in Histories(LinkedWith(c)) /\ instances' \in [Instances -> Row])
  BY <1>5 DEF ActivityInv, Histories
<1> QED BY <1>1, <1>3, <1>6

(* Every step.                                                             *)
LEMMA NextKeeps == ActivityInv /\ [ActivityNext]_activityVars => ActivityInv'
<1> SUFFICES ASSUME ActivityInv, [ActivityNext]_activityVars PROVE ActivityInv'
  OBVIOUS
<1>0. ASSUME UNCHANGED <<events, instances>> PROVE ActivityInv'
  BY <1>0 DEF ActivityInv, Linked
<1>1. ASSUME NEW c \in Clients, NEW at \in 1 .. MaxTime, NEW items \in Batches(c), Ingest(c, items, at)
      PROVE  ActivityInv'
  <2> DEFINE count == UpsertInstance(c).count + Counted(items, Stored(c, items, at))
  <2>1. events' = Stored(c, items, at) /\ MayIngest(c)
    BY <1>1 DEF Ingest
  <2>2. instances' = [instances EXCEPT ![c.inst] = [UpsertInstance(c) EXCEPT !.count = count]]
    BY <1>1 DEF Ingest
  <2>3. UpsertInstance(c).count \in Int
    BY ClientTyped DEF ActivityInv, UpsertInstance
  <2>4. Stored(c, items, at) \in Seq(Event) /\ events \in Seq(Event)
    BY <2>1, BatchHistory DEF ActivityInv, Histories
  <2>5. count \in Int
    BY <2>3, <2>4 DEF Counted
  <2> HIDE DEF count
  <2> QED BY <2>1, <2>2, <2>5, RequestKeeps
<1>2. ASSUME NEW c \in Clients, NEW at \in 1 .. MaxTime, NEW items \in Batches(c), IngestThenStop(c, items, at)
      PROVE  ActivityInv'
  <2>1. events' = Stored(c, items, at) /\ MayIngest(c)
    BY <1>2 DEF IngestThenStop
  <2>2. instances' = [instances EXCEPT ![c.inst] = [UpsertInstance(c) EXCEPT !.count = UpsertInstance(c).count]]
    BY <1>2 DEF IngestThenStop, UpsertInstance
  <2>3. UpsertInstance(c).count \in Int
    BY ClientTyped DEF ActivityInv, UpsertInstance
  <2> QED BY <2>1, <2>2, <2>3, RequestKeeps
<1>3. ASSUME PricingRoute PROVE ActivityInv'
  BY <1>0, <1>3 DEF PricingRoute, CreateRule, UpdateRule, DeleteRule, ImportRules, Edit
<1> QED BY <1>0, <1>1, <1>2, <1>3 DEF ActivityNext, activityVars

(* The owner of the first stored event is that of all.                     *)
LEMMA KeepsOneOwner == ActivityInv => OneOwner
<1> SUFFICES ASSUME ActivityInv, NEW w \in Workflows(DOMAIN events),
                    events[Min(OfWorkflow(DOMAIN events, w))].owner # None,
                    NEW i \in OfWorkflow(DOMAIN events, w)
             PROVE  events[i].owner = events[Min(OfWorkflow(DOMAIN events, w))].owner
  BY DEF OneOwner
<1> DEFINE all == OfWorkflow(DOMAIN events, w)
<1>1. events \in Seq(Event) /\ OwnersKept(events)
  BY DEF ActivityInv, Histories
<1>2. all \in SUBSET Nat /\ all # {} /\ all \subseteq DOMAIN events
  <2>1. all \subseteq DOMAIN events
    BY DEF OfWorkflow
  <2>2. DOMAIN events \subseteq Nat
    BY <1>1, LenProperties
  <2> QED BY <2>1, <2>2
<1>3. \E m \in all : \A n \in all : m <= n
  <2> HIDE DEF all
  <2> QED BY <1>2, LeastNat
<1>4. Min(all) \in all /\ \A n \in all : Min(all) <= n
  <2> HIDE DEF all
  <2> QED BY <1>3 DEF Min
<1>5. FirstOf(events, Min(all)) /\ events[Min(all)].what.wf = events[i].what.wf
  BY <1>4 DEF FirstOf, OfWorkflow, WorkflowOf
<1> QED BY <1>1, <1>2, <1>4, <1>5 DEF OwnersKept

(* The events of a linked instance are those of its device.                *)
LEMMA KeepsLinks == ActivityInv => LinkedStaysLinked
BY DEF ActivityInv, Histories, LinksKept, LinkedStaysLinked

(* The invariant holds in every behaviour.                                 *)
LEMMA ActivityInvariance == ActivitySpec => []ActivityInv
BY InitKeeps, NextKeeps, PTL DEF ActivitySpec

(* A workflow an account reported first stays its own, whoever reports     *)
(* under its name, in batches of any size and with the clock anywhere.     *)
THEOREM OneOwnerHolds == ActivitySpec => []OneOwner
BY ActivityInvariance, KeepsOneOwner, PTL

(* An instance that was linked has no event of anybody but its device.     *)
THEOREM LinkedStaysLinkedHolds == ActivitySpec => []LinkedStaysLinked
BY ActivityInvariance, KeepsLinks, PTL

-----------------------------------------------------------------------------
(* The counters of the fleet.                                              *)
ReportedBy(ev, i) == {n \in DOMAIN ev : ev[n].inst = i}

(* What a batch adds comes from the instance of its request.               *)
AddedTo(old, c) ==
  {ev \in Seq(Event) :
     /\ Len(old) <= Len(ev)
     /\ \A n \in 1 .. Len(old) : ev[n] = old[n]
     /\ \A n \in Len(old) + 1 .. Len(ev) :
          ev[n].inst = c.inst /\ ev[n].device = c.device /\ ev[n].owner = AccountOf(c)}

(* The link of an instance is to the device of its name, events of an      *)
(* account are its devices', and of an instance there are as many events   *)
(* as were counted or, after a stop, more.                                 *)
LinksRight == \A i \in Instances : instances[i].device # None =>
                i \in Devices /\ instances[i].device = i /\ instances[i].owner = OwnerOf[i]
OwnersRight == \A n \in DOMAIN events : events[n].owner # None =>
                 events[n].device # None /\ events[n].owner = OwnerOf[events[n].device]
CountsRight == \A i \in Instances :
                 /\ instances[i].count \in Nat
                 /\ instances[i].count <= Cardinality(ReportedBy(events, i))
                 /\ stops = 0 => instances[i].count = Cardinality(ReportedBy(events, i))
FleetInv == stops \in Nat /\ LinksRight /\ OwnersRight /\ CountsRight

(* A batch only adds events.                                               *)
LEMMA BatchAdds ==
  ASSUME ActivityInv, NEW c \in Clients, NEW at \in 1 .. MaxTime, NEW items \in Batches(c)
  PROVE  Stored(c, items, at) \in AddedTo(events, c)
<1> DEFINE W == AddedTo(events, c)
<1>1. PICK n \in Nat : items \in [1 .. n -> Items(c)]
  BY ActivityBounds DEF Batches
<1>2. at \in Nat
  BY ActivityBounds
<1>3. events \in Seq(Event) /\ Len(events) \in Nat
  BY DEF ActivityInv, Histories
<1>4. events \in W
  BY <1>3 DEF AddedTo
<1>5. ASSUME NEW item \in Said \cup {Resent}, NEW ev \in W PROVE StoreEvent(ev, c, item, at) \in W
  <2> DEFINE e == [what |-> item, inst |-> c.inst, device |-> c.device, owner |-> AccountOf(c), at |-> at]
             new == Append(ev, e)
  <2>1. CASE item = Resent \/ ~OwnerAllows(WorkflowOwner(ev, item.wf), AccountOf(c))
    BY <2>1, <1>5 DEF StoreEvent
  <2>2. CASE ~(item = Resent \/ ~OwnerAllows(WorkflowOwner(ev, item.wf), AccountOf(c)))
    <3>1. StoreEvent(ev, c, item, at) = new
      BY <2>2 DEF StoreEvent
    <3>2. e \in Event
      BY <2>2, <1>2, ClientTyped DEF Event
    <3>3. /\ ev \in Seq(Event) /\ Len(ev) \in Nat /\ Len(events) <= Len(ev)
          /\ \A k \in 1 .. Len(events) : ev[k] = events[k]
          /\ \A k \in Len(events) + 1 .. Len(ev) :
               ev[k].inst = c.inst /\ ev[k].device = c.device /\ ev[k].owner = AccountOf(c)
      BY <1>5 DEF AddedTo
    <3>4. /\ new \in Seq(Event) /\ Len(new) = Len(ev) + 1
          /\ new[Len(ev) + 1] = e /\ \A k \in 1 .. Len(ev) : new[k] = ev[k]
      BY <3>2, <3>3, AppendProperties
    <3>5. e.inst = c.inst /\ e.device = c.device /\ e.owner = AccountOf(c)
      OBVIOUS
    <3> HIDE DEF new, e
    <3>6. \A k \in Len(events) + 1 .. Len(new) : k \in Len(events) + 1 .. Len(ev) \/ k = Len(ev) + 1
      BY <1>3, <3>3, <3>4
    <3>7. \A k \in Len(events) + 1 .. Len(ev) : k \in 1 .. Len(ev)
      BY <1>3, <3>3
    <3>8. \A k \in Len(events) + 1 .. Len(new) :
            new[k].inst = c.inst /\ new[k].device = c.device /\ new[k].owner = AccountOf(c)
      BY <3>3, <3>4, <3>5, <3>6, <3>7
    <3>9. Len(events) <= Len(new) /\ \A k \in 1 .. Len(events) : new[k] = events[k]
      BY <1>3, <3>3, <3>4
    <3> QED BY <3>1, <3>4, <3>8, <3>9 DEF AddedTo
  <2> QED BY <2>1, <2>2
<1> HIDE DEF W
<1>6. Stored(c, items, at) \in W
  BY <1>1, <1>2, <1>4, <1>5, BatchStays
<1> QED BY <1>6 DEF W

(* So of its own instance there are as many more, of others the same.      *)
LEMMA AddedCount ==
  ASSUME ActivityInv, NEW c \in Clients, NEW new \in AddedTo(events, c)
  PROVE  /\ Len(new) - Len(events) \in Nat
         /\ \A i \in Instances :
              /\ Cardinality(ReportedBy(events, i)) \in Nat
              /\ Cardinality(ReportedBy(new, i)) = Cardinality(ReportedBy(events, i)) +
                   IF i = c.inst THEN Len(new) - Len(events) ELSE 0
<1> DEFINE m == Len(events)  n == Len(new)
<1>1. /\ events \in Seq(Event) /\ new \in Seq(Event) /\ m \in Nat /\ n \in Nat /\ m <= n
      /\ DOMAIN events = 1 .. m /\ DOMAIN new = 1 .. n
      /\ \A k \in 1 .. m : new[k] = events[k]
      /\ \A k \in m + 1 .. n : new[k].inst = c.inst
  BY DEF ActivityInv, Histories, AddedTo
<1> HIDE DEF m, n
<1>2. ASSUME NEW i \in Instances
      PROVE  /\ Cardinality(ReportedBy(events, i)) \in Nat
             /\ Cardinality(ReportedBy(new, i)) = Cardinality(ReportedBy(events, i)) +
                  IF i = c.inst THEN n - m ELSE 0
  <2> DEFINE A == ReportedBy(events, i)
             B == IF i = c.inst THEN m + 1 .. n ELSE {}
             C == ReportedBy(new, i)
  <2>1. C = A \cup B
    <3>1. ASSUME NEW k \in C PROVE k \in A \cup B
      <4>1. k \in 1 .. n /\ new[k].inst = i
        BY <1>1 DEF ReportedBy
      <4>2. CASE k \in 1 .. m
        BY <4>1, <4>2, <1>1 DEF ReportedBy
      <4>3. CASE k \notin 1 .. m
        <5>1. k \in m + 1 .. n
          BY <4>1, <4>3, <1>1
        <5> QED BY <4>1, <5>1, <1>1
      <4> QED BY <4>2, <4>3
    <3>2. ASSUME NEW k \in A PROVE k \in C
      <4>1. k \in 1 .. m /\ events[k].inst = i
        BY <1>1 DEF ReportedBy
      <4>2. k \in 1 .. n
        BY <4>1, <1>1
      <4> QED BY <4>1, <4>2, <1>1 DEF ReportedBy
    <3>3. ASSUME NEW k \in B PROVE k \in C
      <4>1. i = c.inst /\ k \in m + 1 .. n
        BY <3>3
      <4>2. k \in 1 .. n
        BY <4>1, <1>1
      <4> QED BY <4>1, <4>2, <1>1 DEF ReportedBy
    <3> QED BY <3>1, <3>2, <3>3
  <2>2. A \cap B = {}
    <3>1. A \subseteq 1 .. m
      BY <1>1 DEF ReportedBy
    <3>2. \A k \in 1 .. m : k \notin m + 1 .. n
      BY <1>1
    <3> QED BY <3>1, <3>2
  <2>3. IsFiniteSet(A)
    <3>1. A \subseteq 1 .. m /\ IsFiniteSet(1 .. m)
      BY <1>1, FS_Interval DEF ReportedBy
    <3> QED BY <3>1, FS_Subset
  <2>4. IsFiniteSet(B) /\ Cardinality(B) = IF i = c.inst THEN n - m ELSE 0
    <3>1. IsFiniteSet(m + 1 .. n) /\ Cardinality(m + 1 .. n) = IF m + 1 > n THEN 0 ELSE n - (m + 1) + 1
      BY <1>1, FS_Interval
    <3>2. Cardinality(m + 1 .. n) = n - m
      BY <3>1, <1>1
    <3> QED BY <3>1, <3>2, FS_EmptySet
  <2> HIDE DEF A, B, C
  <2>5. Cardinality(C) = Cardinality(A) + Cardinality(B) - Cardinality(A \cap B)
    BY <2>1, <2>3, <2>4, FS_Union
  <2>6. Cardinality(A \cap B) = 0 /\ Cardinality(A) \in Nat /\ Cardinality(B) \in Nat
    BY <2>2, <2>3, <2>4, FS_EmptySet, FS_CardinalityType
  <2> QED BY <2>4, <2>5, <2>6 DEF A, C
<1>3. n - m \in Nat
  BY <1>1
<1> QED BY <1>2, <1>3 DEF m, n

LEMMA FleetInit == ActivityInit => FleetInv
<1> SUFFICES ASSUME ActivityInit PROVE FleetInv
  OBVIOUS
<1>1. DOMAIN events = {} /\ stops = 0 /\ instances = [i \in Instances |-> NoInstance]
  BY DEF ActivityInit
<1>2. \A i \in Instances : ReportedBy(events, i) = {}
  BY <1>1 DEF ReportedBy
<1>3. CountsRight
  <2>1. ASSUME NEW i \in Instances PROVE Cardinality(ReportedBy(events, i)) = 0 /\ instances[i].count = 0
    BY <1>1, <1>2, FS_EmptySet DEF NoInstance
  <2>2. 0 \in Nat /\ 0 <= 0
    OBVIOUS
  <2> QED BY <2>1, <2>2 DEF CountsRight
<1> QED BY <1>1, <1>3 DEF FleetInv, LinksRight, OwnersRight, NoInstance

(* One request, counted or cut short.                                      *)
LEMMA RequestCounts ==
  ASSUME ActivityInv, FleetInv, NEW c \in Clients, NEW at \in 1 .. MaxTime, NEW items \in Batches(c),
         MayIngest(c), events' = Stored(c, items, at), NEW count \in Nat,
         instances' = [instances EXCEPT ![c.inst] = [UpsertInstance(c) EXCEPT !.count = count]],
         \/ stops' = stops /\ count = instances[c.inst].count + (Len(events') - Len(events))
         \/ stops' = stops + 1 /\ count = instances[c.inst].count
  PROVE  FleetInv'
<1> DEFINE new == Stored(c, items, at)
<1>1. new \in AddedTo(events, c)
  BY BatchAdds
<1> HIDE DEF new
<1>2. c.inst \in Instances /\ DOMAIN instances = Instances
  BY ClientTyped DEF ActivityInv
<1>3. /\ \A i \in Instances : i # c.inst => instances'[i] = instances[i]
      /\ instances'[c.inst].count = count
      /\ instances'[c.inst].device = IF c.device = None THEN instances[c.inst].device ELSE c.device
      /\ instances'[c.inst].owner = IF c.device = None THEN instances[c.inst].owner ELSE AccountOf(c)
  BY <1>2 DEF UpsertInstance
<1>4. c.device # None => c.device \in Devices /\ c.inst = c.device /\ AccountOf(c) = OwnerOf[c.device]
  BY DeviceAssumption, ClientTyped DEF AccountOf
<1>5. stops' \in Nat /\ (stops' = 0 => stops = 0 /\ stops' = stops)
  BY DEF FleetInv
<1>6. LinksRight'
  <2> SUFFICES ASSUME NEW i \in Instances, instances'[i].device # None
               PROVE  i \in Devices /\ instances'[i].device = i /\ instances'[i].owner = OwnerOf[i]
    BY DEF LinksRight
  <2>1. CASE i # c.inst \/ c.device = None
    BY <2>1, <1>3 DEF FleetInv, LinksRight
  <2>2. CASE i = c.inst /\ c.device # None
    BY <2>2, <1>3, <1>4
  <2> QED BY <2>1, <2>2
<1>7. OwnersRight'
  <2>1. /\ new \in Seq(Event) /\ events \in Seq(Event)
        /\ \A k \in 1 .. Len(events) : new[k] = events[k]
        /\ \A k \in Len(events) + 1 .. Len(new) : new[k].device = c.device /\ new[k].owner = AccountOf(c)
    BY <1>1 DEF AddedTo, ActivityInv, Histories
  <2> SUFFICES ASSUME NEW n \in DOMAIN new, new[n].owner # None
               PROVE  new[n].device # None /\ new[n].owner = OwnerOf[new[n].device]
    BY DEF OwnersRight, new
  <2>2. n \in 1 .. Len(new) /\ Len(events) \in Nat /\ DOMAIN events = 1 .. Len(events)
    BY <2>1
  <2>3. CASE n \in 1 .. Len(events)
    BY <2>1, <2>2, <2>3 DEF FleetInv, OwnersRight
  <2>4. CASE n \in Len(events) + 1 .. Len(new)
    <3>1. new[n].device = c.device /\ new[n].owner = AccountOf(c)
      BY <2>1, <2>4
    <3>2. c.device # None
      BY <3>1 DEF AccountOf
    <3> QED BY <3>1, <3>2, <1>4
  <2> QED BY <2>2, <2>3, <2>4
<1>8. CountsRight'
  <2> SUFFICES ASSUME NEW i \in Instances
               PROVE  /\ instances'[i].count \in Nat
                      /\ instances'[i].count <= Cardinality(ReportedBy(new, i))
                      /\ stops' = 0 => instances'[i].count = Cardinality(ReportedBy(new, i))
    BY DEF CountsRight, new, ReportedBy
  <2>1. /\ Len(new) - Len(events) \in Nat
        /\ Cardinality(ReportedBy(events, i)) \in Nat
        /\ Cardinality(ReportedBy(new, i)) = Cardinality(ReportedBy(events, i)) +
             IF i = c.inst THEN Len(new) - Len(events) ELSE 0
    BY <1>1, AddedCount
  <2>2. /\ instances[i].count \in Nat
        /\ instances[i].count <= Cardinality(ReportedBy(events, i))
        /\ stops = 0 => instances[i].count = Cardinality(ReportedBy(events, i))
    BY DEF FleetInv, CountsRight
  <2>3. CASE i # c.inst
    BY <2>1, <2>2, <2>3, <1>3, <1>5
  <2>4. CASE i = c.inst
    <3>1. /\ instances'[i].count = count
          /\ \/ stops' = stops /\ count = instances[i].count + (Len(new) - Len(events))
             \/ stops' # 0 /\ count = instances[i].count
      BY <2>4, <1>3 DEF new, FleetInv
    <3> QED BY <2>1, <2>2, <2>4, <3>1, <1>5
  <2> QED BY <2>3, <2>4
<1> QED BY <1>5, <1>6, <1>7, <1>8 DEF FleetInv

LEMMA FleetKeeps == ActivityInv /\ FleetInv /\ [ActivityNext]_activityVars => FleetInv'
<1> SUFFICES ASSUME ActivityInv, FleetInv, [ActivityNext]_activityVars PROVE FleetInv'
  OBVIOUS
<1>0. ASSUME UNCHANGED <<events, instances, stops>> PROVE FleetInv'
  BY <1>0 DEF FleetInv, LinksRight, OwnersRight, CountsRight, ReportedBy
<1>1. ASSUME NEW c \in Clients, NEW at \in 1 .. MaxTime, NEW items \in Batches(c), Ingest(c, items, at)
      PROVE  FleetInv'
  <2> DEFINE count == UpsertInstance(c).count + Counted(items, Stored(c, items, at))
  <2>1. events' = Stored(c, items, at) /\ MayIngest(c) /\ stops' = stops
    BY <1>1 DEF Ingest
  <2>2. instances' = [instances EXCEPT ![c.inst] = [UpsertInstance(c) EXCEPT !.count = count]]
    BY <1>1 DEF Ingest
  <2>3. count = instances[c.inst].count + (Len(events') - Len(events))
    BY <2>1 DEF UpsertInstance, Counted
  <2>4. count \in Nat
    <3>1. Len(Stored(c, items, at)) - Len(events) \in Nat
      BY BatchAdds, AddedCount
    <3>2. instances[c.inst].count \in Nat
      BY ClientTyped DEF FleetInv, CountsRight
    <3> QED BY <2>1, <2>3, <3>1, <3>2
  <2> HIDE DEF count
  <2> QED BY <2>1, <2>2, <2>3, <2>4, RequestCounts
<1>2. ASSUME NEW c \in Clients, NEW at \in 1 .. MaxTime, NEW items \in Batches(c), IngestThenStop(c, items, at)
      PROVE  FleetInv'
  <2> DEFINE count == instances[c.inst].count
  <2>1. events' = Stored(c, items, at) /\ MayIngest(c) /\ stops' = stops + 1
    BY <1>2 DEF IngestThenStop
  <2>2. instances' = [instances EXCEPT ![c.inst] = [UpsertInstance(c) EXCEPT !.count = count]]
    BY <1>2 DEF IngestThenStop, UpsertInstance
  <2>3. count \in Nat
    BY ClientTyped DEF FleetInv, CountsRight
  <2> HIDE DEF count
  <2>4. count = instances[c.inst].count
    BY DEF count
  <2> QED BY <2>1, <2>2, <2>3, <2>4, RequestCounts
<1>3. ASSUME PricingRoute PROVE FleetInv'
  BY <1>0, <1>3 DEF PricingRoute, CreateRule, UpdateRule, DeleteRule, ImportRules, Edit
<1> QED BY <1>0, <1>1, <1>2, <1>3 DEF ActivityNext, activityVars

(* A union is not larger than the sizes of its parts together.             *)
LEMMA UnionBelowSum ==
  ASSUME NEW R, IsFiniteSet(R), NEW A, \A x \in R : IsFiniteSet(A[x]),
         NEW f \in [R -> Nat], \A x \in R : Cardinality(A[x]) <= f[x],
         NEW g, IsSum(g, f, R)
  PROVE  LET U == UNION {A[x] : x \in R} IN IsFiniteSet(U) /\ Cardinality(U) <= g[R]
<1> DEFINE U(s) == UNION {A[x] : x \in s}
           Good(s) == IsFiniteSet(U(s)) /\ Cardinality(U(s)) <= g[s]
           Bad == {s \in SUBSET R : ~Good(s)}
<1>0. g \in [SUBSET R -> Nat]
  BY DEF IsSum, Takes
<1>1. ASSUME Bad # {} PROVE FALSE
  <2>1. PICK s \in Bad : \A t \in Bad : Cardinality(s) <= Cardinality(t)
    <3>1. Bad \in SUBSET SUBSET R
      OBVIOUS
    <3> HIDE DEF Bad
    <3> QED BY <1>1, <3>1, SmallestSubset
  <2>2. s \in SUBSET R /\ ~Good(s)
    BY <2>1
  <2>3. s # {}
    <3>1. s = {} => U(s) = {} /\ g[s] = 0
      BY DEF IsSum, Takes
    <3>2. IsFiniteSet({}) /\ Cardinality({}) = 0
      BY FS_EmptySet
    <3> HIDE DEF U, Bad
    <3> QED BY <2>2, <3>1, <3>2
  <2>4. PICK x \in s : TRUE
    BY <2>3
  <2> DEFINE t == s \ {x}
  <2>5. t \in SUBSET R /\ Good(t)
    <3>1. t \in SUBSET R /\ ~(Cardinality(s) <= Cardinality(t))
      BY <2>2, OneFewer
    <3>2. t \notin Bad
      BY <2>1, <3>1
    <3> HIDE DEF Good, t
    <3> QED BY <3>1, <3>2
  <2>6. U(s) = U(t) \cup A[x]
    OBVIOUS
  <2>7. g[s] = f[x] + g[t] /\ f[x] \in Nat /\ g[t] \in Nat
    BY <1>0, <2>2, <2>5, SumSplits
  <2>8. IsFiniteSet(A[x]) /\ Cardinality(A[x]) <= f[x] /\ Cardinality(A[x]) \in Nat
    BY <2>2, FS_CardinalityType
  <2> HIDE DEF U, t, Bad
  <2>9. /\ IsFiniteSet(U(s))
        /\ Cardinality(U(s)) = Cardinality(U(t)) + Cardinality(A[x]) - Cardinality(U(t) \cap A[x])
    BY <2>5, <2>6, <2>8, FS_Union
  <2>10. Cardinality(U(t)) \in Nat /\ Cardinality(U(t) \cap A[x]) \in Nat
    BY <2>5, FS_Intersection, FS_CardinalityType
  <2> QED BY <2>2, <2>5, <2>7, <2>8, <2>9, <2>10
<1>2. R \notin Bad /\ R \in SUBSET R
  BY <1>1
<1> HIDE DEF U
<1>3. Good(R)
  BY <1>2
<1> QED BY <1>3 DEF U

(* The events of instances, as the list of users adds them up.             *)
LEMMA CountsAreSums ==
  ASSUME NEW R, IsFiniteSet(R), \A i \in R : instances[i].count \in Nat
  PROVE  \E g : /\ IsSum(g, [i \in R |-> instances[i].count], R)
                /\ MapThenSumSet(LAMBDA i : instances[i].count, R) = g[R]
<1> DEFINE f == [i \in R |-> instances[i].count]
           Eq(k) == k = [s \in SUBSET R |-> IF s = {} THEN 0
                                             ELSE instances[Some(s)].count + k[s \ {Some(s)}]]
           iter == CHOOSE k : Eq(k)
<1>1. f \in [R -> Nat]
  OBVIOUS
<1>2. PICK g : IsSum(g, f, R)
  <2> HIDE DEF f
  <2> QED BY <1>1, SumExists
<1>3. \A s \in SUBSET R : s # {} => f[Some(s)] = instances[Some(s)].count
  BY SomeIs
<1>4. Eq(g)
  <2> HIDE DEF f
  <2> QED BY <1>2, <1>3 DEF IsSum, Takes
<1>5. Eq(iter)
  <2> HIDE DEF Eq
  <2> QED BY <1>4
<1>6. MapThenSumSet(LAMBDA i : instances[i].count, R) = iter[R]
  BY DEF MapThenSumSet, MapThenFoldSet, Some
<1> HIDE DEF iter, f
<1>7. iter[R] = g[R]
  <2>1. \A s \in SUBSET R : iter[s] = IF s = {} THEN 0 ELSE instances[Some(s)].count + iter[s \ {Some(s)}]
    BY <1>5
  <2>2. Takes(iter, f, R)
    <3> HIDE DEF Eq
    <3> QED BY <1>3, <2>1 DEF Takes
  <2>3. IsSum(g, f, R)
    BY <1>2
  <2> HIDE DEF Eq
  <2> QED BY <2>2, <2>3, SumUnique
<1> QED BY <1>2, <1>6, <1>7 DEF f

(* The events of an account are on instances listed for it.                *)
LEMMA KeepsFleet == ActivityInv /\ FleetInv => FleetMatchesEvents
<1> SUFFICES ASSUME ActivityInv, FleetInv PROVE FleetMatchesEvents
  OBVIOUS
<1>1. \A i \in Instances :
        LET stored == Cardinality({n \in DOMAIN events : events[n].inst = i})
        IN instances[i].count <= stored /\ (stops = 0 => instances[i].count = stored)
  BY DEF FleetInv, CountsRight, ReportedBy
<1>2. ASSUME NEW v \in Owners, stops = 0, Own(v) # {}
      PROVE  Cardinality(Own(v)) <= ListUsers(v)[v]
  <2> DEFINE R == {i \in Instances : instances[i].owner = v}
             A == [i \in R |-> ReportedBy(events, i)]
             f == [i \in R |-> instances[i].count]
  <2>0. v # None
    BY DeviceAssumption DEF Owners
  <2>1. IsFiniteSet(R)
    BY FleetAssumption, FS_Subset DEF Instances
  <2>2. events \in Seq(Event) /\ DOMAIN events = 1 .. Len(events) /\ Len(events) \in Nat
    BY DEF ActivityInv, Histories
  <2>3. \A i \in R : IsFiniteSet(A[i]) /\ f[i] \in Nat /\ Cardinality(A[i]) <= f[i]
    <3> TAKE i \in R
    <3>1. A[i] \subseteq 1 .. Len(events) /\ IsFiniteSet(1 .. Len(events))
      BY <2>2, FS_Interval DEF ReportedBy
    <3>2. /\ instances[i].count \in Nat
          /\ instances[i].count = Cardinality(ReportedBy(events, i))
      BY <1>2 DEF FleetInv, CountsRight
    <3> HIDE DEF R
    <3> QED BY <3>1, <3>2, FS_Subset
  <2>4. ASSUME NEW n \in Own(v) PROVE events[n].inst \in R /\ n \in A[events[n].inst]
    <3>1. n \in DOMAIN events /\ events[n].owner = v
      BY <2>0 DEF Own, All
    <3>2. events[n] \in Event
      BY <3>1, <2>2, ElementOfSeq
    <3>3. events[n].device # None /\ v = OwnerOf[events[n].device]
      BY <2>0, <3>1 DEF FleetInv, OwnersRight
    <3>4. events[n].device = events[n].inst /\ events[n].inst \in Linked
      BY <3>1, <3>3 DEF ActivityInv, Histories, FromLinked
    <3>5. instances[events[n].inst].owner = v /\ events[n].inst \in Instances
      BY <3>3, <3>4 DEF FleetInv, LinksRight, Linked
    <3> QED BY <3>1, <3>5 DEF ReportedBy
  <2> DEFINE U == UNION {A[i] : i \in R}
  <2>5. Own(v) \subseteq U
    <3> HIDE DEF R, A
    <3> QED BY <2>4
  <2>6. PICK n \in Own(v) : TRUE
    BY <1>2
  <2>7. ListUsers(v)[v] = MapThenSumSet(LAMBDA i : instances[i].count, R)
    <3>1. events[n].inst \in R
      BY <2>4
    <3>2. {i \in ListInstances(v) : instances[i].owner = v} = R
      BY <2>0 DEF ListInstances, All
    <3>3. v \in {instances[i].owner : i \in ListInstances(v)}
      BY <3>1, <3>2
    <3>4. ListUsers(v)[v] = MapThenSumSet(LAMBDA i : instances[i].count, {i \in ListInstances(v) : instances[i].owner = v})
      BY <3>3 DEF ListUsers
    <3> HIDE DEF R
    <3> QED BY <3>2, <3>4
  <2>8. \A i \in R : instances[i].count \in Nat
    BY <2>3
  <2>9. PICK g : IsSum(g, f, R) /\ MapThenSumSet(LAMBDA i : instances[i].count, R) = g[R]
    <3> HIDE DEF R
    <3> QED BY <2>1, <2>8, CountsAreSums
  <2>10. f \in [R -> Nat]
    BY <2>8
  <2>11. IsFiniteSet(U) /\ Cardinality(U) <= g[R]
    <3> HIDE DEF R, A, f
    <3> QED BY <2>1, <2>3, <2>9, <2>10, UnionBelowSum
  <2>12. IsFiniteSet(Own(v)) /\ Cardinality(Own(v)) <= Cardinality(U)
    <3> HIDE DEF U
    <3> QED BY <2>5, <2>11, FS_Subset
  <2>13. g[R] \in Nat
    BY <2>9 DEF IsSum
  <2>14. Cardinality(Own(v)) \in Nat /\ Cardinality(U) \in Nat
    <3> HIDE DEF U
    <3> QED BY <2>11, <2>12, FS_CardinalityType
  <2> HIDE DEF U, R, f, A
  <2> QED BY <2>7, <2>9, <2>11, <2>12, <2>13, <2>14
<1> QED BY <1>1, <1>2 DEF FleetMatchesEvents

(* The counters of the fleet agree with the events that are stored, after  *)
(* any batches, repeats, refusals and, but for what a stop cut off, stops; *)
(* and the instances listed for an account account for its events.         *)
THEOREM FleetMatchesEventsHolds == ActivitySpec => []FleetMatchesEvents
<1>1. ActivityInit => ActivityInv /\ FleetInv
  BY InitKeeps, FleetInit
<1>2. ActivityInv /\ FleetInv /\ [ActivityNext]_activityVars => ActivityInv' /\ FleetInv'
  BY NextKeeps, FleetKeeps
<1> QED BY <1>1, <1>2, KeepsFleet, PTL DEF ActivitySpec

-----------------------------------------------------------------------------
(* What a session costs.                                                   *)

Able(r, agent, model, at) ==
  r.from <= at /\ ModelScore(r.model, model) >= 0 /\ AgentScore(r.agent, agent) >= 0

(* The rank of a rule: its model, its agent, and when it starts.           *)
LEMMA KeyTyped ==
  ASSUME NEW r \in Rules, NEW agent, NEW model
  PROVE  /\ ModelScore(r.model, model) \in Int /\ AgentScore(r.agent, agent) \in Int /\ r.from \in Int
         /\ Key(r, agent, model)[1] = ModelScore(r.model, model)
         /\ Key(r, agent, model)[2] = AgentScore(r.agent, agent)
         /\ Key(r, agent, model)[3] = r.from
<1>1. r.from \in Nat /\ Len(r.model.text) \in Nat
  BY RuleAssumption, LenProperties
<1>2. ModelScore(r.model, model) \in Int
  BY <1>1 DEF ModelScore, Exact
<1>3. AgentScore(r.agent, agent) \in Int
  BY DEF AgentScore
<1> QED BY <1>1, <1>2, <1>3 DEF Key

(* A rule is eligible on its own.                                          *)
LEMMA AbleIsEligible ==
  ASSUME NEW R, NEW r, NEW agent, NEW model, NEW at
  PROVE  r \in Eligible(R, agent, model, at) <=> r \in R /\ Able(r, agent, model, at)
BY DEF Eligible, Able

(* Two rules that fit equally well are of the same agent, model and date.  *)
LEMMA SameKeySameRule ==
  ASSUME NEW r \in Rules, NEW q \in Rules, NEW agent, NEW model, NEW at,
         Able(r, agent, model, at), Able(q, agent, model, at),
         Key(r, agent, model) = Key(q, agent, model)
  PROVE  SameRule(r, q)
<1>1. /\ ModelScore(r.model, model) = ModelScore(q.model, model)
      /\ AgentScore(r.agent, agent) = AgentScore(q.agent, agent) /\ r.from = q.from
  BY KeyTyped
<1>2. r.agent = q.agent
  <2>1. AgentScore(r.agent, agent) >= 0 /\ AgentScore(q.agent, agent) >= 0
    BY DEF Able
  <2>2. \A x \in Rules : AgentScore(x.agent, agent) >= 0 =>
          \/ AgentScore(x.agent, agent) = 0 /\ x.agent = AnyName
          \/ AgentScore(x.agent, agent) = 1 /\ x.agent = [glob |-> FALSE, text |-> agent]
    <3> TAKE x \in Rules
    <3>1. x.agent = AnyName \/ x.agent = [glob |-> FALSE, text |-> x.agent.text]
      BY RuleAssumption
    <3>2. CASE x.agent = AnyName
      BY <3>2 DEF AgentScore
    <3>3. CASE x.agent # AnyName
      <4>1. AgentScore(x.agent, agent) = IF agent # None /\ x.agent.text = agent THEN 1 ELSE -1
        BY <3>3 DEF AgentScore
      <4>2. CASE agent # None /\ x.agent.text = agent
        <5>1. x.agent = [glob |-> FALSE, text |-> agent]
          BY <3>1, <3>3, <4>2
        <5> QED BY <5>1, <4>1, <4>2
      <4>3. CASE ~(agent # None /\ x.agent.text = agent)
        BY <4>1, <4>3
      <4> QED BY <4>2, <4>3
    <3> QED BY <3>2, <3>3
  <2> QED BY <2>1, <2>2, <1>1
<1>3. r.model = q.model
  <2> DEFINE Text(x) == x.model.text
             score(x) == ModelScore(x.model, model)
  <2>1. score(r) >= 0 /\ score(q) >= 0
    BY DEF Able
  <2>2. \A x \in Rules : Len(Text(x)) \in Nat /\ 1 + Len(Text(x)) < Exact /\ Text(x) \in Seq(Letters)
                          /\ x.model = [glob |-> x.model.glob, text |-> Text(x)] /\ x.model.glob \in BOOLEAN
    BY RuleAssumption, LenProperties
  <2>3. \A x \in Rules : score(x) >= 0 =>
          \/ score(x) = 0 /\ x.model = AnyName
          \/ /\ score(x) = 1 + Len(Text(x)) /\ x.model.glob /\ Text(x) = SubSeq(model, 1, Len(Text(x)))
          \/ score(x) = Exact /\ ~x.model.glob /\ Text(x) = model
    <3> TAKE x \in Rules
    <3> DEFINE t == Text(x)
    <3>0. t \in Seq(Letters)
      BY <2>2
    <3>1. t = SubSeq(t, 1, Len(t))
      <4> HIDE DEF t
      <4> QED BY <3>0
    <3> HIDE DEF Text
    <3> QED BY <3>1 DEF ModelScore, IsPrefix, Text
  <2>4. Exact \in Nat /\ Exact > 0
    BY DEF Exact
  <2> HIDE DEF Text, score
  <2>5. score(r) = score(q)
    BY <1>1 DEF score
  <2>6. CASE score(r) = 0
    BY <2>6, <2>1, <2>2, <2>3, <2>4, <2>5
  <2>7. CASE score(r) = Exact
    <3>0. ASSUME NEW x \in Rules, score(x) = Exact
          PROVE  ~x.model.glob /\ Text(x) = model
      <4> DEFINE l == Len(Text(x))
      <4>2. l \in Nat /\ 1 + l < Exact
        BY <2>2
      <4> HIDE DEF l
      <4>3. Exact # 0 /\ Exact # 1 + l /\ Exact >= 0
        BY <2>4, <4>2
      <4>1. Exact # 0 /\ Exact # 1 + Len(Text(x)) /\ score(x) >= 0
        BY <3>0, <4>3 DEF l
      <4> QED BY <4>1, <3>0, <2>3
    <3>1. ~r.model.glob /\ Text(r) = model /\ ~q.model.glob /\ Text(q) = model
      BY <2>7, <2>5, <3>0
    <3>2. r.model.glob = q.model.glob
      BY <3>1, <2>2
    <3> QED BY <3>1, <3>2, <2>2
  <2>8. CASE score(r) # 0 /\ score(r) # Exact
    <3>1. Len(Text(r)) = Len(Text(q))
      BY <2>8, <2>1, <2>2, <2>3, <2>5
    <3>2. Text(r) = Text(q) /\ r.model.glob = q.model.glob
      BY <3>1, <2>8, <2>1, <2>2, <2>3, <2>5
    <3> QED BY <3>2, <2>2
  <2> QED BY <2>6, <2>7, <2>8
<1> QED BY <1>1, <1>2, <1>3 DEF SameRule

(* The keys are ordered lexicographically.                                 *)
LEMMA AboveOrders ==
  ASSUME NEW r \in Rules, NEW q \in Rules, NEW p \in Rules, NEW agent, NEW model,
         Above(Key(p, agent, model), Key(q, agent, model)),
         ~Above(Key(r, agent, model), Key(q, agent, model))
  PROVE  ~Above(Key(r, agent, model), Key(p, agent, model))
<1> DEFINE a == Key(r, agent, model)
           b == Key(q, agent, model)
           c == Key(p, agent, model)
<1>1. a[1] \in Int /\ a[2] \in Int /\ a[3] \in Int
  BY KeyTyped
<1>2. b[1] \in Int /\ b[2] \in Int /\ b[3] \in Int
  BY KeyTyped
<1>3. c[1] \in Int /\ c[2] \in Int /\ c[3] \in Int
  BY KeyTyped
<1>4. Above(c, b) /\ ~Above(a, b)
  OBVIOUS
<1>5. ~Above(a, c)
  <2> HIDE DEF a, b, c
  <2> QED BY <1>1, <1>2, <1>3, <1>4 DEF Above
<1> QED BY <1>5

(* No rule is above itself.                                                *)
LEMMA NotAboveItself ==
  ASSUME NEW r \in Rules, NEW agent, NEW model
  PROVE  ~Above(Key(r, agent, model), Key(r, agent, model))
BY KeyTyped DEF Above

(* Two rules of which neither is above the other have the same rank.       *)
LEMMA UnbeatenEqual ==
  ASSUME NEW r \in Rules, NEW q \in Rules, NEW agent, NEW model,
         ~Above(Key(r, agent, model), Key(q, agent, model)),
         ~Above(Key(q, agent, model), Key(r, agent, model))
  PROVE  Key(r, agent, model) = Key(q, agent, model)
<1> DEFINE a == Key(r, agent, model)
           b == Key(q, agent, model)
<1>1. a[1] \in Int /\ a[2] \in Int /\ a[3] \in Int
  BY KeyTyped
<1>2. b[1] \in Int /\ b[2] \in Int /\ b[3] \in Int
  BY KeyTyped
<1>3. a[1] = b[1] /\ a[2] = b[2] /\ a[3] = b[3]
  <2>1. ~Above(a, b) /\ ~Above(b, a)
    OBVIOUS
  <2> HIDE DEF a, b
  <2> QED BY <1>1, <1>2, <2>1 DEF Above
<1> QED BY <1>3 DEF Key

(* The table, read in any order, resolves to an eligible rule that none is *)
(* above.                                                                  *)
LEMMA ResolveIs ==
  ASSUME NEW n \in Nat, NEW table \in [1 .. n -> Rules], NEW agent, NEW model, NEW at
  PROVE  LET E == {i \in 1 .. n : Able(table[i], agent, model, at)}
             best == ResolveRule(table, agent, model, at)
         IN  /\ E = {} => best = None
             /\ E # {} => \E k \in E : best = table[k] /\
                            \A i \in E : ~Above(Key(table[i], agent, model), Key(table[k], agent, model))
<1> DEFINE key(r) == Key(r, agent, model)
           able(r) == Able(r, agent, model, at)
           W == Rules \cup {None}
           next(b, r) == Better(b, r, agent, model, at)
           step == [i \in 1 .. n |-> [b \in W |-> next(b, table[i])]]
           Eq(f) == f = [k \in 0 .. Len(table) |-> IF k = 0 THEN None ELSE next(f[k - 1], table[k])]
<1>1. step \in [1 .. n -> [W -> W]]
  BY DEF Better
<1>2. PICK f : Follows(f, W, None, n, step)
  <2>1. None \in W
    OBVIOUS
  <2> HIDE DEF W, step
  <2> QED BY <1>1, <2>1, StepsExist
<1>3. f \in [0 .. n -> W] /\ f[0] = None /\ \A i \in 1 .. n : f[i] = step[i][f[i - 1]]
  BY <1>2 DEF Follows
<1>4. Len(table) = n
  BY LenProperties
<1>5. Eq(f)
  <2> HIDE DEF W, next
  <2>1. \A k \in 1 .. n : f[k] = next(f[k - 1], table[k])
    <3> TAKE k \in 1 .. n
    <3>1. k - 1 \in 0 .. n
      OBVIOUS
    <3> QED BY <3>1, <1>3
  <2> QED BY <2>1, <1>3, <1>4
<1> DEFINE g == CHOOSE h : Eq(h)
<1>6. ResolveRule(table, agent, model, at) = g[n]
  BY <1>4 DEF ResolveRule
<1>7. \A k \in 0 .. n : g[k] = IF k = 0 THEN None ELSE next(g[k - 1], table[k])
  <2>1. Eq(g)
    <3> HIDE DEF Eq
    <3> QED BY <1>5
  <2> HIDE DEF g, next
  <2> QED BY <2>1, <1>4
<1> HIDE DEF g, Eq, step, W
<1> DEFINE E(k) == {i \in 1 .. k : able(table[i])}
           Good(k) == /\ E(k) = {} => g[k] = None
                      /\ E(k) # {} => \E j \in E(k) : g[k] = table[j] /\ \A i \in E(k) : ~Above(key(table[i]), key(table[j]))
           Bad == {k \in 0 .. n : ~Good(k)}
<1>8. Bad = {}
  <2> SUFFICES ASSUME Bad # {} PROVE FALSE
    OBVIOUS
  <2>1. PICK k \in Bad : \A j \in Bad : k <= j
    <3>1. Bad \in SUBSET Nat
      OBVIOUS
    <3> HIDE DEF Bad
    <3> QED BY <3>1, LeastNat
  <2>2. k \in 0 .. n /\ ~Good(k)
    BY <2>1
  <2>3. k # 0
    <3>1. E(0) = {} /\ g[0] = None
      BY <1>7
    <3> QED BY <3>1, <2>2
  <2>4. k - 1 \in 0 .. n /\ k \in 1 .. n /\ Good(k - 1)
    <3>1. k - 1 \in 0 .. n /\ ~(k <= k - 1) /\ k \in 1 .. n
      BY <2>2, <2>3
    <3> QED BY <3>1, <2>1
  <2>5. E(k) = E(k - 1) \cup IF able(table[k]) THEN {k} ELSE {}
    BY <2>4
  <2>6. g[k] = next(g[k - 1], table[k])
    BY <1>7, <2>4
  <2>7. table[k] \in Rules /\ \A i \in E(k - 1) : table[i] \in Rules /\ table[i] # None
    <3>1. \A i \in E(k - 1) : i \in 1 .. n
      BY <2>4
    <3>2. \A i \in 1 .. n : table[i] \in Rules
      OBVIOUS
    <3> QED BY <3>1, <3>2, <2>4, RuleAssumption
  <2>8. CASE ~able(table[k])
    <3>1. g[k] = g[k - 1]
      BY <2>6, <2>8, AbleIsEligible DEF Better
    <3> QED BY <3>1, <2>2, <2>4, <2>5, <2>8
  <2>9. CASE able(table[k]) /\ E(k - 1) = {}
    <3>1. g[k] = table[k]
      BY <2>4, <2>6, <2>9, AbleIsEligible DEF Better
    <3>2. ~Above(key(table[k]), key(table[k]))
      BY <2>7, NotAboveItself
    <3> QED BY <3>1, <3>2, <2>2, <2>5, <2>9
  <2>10. CASE able(table[k]) /\ E(k - 1) # {}
    <3>1. PICK j \in E(k - 1) : g[k - 1] = table[j] /\ \A i \in E(k - 1) : ~Above(key(table[i]), key(table[j]))
      BY <2>4, <2>10
    <3>2. g[k] = IF Above(key(table[k]), key(table[j])) THEN table[k] ELSE table[j]
      BY <2>6, <2>7, <2>10, <3>1, AbleIsEligible DEF Better
    <3>3. CASE Above(key(table[k]), key(table[j]))
      <4>1. \A i \in E(k) : ~Above(key(table[i]), key(table[k]))
        <5> TAKE i \in E(k)
        <5>1. i = k \/ i \in E(k - 1)
          BY <2>5
        <5>2. table[i] \in Rules /\ table[j] \in Rules /\ table[k] \in Rules
          BY <5>1, <3>1, <2>7
        <5>3. CASE i = k
          <6>1. ~Above(key(table[k]), key(table[k]))
            BY <5>2, NotAboveItself
          <6> QED BY <6>1, <5>3
        <5>4. CASE i \in E(k - 1)
          <6>1. ~Above(key(table[i]), key(table[j]))
            BY <5>4, <3>1
          <6> QED BY <6>1, <5>2, <3>3, AboveOrders
        <5> QED BY <5>1, <5>3, <5>4
      <4>2. k \in E(k) /\ g[k] = table[k]
        BY <2>5, <2>10, <3>2, <3>3
      <4> QED BY <4>1, <4>2, <2>2
    <3>4. CASE ~Above(key(table[k]), key(table[j]))
      <4>1. \A i \in E(k) : ~Above(key(table[i]), key(table[j]))
        BY <2>5, <3>1, <3>4
      <4>2. j \in E(k) /\ g[k] = table[j]
        BY <2>5, <3>1, <3>2, <3>4
      <4> QED BY <4>1, <4>2, <2>2
    <3> QED BY <3>3, <3>4
  <2> QED BY <2>8, <2>9, <2>10
<1>9. Good(n)
  <2>1. n \in 0 .. n
    OBVIOUS
  <2> HIDE DEF Good
  <2> QED BY <2>1, <1>8
<1> QED BY <1>6, <1>9

(* SetToSeq lists every element of a finite set.                           *)
LEMMA Listed ==
  ASSUME NEW R, IsFiniteSet(R)
  PROVE  /\ Cardinality(R) \in Nat
         /\ SetToSeq(R) \in [1 .. Cardinality(R) -> R]
         /\ \A r \in R : \E i \in 1 .. Cardinality(R) : SetToSeq(R)[i] = r
<1> DEFINE n == Cardinality(R)
           t == SetToSeq(R)
<1>1. n \in Nat /\ ExistsBijection(1 .. n, R)
  BY FS_CardinalityType
<1>2. PICK f : f \in Bijection(1 .. n, R)
  BY <1>1 DEF ExistsBijection
<1>3. f \in [1 .. n -> R] /\ IsInjective(f)
  BY <1>2 DEF Bijection, Injection
<1>4. t \in [1 .. n -> R] /\ IsInjective(t)
  BY <1>3 DEF SetToSeq
<1>5. t \in Injection(1 .. n, R)
  BY <1>4 DEF Injection
<1>6. IsFiniteSet(1 .. n) /\ Cardinality(1 .. n) = n
  BY <1>1, FS_Interval
<1>7. t \in Surjection(1 .. n, R)
  BY <1>5, <1>6, FS_Injection
<1> QED BY <1>1, <1>4, <1>7 DEF Surjection

(* The table answers with a rule that no eligible one is above.            *)
LEMMA TableResolves ==
  ASSUME NEW R \in SUBSET Rules, IsFiniteSet(R), NEW agent, NEW model, NEW at
  PROVE  LET best == ResolveRule(SetToSeq(R), agent, model, at)
             E == Eligible(R, agent, model, at)
         IN  /\ E = {} => best = None
             /\ E # {} => best \in E /\ \A r \in E : ~Above(Key(r, agent, model), Key(best, agent, model))
<1> DEFINE t == SetToSeq(R)
           n == Cardinality(R)
           able(r) == Able(r, agent, model, at)
           key(r) == Key(r, agent, model)
           E == Eligible(R, agent, model, at)
           I == {i \in 1 .. n : able(t[i])}
           best == ResolveRule(t, agent, model, at)
<1>1. n \in Nat /\ t \in [1 .. n -> R] /\ \A r \in R : \E i \in 1 .. n : t[i] = r
  BY Listed
<1> HIDE DEF t, n
<1>2. t \in [1 .. n -> Rules]
  BY <1>1
<1>3. /\ I = {} => best = None
      /\ I # {} => \E k \in I : best = t[k] /\ \A i \in I : ~Above(key(t[i]), key(t[k]))
  BY <1>1, <1>2, ResolveIs
<1>4. \A r : r \in E <=> r \in R /\ able(r)
  BY AbleIsEligible
<1>5. \A i \in I : t[i] \in E
  BY <1>1, <1>4
<1>6. \A r \in E : \E i \in I : t[i] = r
  BY <1>1, <1>4
<1> HIDE DEF E, I, best, able, key
<1>7. E = {} => best = None
  BY <1>3, <1>5
<1>8. ASSUME E # {} PROVE best \in E /\ \A r \in E : ~Above(key(r), key(best))
  <2>1. PICK k \in I : best = t[k] /\ \A i \in I : ~Above(key(t[i]), key(t[k]))
    BY <1>3, <1>6, <1>8
  <2>2. \A r \in E : ~Above(key(r), key(best))
    BY <2>1, <1>6
  <2> QED BY <2>1, <2>2, <1>5
<1> QED BY <1>7, <1>8 DEF E, best, key, t

(* A table in which no two rules are of the same agent, model and date.    *)
KeyedTable(R) ==
  R \in SUBSET Rules /\ IsFiniteSet(R) /\ \A r, q \in R : SameRule(r, q) => r = q

(* Two tables with the same eligible rules give the same price.            *)
LEMMA SamePrice ==
  ASSUME NEW R, NEW Q, KeyedTable(R), KeyedTable(Q), NEW agent, NEW at, NEW usage,
         Eligible(R, agent, usage.model, at) = Eligible(Q, agent, usage.model, at)
  PROVE  PriceSession(SetToSeq(R), agent, at, usage) = PriceSession(SetToSeq(Q), agent, at, usage)
<1> DEFINE m == usage.model
           E == Eligible(R, agent, m, at)
           b == ResolveRule(SetToSeq(R), agent, m, at)
           c == ResolveRule(SetToSeq(Q), agent, m, at)
           key(r) == Key(r, agent, m)
<1>1. R \in SUBSET Rules /\ IsFiniteSet(R) /\ Q \in SUBSET Rules /\ IsFiniteSet(Q)
  BY DEF KeyedTable
<1>2. /\ E = {} => b = None
      /\ E # {} => b \in E /\ \A r \in E : ~Above(key(r), key(b))
  BY <1>1, TableResolves
<1>3. /\ E = {} => c = None
      /\ E # {} => c \in E /\ \A r \in E : ~Above(key(r), key(c))
  <2>1. E = Eligible(Q, agent, m, at)
    OBVIOUS
  <2> HIDE DEF E
  <2> QED BY <1>1, <2>1, TableResolves
<1>4. b = c
  <2>1. CASE E = {}
    BY <2>1, <1>2, <1>3
  <2>2. CASE E # {}
    <3>1. b \in E /\ c \in E /\ ~Above(key(c), key(b)) /\ ~Above(key(b), key(c))
      BY <2>2, <1>2, <1>3
    <3>2. b \in R /\ c \in R /\ Able(b, agent, m, at) /\ Able(c, agent, m, at)
      BY <3>1, AbleIsEligible
    <3>3. b \in Rules /\ c \in Rules
      BY <3>2, <1>1
    <3>4. key(b) = key(c)
      BY <3>1, <3>3, UnbeatenEqual
    <3>5. SameRule(b, c)
      BY <3>2, <3>3, <3>4, SameKeySameRule
    <3> QED BY <3>2, <3>5 DEF KeyedTable
  <2> QED BY <2>1, <2>2
<1> QED BY <1>4 DEF PriceSession
-----------------------------------------------------------------------------
(* The table stays keyed, whatever operators write or import.              *)

(* No two rules of the table have the same key.                            *)
LEMMA TableKeeps ==
  ASSUME KeyedTable(rules), ActivityNext \/ UNCHANGED activityVars
  PROVE  KeyedTable(rules)'
<1> SUFFICES KeyedTable(rules')
  BY DEF KeyedTable
<1>0. CASE UNCHANGED rules
  BY <1>0
<1>1. ASSUME NEW r \in Rules, CreateRule(r) PROVE KeyedTable(rules')
  <2>1. rules' = rules \cup {r} /\ \A q \in rules : ~SameRule(q, r)
    BY <1>1 DEF CreateRule, Edit
  <2>2. IsFiniteSet(rules')
    BY <2>1, FS_AddElement DEF KeyedTable
  <2> QED BY <2>1, <2>2 DEF KeyedTable, SameRule
<1>2. ASSUME NEW q \in Rules, NEW r \in Rules, UpdateRule(q, r) PROVE KeyedTable(rules')
  <2>1. rules' = (rules \ {q}) \cup {r} /\ \A x \in rules \ {q} : ~SameRule(x, r)
    BY <1>2 DEF UpdateRule, Edit
  <2>2. IsFiniteSet(rules \ {q})
    BY FS_RemoveElement DEF KeyedTable
  <2>3. IsFiniteSet(rules')
    BY <2>1, <2>2, FS_AddElement
  <2> QED BY <2>1, <2>3 DEF KeyedTable, SameRule
<1>3. ASSUME NEW r \in Rules, DeleteRule(r) PROVE KeyedTable(rules')
  <2>1. rules' = rules \ {r}
    BY <1>3 DEF DeleteRule, Edit
  <2>2. IsFiniteSet(rules')
    BY <2>1, FS_RemoveElement DEF KeyedTable
  <2> QED BY <2>1, <2>2 DEF KeyedTable
<1>4. ASSUME NEW r \in Rules, NEW mode \in {"merge", "replace"}, ImportRules({r}, mode) PROVE KeyedTable(rules')
  <2> DEFINE kept == IF mode = "replace" THEN {} ELSE {q \in rules : ~SameRule(q, r)}
  <2>1. rules' = kept \cup {r}
    BY <1>4 DEF ImportRules, Edit
  <2>2. kept \in SUBSET rules /\ \A q \in kept : ~SameRule(q, r)
    OBVIOUS
  <2>3. IsFiniteSet(kept)
    BY <2>2, FS_Subset DEF KeyedTable
  <2> HIDE DEF kept
  <2>4. IsFiniteSet(rules')
    BY <2>1, <2>3, FS_AddElement
  <2> QED BY <2>1, <2>2, <2>4 DEF KeyedTable, SameRule
<1> QED BY <1>0, <1>1, <1>2, <1>3, <1>4
      DEF ActivityNext, PricingRoute, Ingest, IngestThenStop, activityVars

(* And never do.                                                           *)
LEMMA TableInvariance == ActivitySpec => []KeyedTable(rules)
<1>1. ActivityInit => KeyedTable(rules)
  BY FS_EmptySet DEF ActivityInit, KeyedTable
<1>2. KeyedTable(rules) /\ [ActivityNext]_activityVars => KeyedTable(rules)'
  BY TableKeeps
<1> QED BY <1>1, <1>2, PTL DEF ActivitySpec

(* A change of the table that only touches later rules keeps a cost.       *)
LEMMA EditKeepsCosts ==
  ASSUME ActivityInv, KeyedTable(rules), KeyedTable(rules'), ActivityNext, rules' # rules,
         NEW v \in Viewers, NEW i \in OfKind(Own(v), {"usage.snapshot"}),
         \A r \in Touched : r.from > events[i].at
  PROVE  CostOf(v, i)' = CostOf(v, i)
<1>1. events' = events
  BY DEF ActivityNext, Ingest, IngestThenStop, PricingRoute, CreateRule, UpdateRule, DeleteRule, ImportRules, Edit
<1>2. AgentOf(v, i)' = AgentOf(v, i)
  BY <1>1 DEF AgentOf, Named, OfWorkflow, WorkflowOf, Own, The, LatestOf, Before
<1> DEFINE agent == AgentOf(v, i)
           usage == events[i].what.usage
           at == events[i].at
           able(r) == Able(r, agent, usage.model, at)
<1>3. \A r \in Touched : ~able(r)
  <2> SUFFICES ASSUME NEW r \in Touched PROVE ~(r.from <= at)
    BY DEF Able
  <2>1. r \in Rules
    BY DEF Touched, KeyedTable
  <2>2. i \in DOMAIN events /\ events \in Seq(Event)
    BY DEF ActivityInv, Histories, OfKind, Own
  <2> DEFINE from == r.from
  <2>3. at \in Nat
    <3>1. events[i] \in Event
      BY <2>2
    <3> QED BY <3>1 DEF Event
  <2>4. from \in Nat /\ from > at
    BY <2>1, RuleAssumption
  <2>5. ~(from <= at)
    <3> HIDE DEF at, from
    <3> QED BY <2>3, <2>4
  <2> QED BY <2>5
<1>4. Eligible(rules', agent, usage.model, at) = Eligible(rules, agent, usage.model, at)
  <2>1. \A r : (r \in rules' /\ able(r)) <=> (r \in rules /\ able(r))
    BY <1>3 DEF Touched
  <2>2. \A r : r \in Eligible(rules', agent, usage.model, at) <=> r \in rules' /\ able(r)
    BY AbleIsEligible
  <2>3. \A r : r \in Eligible(rules, agent, usage.model, at) <=> r \in rules /\ able(r)
    BY AbleIsEligible
  <2> HIDE DEF able, agent, usage, at
  <2> QED BY <2>1, <2>2, <2>3
<1>5. PriceSession(SetToSeq(rules'), agent, at, usage) = PriceSession(SetToSeq(rules), agent, at, usage)
  <2> HIDE DEF agent, usage, at
  <2> QED BY <1>4, SamePrice
<1>6. CostOf(v, i)' = PriceSession(SetToSeq(rules'), agent, at, usage)
  BY <1>1, <1>2 DEF CostOf
<1> QED BY <1>5, <1>6 DEF CostOf

(* Writing, changing, deleting or importing rules of a later date leaves   *)
(* what an earlier session cost.                                           *)
THEOREM OldCostsStayHolds == ActivitySpec => OldCostsStay
<1>1. ActivityInv /\ KeyedTable(rules) /\ KeyedTable(rules)' /\ [ActivityNext]_activityVars =>
        [rules' # rules =>
           \A v \in Viewers : \A i \in OfKind(Own(v), {"usage.snapshot"}) :
             (\A r \in Touched : r.from > events[i].at) => CostOf(v, i)' = CostOf(v, i)]_activityVars
  <2> SUFFICES ASSUME ActivityInv, KeyedTable(rules), KeyedTable(rules)', ActivityNext, rules' # rules,
                      NEW v \in Viewers, NEW i \in OfKind(Own(v), {"usage.snapshot"}),
                      \A r \in Touched : r.from > events[i].at
               PROVE  CostOf(v, i)' = CostOf(v, i)
    OBVIOUS
  <2>1. KeyedTable(rules')
    BY DEF KeyedTable
  <2> QED BY <2>1, EditKeepsCosts
<1> QED BY <1>1, ActivityInvariance, TableInvariance, PTL DEF ActivitySpec, OldCostsStay
=============================================================================
