-------------------------- MODULE OtelExport_proof --------------------------
(***************************************************************************)
(* Theorems about OtelExport, for any number of events, totals, batches,   *)
(* faults and changes to the settings.                                     *)
(***************************************************************************)
EXTENDS OtelExport, FiniteSetTheorems, SequenceTheorems, WellFoundedInduction, TLAPS

Statuses == {"none", "pending", "sent", "dead"}
Sending == worker.pc \in {"traces", "metrics", "answer"}

(* What a pass may hold.                                                   *)
Passes ==
  [pc : {"idle", "check", "claim", "traces", "metrics", "answer"},
   cfg : [saved : BOOLEAN, on : BOOLEAN, since : Nat, temp : {"delta", "cumulative"}],
   claims : 0 .. MaxBatches,
   ids : SUBSET DOMAIN events, tok : Nat, cnt : SUBSET DOMAIN events,
   states : SUBSET (0 .. MaxTotal), series : Totals]

Typed ==
  /\ events \in Seq([kind : {"usage", "count"}, total : 0 .. MaxTotal, on : BOOLEAN])
  /\ Len(events) <= MaxEvents
  /\ outbox \in [1 .. MaxEvents -> [st : Statuses, wait : 0 .. MaxFaults]]
  /\ config \in [saved : BOOLEAN, on : BOOLEAN, since : 0 .. Len(events), temp : {"delta", "cumulative"}]
  /\ state \in 0 .. MaxTotal
  /\ series \in Totals
  /\ worker \in Passes
  /\ dest \in [shown : Totals, times : [1 .. MaxEvents -> Nat]]
  /\ refused \in Nat /\ lost \in Nat /\ refused + lost <= MaxFaults
  /\ changes \in 0 .. MaxChanges

(* A row is of an event received while the exporter was on.                *)
Rows ==
  \A n \in 1 .. MaxEvents :
    /\ outbox[n] = NoRow <=> outbox[n].st = "none"
    /\ outbox[n] # NoRow => n \in DOMAIN events /\ events[n].on

(* Only such events are counted, in a batch or at the destination.         *)
OnlyWhatWasOn ==
  /\ \A n \in worker.cnt : events[n].on
  /\ \A n \in 1 .. MaxEvents : dest.times[n] > 0 => n \in DOMAIN events /\ events[n].on

-----------------------------------------------------------------------------
(* While the settings stay as they were first saved and nothing is pruned. *)

(* The pass works with the settings of now, and with rows it may send.     *)
SettingsHold ==
  /\ ~config.on => worker.pc = "idle" /\ \A n \in 1 .. MaxEvents : outbox[n].st = "none"
  /\ ~config.saved => ~config.on /\ state = 0 /\ series = Zero /\ dest.shown = Zero
  /\ worker.pc # "idle" => worker.cfg = config
  /\ \A n \in 1 .. MaxEvents : outbox[n].st # "none" => n > config.since

Cumulative == config.temp = "cumulative"

(* What the worker holds of the batch it is sending: rows that still wait  *)
(* for it, all their counts, and enough usage for their snapshots.         *)
BatchHeld ==
  Sending =>
    /\ \A n \in worker.ids : outbox[n].st = "pending"
    /\ worker.cnt = Counted(worker.ids)
    /\ \A n \in Usage(worker.ids) : \E top \in worker.states : events[n].total <= top
    /\ worker.states = {} \/ \E top \in 0 .. MaxTotal : worker.states = {top} /\ top <= state + worker.tok
    /\ Cumulative => worker.series = Merged(series, worker.tok, worker.cnt)

(* What the destination shows when it has accepted it.                     *)
BatchShown ==
  worker.pc = "answer" =>
    /\ \A n \in worker.cnt : dest.times[n] >= 1
    /\ ~Cumulative => dest.shown.tok >= state + worker.tok
    /\ Cumulative /\ worker.tok > 0 => dest.shown.tok = worker.series.tok
    /\ Cumulative /\ worker.cnt # {} => dest.shown.cnt = worker.series.cnt

(* An event is sent again only after an answer was lost.                   *)
InAnswer(n) == worker.pc = "answer" /\ n \in worker.cnt
RepeatsAreLosses ==
  \A n \in 1 .. MaxEvents :
    /\ dest.times[n] <= 1 + lost
    /\ outbox[n].st = "pending" /\ ~InAnswer(n) => dest.times[n] <= lost
    /\ outbox[n].st = "sent" /\ events[n].kind = "count" => dest.times[n] >= 1

(* The exported total never runs ahead of what is shown, and finished      *)
(* snapshots are within it.                                                *)
Exported == IF Cumulative THEN series.tok ELSE dest.shown.tok
TotalsShown ==
  /\ state <= Exported /\ Exported <= dest.shown.tok
  /\ \A n \in 1 .. MaxEvents :
       outbox[n].st = "sent" /\ events[n].kind = "usage" => events[n].total <= Exported

(* The running total of counts is over the sent rows, and shown unless     *)
(* counted rows are still to be sent.                                      *)
SentCounts == {n \in 1 .. MaxEvents : outbox[n].st = "sent" /\ events[n].kind = "count"}
CountsMatch ==
  Cumulative =>
    /\ series.cnt = Cardinality(SentCounts)
    /\ \/ dest.shown.cnt = series.cnt
       \/ \E n \in 1 .. MaxEvents : outbox[n].st \in {"pending", "dead"} /\ events[n].kind = "count"

SteadyInv ==
  SettingsHold /\ BatchHeld /\ BatchShown /\ RepeatsAreLosses /\ TotalsShown /\ CountsMatch

IInv == Typed /\ Rows /\ OnlyWhatWasOn /\ (Steady => SteadyInv)
-----------------------------------------------------------------------------
(* A bounded set of numbers has a greatest element, which is its Max.      *)
LEMMA Greatest ==
  ASSUME NEW b \in Nat, NEW S \in SUBSET (0 .. b), S # {}
  PROVE  Max(S) \in S /\ \A y \in S : y <= Max(S)
<1> DEFINE T == {b - x : x \in S}
           R == OpToRel(<, Nat)
<1>1. T \subseteq Nat /\ T # {}
  <2>1. ASSUME NEW x \in S PROVE b - x \in Nat
    <3>1. x \in 0 .. b
      OBVIOUS
    <3> QED BY <3>1
  <2> QED BY <2>1
<1>2. IsWellFoundedOn(R, Nat)
  BY NatLessThanWellFounded
<1>3. PICK t \in T : \A y \in T : ~(<<y, t>> \in R)
  BY <1>1, <1>2, WFMin
<1>4. \A y \in T : ~(y < t)
  BY <1>1, <1>3 DEF OpToRel
<1>5. PICK x \in S : t = b - x
  BY <1>3
<1>6. ASSUME NEW y \in S PROVE x >= y
  <2>1. b - y \in T /\ x \in 0 .. b /\ y \in 0 .. b
    OBVIOUS
  <2>2. ~(b - y < b - x)
    BY <1>4, <1>5, <2>1
  <2> QED BY <2>1, <2>2
<1>7. Max(S) \in S /\ \A y \in S : Max(S) >= y
  BY <1>6 DEF Max
<1> QED BY <1>7

(* The sizes of sets of events are numbers.                                *)
LEMMA Sizes ==
  ASSUME NEW S \in SUBSET (1 .. MaxEvents)
  PROVE  IsFiniteSet(S) /\ Cardinality(S) \in Nat /\ (S = {} <=> Cardinality(S) = 0)
<1>1. IsFiniteSet(1 .. MaxEvents)
  BY FS_Interval, BoundAssumption
<1>2. IsFiniteSet(S)
  BY <1>1, FS_Subset
<1> QED BY <1>2, FS_CardinalityType, FS_EmptySet

(* The types, part by part.                                                *)
LEMMA Parts ==
  ASSUME Typed
  PROVE  /\ DOMAIN events = 1 .. Len(events) /\ Len(events) \in Nat
         /\ DOMAIN events \subseteq 1 .. MaxEvents
         /\ \A n \in DOMAIN events : /\ events[n].kind \in {"usage", "count"}
                                     /\ events[n].total \in 0 .. MaxTotal
                                     /\ events[n].on \in BOOLEAN
         /\ \A n \in 1 .. MaxEvents : outbox[n].st \in Statuses /\ outbox[n].wait \in 0 .. MaxFaults
         /\ series.tok \in Nat /\ series.cnt \in Nat
         /\ dest.shown.tok \in Nat /\ dest.shown.cnt \in Nat
         /\ \A n \in 1 .. MaxEvents : dest.times[n] \in Nat
         /\ worker.ids \subseteq DOMAIN events /\ worker.cnt \subseteq DOMAIN events
         /\ worker.tok \in Nat /\ worker.series.tok \in Nat /\ worker.series.cnt \in Nat
<1>1. DOMAIN events = 1 .. Len(events) /\ Len(events) \in Nat
  BY DEF Typed
<1>2. DOMAIN events \subseteq 1 .. MaxEvents
  <2>1. Len(events) <= MaxEvents /\ MaxEvents \in Nat
    BY BoundAssumption DEF Typed
  <2> QED BY <1>1, <2>1
<1>3. \A n \in DOMAIN events : /\ events[n].kind \in {"usage", "count"}
                               /\ events[n].total \in 0 .. MaxTotal
                               /\ events[n].on \in BOOLEAN
  <2> DEFINE E == [kind : {"usage", "count"}, total : 0 .. MaxTotal, on : BOOLEAN]
  <2>1. \A e \in E : e.kind \in {"usage", "count"} /\ e.total \in 0 .. MaxTotal /\ e.on \in BOOLEAN
    OBVIOUS
  <2>2. events \in Seq(E)
    BY DEF Typed
  <2> HIDE DEF E
  <2> QED BY <1>1, <2>1, <2>2
<1>4. \A n \in 1 .. MaxEvents : outbox[n].st \in Statuses /\ outbox[n].wait \in 0 .. MaxFaults
  BY DEF Typed
<1>5. /\ series.tok \in Nat /\ series.cnt \in Nat
      /\ dest.shown.tok \in Nat /\ dest.shown.cnt \in Nat
      /\ \A n \in 1 .. MaxEvents : dest.times[n] \in Nat
  BY DEF Typed, Totals
<1>6. /\ worker.ids \subseteq DOMAIN events /\ worker.cnt \subseteq DOMAIN events
      /\ worker.tok \in Nat /\ worker.series.tok \in Nat /\ worker.series.cnt \in Nat
  BY DEF Typed, Passes, Totals
<1> QED BY <1>1, <1>2, <1>3, <1>4, <1>5, <1>6

(* Steadiness is never regained.                                           *)
LEMMA SteadyBefore ==
  ASSUME Typed, NEW c, Counts(c), Steady'
  PROVE  Steady /\ ~c
BY ChangeAssumption DEF Typed, Counts, Steady

-----------------------------------------------------------------------------
(* A step that moves the pass while no request is under way, or ends it:   *)
(* its rows wait again or are given up, and an accepted request whose      *)
(* answer does not come counts as lost.                                    *)
LEMMA PassMoves ==
  ASSUME IInv, Typed',
         UNCHANGED <<events, config, state, series, dest, changes>>,
         worker'.pc \in {"idle", "check", "claim"},
         worker'.cnt = {} \/ worker'.cnt = worker.cnt,
         worker'.pc # "idle" => worker'.cfg = worker.cfg /\ worker.pc # "idle",
         lost' >= lost /\ (worker.pc = "answer" => lost' > lost),
         \A n \in 1 .. MaxEvents :
           /\ outbox'[n] = NoRow <=> outbox'[n].st = "none"
           /\ outbox'[n].st = "none" <=> outbox[n].st = "none"
           /\ Steady => \/ outbox'[n].st = outbox[n].st
                        \/ outbox[n].st = "pending" /\ outbox'[n].st = "dead"
  PROVE  IInv'
<1>1. Rows' /\ OnlyWhatWasOn'
  BY DEF IInv, Rows, OnlyWhatWasOn
<1>2. ASSUME Steady' PROVE SteadyInv'
  <2>1. SteadyInv
    BY <1>2 DEF IInv, Steady
  <2>2. \A n \in 1 .. MaxEvents : \/ outbox'[n].st = outbox[n].st
                                  \/ outbox[n].st = "pending" /\ outbox'[n].st = "dead"
    BY <1>2 DEF Steady
  <2>3. SettingsHold'
    BY <2>1, <2>2 DEF SteadyInv, SettingsHold
  <2>4. BatchHeld' /\ BatchShown'
    BY DEF BatchHeld, BatchShown, Sending
  <2>5. RepeatsAreLosses'
    <3> SUFFICES ASSUME NEW n \in 1 .. MaxEvents
                 PROVE  /\ dest.times[n] <= 1 + lost'
                        /\ outbox'[n].st = "pending" => dest.times[n] <= lost'
                        /\ outbox'[n].st = "sent" /\ events[n].kind = "count" => dest.times[n] >= 1
      BY DEF RepeatsAreLosses
    <3>1. dest.times[n] \in Nat /\ lost \in Nat /\ lost' \in Nat
      BY Parts DEF IInv, Typed
    <3>2. /\ dest.times[n] <= 1 + lost
          /\ outbox[n].st = "pending" /\ ~InAnswer(n) => dest.times[n] <= lost
          /\ outbox[n].st = "sent" /\ events[n].kind = "count" => dest.times[n] >= 1
      BY <2>1 DEF SteadyInv, RepeatsAreLosses
    <3> QED BY <2>2, <3>1, <3>2 DEF InAnswer
  <2>6. TotalsShown'
    BY <2>1, <2>2 DEF SteadyInv, TotalsShown, Exported, Cumulative
  <2>7. CountsMatch'
    <3>1. SentCounts' = SentCounts
      BY <2>2 DEF SentCounts
    <3> QED BY <2>1, <2>2, <3>1 DEF SteadyInv, CountsMatch, Cumulative
  <2> QED BY <2>3, <2>4, <2>5, <2>6, <2>7 DEF SteadyInv
<1> QED BY <1>1, <1>2 DEF IInv

(* A pass at rest.                                                         *)
LEMMA IdleTyped == Idle \in Passes /\ Idle.pc = "idle" /\ Idle.cnt = {}
BY BatchAssumption DEF Passes, Idle, NoConfig, Zero, Totals

(* A step of the pass that touches nothing else.                           *)
LEMMA PassOnly ==
  ASSUME IInv,
         UNCHANGED <<events, outbox, config, state, series, dest, changes>>,
         worker' = Idle \/ (worker.pc = "check" /\ worker' = [worker EXCEPT !.pc = "claim"]),
         \/ UNCHANGED <<refused, lost>> /\ worker.pc # "answer"
         \/ Faults < MaxFaults /\ refused' = refused + 1 /\ UNCHANGED lost /\ worker.pc # "answer"
         \/ Faults < MaxFaults /\ lost' = lost + 1 /\ UNCHANGED refused
  PROVE  IInv'
<1>1. refused' \in Nat /\ lost' \in Nat /\ refused' + lost' <= MaxFaults
  BY BoundAssumption DEF IInv, Typed, Faults
<1>2. /\ worker' \in Passes
      /\ worker'.pc \in {"idle", "check", "claim"}
      /\ worker'.cnt = {} \/ worker'.cnt = worker.cnt
      /\ worker'.pc # "idle" => worker'.cfg = worker.cfg /\ worker.pc # "idle"
  <2>1. CASE worker' = Idle
    BY <2>1, IdleTyped
  <2>2. CASE worker.pc = "check" /\ worker' = [worker EXCEPT !.pc = "claim"]
    BY <2>2 DEF IInv, Typed, Passes
  <2> QED BY <2>1, <2>2
<1>3. Typed'
  BY <1>1, <1>2 DEF IInv, Typed, Passes
<1>4. lost' >= lost /\ (worker.pc = "answer" => lost' > lost)
  BY DEF IInv, Typed
<1>5. \A n \in 1 .. MaxEvents : outbox'[n] = NoRow <=> outbox'[n].st = "none"
  BY DEF IInv, Rows
<1> QED BY <1>2, <1>3, <1>4, <1>5, PassMoves

(* Marking rows gives each that is there the new status.                   *)
LEMMA MarkRows ==
  ASSUME Typed, Rows, NEW ids, NEW st \in Statuses \ {"none"}, NEW w \in 0 .. MaxFaults,
         outbox' = Mark(ids, [st |-> st, wait |-> w])
  PROVE  /\ outbox' \in [1 .. MaxEvents -> [st : Statuses, wait : 0 .. MaxFaults]]
         /\ \A n \in 1 .. MaxEvents :
              /\ outbox'[n] = NoRow <=> outbox'[n].st = "none"
              /\ outbox'[n].st = IF n \in ids /\ outbox[n].st # "none" THEN st ELSE outbox[n].st
<1> DEFINE row == [st |-> st, wait |-> w]
<1>1. row \in [st : Statuses, wait : 0 .. MaxFaults] /\ row.st = st /\ row # NoRow
  BY DEF NoRow
<1>2. outbox' = [n \in 1 .. MaxEvents |-> IF n \in ids /\ outbox[n] # NoRow THEN row ELSE outbox[n]]
  BY DEF Mark
<1> HIDE DEF row
<1>3. outbox \in [1 .. MaxEvents -> [st : Statuses, wait : 0 .. MaxFaults]]
  BY DEF Typed
<1>4. ASSUME NEW n \in 1 .. MaxEvents
      PROVE  /\ outbox'[n] \in [st : Statuses, wait : 0 .. MaxFaults]
             /\ outbox'[n] = NoRow <=> outbox'[n].st = "none"
             /\ outbox'[n].st = IF n \in ids /\ outbox[n].st # "none" THEN st ELSE outbox[n].st
  <2>1. outbox[n] = NoRow <=> outbox[n].st = "none"
    BY DEF Rows
  <2>2. CASE n \in ids /\ outbox[n] # NoRow
    BY <1>1, <1>2, <2>1, <2>2
  <2>3. CASE ~(n \in ids /\ outbox[n] # NoRow)
    BY <1>2, <1>3, <2>1, <2>3
  <2> QED BY <2>2, <2>3
<1> QED BY <1>2, <1>4

(* A request that was refused, rejected or whose answer was lost: the rows *)
(* of the batch wait again, or are given up, and the pass ends.            *)
LEMMA BatchFails ==
  ASSUME IInv,
         NEW st \in {"pending", "dead"}, NEW w \in 0 .. MaxFaults,
         outbox' = Mark(worker.ids, [st |-> st, wait |-> w]),
         worker' = Idle,
         Sending,
         UNCHANGED <<events, config, state, series, dest, changes>>,
         Faults < MaxFaults,
         \/ refused' = refused + 1 /\ UNCHANGED lost /\ worker.pc # "answer"
         \/ lost' = lost + 1 /\ UNCHANGED refused
  PROVE  IInv'
<1>1. refused' \in Nat /\ lost' \in Nat /\ refused' + lost' <= MaxFaults
  BY BoundAssumption DEF IInv, Typed, Faults
<1>2. st \in Statuses \ {"none"} /\ Typed /\ Rows
  BY DEF Statuses, IInv
<1>3. /\ outbox' \in [1 .. MaxEvents -> [st : Statuses, wait : 0 .. MaxFaults]]
      /\ \A n \in 1 .. MaxEvents :
           /\ outbox'[n] = NoRow <=> outbox'[n].st = "none"
           /\ outbox'[n].st = IF n \in worker.ids /\ outbox[n].st # "none" THEN st ELSE outbox[n].st
  BY <1>2, MarkRows
<1>4. Typed'
  BY <1>1, <1>3, IdleTyped DEF IInv, Typed, Passes
<1>5. Steady => \A n \in worker.ids : outbox[n].st = "pending"
  BY DEF IInv, SteadyInv, BatchHeld
<1>6. \A n \in 1 .. MaxEvents :
        /\ outbox'[n].st = "none" <=> outbox[n].st = "none"
        /\ Steady => \/ outbox'[n].st = outbox[n].st
                     \/ outbox[n].st = "pending" /\ outbox'[n].st = "dead"
  BY <1>2, <1>3, <1>5
<1>7. lost' >= lost /\ (worker.pc = "answer" => lost' > lost)
  BY DEF IInv, Typed
<1> QED BY <1>3, <1>4, <1>6, <1>7, IdleTyped, PassMoves

(* Each of the three failures is such a step. *)
LEMMA FailuresKeep == IInv /\ (Refused \/ Rejected \/ AnswerLost) => IInv'
<1> SUFFICES ASSUME IInv, Refused \/ Rejected \/ AnswerLost PROVE IInv'
  OBVIOUS
<1> DEFINE w == Faults + 1
<1>1. Faults < MaxFaults => w \in 0 .. MaxFaults /\ 0 \in 0 .. MaxFaults
  BY BoundAssumption DEF IInv, Typed, Faults
<1>2. CASE Refused
  <2>1. outbox' = Mark(worker.ids, [st |-> "pending", wait |-> w])
    BY <1>2 DEF Refused, Fail
  <2> HIDE DEF w
  <2> QED BY <1>1, <1>2, <2>1, BatchFails DEF Refused, Fail, Sending
<1>3. CASE Rejected
  BY <1>1, <1>3, BatchFails DEF Rejected, Sending
<1>4. CASE AnswerLost
  <2>1. outbox' = Mark(worker.ids, [st |-> "pending", wait |-> w])
    BY <1>4 DEF AnswerLost, Fail
  <2> HIDE DEF w
  <2> QED BY <1>1, <1>4, <2>1, BatchFails DEF AnswerLost, Fail, Sending
<1> QED BY <1>2, <1>3, <1>4

(* A batch that stopped waiting is due again. *)
LEMMA ElapseKeeps ==
  ASSUME IInv, NEW w \in 1 .. MaxFaults, Elapse(w)
  PROVE  IInv'
<1>1. UNCHANGED <<events, config, state, series, worker, dest, refused, lost, changes>>
  BY DEF Elapse
<1>2. /\ outbox' \in [1 .. MaxEvents -> [st : Statuses, wait : 0 .. MaxFaults]]
      /\ \A n \in 1 .. MaxEvents : outbox'[n].st = outbox[n].st
      /\ \A n \in 1 .. MaxEvents : outbox'[n] = NoRow <=> outbox[n] = NoRow
  <2>1. outbox' = [n \in 1 .. MaxEvents |->
                     IF outbox[n].wait = w THEN [outbox[n] EXCEPT !.wait = 0] ELSE outbox[n]]
    BY DEF Elapse
  <2>2. ASSUME NEW n \in 1 .. MaxEvents
        PROVE  /\ outbox'[n] \in [st : Statuses, wait : 0 .. MaxFaults]
               /\ outbox'[n].st = outbox[n].st
               /\ outbox'[n] = NoRow <=> outbox[n] = NoRow
    <3>1. outbox[n] \in [st : Statuses, wait : 0 .. MaxFaults]
      BY DEF IInv, Typed
    <3>2. CASE outbox[n].wait = w
      <4> DEFINE row == [outbox[n] EXCEPT !.wait = 0]
      <4>1. row \in [st : Statuses, wait : 0 .. MaxFaults] /\ row.st = outbox[n].st
        BY <3>1, BoundAssumption
      <4>2. outbox'[n] = row
        BY <2>1, <3>2
      <4>3. outbox[n] # NoRow
        BY <3>2 DEF NoRow
      <4>4. outbox[n].st # "none"
        BY <4>3 DEF IInv, Rows
      <4> HIDE DEF row
      <4> QED BY <4>1, <4>2, <4>3, <4>4 DEF NoRow
    <3>3. CASE outbox[n].wait # w
      BY <2>1, <3>1, <3>3
    <3> QED BY <3>2, <3>3
  <2> QED BY <2>1, <2>2
<1>3. Typed'
  BY <1>1, <1>2 DEF IInv, Typed, Passes
<1>4. Rows' /\ OnlyWhatWasOn'
  BY <1>1, <1>2 DEF IInv, Rows, OnlyWhatWasOn
<1>5. ASSUME Steady' PROVE SteadyInv'
  <2>1. SteadyInv
    BY <1>1, <1>5 DEF IInv, Steady
  <2>2. SettingsHold' /\ RepeatsAreLosses' /\ TotalsShown'
    BY <1>1, <1>2, <2>1 DEF SteadyInv, SettingsHold, RepeatsAreLosses, InAnswer, TotalsShown, Exported, Cumulative
  <2>3. BatchHeld' /\ BatchShown'
    <3>1. worker.ids \subseteq 1 .. MaxEvents
      BY Parts DEF IInv
    <3> QED BY <1>1, <1>2, <2>1, <3>1 DEF SteadyInv, BatchHeld, BatchShown, Sending, Cumulative, Counted, Usage
  <2>4. SentCounts' = SentCounts
    BY <1>1, <1>2 DEF SentCounts
  <2>5. CountsMatch'
    BY <1>1, <1>2, <2>1, <2>4 DEF SteadyInv, CountsMatch, Cumulative
  <2> QED BY <2>2, <2>3, <2>5 DEF SteadyInv
<1> QED BY <1>3, <1>4, <1>5 DEF IInv

-----------------------------------------------------------------------------
(* The last total received is within the bound.                            *)
LEMMA LastTyped == Typed => Last \in 0 .. MaxTotal
<1> SUFFICES ASSUME Typed PROVE Last \in 0 .. MaxTotal
  OBVIOUS
<1> DEFINE S == {events[n].total : n \in DOMAIN events}
<1>1. MaxTotal \in Nat /\ 0 \in 0 .. MaxTotal
  BY BoundAssumption
<1>2. S \in SUBSET (0 .. MaxTotal)
  BY Parts
<1>3. CASE \E n \in DOMAIN events : events[n].kind = "usage"
  <2>1. S # {}
    BY <1>3
  <2>2. Max(S) \in 0 .. MaxTotal
    BY <1>1, <1>2, <2>1, Greatest
  <2> QED BY <1>3, <2>2 DEF Last
<1>4. CASE ~ \E n \in DOMAIN events : events[n].kind = "usage"
  BY <1>1, <1>4 DEF Last
<1> QED BY <1>3, <1>4

(* An event that is received is queued only while the exporter is on, and  *)
(* belongs to no batch yet.                                                *)
LEMMA IngestKeeps ==
  ASSUME IInv, NEW kind \in {"usage", "count"}, NEW total \in 0 .. MaxTotal, Ingest(kind, total)
  PROVE  IInv'
<1> DEFINE E == [kind : {"usage", "count"}, total : 0 .. MaxTotal, on : BOOLEAN]
           e == [kind |-> kind, total |-> total, on |-> config.on]
<1>1. PICK new \in Nat : new = Len(events) + 1
  BY Parts DEF IInv
<1>2. /\ UNCHANGED <<config, state, series, worker, dest, refused, lost, changes>>
      /\ new <= MaxEvents
      /\ events' = Append(events, e)
      /\ worker.pc # "claim"
      /\ outbox' = [outbox EXCEPT ![new] = IF Gate(new) THEN [st |-> "pending", wait |-> 0] ELSE @]
  BY <1>1 DEF Ingest, Free
<1>3. e \in E /\ e.on = config.on /\ e.kind = kind
  BY DEF IInv, Typed
<1>4. events \in Seq(E)
  BY DEF IInv, Typed
<1> HIDE DEF e, E
<1>5. /\ events' \in Seq(E)
      /\ Len(events') = new
      /\ DOMAIN events' = DOMAIN events \cup {new}
      /\ new \notin DOMAIN events
      /\ new \in 1 .. MaxEvents
      /\ events'[new] = e
      /\ \A n \in DOMAIN events : events'[n] = events[n]
  BY <1>1, <1>2, <1>3, <1>4
<1>6. outbox[new] = NoRow /\ outbox[new].st = "none"
  BY <1>5 DEF IInv, Rows
<1>7. /\ outbox' \in [1 .. MaxEvents -> [st : Statuses, wait : 0 .. MaxFaults]]
      /\ \A n \in 1 .. MaxEvents : n # new => outbox'[n] = outbox[n]
      /\ outbox'[new] = NoRow <=> outbox'[new].st = "none"
      /\ outbox'[new].st \in {"none", "pending"}
      /\ outbox'[new].st # "none" => Gate(new)
  <2> DEFINE row == IF Gate(new) THEN [st |-> "pending", wait |-> 0] ELSE NoRow
  <2>1. row \in [st : Statuses, wait : 0 .. MaxFaults]
    BY BoundAssumption DEF NoRow, Statuses
  <2>2. /\ row = NoRow <=> row.st = "none"
        /\ row.st \in {"none", "pending"}
        /\ row.st # "none" => Gate(new)
    BY DEF NoRow
  <2>3. outbox' = [outbox EXCEPT ![new] = row]
    BY <1>2, <1>6
  <2> HIDE DEF row
  <2>4. outbox \in [1 .. MaxEvents -> [st : Statuses, wait : 0 .. MaxFaults]]
    BY DEF IInv, Typed
  <2> QED BY <1>5, <2>1, <2>2, <2>3, <2>4
<1>8. Typed'
  <2>1. config' \in [saved : BOOLEAN, on : BOOLEAN, since : 0 .. Len(events'), temp : {"delta", "cumulative"}]
    BY <1>1, <1>2, <1>5, Parts DEF IInv, Typed
  <2>2. worker' \in Passes'
    BY <1>2, <1>5 DEF IInv, Typed, Passes
  <2> QED BY <1>2, <1>5, <1>7, <2>1, <2>2 DEF IInv, Typed, E
<1>9. Rows'
  BY <1>3, <1>5, <1>7 DEF IInv, Rows, Gate
<1>10. OnlyWhatWasOn'
  <2>1. \A n \in worker.cnt : n \in DOMAIN events
    BY Parts DEF IInv
  <2> QED BY <1>2, <1>5, <2>1 DEF IInv, OnlyWhatWasOn
<1>11. ASSUME Steady' PROVE SteadyInv'
  <2>1. SteadyInv
    BY <1>2, <1>11 DEF IInv, Steady
  <2>2. \A n \in 1 .. MaxEvents : outbox[n].st # "none" => n \in DOMAIN events
    BY DEF IInv, Rows
  <2>3. SettingsHold'
    BY <1>2, <1>7, <2>1 DEF SteadyInv, SettingsHold, Gate
  <2>4. BatchHeld' /\ BatchShown'
    <3>1. \A n \in worker.ids : n \in DOMAIN events /\ n \in 1 .. MaxEvents /\ n # new
      BY <1>5, Parts DEF IInv
    <3>2. Counted(worker.ids)' = Counted(worker.ids) /\ Usage(worker.ids)' = Usage(worker.ids)
      BY <1>2, <1>5, <3>1 DEF Counted, Usage
    <3>3. \A n \in Usage(worker.ids) : events'[n] = events[n]
      BY <1>5, <3>1 DEF Usage
    <3>4. \A n \in worker.ids : outbox'[n] = outbox[n]
      BY <1>7, <3>1
    <3>5. worker' = worker /\ Sending' = Sending /\ Cumulative' = Cumulative
      BY <1>2 DEF Sending, Cumulative
    <3>6. BatchHeld
      BY <2>1 DEF SteadyInv
    <3>7. BatchHeld'
      <4> SUFFICES ASSUME Sending
                   PROVE  /\ \A n \in worker.ids : outbox'[n].st = "pending"
                          /\ worker.cnt = Counted(worker.ids)
                          /\ \A n \in Usage(worker.ids) : \E top \in worker.states : events'[n].total <= top
                          /\ worker.states = {} \/ \E top \in 0 .. MaxTotal :
                               worker.states = {top} /\ top <= state' + worker.tok
                          /\ Cumulative => worker.series = Merged(series', worker.tok, worker.cnt)
        BY <3>2, <3>5 DEF BatchHeld, Merged
      <4> QED BY <1>2, <3>3, <3>4, <3>6 DEF BatchHeld
    <3> QED BY <1>2, <2>1, <3>7 DEF SteadyInv, BatchShown, Cumulative
  <2>5. RepeatsAreLosses'
    <3> SUFFICES ASSUME NEW n \in 1 .. MaxEvents
                 PROVE  /\ dest.times[n] <= 1 + lost
                        /\ outbox'[n].st = "pending" /\ ~InAnswer(n)' => dest.times[n] <= lost
                        /\ outbox'[n].st = "sent" /\ events'[n].kind = "count" => dest.times[n] >= 1
      BY <1>2 DEF RepeatsAreLosses
    <3>1. CASE n = new
      <4>1. dest.times[n] = 0 /\ lost \in Nat
        <5>1. dest.times[n] \in Nat /\ ~(dest.times[n] > 0)
          BY <1>5, <3>1, Parts DEF IInv, OnlyWhatWasOn
        <5>2. lost \in Nat
          BY DEF IInv, Typed
        <5> QED BY <5>1, <5>2
      <4> QED BY <1>7, <3>1, <4>1
    <3>2. CASE n # new
      BY <1>2, <1>5, <1>7, <2>1, <2>2, <3>2 DEF SteadyInv, RepeatsAreLosses, InAnswer
    <3> QED BY <3>1, <3>2
  <2>6. TotalsShown'
    BY <1>2, <1>5, <1>7, <2>1, <2>2 DEF SteadyInv, TotalsShown, Exported, Cumulative
  <2>7. CountsMatch'
    <3>1. SentCounts' = SentCounts
      BY <1>5, <1>7, <2>2 DEF SentCounts
    <3>2. \A n \in 1 .. MaxEvents : outbox[n].st \in {"pending", "dead"} =>
            outbox'[n] = outbox[n] /\ events'[n] = events[n]
      BY <1>5, <1>6, <1>7, <2>2
    <3> QED BY <1>2, <2>1, <3>1, <3>2 DEF SteadyInv, CountsMatch, Cumulative
  <2> QED BY <2>3, <2>4, <2>5, <2>6, <2>7 DEF SteadyInv
<1> QED BY <1>8, <1>9, <1>10, <1>11 DEF IInv

(* The first save finds nothing exported; any later one ends steadiness.   *)
LEMMA SaveKeeps ==
  ASSUME IInv, NEW on \in BOOLEAN, NEW temp \in Temporalities, Save(on, temp)
  PROVE  IInv'
<1>1. /\ UNCHANGED <<events, outbox, state, worker, dest, refused, lost>>
      /\ Counts(config.saved)
      /\ config' = Saved(on, temp)
      /\ series' = IF config.saved /\ config.temp # temp THEN Zero ELSE series
  BY DEF Save
<1>2. Typed'
  <2>1. config' \in [saved : BOOLEAN, on : BOOLEAN, since : 0 .. Len(events'), temp : {"delta", "cumulative"}]
    <3>1. IF on /\ ~config.on THEN Len(events) \in 0 .. Len(events) ELSE config.since \in 0 .. Len(events)
      BY Parts DEF IInv, Typed
    <3> QED BY <1>1, <3>1, TemporalityAssumption DEF Saved
  <2>2. series' \in Totals /\ changes' \in 0 .. MaxChanges
    BY <1>1, ChangeAssumption DEF IInv, Typed, Totals, Zero, Counts
  <2> QED BY <1>1, <2>1, <2>2 DEF IInv, Typed, Passes
<1>3. Rows' /\ OnlyWhatWasOn'
  BY <1>1 DEF IInv, Rows, OnlyWhatWasOn
<1>4. ASSUME Steady' PROVE SteadyInv'
  <2>1. Steady /\ ~config.saved /\ SteadyInv
    BY <1>1, <1>4, SteadyBefore DEF IInv
  <2>2. /\ worker.pc = "idle" /\ state = 0 /\ series = Zero /\ dest.shown = Zero
        /\ \A n \in 1 .. MaxEvents : outbox[n].st = "none"
    BY <2>1 DEF SteadyInv, SettingsHold
  <2>3. series' = Zero /\ series'.tok = 0 /\ series'.cnt = 0 /\ dest.shown.tok = 0 /\ dest.shown.cnt = 0
    BY <1>1, <2>1, <2>2 DEF Zero
  <2>4. SettingsHold'
    <3>1. config'.saved
      BY <1>1 DEF Saved
    <3> QED BY <1>1, <2>2, <3>1 DEF SettingsHold
  <2>5. BatchHeld' /\ BatchShown'
    BY <1>1, <2>2 DEF BatchHeld, BatchShown, Sending
  <2>6. RepeatsAreLosses'
    BY <1>1, <2>1 DEF SteadyInv, RepeatsAreLosses, InAnswer
  <2>7. TotalsShown'
    BY <1>1, <2>2, <2>3 DEF TotalsShown, Exported
  <2>8. CountsMatch'
    <3>1. SentCounts' = {}
      BY <1>1, <2>2 DEF SentCounts
    <3> QED BY <1>1, <2>3, <3>1, FS_EmptySet DEF CountsMatch
  <2> QED BY <2>4, <2>5, <2>6, <2>7, <2>8 DEF SteadyInv
<1> QED BY <1>2, <1>3, <1>4 DEF IInv

(* Dropping the settings ends steadiness; what was counted was on.         *)
LEMMA DeleteKeeps ==
  ASSUME IInv, DeleteConfig
  PROVE  IInv'
<1>1. /\ UNCHANGED <<events, worker, dest, refused, lost>>
      /\ Counts(TRUE)
      /\ config' = NoConfig
      /\ outbox' = [n \in 1 .. MaxEvents |-> NoRow]
      /\ state' = 0
      /\ series' = Zero
  BY DEF DeleteConfig
<1>2. Typed'
  <2>1. config' \in [saved : BOOLEAN, on : BOOLEAN, since : 0 .. Len(events'), temp : {"delta", "cumulative"}]
    BY <1>1, Parts DEF IInv, NoConfig
  <2>2. series' \in Totals /\ changes' \in 0 .. MaxChanges /\ state' \in 0 .. MaxTotal
    BY <1>1, ChangeAssumption, BoundAssumption DEF IInv, Typed, Totals, Zero, Counts
  <2>3. outbox' \in [1 .. MaxEvents -> [st : Statuses, wait : 0 .. MaxFaults]]
    BY <1>1, BoundAssumption DEF NoRow, Statuses
  <2> QED BY <1>1, <2>1, <2>2, <2>3 DEF IInv, Typed, Passes
<1>3. Rows' /\ OnlyWhatWasOn'
  BY <1>1 DEF IInv, Rows, OnlyWhatWasOn, NoRow
<1>4. ~Steady'
  BY <1>1, SteadyBefore DEF IInv
<1> QED BY <1>2, <1>3, <1>4 DEF IInv

(* A pass starts with the settings of now; one that prunes ends steadiness.*)
LEMMA StartKeeps ==
  ASSUME IInv, NEW cut \in 0 .. Len(events), Start(cut)
  PROVE  IInv'
<1>1. /\ UNCHANGED <<events, config, state, series, dest, refused, lost>>
      /\ Counts(cut > 0)
      /\ outbox' = [n \in 1 .. MaxEvents |-> IF n <= cut THEN NoRow ELSE outbox[n]]
      /\ worker' = [Idle EXCEPT !.pc = "check", !.cfg = config]
      /\ config.on
  BY DEF Start
<1>2. worker' \in Passes /\ worker'.pc = "check" /\ worker'.cfg = config /\ worker'.cnt = {}
  <2>1. /\ Idle \in Passes /\ Idle.cnt = {}
        /\ config \in [saved : BOOLEAN, on : BOOLEAN, since : Nat, temp : {"delta", "cumulative"}]
    BY IdleTyped, Parts DEF IInv, Typed
  <2> QED BY <1>1, <2>1 DEF Passes
<1>3. Typed'
  <2>1. outbox' \in [1 .. MaxEvents -> [st : Statuses, wait : 0 .. MaxFaults]]
    <3>1. NoRow \in [st : Statuses, wait : 0 .. MaxFaults]
      BY BoundAssumption DEF NoRow, Statuses
    <3> QED BY <1>1, <3>1 DEF IInv, Typed
  <2>2. changes' \in 0 .. MaxChanges
    BY <1>1, ChangeAssumption DEF IInv, Typed, Counts
  <2> QED BY <1>1, <1>2, <2>1, <2>2 DEF IInv, Typed, Passes
<1>4. Rows' /\ OnlyWhatWasOn'
  BY <1>1, <1>2 DEF IInv, Rows, OnlyWhatWasOn, NoRow
<1>5. ASSUME Steady' PROVE SteadyInv'
  <2>1. Steady /\ ~(cut > 0) /\ SteadyInv
    BY <1>1, <1>5, SteadyBefore DEF IInv
  <2>2. \A n \in 1 .. MaxEvents : outbox'[n] = outbox[n]
    BY <1>1, <2>1, Parts DEF IInv
  <2>3. SettingsHold'
    BY <1>1, <1>2, <2>1, <2>2 DEF SteadyInv, SettingsHold
  <2>4. BatchHeld' /\ BatchShown'
    BY <1>2 DEF BatchHeld, BatchShown, Sending
  <2>5. RepeatsAreLosses'
    <3>1. \A n : ~InAnswer(n)
      BY DEF Start, InAnswer
    <3> QED BY <1>1, <2>1, <2>2, <3>1 DEF SteadyInv, RepeatsAreLosses, InAnswer
  <2>6. TotalsShown'
    BY <1>1, <2>1, <2>2 DEF SteadyInv, TotalsShown, Exported, Cumulative
  <2>7. SentCounts' = SentCounts
    BY <1>1, <2>2 DEF SentCounts
  <2>8. CountsMatch'
    BY <1>1, <2>1, <2>2, <2>7 DEF SteadyInv, CountsMatch, Cumulative
  <2> QED BY <2>3, <2>4, <2>5, <2>6, <2>8 DEF SteadyInv
<1> QED BY <1>3, <1>4, <1>5 DEF IInv

-----------------------------------------------------------------------------
(* A claim takes waiting rows of events that were on.                      *)
LEMMA BatchRows ==
  ASSUME Typed, Rows
  PROVE  \A n \in Batch : /\ n \in DOMAIN events /\ n \in 1 .. MaxEvents
                          /\ outbox[n].st = "pending"
                          /\ events[n].on
<1> SUFFICES ASSUME NEW n \in Batch
             PROVE  /\ n \in DOMAIN events /\ n \in 1 .. MaxEvents
                    /\ outbox[n].st = "pending"
                    /\ events[n].on
  OBVIOUS
<1>1. n \in DOMAIN events /\ outbox[n] = [st |-> "pending", wait |-> 0]
  BY DEF Batch, Due
<1>2. n \in 1 .. MaxEvents
  BY <1>1, Parts
<1> QED BY <1>1, <1>2 DEF Rows

(* A step after which no request is under way and only rows are marked.    *)
LEMMA ClaimOldKeeps ==
  ASSUME IInv, Claim, Loaded(worker.cfg) = {}
  PROVE  IInv'
<1>1. /\ UNCHANGED <<events, config, state, series, dest, refused, lost, changes>>
      /\ outbox' = Mark(Batch, [st |-> "sent", wait |-> 0])
      /\ worker' = [worker EXCEPT !.claims = @ + 1]
      /\ worker.pc = "claim" /\ worker.claims < MaxBatches /\ Batch # {}
  BY DEF Claim
<1>2. "sent" \in Statuses \ {"none"} /\ 0 \in 0 .. MaxFaults /\ Typed /\ Rows
  BY BoundAssumption DEF Statuses, IInv
<1>3. /\ outbox' \in [1 .. MaxEvents -> [st : Statuses, wait : 0 .. MaxFaults]]
      /\ \A n \in 1 .. MaxEvents :
           /\ outbox'[n] = NoRow <=> outbox'[n].st = "none"
           /\ outbox'[n].st = IF n \in Batch /\ outbox[n].st # "none" THEN "sent" ELSE outbox[n].st
  BY <1>1, <1>2, MarkRows
<1>4. worker' \in Passes /\ worker'.cnt = worker.cnt
  <2>1. worker \in Passes /\ worker.claims + 1 \in 0 .. MaxBatches
    BY <1>1, BatchAssumption DEF IInv, Typed, Passes
  <2> QED BY <1>1, <2>1 DEF Passes
<1>5. Typed'
  <2>1. worker' \in Passes'
    BY <1>1, <1>4 DEF Passes
  <2> QED BY <1>1, <1>2, <1>3, <2>1 DEF Typed
<1>6. Rows' /\ OnlyWhatWasOn'
  BY <1>1, <1>3, <1>4 DEF IInv, Rows, OnlyWhatWasOn
<1>7. ~Steady
  <2> SUFFICES ASSUME Steady PROVE FALSE
    OBVIOUS
  <2>1. worker.cfg = config /\ \A n \in 1 .. MaxEvents : outbox[n].st # "none" => n > config.since
    BY <1>1 DEF IInv, SteadyInv, SettingsHold
  <2>2. PICK n \in Batch : TRUE
    BY <1>1
  <2>3. n \in 1 .. MaxEvents /\ outbox[n].st = "pending"
    BY <1>2, BatchRows
  <2>4. n \in Loaded(worker.cfg)
    BY <2>1, <2>3 DEF Loaded
  <2> QED BY <2>4
<1> QED BY <1>1, <1>5, <1>6, <1>7 DEF IInv, Steady

(* A claim of a batch to send: its counts, and usage enough for its last   *)
(* snapshot.                                                               *)
LEMMA ClaimKeeps ==
  ASSUME IInv, Claim, Loaded(worker.cfg) # {}
  PROVE  IInv'
<1> DEFINE loaded == Loaded(worker.cfg)
           snapshots == {events[n].total : n \in Usage(loaded)}
           top == Max(snapshots)
           tok == IF snapshots = {} THEN 0 ELSE UsageDelta(top, state)
           cnt == Counted(loaded)
           states == IF snapshots = {} THEN {} ELSE {top}
           merged == Merged(LoadedSeries(worker.cfg), tok, cnt)
<1>1. /\ UNCHANGED <<events, outbox, config, state, series, dest, refused, lost, changes>>
      /\ worker' = [worker EXCEPT !.pc = "traces", !.claims = @ + 1, !.ids = Batch,
                      !.tok = tok, !.cnt = cnt, !.states = states, !.series = merged]
      /\ worker.pc = "claim" /\ worker.claims < MaxBatches
  BY DEF Claim
<1>2. /\ loaded \subseteq Batch
      /\ \A n \in Batch : /\ n \in DOMAIN events /\ n \in 1 .. MaxEvents
                          /\ outbox[n].st = "pending"
                          /\ events[n].on
  BY BatchRows DEF IInv, Loaded
<1>3. cnt \in SUBSET DOMAIN events /\ Batch \in SUBSET DOMAIN events /\ cnt \in SUBSET (1 .. MaxEvents)
  BY <1>2 DEF Counted
<1>4. snapshots \in SUBSET (0 .. MaxTotal)
  BY <1>2, Parts DEF IInv, Usage
<1>5. snapshots # {} => top \in 0 .. MaxTotal /\ \A t \in snapshots : t <= top
  BY <1>4, Greatest, BoundAssumption
<1>6. states \in SUBSET (0 .. MaxTotal)
  BY <1>5
<1>7. tok \in Nat /\ (snapshots # {} => top <= state + tok)
  <2>1. \A t \in 0 .. MaxTotal : UsageDelta(t, state) \in Nat /\ t <= state + UsageDelta(t, state)
    BY BoundAssumption DEF UsageDelta, IInv, Typed
  <2> QED BY <1>5, <2>1
<1>8. merged \in Totals
  <2>1. LoadedSeries(worker.cfg).tok \in Nat /\ LoadedSeries(worker.cfg).cnt \in Nat
    BY Parts DEF LoadedSeries, Zero, IInv
  <2>2. Cardinality(cnt) \in Nat
    BY <1>3, Sizes
  <2> HIDE DEF tok, cnt
  <2> QED BY <1>7, <2>1, <2>2 DEF Merged, Totals
<1>9. \A n \in Usage(loaded) : events[n].total \in snapshots
  OBVIOUS
<1> HIDE DEF snapshots, top, tok, cnt, states, merged
<1>10. /\ worker' \in Passes
       /\ worker'.pc = "traces" /\ worker'.cfg = worker.cfg /\ worker'.ids = Batch
       /\ worker'.tok = tok /\ worker'.cnt = cnt /\ worker'.states = states /\ worker'.series = merged
  <2>1. worker \in Passes /\ worker.claims + 1 \in 0 .. MaxBatches
    BY <1>1, BatchAssumption DEF IInv, Typed, Passes
  <2> QED BY <1>1, <1>3, <1>6, <1>7, <1>8, <2>1 DEF Passes
<1>11. Typed'
  BY <1>1, <1>10 DEF IInv, Typed, Passes
<1>12. Rows' /\ OnlyWhatWasOn'
  <2>1. \A n \in cnt : events[n].on
    BY <1>2 DEF cnt, Counted
  <2> QED BY <1>1, <1>10, <2>1 DEF IInv, Rows, OnlyWhatWasOn
<1>13. ASSUME Steady' PROVE SteadyInv'
  <2>1. SteadyInv
    BY <1>1, <1>13 DEF IInv, Steady
  <2>2. worker.cfg = config /\ loaded = Batch
    <3>1. worker.cfg = config /\ \A n \in 1 .. MaxEvents : outbox[n].st # "none" => n > config.since
      BY <1>1, <2>1 DEF SteadyInv, SettingsHold
    <3> QED BY <1>2, <3>1 DEF Loaded
  <2>3. SettingsHold'
    BY <1>1, <1>10, <2>1 DEF SteadyInv, SettingsHold
  <2>4. BatchHeld'
    <3>1. cnt = {n \in Batch : events[n].kind = "count"}
      BY <2>2 DEF cnt, Counted
    <3>2. \A n \in Batch : events[n].kind = "usage" => \E t \in states : events[n].total <= t
      BY <1>5, <1>9, <2>2 DEF states, Usage
    <3>3. states = {} \/ \E t \in 0 .. MaxTotal : states = {t} /\ t <= state + tok
      BY <1>5, <1>7 DEF states
    <3>4. Cumulative => merged = [tok |-> series.tok + tok, cnt |-> series.cnt + Cardinality(cnt)]
      BY <2>2 DEF Cumulative, merged, LoadedSeries, Merged
    <3> QED BY <1>1, <1>2, <1>10, <3>1, <3>2, <3>3, <3>4 DEF BatchHeld, Cumulative, Counted, Usage, Merged
  <2>5. BatchShown'
    BY <1>10 DEF BatchShown
  <2>6. RepeatsAreLosses'
    BY <1>1, <1>10, <2>1 DEF SteadyInv, RepeatsAreLosses, InAnswer
  <2>7. TotalsShown'
    BY <1>1, <2>1 DEF SteadyInv, TotalsShown, Exported, Cumulative
  <2>8. SentCounts' = SentCounts
    BY <1>1 DEF SentCounts
  <2>9. CountsMatch'
    BY <1>1, <2>1, <2>8 DEF SteadyInv, CountsMatch, Cumulative
  <2> QED BY <2>3, <2>4, <2>5, <2>6, <2>7, <2>9 DEF SteadyInv
<1> QED BY <1>11, <1>12, <1>13 DEF IInv

(* The traces of the batch are accepted; its metrics are next.             *)
LEMMA TracesKeep ==
  ASSUME IInv, TracesSent
  PROVE  IInv'
<1>1. /\ UNCHANGED <<events, outbox, config, state, series, dest, refused, lost, changes>>
      /\ worker.pc = "traces"
      /\ worker' = [worker EXCEPT !.pc = "metrics"]
  BY DEF TracesSent
<1>2. /\ worker' \in Passes /\ worker'.pc = "metrics"
      /\ worker'.cfg = worker.cfg /\ worker'.ids = worker.ids /\ worker'.tok = worker.tok
      /\ worker'.cnt = worker.cnt /\ worker'.states = worker.states /\ worker'.series = worker.series
  BY <1>1 DEF IInv, Typed, Passes
<1>3. Typed'
  BY <1>1, <1>2 DEF IInv, Typed, Passes
<1>4. Rows' /\ OnlyWhatWasOn'
  BY <1>1, <1>2 DEF IInv, Rows, OnlyWhatWasOn
<1>5. ASSUME Steady' PROVE SteadyInv'
  <2>1. SteadyInv
    BY <1>1, <1>5 DEF IInv, Steady
  <2>2. SettingsHold'
    BY <1>1, <1>2, <2>1 DEF SteadyInv, SettingsHold
  <2>3. BatchHeld'
    <3>1. /\ Counted(worker.ids)' = Counted(worker.ids)
          /\ Usage(worker.ids)' = Usage(worker.ids)
      BY <1>1, <1>2 DEF Counted, Usage
    <3>2. Merged(series, worker.tok, worker.cnt)' = Merged(series, worker.tok, worker.cnt)
      BY <1>1, <1>2 DEF Merged
    <3> QED BY <1>1, <1>2, <2>1, <3>1, <3>2 DEF SteadyInv, BatchHeld, Sending, Cumulative
  <2>4. BatchShown'
    BY <1>2 DEF BatchShown
  <2>5. RepeatsAreLosses'
    BY <1>1, <1>2, <2>1 DEF SteadyInv, RepeatsAreLosses, InAnswer
  <2>6. TotalsShown'
    BY <1>1, <2>1 DEF SteadyInv, TotalsShown, Exported, Cumulative
  <2>7. SentCounts' = SentCounts
    BY <1>1 DEF SentCounts
  <2>8. CountsMatch'
    BY <1>1, <2>1, <2>7 DEF SteadyInv, CountsMatch, Cumulative
  <2> QED BY <2>2, <2>3, <2>4, <2>5, <2>6, <2>8 DEF SteadyInv
<1> QED BY <1>3, <1>4, <1>5 DEF IInv

(* The destination has the batch, and nobody here knows yet.               *)
LEMMA AcceptedKeeps ==
  ASSUME IInv, MetricsAccepted
  PROVE  IInv'
<1>1. /\ UNCHANGED <<events, outbox, config, state, series, refused, lost, changes>>
      /\ worker.pc = "metrics"
      /\ worker' = [worker EXCEPT !.pc = "answer"]
      /\ dest' = [shown |-> Shown,
                  times |-> [n \in 1 .. MaxEvents |-> dest.times[n] + IF n \in worker.cnt THEN 1 ELSE 0]]
  BY DEF MetricsAccepted
<1>2. /\ worker' \in Passes /\ worker'.pc = "answer"
      /\ worker'.cfg = worker.cfg /\ worker'.ids = worker.ids /\ worker'.tok = worker.tok
      /\ worker'.cnt = worker.cnt /\ worker'.states = worker.states /\ worker'.series = worker.series
  BY <1>1 DEF IInv, Typed, Passes
<1>3. worker.cnt \subseteq 1 .. MaxEvents /\ Cardinality(worker.cnt) \in Nat
  BY Parts, Sizes DEF IInv
<1>4. /\ dest'.shown = Shown
      /\ \A n \in 1 .. MaxEvents : dest'.times[n] = IF n \in worker.cnt THEN dest.times[n] + 1 ELSE dest.times[n]
      /\ dest' \in [shown : Totals, times : [1 .. MaxEvents -> Nat]]
  <2>1. Shown \in Totals
    BY <1>3, Parts DEF IInv, Shown, Totals
  <2>2. \A n \in 1 .. MaxEvents : dest.times[n] \in Nat
    BY Parts DEF IInv
  <2>3. \A n \in 1 .. MaxEvents : dest'.times[n] = IF n \in worker.cnt THEN dest.times[n] + 1 ELSE dest.times[n]
    BY <1>1, <2>2
  <2>4. dest'.times \in [1 .. MaxEvents -> Nat]
    BY <1>1, <2>2
  <2> QED BY <1>1, <2>1, <2>3, <2>4
<1>5. Typed'
  BY <1>1, <1>2, <1>4 DEF IInv, Typed, Passes
<1>6. Rows' /\ OnlyWhatWasOn'
  <2>1. \A n \in worker.cnt : n \in DOMAIN events /\ events[n].on
    BY Parts DEF IInv, OnlyWhatWasOn
  <2> QED BY <1>1, <1>2, <1>4, <2>1 DEF IInv, Rows, OnlyWhatWasOn
<1>7. ASSUME Steady' PROVE SteadyInv'
  <2>1. SteadyInv
    BY <1>1, <1>7 DEF IInv, Steady
  <2>2. SettingsHold'
    BY <1>1, <1>2, <2>1 DEF SteadyInv, SettingsHold
  <2>3. /\ \A n \in worker.ids : outbox[n].st = "pending"
        /\ worker.cnt = Counted(worker.ids)
        /\ Cumulative => worker.series = Merged(series, worker.tok, worker.cnt)
    BY <1>1, <2>1 DEF SteadyInv, BatchHeld, Sending
  <2>4. BatchHeld'
    <3>1. /\ Counted(worker.ids)' = Counted(worker.ids)
          /\ Usage(worker.ids)' = Usage(worker.ids)
      BY <1>1, <1>2 DEF Counted, Usage
    <3>2. Merged(series, worker.tok, worker.cnt)' = Merged(series, worker.tok, worker.cnt)
      BY <1>1, <1>2 DEF Merged
    <3> QED BY <1>1, <1>2, <2>1, <3>1, <3>2 DEF SteadyInv, BatchHeld, Sending, Cumulative
  <2>5. /\ ~Cumulative => dest'.shown.tok = dest.shown.tok + worker.tok
        /\ Cumulative => dest'.shown = [tok |-> IF worker.tok > 0 THEN worker.series.tok ELSE dest.shown.tok,
                                        cnt |-> IF worker.cnt # {} THEN worker.series.cnt ELSE dest.shown.cnt]
    <3>1. worker.cfg = config
      BY <1>1, <2>1 DEF SteadyInv, SettingsHold
    <3>2. worker.cfg.temp = "delta" <=> ~Cumulative
      BY <3>1 DEF Cumulative, IInv, Typed
    <3> QED BY <1>4, <3>2 DEF Shown
  <2>6. BatchShown'
    <3>1. \A n \in worker.cnt : dest'.times[n] >= 1
      <4> SUFFICES ASSUME NEW n \in worker.cnt PROVE dest'.times[n] >= 1
        OBVIOUS
      <4>1. n \in 1 .. MaxEvents /\ dest.times[n] \in Nat
        BY <1>3, Parts DEF IInv
      <4> QED BY <1>4, <4>1
    <3>2. ~Cumulative => dest'.shown.tok >= state + worker.tok
      BY <2>1, <2>5, Parts DEF IInv, Typed, SteadyInv, TotalsShown, Exported
    <3> QED BY <1>1, <1>2, <2>5, <3>1, <3>2 DEF BatchShown, Cumulative
  <2>7. RepeatsAreLosses'
    <3> SUFFICES ASSUME NEW n \in 1 .. MaxEvents
                 PROVE  /\ dest'.times[n] <= 1 + lost
                        /\ outbox[n].st = "pending" /\ ~InAnswer(n)' => dest'.times[n] <= lost
                        /\ outbox[n].st = "sent" /\ events[n].kind = "count" => dest'.times[n] >= 1
      BY <1>1 DEF RepeatsAreLosses
    <3>1. dest.times[n] \in Nat /\ lost \in Nat
      BY Parts DEF IInv, Typed
    <3>2. ~InAnswer(n)
      BY <1>1 DEF InAnswer
    <3>3. /\ dest.times[n] <= 1 + lost
          /\ outbox[n].st = "pending" => dest.times[n] <= lost
          /\ outbox[n].st = "sent" /\ events[n].kind = "count" => dest.times[n] >= 1
      BY <2>1, <3>2 DEF SteadyInv, RepeatsAreLosses
    <3>4. CASE n \in worker.cnt
      <4>1. outbox[n].st = "pending" /\ InAnswer(n)'
        BY <1>2, <2>3, <3>4 DEF Counted, InAnswer
      <4> QED BY <1>4, <3>1, <3>3, <3>4, <4>1
    <3>5. CASE n \notin worker.cnt
      BY <1>4, <3>3, <3>5
    <3> QED BY <3>4, <3>5
  <2>8. TotalsShown'
    <3>1. Exported <= Exported' /\ Exported' <= dest'.shown.tok /\ Exported \in Nat /\ Exported' \in Nat
      <4>1. CASE ~Cumulative
        BY <1>1, <2>5, <4>1, Parts DEF IInv, Exported, Cumulative
      <4>2. CASE Cumulative /\ worker.tok = 0
        <5>1. dest'.shown.tok = dest.shown.tok
          BY <2>5, <4>2
        <5> QED BY <1>1, <2>1, <4>2, <5>1, Parts DEF IInv, Exported, Cumulative, SteadyInv, TotalsShown
      <4>3. CASE Cumulative /\ worker.tok # 0
        <5>1. dest'.shown.tok = series.tok + worker.tok
          BY <2>3, <2>5, <4>3, Parts DEF IInv, Merged
        <5> QED BY <1>1, <4>3, <5>1, Parts DEF IInv, Exported, Cumulative
      <4> QED BY <4>1, <4>2, <4>3
    <3>2. /\ state <= Exported
          /\ \A n \in 1 .. MaxEvents :
               outbox[n].st = "sent" /\ events[n].kind = "usage" => events[n].total <= Exported
      BY <2>1 DEF SteadyInv, TotalsShown
    <3>3. state \in Nat /\ \A n \in 1 .. MaxEvents : outbox[n].st = "sent" => events[n].total \in Nat
      <4>1. \A n \in 1 .. MaxEvents : outbox[n].st = "sent" => n \in DOMAIN events
        BY DEF IInv, Rows
      <4>2. state \in Nat
        <5>1. state \in 0 .. MaxTotal
          BY DEF IInv, Typed
        <5> QED BY <5>1
      <4>3. \A n \in DOMAIN events : events[n].total \in Nat
        <5>1. \A n \in DOMAIN events : events[n].total \in 0 .. MaxTotal
          BY Parts DEF IInv
        <5> QED BY <5>1
      <4> QED BY <4>1, <4>2, <4>3
    <3> HIDE DEF Exported
    <3> QED BY <1>1, <3>1, <3>2, <3>3 DEF TotalsShown
  <2>9. CountsMatch'
    <3>1. SentCounts' = SentCounts
      BY <1>1 DEF SentCounts
    <3>2. CASE worker.cnt = {}
      <4>1. Cumulative => dest'.shown.cnt = dest.shown.cnt
        BY <2>5, <3>2
      <4> QED BY <1>1, <2>1, <3>1, <4>1 DEF SteadyInv, CountsMatch, Cumulative
    <3>3. CASE worker.cnt # {}
      <4>1. PICK n \in worker.cnt : TRUE
        BY <3>3
      <4>2. n \in 1 .. MaxEvents /\ outbox[n].st = "pending" /\ events[n].kind = "count"
        BY <1>3, <2>3, <4>1 DEF Counted
      <4> QED BY <1>1, <2>1, <3>1, <4>2 DEF SteadyInv, CountsMatch, Cumulative
    <3> QED BY <3>2, <3>3
  <2> QED BY <2>2, <2>4, <2>6, <2>7, <2>8, <2>9 DEF SteadyInv
<1> QED BY <1>5, <1>6, <1>7 DEF IInv

-----------------------------------------------------------------------------
(* What the worker knows of an answered batch, and what its commit writes. *)
LEMMA CommitWrites ==
  ASSUME IInv, Steady, Commit,
         worker.pc = "answer" \/ (worker.pc = "traces" /\ ~HasMetrics)
  PROVE  /\ \A n \in worker.ids : outbox[n].st = "pending"
         /\ worker.cnt = Counted(worker.ids)
         /\ worker.cnt # {} => worker.pc = "answer"
         /\ IF Cumulative
            THEN /\ series'.tok = series.tok + worker.tok
                 /\ series'.cnt = series.cnt + Cardinality(worker.cnt)
                 /\ worker.cnt # {} => dest.shown.cnt = series'.cnt
                 /\ series'.tok <= dest.shown.tok
            ELSE state + worker.tok <= dest.shown.tok
         /\ state' <= state + worker.tok
         /\ \A n \in Usage(worker.ids) : events[n].total <= state + worker.tok
<1>1. SteadyInv
  BY DEF IInv
<1>2. Sending /\ worker.pc # "idle"
  BY DEF Sending
<1>3. /\ \A n \in worker.ids : outbox[n].st = "pending"
      /\ worker.cnt = Counted(worker.ids)
      /\ \A n \in Usage(worker.ids) : \E top \in worker.states : events[n].total <= top
      /\ worker.states = {} \/ \E top \in 0 .. MaxTotal : worker.states = {top} /\ top <= state + worker.tok
      /\ Cumulative => worker.series = Merged(series, worker.tok, worker.cnt)
  BY <1>1, <1>2 DEF SteadyInv, BatchHeld
<1>4. /\ worker.tok \in Nat /\ state \in Nat /\ series.tok \in Nat /\ series.cnt \in Nat
      /\ dest.shown.tok \in Nat
  BY Parts, BoundAssumption DEF IInv, Typed
<1>5. worker.cnt \in SUBSET (1 .. MaxEvents)
  BY Parts DEF IInv
<1>6. worker.pc = "traces" => worker.tok = 0 /\ worker.cnt = {}
  BY <1>4 DEF HasMetrics
<1>7. state' <= state + worker.tok
  <2>1. state' = NextState
    BY DEF Commit
  <2>2. CASE worker.states = {}
    BY <1>4, <2>1, <2>2 DEF NextState
  <2>3. CASE worker.states # {}
    <3>1. PICK top \in 0 .. MaxTotal : worker.states = {top} /\ top <= state + worker.tok
      BY <1>3, <2>3
    <3>2. Max({top}) = top
      <4>1. {top} \in SUBSET (0 .. MaxTotal) /\ {top} # {}
        OBVIOUS
      <4>2. Max({top}) \in {top}
        BY <4>1, Greatest, BoundAssumption
      <4> QED BY <4>2
    <3> QED BY <2>1, <3>1, <3>2 DEF NextState
  <2> QED BY <2>2, <2>3
<1>8. \A n \in Usage(worker.ids) : events[n].total <= state + worker.tok
  <2> SUFFICES ASSUME NEW n \in Usage(worker.ids)
               PROVE  events[n].total <= state + worker.tok
    OBVIOUS
  <2>1. PICK top \in 0 .. MaxTotal : /\ worker.states = {top} /\ top <= state + worker.tok
                                     /\ events[n].total <= top
    BY <1>3
  <2>2. events[n].total \in Nat
    BY Parts, BoundAssumption DEF IInv, Usage
  <2> QED BY <1>4, <2>1, <2>2
<1>9. CASE Cumulative
  <2>1. worker.cfg = config
    BY <1>1, <1>2 DEF SteadyInv, SettingsHold
  <2>2. /\ worker.series.tok = series.tok + worker.tok
        /\ worker.series.cnt = series.cnt + Cardinality(worker.cnt)
    BY <1>3, <1>9 DEF Merged
  <2>3. /\ series'.tok = IF worker.tok > 0 THEN worker.series.tok ELSE series.tok
        /\ series'.cnt = IF worker.cnt # {} THEN worker.series.cnt ELSE series.cnt
    BY <1>9, <2>1 DEF Commit, WrittenSeries, Cumulative
  <2>4. worker.cnt = {} => Cardinality(worker.cnt) = 0
    BY FS_EmptySet
  <2>5. series'.tok = series.tok + worker.tok /\ series'.cnt = series.cnt + Cardinality(worker.cnt)
    BY <1>4, <2>2, <2>3, <2>4
  <2>6. worker.cnt # {} => dest.shown.cnt = series'.cnt
    BY <1>1, <1>6, <1>9, <2>3 DEF SteadyInv, BatchShown
  <2>7. series'.tok <= dest.shown.tok
    <3>1. CASE worker.tok > 0
      BY <1>1, <1>4, <1>6, <1>9, <2>3, <3>1 DEF SteadyInv, BatchShown
    <3>2. CASE ~(worker.tok > 0)
      BY <1>1, <1>9, <2>3, <3>2 DEF SteadyInv, TotalsShown, Exported
    <3> QED BY <3>1, <3>2
  <2> QED BY <1>3, <1>6, <1>7, <1>8, <1>9, <2>5, <2>6, <2>7
<1>10. CASE ~Cumulative
  <2>1. state + worker.tok <= dest.shown.tok
    <3>1. CASE worker.pc = "answer"
      BY <1>1, <1>4, <1>10, <3>1 DEF SteadyInv, BatchShown
    <3>2. CASE worker.pc # "answer"
      BY <1>1, <1>4, <1>6, <1>10, <3>2 DEF SteadyInv, TotalsShown, Exported
    <3> QED BY <3>1, <3>2
  <2> QED BY <1>3, <1>6, <1>7, <1>8, <1>10, <2>1
<1> QED BY <1>9, <1>10

(* The batch is done: its rows are sent and the totals follow.             *)
LEMMA SentKeeps ==
  ASSUME IInv, BatchSent
  PROVE  IInv'
<1>1. /\ UNCHANGED <<events, config, dest, refused, lost, changes>>
      /\ worker.pc = "answer" \/ (worker.pc = "traces" /\ ~HasMetrics)
      /\ Commit
      /\ outbox' = Mark(worker.ids, [st |-> "sent", wait |-> 0])
      /\ state' = NextState
      /\ series' = WrittenSeries
      /\ worker' = [worker EXCEPT !.pc = "claim"]
  BY DEF BatchSent, Commit
<1>2. "sent" \in Statuses \ {"none"} /\ 0 \in 0 .. MaxFaults /\ Typed /\ Rows
  BY BoundAssumption DEF Statuses, IInv
<1>3. /\ outbox' \in [1 .. MaxEvents -> [st : Statuses, wait : 0 .. MaxFaults]]
      /\ \A n \in 1 .. MaxEvents :
           /\ outbox'[n] = NoRow <=> outbox'[n].st = "none"
           /\ outbox'[n].st = IF n \in worker.ids /\ outbox[n].st # "none" THEN "sent" ELSE outbox[n].st
  BY <1>1, <1>2, MarkRows
<1>4. /\ worker' \in Passes /\ worker'.pc = "claim"
      /\ worker'.cfg = worker.cfg /\ worker'.cnt = worker.cnt
  BY <1>1 DEF IInv, Typed, Passes
<1>5. Typed'
  <2>1. state' \in 0 .. MaxTotal
    <3>1. worker.states \in SUBSET (0 .. MaxTotal)
      BY DEF IInv, Typed, Passes
    <3>2. worker.states # {} => Max(worker.states) \in worker.states
      BY <3>1, Greatest, BoundAssumption
    <3> QED BY <1>1, <3>1, <3>2 DEF NextState, IInv, Typed
  <2>2. series' \in Totals
    <3>1. CASE series' = series
      BY <3>1 DEF IInv, Typed
    <3>2. CASE series' = [tok |-> IF worker.tok > 0 THEN worker.series.tok ELSE series.tok,
                          cnt |-> IF worker.cnt # {} THEN worker.series.cnt ELSE series.cnt]
      BY <3>2, Parts DEF IInv, Totals
    <3> QED BY <1>1, <3>1, <3>2 DEF WrittenSeries
  <2> QED BY <1>1, <1>3, <1>4, <2>1, <2>2 DEF IInv, Typed, Passes
<1>6. Rows' /\ OnlyWhatWasOn'
  BY <1>1, <1>3, <1>4 DEF IInv, Rows, OnlyWhatWasOn
<1>7. ASSUME Steady' PROVE SteadyInv'
  <2>1. SteadyInv /\ Steady
    BY <1>1, <1>7 DEF IInv, Steady
  <2>2. /\ \A n \in worker.ids : outbox[n].st = "pending"
        /\ worker.cnt = Counted(worker.ids)
        /\ worker.cnt # {} => worker.pc = "answer"
        /\ IF Cumulative
           THEN /\ series'.tok = series.tok + worker.tok
                /\ series'.cnt = series.cnt + Cardinality(worker.cnt)
                /\ worker.cnt # {} => dest.shown.cnt = series'.cnt
                /\ series'.tok <= dest.shown.tok
           ELSE state + worker.tok <= dest.shown.tok
        /\ state' <= state + worker.tok
        /\ \A n \in Usage(worker.ids) : events[n].total <= state + worker.tok
    BY <1>1, <2>1, CommitWrites
  <2>3. worker.ids \subseteq 1 .. MaxEvents /\ worker.cnt \in SUBSET (1 .. MaxEvents)
    BY Parts DEF IInv
  <2>4. \A n \in 1 .. MaxEvents : outbox'[n].st = IF n \in worker.ids THEN "sent" ELSE outbox[n].st
    BY <1>3, <2>2
  <2>5. SettingsHold'
    <3>1. config.saved
      BY <1>1, <2>1 DEF SteadyInv, SettingsHold
    <3>2. config.on
      BY <1>1, <2>1 DEF SteadyInv, SettingsHold
    <3>3. \A n \in worker.ids : outbox[n].st # "none"
      BY <2>2
    <3> QED BY <1>1, <1>4, <2>1, <2>4, <3>1, <3>2, <3>3 DEF SteadyInv, SettingsHold
  <2>6. BatchHeld' /\ BatchShown'
    BY <1>4 DEF BatchHeld, BatchShown, Sending
  <2>7. RepeatsAreLosses'
    <3> SUFFICES ASSUME NEW n \in 1 .. MaxEvents
                 PROVE  /\ dest.times[n] <= 1 + lost
                        /\ outbox'[n].st = "pending" => dest.times[n] <= lost
                        /\ outbox'[n].st = "sent" /\ events[n].kind = "count" => dest.times[n] >= 1
      BY <1>1, <1>4 DEF RepeatsAreLosses, InAnswer
    <3>1. CASE n \in worker.ids
      <4>1. events[n].kind = "count" => n \in worker.cnt
        BY <2>2, <3>1 DEF Counted
      <4>2. events[n].kind = "count" => dest.times[n] >= 1
        BY <2>1, <2>2, <4>1 DEF SteadyInv, BatchShown
      <4> QED BY <2>1, <2>4, <3>1, <4>2 DEF SteadyInv, RepeatsAreLosses
    <3>2. CASE n \notin worker.ids
      <4>1. ~InAnswer(n)
        BY <2>2, <3>2 DEF InAnswer, Counted
      <4> QED BY <2>1, <2>4, <3>2, <4>1 DEF SteadyInv, RepeatsAreLosses
    <3> QED BY <3>1, <3>2
  <2>8. TotalsShown'
    <3>1. Exported' \in Nat /\ state + worker.tok <= Exported' /\ Exported' <= dest.shown.tok
          /\ Exported \in Nat /\ Exported <= Exported'
      <4>0. /\ worker.tok \in Nat /\ state \in Nat /\ series.tok \in Nat /\ dest.shown.tok \in Nat
            /\ state <= Exported
        BY <2>1, Parts, BoundAssumption DEF IInv, Typed, SteadyInv, TotalsShown
      <4>1. CASE Cumulative
        <5>1. Exported = series.tok /\ Exported' = series.tok + worker.tok
          BY <1>1, <2>2, <4>1 DEF Exported, Cumulative
        <5> QED BY <2>2, <4>0, <4>1, <5>1
      <4>2. CASE ~Cumulative
        <5>1. Exported = dest.shown.tok /\ Exported' = dest.shown.tok
          BY <1>1, <4>2 DEF Exported, Cumulative
        <5> QED BY <2>2, <4>0, <4>2, <5>1
      <4> QED BY <4>1, <4>2
    <3>2. state' \in Nat /\ state \in Nat /\ worker.tok \in Nat
      <4>1. state' \in 0 .. MaxTotal
        BY <1>5 DEF Typed
      <4>2. state \in 0 .. MaxTotal /\ worker.tok \in Nat
        BY Parts DEF IInv, Typed
      <4> QED BY <4>1, <4>2, BoundAssumption
    <3>3. state' <= Exported'
      BY <2>2, <3>1, <3>2
    <3>4. ASSUME NEW n \in 1 .. MaxEvents, outbox'[n].st = "sent", events[n].kind = "usage"
          PROVE  events[n].total <= Exported'
      <4>1. n \in DOMAIN events
        BY <1>3, <1>6, <3>4, <1>1 DEF Rows
      <4>2. events[n].total \in Nat
        BY <4>1, Parts, BoundAssumption DEF IInv
      <4>3. CASE n \in worker.ids
        <5>1. events[n].total <= state + worker.tok
          BY <2>2, <3>4, <4>3 DEF Usage
        <5> QED BY <3>1, <3>2, <4>2, <5>1
      <4>4. CASE n \notin worker.ids
        <5>1. events[n].total <= Exported
          BY <2>1, <2>4, <3>4, <4>4 DEF SteadyInv, TotalsShown
        <5> QED BY <3>1, <4>2, <5>1
      <4> QED BY <4>3, <4>4
    <3> QED BY <1>1, <3>1, <3>3, <3>4 DEF TotalsShown
  <2>9. CountsMatch'
    <3> SUFFICES ASSUME Cumulative
                 PROVE  /\ series'.cnt = Cardinality(SentCounts')
                        /\ \/ dest.shown.cnt = series'.cnt
                           \/ \E n \in 1 .. MaxEvents : /\ outbox'[n].st \in {"pending", "dead"}
                                                        /\ events[n].kind = "count"
      BY <1>1 DEF CountsMatch, Cumulative
    <3>1. SentCounts' = SentCounts \cup worker.cnt
      <4>1. SentCounts' = {n \in 1 .. MaxEvents : outbox'[n].st = "sent" /\ events[n].kind = "count"}
        BY <1>1 DEF SentCounts
      <4> QED BY <2>2, <2>3, <2>4, <4>1 DEF SentCounts, Counted
    <3>2. SentCounts \cap worker.cnt = {}
      BY <2>2 DEF SentCounts, Counted
    <3>3. SentCounts \in SUBSET (1 .. MaxEvents)
      BY DEF SentCounts
    <3>4. Cardinality(SentCounts') = Cardinality(SentCounts) + Cardinality(worker.cnt)
      <4>1. /\ IsFiniteSet(SentCounts) /\ Cardinality(SentCounts) \in Nat
            /\ IsFiniteSet(worker.cnt) /\ Cardinality(worker.cnt) \in Nat
        BY <2>3, <3>3, Sizes
      <4>2. Cardinality(SentCounts \cup worker.cnt)
              = Cardinality(SentCounts) + Cardinality(worker.cnt) - Cardinality(SentCounts \cap worker.cnt)
        BY <4>1, FS_Union
      <4>3. Cardinality(SentCounts \cap worker.cnt) = 0
        BY <3>2, FS_EmptySet
      <4> QED BY <3>1, <4>1, <4>2, <4>3
    <3>5. series'.cnt = Cardinality(SentCounts')
      BY <2>1, <2>2, <3>4 DEF SteadyInv, CountsMatch
    <3>6. CASE worker.cnt # {}
      BY <2>2, <3>5, <3>6
    <3>7. CASE worker.cnt = {}
      <4>1. series'.cnt = series.cnt
        <5>1. Cardinality(worker.cnt) = 0 /\ series.cnt \in Nat
          BY <3>7, FS_EmptySet, Parts DEF IInv
        <5> QED BY <2>2, <5>1
      <4>2. CASE dest.shown.cnt = series.cnt
        BY <3>5, <4>1, <4>2
      <4>3. CASE dest.shown.cnt # series.cnt
        <5>1. PICK n \in 1 .. MaxEvents : outbox[n].st \in {"pending", "dead"} /\ events[n].kind = "count"
          BY <2>1, <4>3 DEF SteadyInv, CountsMatch
        <5>2. n \notin worker.ids
          BY <2>2, <3>7, <5>1 DEF Counted
        <5> QED BY <2>4, <3>5, <5>1, <5>2
      <4> QED BY <4>2, <4>3
    <3> QED BY <3>6, <3>7
  <2> QED BY <2>5, <2>6, <2>7, <2>8, <2>9 DEF SteadyInv
<1> QED BY <1>5, <1>6, <1>7 DEF IInv

-----------------------------------------------------------------------------
(* Nothing is received before the first step.                              *)
LEMMA InitInv == Init => IInv
<1> SUFFICES ASSUME Init PROVE IInv
  OBVIOUS
<1>1. /\ events = << >> /\ Len(events) = 0 /\ DOMAIN events = {}
      /\ config = NoConfig /\ state = 0 /\ series = Zero /\ worker = Idle
      /\ refused = 0 /\ lost = 0 /\ changes = 0
      /\ outbox = [n \in 1 .. MaxEvents |-> NoRow]
      /\ dest = [shown |-> Zero, times |-> [n \in 1 .. MaxEvents |-> 0]]
  BY DEF Init
<1>2. outbox \in [1 .. MaxEvents -> [st : Statuses, wait : 0 .. MaxFaults]]
  BY <1>1, BoundAssumption DEF NoRow, Statuses
<1>3. config \in [saved : BOOLEAN, on : BOOLEAN, since : 0 .. Len(events), temp : {"delta", "cumulative"}]
  BY <1>1 DEF NoConfig
<1>4. series \in Totals /\ dest \in [shown : Totals, times : [1 .. MaxEvents -> Nat]]
  BY <1>1 DEF Zero, Totals
<1>5. Typed
  BY <1>1, <1>2, <1>3, <1>4, IdleTyped, BoundAssumption, ChangeAssumption DEF Typed
<1>6. Rows /\ OnlyWhatWasOn
  BY <1>1, IdleTyped DEF Rows, OnlyWhatWasOn, NoRow
<1>7. SteadyInv
  <2>1. SettingsHold
    BY <1>1, IdleTyped DEF SettingsHold, NoConfig, NoRow
  <2>2. BatchHeld /\ BatchShown
    BY <1>1, IdleTyped DEF BatchHeld, BatchShown, Sending
  <2>3. RepeatsAreLosses
    BY <1>1 DEF RepeatsAreLosses, NoRow
  <2>4. TotalsShown
    BY <1>1 DEF TotalsShown, Exported, NoRow, Zero
  <2>5. SentCounts = {}
    BY <1>1 DEF SentCounts, NoRow
  <2>6. CountsMatch
    BY <1>1, <2>5, FS_EmptySet DEF CountsMatch, Zero
  <2> QED BY <2>1, <2>2, <2>3, <2>4, <2>6 DEF SteadyInv
<1> QED BY <1>5, <1>6, <1>7 DEF IInv

(* Nothing happens at all.                                                 *)
LEMMA StutterKeeps == IInv /\ UNCHANGED vars => IInv'
<1> SUFFICES ASSUME IInv, UNCHANGED vars PROVE IInv'
  OBVIOUS
<1>1. Typed' /\ Rows' /\ OnlyWhatWasOn'
  BY DEF vars, IInv, Typed, Passes, Rows, OnlyWhatWasOn
<1>2. ASSUME Steady' PROVE SteadyInv'
  <2>1. SteadyInv
    BY <1>2 DEF IInv, Steady, vars
  <2>2. SettingsHold' /\ BatchShown' /\ RepeatsAreLosses' /\ TotalsShown'
    BY <2>1 DEF vars, SteadyInv, SettingsHold, BatchShown, RepeatsAreLosses, InAnswer,
                TotalsShown, Exported, Cumulative
  <2>3. BatchHeld'
    BY <2>1 DEF vars, SteadyInv, BatchHeld, Sending, Counted, Usage, Merged, Cumulative
  <2>4. CountsMatch'
    BY <2>1 DEF vars, SteadyInv, CountsMatch, SentCounts, Cumulative
  <2> QED BY <2>2, <2>3, <2>4 DEF SteadyInv
<1> QED BY <1>1, <1>2 DEF IInv

(* Every step keeps the invariant.                                         *)
LEMMA NextInv == IInv /\ [Next]_vars => IInv'
<1> SUFFICES ASSUME IInv, [Next]_vars PROVE IInv'
  OBVIOUS
<1>1. ASSUME NEW total \in 1 .. MaxTotal, Ingest("usage", total) PROVE IInv'
  BY <1>1, IngestKeeps
<1>2. CASE Ingest("count", Last)
  <2>1. Last \in 0 .. MaxTotal
    BY LastTyped DEF IInv
  <2> QED BY <1>2, <2>1, IngestKeeps
<1>3. CASE SettingsRoute
  BY <1>3, SaveKeeps, DeleteKeeps DEF SettingsRoute
<1>4. CASE RunOnce
  BY <1>4, StartKeeps DEF RunOnce
<1>5. CASE EndpointOk
  BY <1>5, PassOnly DEF EndpointOk
<1>6. CASE EndpointRefused
  BY <1>6, PassOnly DEF EndpointRefused, Faults
<1>7. CASE Claim
  BY <1>7, ClaimOldKeeps, ClaimKeeps
<1>8. CASE EndPass
  BY <1>8, PassOnly DEF EndPass
<1>9. CASE TracesSent
  BY <1>9, TracesKeep
<1>10. CASE MetricsAccepted
  BY <1>10, AcceptedKeeps
<1>11. CASE BatchSent
  BY <1>11, SentKeeps
<1>12. CASE Refused \/ Rejected \/ AnswerLost
  BY <1>12, FailuresKeep
<1>13. CASE Crash
  BY <1>13, PassOnly DEF Crash
<1>14. ASSUME NEW w \in 1 .. MaxFaults, Elapse(w) PROVE IInv'
  BY <1>14, ElapseKeeps
<1>15. CASE UNCHANGED vars
  BY <1>15, StutterKeeps
<1> QED BY <1>1, <1>2, <1>3, <1>4, <1>5, <1>6, <1>7, <1>8, <1>9, <1>10, <1>11, <1>12, <1>13,
           <1>14, <1>15 DEF Next

(* The invariant holds in every behaviour.                                 *)
THEOREM Invariance == Spec => []IInv
BY InitInv, NextInv, PTL DEF Spec

(* Every state is well typed.                                              *)
THEOREM TypeCorrect == Spec => []TypeOK
<1>1. IInv => TypeOK
  <2> SUFFICES ASSUME IInv PROVE TypeOK
    OBVIOUS
  <2>1. /\ worker.pc \in {"idle", "check", "claim", "traces", "metrics", "answer"}
        /\ worker.claims \in 0 .. MaxBatches /\ worker.series \in Totals
    BY DEF IInv, Typed, Passes
  <2>2. config.temp \in {"delta", "cumulative"} /\ config.since \in 0 .. Len(events)
    BY DEF IInv, Typed
  <2>3. dest.shown \in Totals /\ dest.times \in [1 .. MaxEvents -> Nat]
    BY DEF IInv, Typed
  <2>4. outbox \in [1 .. MaxEvents -> [st : {"none", "pending", "sent", "dead"}, wait : 0 .. MaxFaults]]
    BY DEF IInv, Typed, Statuses
  <2>5. state \in 0 .. MaxTotal /\ series \in Totals /\ refused + lost <= MaxFaults
        /\ changes \in 0 .. MaxChanges
    BY DEF IInv, Typed
  <2> QED BY <2>1, <2>2, <2>3, <2>4, <2>5, Parts DEF IInv, TypeOK
<1> QED BY <1>1, Invariance, PTL

(* However requests fail, answers are lost and operators change the        *)
(* settings under a pass: what was off is never counted; and while the     *)
(* settings stay, a finished row was counted and shown, and repeats are    *)
(* bounded by the answers that were lost.                                  *)
THEOREM SentIsCountedHolds == Spec => []SentIsCounted
<1>1. IInv => SentIsCounted
  <2> SUFFICES ASSUME IInv PROVE SentIsCounted
    OBVIOUS
  <2>1. \A n \in DOMAIN events : n \in 1 .. MaxEvents
    BY Parts DEF IInv
  <2>2. \A n \in DOMAIN events : dest.times[n] > 0 => events[n].on
    BY <2>1 DEF IInv, OnlyWhatWasOn
  <2>3. ASSUME Steady, NEW n \in Counted(DOMAIN events)
        PROVE  (Is(n, "sent") => dest.times[n] >= 1) /\ dest.times[n] <= 1 + lost
    BY <2>1, <2>3 DEF IInv, SteadyInv, RepeatsAreLosses, Counted, Is
  <2>4. ASSUME Steady, NEW n \in Usage(DOMAIN events), Is(n, "sent")
        PROVE  dest.shown.tok >= events[n].total
    <3>1. events[n].total <= Exported /\ Exported <= dest.shown.tok
      BY <2>1, <2>4 DEF IInv, SteadyInv, TotalsShown, Usage, Is
    <3>2. events[n].total \in Nat /\ Exported \in Nat /\ dest.shown.tok \in Nat
      BY Parts, BoundAssumption DEF IInv, Usage, Exported
    <3> QED BY <3>1, <3>2
  <2> QED BY <2>2, <2>3, <2>4 DEF SentIsCounted
<1> QED BY <1>1, Invariance, PTL

(* Cumulative totals absorb repeats: when every row is sent the            *)
(* destination shows each counted event once, however often answers were   *)
(* lost and in whatever order batches were repeated.                       *)
THEOREM ExactWhenDrainedHolds == Spec => []ExactWhenDrained
<1>1. IInv => ExactWhenDrained
  <2> SUFFICES ASSUME IInv, Steady, Cumulative, \A n \in Queued : Is(n, "sent")
               PROVE  dest.shown.cnt = Cardinality(Counted(Queued))
    BY DEF ExactWhenDrained, Cumulative
  <2>1. \A n \in 1 .. MaxEvents : outbox[n].st # "none" => n \in Queued
    BY DEF IInv, Rows, Queued
  <2>2. Queued \subseteq 1 .. MaxEvents
    BY Parts DEF IInv, Queued
  <2>3. SentCounts = Counted(Queued)
    BY <2>1, <2>2 DEF SentCounts, Counted, Is
  <2>4. dest.shown.cnt = series.cnt
    BY <2>1 DEF IInv, SteadyInv, CountsMatch, Is
  <2> QED BY <2>3, <2>4 DEF IInv, SteadyInv, CountsMatch
<1> QED BY <1>1, Invariance, PTL
=============================================================================
