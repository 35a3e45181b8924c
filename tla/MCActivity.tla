----------------------------- MODULE MCActivity -----------------------------
(***************************************************************************)
(* Activity for TLC, and the pure functions of Pricing against what their  *)
(* comments say, over small inputs.                                        *)
(***************************************************************************)
EXTENDS Activity, TLC

CONSTANTS d1, d2, ada, bob, m

MCWorkflowIds == << "w1", "w2" >>

MCOwnerOf == d1 :> ada @@ d2 :> bob

Usage(input) == [input |-> input, output |-> 1, uncached |-> input, creation |-> 0, read |-> 0,
                 model |-> << m >>, cost |-> None]

Report(w, kind) ==
  [wf |-> w, kind |-> kind, session |-> None, usage |-> None, step |-> None, steps |-> None,
   note |-> None, agent |-> None, to |-> None]

Snapshot(w, n) == [Report(w, "usage.snapshot") EXCEPT !.session = "s", !.usage = Usage(n)]
Lifecycle(kind) == [Report("w1", kind) EXCEPT !.step = "p"]
Note(kind) == [Lifecycle(kind) EXCEPT !.note = "n"]

(* One hub reports everything, the others what could get in the way.       *)
MCReports ==
  d1 :> {[Snapshot("w1", 3) EXCEPT !.agent = << "claude" >>], Snapshot("w2", 2),
         Lifecycle("step.started"), Lifecycle("step.done"), Lifecycle("step.failed"),
         [Report("w1", "workflow.status_changed") EXCEPT !.to = "completed"],
         [Report("w1", "workflow.plan") EXCEPT !.steps = [context |-> "done", p |-> "done"]],
         Note("step.note.added"), Note("step.note.deleted")}
  @@ d2 :> {Snapshot("w1", 2), Snapshot("w1", 1)}
  @@ None :> {Lifecycle("step.failed")}

Rule(agent, model, from, input) ==
  [agent |-> agent, model |-> model, from |-> from, input |-> input, output |-> 1,
   write |-> None, read |-> None]

Claude == [glob |-> FALSE, text |-> << "claude" >>]
MCRules == {Rule(Claude, AnyName, 2, 2)}

-----------------------------------------------------------------------------
Names == {<< m >>, << m, m >>}
Patterns == {AnyName} \cup [glob : BOOLEAN, text : Names]
Tables == {Rule(a, p, f, 1) : a \in {AnyName, Claude}, p \in Patterns, f \in {0, 2}}

(* resolveRule returns the one rule that is above all eligible ones, so    *)
(* the order in which the table is read does not matter.                   *)
ASSUME BestRuleIsUnique ==
  \A r, q \in Tables : \A agent \in {None, << "claude" >>}, model \in Names \cup {None}, at \in {1, 2} :
    LET best == ResolveRule(<< r, q >>, agent, model, at)
        able == Eligible({r, q}, agent, model, at)
    IN /\ best = ResolveRule(<< q, r >>, agent, model, at)
       /\ IF able = {} THEN best = None
          ELSE best \in able /\ \A x \in able \ {best} : Above(Key(best, agent, model), Key(x, agent, model))

Counts == {None, 0, 2}
Payloads == [input : Counts, output : {1}, uncached : Counts, window : Counts, creation : Counts,
             read : Counts, model : {None}, cost : {None}]

(* The two readings of a payload, in SQL and in JavaScript, agree (db.mjs  *)
(* 2583-2587).                                                             *)
ASSUME ReadingsAgree == \A d \in Payloads : InputTokensSql(d) = NormalizeUsage(d).input

Series == UNION {[1 .. n -> 0 .. 3] : n \in 0 .. 4}

(* The deltas of a session are never negative, add up to at least what it  *)
(* ended with, and to exactly that when it was never compacted.            *)
ASSUME DeltasAddUp ==
  \A t \in Series :
    LET total == FoldLeft(LAMBDA a, c : a + c, 0, StepCostDeltas(t))
        end == IF t = << >> THEN 0 ELSE Last(t)
    IN /\ \A i \in DOMAIN t : StepCostDeltas(t)[i] >= 0
       /\ total >= end
       /\ (\A i \in 2 .. Len(t) : t[i - 1] <= t[i]) => total = end

(* A percentile lies between the smallest and the largest value, whatever  *)
(* the order they come in, and p50 is at most p90.                         *)
ASSUME PercentilesOrdered ==
  \A t \in Series \ {<< >>} :
    /\ Percentile(t, 0) = 10 * Min(ToSet(t)) /\ Percentile(t, 10) = 10 * Max(ToSet(t))
    /\ Percentile(t, 0) <= Percentile(t, 5) /\ Percentile(t, 5) <= Percentile(t, 9)
    /\ Percentile(t, 9) <= Percentile(t, 10)
    /\ Percentile(t, 5) = Percentile(Reverse(t), 5)

Runs == [template : {None, "t"}, agent : {"a"}, model : {None, "m"}, total : {1, 3}]
Histories == UNION {[1 .. n -> Runs] : n \in 0 .. 3}

(* An estimate names the narrowest basis with enough runs and none with    *)
(* fewer.                                                                  *)
ASSUME NarrowestBasis ==
  \A h \in Histories :
    LET e == Estimate(h, "t", "a", "m", 2)
        n(Of(_)) == Cardinality({i \in DOMAIN h : Of(h[i])})
    IN /\ e.basis = IF n(LAMBDA x : x.template = "t") >= 2 THEN "template"
                    ELSE IF n(LAMBDA x : x.model = "m") >= 2 THEN "agent_model"
                    ELSE IF Len(h) >= 2 THEN "agent" ELSE None
       /\ e.basis # None => e.samples >= 2 /\ e.p50 <= e.p90
=============================================================================
