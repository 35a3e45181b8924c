------------------------------ MODULE Pricing ------------------------------
(***************************************************************************)
(* Token prices and cost estimates, the pure functions of pricing.mjs and  *)
(* estimates.mjs and the reading of usage snapshots in db.mjs 2549-2600.   *)
(* A name is a sequence of letters, a price an integer per token, an       *)
(* instant a number.  MCActivity checks them against what their comments   *)
(* say.                                                                    *)
(***************************************************************************)
EXTENDS Integers, Sequences, SequencesExt

CONSTANT None   \* null, undefined and no tariff

Always == 0   \* effectiveFrom '' : before every instant
Maximum(a, b) == IF a > b THEN a ELSE b

(* Patterns: "*", a prefix followed by "*", or a name.                     *)
AnyName == [glob |-> TRUE, text |-> << >>]
Exact == 100   \* Number.MAX_SAFE_INTEGER: beats every prefix

ModelScore(pattern, model) ==
  IF pattern = AnyName THEN 0
  ELSE IF model = None THEN -1
  ELSE IF pattern.glob THEN IF IsPrefix(pattern.text, model) THEN 1 + Len(pattern.text) ELSE -1
  ELSE IF pattern.text = model THEN Exact ELSE -1

AgentScore(pattern, agent) ==
  IF pattern = AnyName THEN 0 ELSE IF agent # None /\ pattern.text = agent THEN 1 ELSE -1

Eligible(rules, agent, model, at) ==
  {r \in rules : r.from <= at /\ ModelScore(r.model, model) >= 0 /\ AgentScore(r.agent, agent) >= 0}

(* The keys are compared one after the other, the first rule stays on a    *)
(* tie: a fold over the rules in the order of the table.                   *)
Key(r, agent, model) == <<ModelScore(r.model, model), AgentScore(r.agent, agent), r.from>>
Above(a, b) ==
  \/ a[1] > b[1]
  \/ a[1] = b[1] /\ (a[2] > b[2] \/ (a[2] = b[2] /\ a[3] > b[3]))

Better(best, r, agent, model, at) ==
  IF r \notin Eligible({r}, agent, model, at) THEN best
  ELSE IF best = None \/ Above(Key(r, agent, model), Key(best, agent, model)) THEN r
  ELSE best

ResolveRule(rules, agent, model, at) ==
  LET best[n \in 0 .. Len(rules)] ==
        IF n = 0 THEN None ELSE Better(best[n - 1], rules[n], agent, model, at)
  IN best[Len(rules)]

(* The four buckets of a usage; a missing cache price is the input price.  *)
ComputeCost(rule, usage) ==
  LET write == IF rule.write = None THEN rule.input ELSE rule.write
      read == IF rule.read = None THEN rule.input ELSE rule.read
  IN usage.uncached * rule.input + usage.creation * write + usage.read * read
       + usage.output * rule.output

(* The hub's own figure, the rule's, or none.                              *)
PriceSession(rules, agent, at, usage) ==
  LET rule == ResolveRule(rules, agent, usage.model, at)
  IN IF usage.cost # None THEN usage.cost
     ELSE IF rule = None THEN None ELSE ComputeCost(rule, usage)

(* The total of the priced sessions, none when there is not one.           *)
SumCosts(costs) ==
  LET priced == SelectSeq(costs, LAMBDA c : c # None)
  IN IF priced = << >> THEN None ELSE FoldLeft(LAMBDA a, c : a + c, 0, priced)

-----------------------------------------------------------------------------
(* A usage.snapshot payload: old hubs send the uncached input alone, new   *)
(* ones the full input with its parts beside it.                           *)

Num(x) == IF x = None THEN 0 ELSE x
IsNewUsageShape(d) == d.uncached # None \/ d.window # None

InputTokensSql(d) ==
  IF d.uncached # None \/ d.window # None THEN Num(d.input)
  ELSE Num(d.input) + Num(d.creation) + Num(d.read)

NormalizeUsage(d) ==
  LET uncached == IF IsNewUsageShape(d) THEN Num(d.uncached) ELSE Num(d.input)
  IN [input |-> IF IsNewUsageShape(d) THEN Num(d.input)
                ELSE uncached + Num(d.creation) + Num(d.read),
      output |-> Num(d.output), uncached |-> uncached,
      creation |-> Num(d.creation), read |-> Num(d.read), model |-> d.model, cost |-> d.cost]

-----------------------------------------------------------------------------
(* Estimates.  A percentile is given in tenths, its value as ten times the *)
(* number: linear interpolation between the closest ranks.                 *)

Sorted(values) == SortSeq(values, <)

Percentile(values, tenths) ==
  LET s == Sorted(values)
      rank == (Len(s) - 1) * tenths
      lo == s[1 + rank \div 10]
      hi == s[1 + (rank + 9) \div 10]
  IN IF values = << >> THEN None ELSE lo * 10 + (hi - lo) * (rank % 10)

(* The cost of each step of a session; a total that drops was compacted.   *)
StepCostDeltas(totals) ==
  [i \in DOMAIN totals |-> Maximum(0, totals[i] - IF i = 1 THEN 0 ELSE totals[i - 1])]

(* The narrowest group of past runs that is large enough.                  *)
Estimate(history, template, agent, model, minSamples) ==
  LET By(Belongs(_)) == SelectSeq(history, Belongs)
      groups == (IF template # None
                 THEN << [basis |-> "template", runs |-> By(LAMBDA h : h.template = template)] >>
                 ELSE << >>)
                \o (IF agent # None /\ model # None
                    THEN << [basis |-> "agent_model",
                             runs |-> By(LAMBDA h : h.agent = agent /\ h.model = model)] >>
                    ELSE << >>)
                \o (IF agent # None
                    THEN << [basis |-> "agent", runs |-> By(LAMBDA h : h.agent = agent)] >>
                    ELSE << >>)
      enough == SelectSeq(groups, LAMBDA g : Len(g.runs) >= minSamples)
      totals == [i \in DOMAIN enough[1].runs |-> enough[1].runs[i].total]
  IN IF enough = << >>
     THEN [basis |-> None, samples |-> IF groups = << >> THEN 0 ELSE Len(Last(groups).runs),
           p50 |-> None, p90 |-> None]
     ELSE [basis |-> enough[1].basis, samples |-> Len(totals),
           p50 |-> Percentile(totals, 5), p90 |-> Percentile(totals, 9)]
=============================================================================
