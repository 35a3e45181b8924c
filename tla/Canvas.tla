------------------------------- MODULE Canvas -------------------------------
(***************************************************************************)
(* The picture of a workflow (ui/src/lib/canvasLayout.ts): a card for each *)
(* step on a vertical spine, a box on its left when a subagent works on    *)
(* it, a circle on its right when a judge decides on it, and the arrows    *)
(* between them, all of it a function of the steps in their order.  Of a   *)
(* text only whether there is one matters; coordinates are whole pixels,   *)
(* as edgePath rounds them.                                                *)
(***************************************************************************)
EXTENDS Integers, Sequences

CANVAS_PADDING == 28
CARD_WIDTH == 264
CARD_HEIGHT == 132
CONTEXT_CARD_HEIGHT == 76
JUDGE_SIZE == 72
COLUMN_GAP == 64
SUBAGENT_WIDTH == 104
SUBAGENT_HEIGHT == 56
SUBAGENT_GAP == 48
ROW_GAP == 62
RETRY_DROP == 26
RETRY_REENTRY == 206    \* 0.78 of the width of a card

(* A step of the drawing: [id, kind, order, status, phase, criteria,       *)
(* inline, retries, retried], the last two of maxRetries and retryCount.   *)
IN_FLIGHT == {"running", "queued"}
CARD_STATES == {"pending", "queued", "running", "waiting", "done", "failed"}
-----------------------------------------------------------------------------
(* What a step shows.                                                      *)

cardState(s) ==
  IF s.status = "running" /\ s.phase = "judge" THEN "judging"
  ELSE IF s.status \in CARD_STATES THEN s.status ELSE "pending"

(* A step that waits for a human has passed its judge.                     *)
judgeState(s) ==
  CASE s.status = "running" -> IF s.phase = "judge" THEN "judging" ELSE "pending"
    [] s.status \in {"done", "waiting"} -> "done"
    [] s.status = "failed" -> "failed"
    [] OTHER -> "pending"

isLive(state) == state \in {"running", "queued", "judging", "waiting"}
hasJudge(s) == s.criteria
usesSubagent(s) == s.kind # "context" /\ ~ s.inline
retryLoop(s) == hasJudge(s) /\ s.retries > 0

taskSteps(steps) == SelectSeq(steps, LAMBDA s : s.kind # "context")
hasContext(steps) == \E i \in DOMAIN steps : steps[i].kind = "context"

(* steps.find: the first of them.                                          *)
contextStep(steps) ==
  steps[CHOOSE i \in DOMAIN steps :
          steps[i].kind = "context" /\ \A j \in 1 .. i - 1 : steps[j].kind # "context"]
-----------------------------------------------------------------------------
(* Where the nodes are.                                                    *)

(* The lane of the boxes is there when some step delegates.                *)
lane(tasks) ==
  IF \E i \in 1 .. Len(tasks) : usesSubagent(tasks[i]) THEN SUBAGENT_WIDTH + SUBAGENT_GAP ELSE 0

left(tasks) == CANVAS_PADDING + lane(tasks)
top(context, i) ==
  CANVAS_PADDING + (IF context THEN CONTEXT_CARD_HEIGHT + ROW_GAP ELSE 0)
    + (i - 1) * (CARD_HEIGHT + ROW_GAP)

Node(kind, s, state, x, y, width, height) ==
  [id |-> <<s.id, kind>>, kind |-> kind, step |-> s.id, state |-> state,
   x |-> x, y |-> y, width |-> width, height |-> height]

(* The context card is as wide as the others and pinned above them.        *)
ContextCard(tasks, s) ==
  Node("context", s, cardState(s), left(tasks), CANVAS_PADDING, CARD_WIDTH, CONTEXT_CARD_HEIGHT)

StepCard(tasks, context, i) ==
  Node("step", tasks[i], cardState(tasks[i]), left(tasks), top(context, i), CARD_WIDTH, CARD_HEIGHT)

SubagentBox(tasks, context, i) ==
  Node("subagent", tasks[i], cardState(tasks[i]), CANVAS_PADDING,
       top(context, i) + (CARD_HEIGHT - SUBAGENT_HEIGHT) \div 2, SUBAGENT_WIDTH, SUBAGENT_HEIGHT)

JudgeCircle(tasks, context, i) ==
  Node("judge", tasks[i], judgeState(tasks[i]), left(tasks) + CARD_WIDTH + COLUMN_GAP,
       top(context, i) + (CARD_HEIGHT - JUDGE_SIZE) \div 2, JUDGE_SIZE, JUDGE_SIZE)

(* The cards in the order they run.                                        *)
spine(steps) ==
  LET tasks == taskSteps(steps)
      context == hasContext(steps)
      cards == [i \in DOMAIN tasks |-> StepCard(tasks, context, i)]
  IN IF context THEN <<ContextCard(tasks, contextStep(steps))>> \o cards ELSE cards

nodes(steps) ==
  LET tasks == taskSteps(steps)
      context == hasContext(steps)
  IN (IF context THEN {ContextCard(tasks, contextStep(steps))} ELSE {})
       \cup {StepCard(tasks, context, i) : i \in 1 .. Len(tasks)}
       \cup {SubagentBox(tasks, context, i) : i \in {j \in 1 .. Len(tasks) : usesSubagent(tasks[j])}}
       \cup {JudgeCircle(tasks, context, i) : i \in {j \in 1 .. Len(tasks) : hasJudge(tasks[j])}}

(* No two nodes of a drawing overlap: each keeps to a side of the other,   *)
(* whatever the steps are (layoutWorkflow lays the rows out one by one).   *)
Apart(m, n) ==
  \/ m.x + m.width <= n.x \/ n.x + n.width <= m.x
  \/ m.y + m.height <= n.y \/ n.y + n.height <= m.y

NodesApart(steps) == \A m, n \in nodes(steps) : m # n => Apart(m, n)
-----------------------------------------------------------------------------
(* Where the arrows are.                                                   *)

Edge(kind, from, to, state, points) ==
  [kind |-> kind, from |-> from.id, to |-> to.id, state |-> state, points |-> points]

Told(done, active) == IF active THEN "active" ELSE IF done THEN "done" ELSE "pending"

fromSubagent(tasks, context, i) ==
  LET s == tasks[i]
      card == StepCard(tasks, context, i)
      midY == card.y + CARD_HEIGHT \div 2
  IN Edge("subagent", SubagentBox(tasks, context, i), card,
          Told(cardState(s) = "done", s.status \in IN_FLIGHT),
          <<<<CANVAS_PADDING + SUBAGENT_WIDTH, midY>>, <<card.x, midY>>>>)

toJudge(tasks, context, i) ==
  LET card == StepCard(tasks, context, i)
      judge == JudgeCircle(tasks, context, i)
      midY == card.y + CARD_HEIGHT \div 2
  IN Edge("judge", card, judge,
          Told(judge.state \in {"done", "failed"}, judge.state = "judging"),
          <<<<card.x + CARD_WIDTH, midY>>, <<judge.x, midY>>>>)

(* Back into the step, below it, while there is a budget to spend.         *)
retry(tasks, context, i) ==
  LET s == tasks[i]
      card == StepCard(tasks, context, i)
      judge == JudgeCircle(tasks, context, i)
      fromX == judge.x + JUDGE_SIZE \div 2
      dropY == card.y + CARD_HEIGHT + RETRY_DROP
      reentryX == card.x + RETRY_REENTRY
  IN Edge("retry", judge, card, Told(s.retried > 0, s.retried > 0 /\ s.status \in IN_FLIGHT),
          <<<<fromX, judge.y + JUDGE_SIZE>>, <<fromX, dropY>>,
            <<reentryX, dropY>>, <<reentryX, card.y + CARD_HEIGHT>>>>)

flow(from, to) ==
  LET cx == from.x + from.width \div 2
  IN Edge("flow", from, to, Told(from.state = "done", isLive(to.state)),
          <<<<cx, from.y + from.height>>, <<cx, to.y>>>>)

edges(steps) ==
  LET tasks == taskSteps(steps)
      context == hasContext(steps)
      cards == spine(steps)
      With(P(_)) == {j \in DOMAIN tasks : P(tasks[j])}
  IN {fromSubagent(tasks, context, i) : i \in With(usesSubagent)}
       \cup {toJudge(tasks, context, i) : i \in With(hasJudge)}
       \cup {retry(tasks, context, i) : i \in With(retryLoop)}
       \cup {flow(cards[i], cards[i + 1]) : i \in 1 .. Len(cards) - 1}
-----------------------------------------------------------------------------
Furthest(ends) == IF ends = {} THEN 0 ELSE CHOOSE e \in ends : \A f \in ends : f <= e

layoutWorkflow(steps) ==
  LET drawn == nodes(steps)
  IN [nodes |-> drawn, edges |-> edges(steps),
      width |-> Furthest({n.x + n.width : n \in drawn}) + CANVAS_PADDING,
      height |-> Furthest({n.y + n.height : n \in drawn}) + CANVAS_PADDING]

(* The card to keep in sight: a running or judged one before a queued one, *)
(* before one that waits, before the first that has not run.               *)
focusNodeId(steps) ==
  LET cards == spine(steps)
      In(states) == {i \in DOMAIN cards : cards[i].state \in states}
      first(found) == CHOOSE i \in found : \A j \in found : i <= j
      wanted == <<{"running", "judging"}, {"queued"}, {"waiting"}, {"pending"}>>
      ranks == {r \in 1 .. 4 : In(wanted[r]) # {}}
  IN IF ranks = {} THEN << >> ELSE cards[first(In(wanted[first(ranks)]))].id
=============================================================================
