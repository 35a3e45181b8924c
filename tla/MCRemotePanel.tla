--------------------------- MODULE MCRemotePanel ---------------------------
(***************************************************************************)
(* An instance of RemotePanel with two workflows of two steps each, the    *)
(* same keys and the same one selected: their plans look alike.  And laws  *)
(* of what the dashboard draws and lists, over all short workflows.        *)
(***************************************************************************)
EXTENDS RemotePanel, PanelViews, TLC

CONSTANTS w1, w2

MCWorkflows == {w1, w2}
MCStart ==
  [w \in MCWorkflows |-> {[key |-> 1, order |-> 0, sel |-> TRUE], [key |-> 2, order |-> 1, sel |-> FALSE]}]
-----------------------------------------------------------------------------
(* Workflows to draw: every shape of up to three steps, and every state of *)
(* up to two; "lost" is a status this release does not know.               *)
DrawnStep(i, kind, status, phase, criteria, inline, retries, retried) ==
  [id |-> i, kind |-> kind, order |-> i - 1, status |-> status, phase |-> phase,
   criteria |-> criteria, inline |-> inline, retries |-> retries, retried |-> retried]

Shapes(i) ==
  {DrawnStep(i, kind, "pending", "none", criteria, inline, retries, 0) :
     kind \in {"context", "task"}, criteria \in BOOLEAN, inline \in BOOLEAN, retries \in {0, 1}}
States(i) ==
  {DrawnStep(i, kind, status, phase, criteria, FALSE, 1, retried) :
     kind \in {"context", "task"}, status \in CARD_STATES \cup {"lost"},
     phase \in {"none", "judge"}, criteria \in BOOLEAN, retried \in {0, 1}}

Shaped == {<< >>} \cup {<<a>> : a \in Shapes(1)} \cup {<<a, b>> : a \in Shapes(1), b \in Shapes(2)}
            \cup {<<a, b, c>> : a \in Shapes(1), b \in Shapes(2), c \in Shapes(3)}
InStates == {<<a>> : a \in States(1)} \cup {<<a, b>> : a \in States(1), b \in States(2)}

(* Nodes keep apart and inside the drawing, and are known by their ids.    *)
ASSUME NodesKeepApart ==
  \A steps \in Shaped : LET g == layoutWorkflow(steps) IN
    /\ NodesApart(steps)
    /\ \A m, n \in g.nodes : m # n => m.id # n.id
    /\ \A n \in g.nodes :
         /\ n.x >= CANVAS_PADDING /\ n.x + n.width <= g.width - CANVAS_PADDING
         /\ n.y >= CANVAS_PADDING /\ n.y + n.height <= g.height - CANVAS_PADDING

(* An arrow joins the borders of the two nodes it names, its lines are     *)
(* straight, cross no node and stay inside the drawing, and of the arrows  *)
(* that run down the spine there is one from each card to the next.        *)
OnBorder(p, n) ==
  /\ p[1] \in n.x .. n.x + n.width /\ p[2] \in n.y .. n.y + n.height
  /\ p[1] \in {n.x, n.x + n.width} \/ p[2] \in {n.y, n.y + n.height}

Crosses(p, q, n) ==
  /\ Max({p[1], q[1]}) > n.x /\ Min({p[1], q[1]}) < n.x + n.width
  /\ Max({p[2], q[2]}) > n.y /\ Min({p[2], q[2]}) < n.y + n.height

ASSUME ArrowsJoinNodes ==
  \A steps \in Shaped : LET g == layoutWorkflow(steps) cards == spine(steps) IN
    /\ \A e \in g.edges :
         /\ \E m, n \in g.nodes :
              /\ m.id = e.from /\ OnBorder(e.points[1], m)
              /\ n.id = e.to /\ OnBorder(e.points[Len(e.points)], n)
         /\ \A i \in 1 .. Len(e.points) - 1 : LET p == e.points[i] q == e.points[i + 1] IN
              /\ p[1] = q[1] \/ p[2] = q[2]
              /\ \A n \in g.nodes : ~ Crosses(p, q, n)
              /\ q[1] < g.width /\ q[2] < g.height
    /\ {<<e.from, e.to>> : e \in {f \in g.edges : f.kind = "flow"}}
         = {<<cards[i].id, cards[i + 1].id>> : i \in 1 .. Len(cards) - 1}

(* A circle turns with its card; an arrow is lit only where a step is in   *)
(* flight; the loop back is there for a judge with a budget; and the view  *)
(* is kept on a card where something happens, if there is one, and else on *)
(* the first that has not run.                                             *)
LiveCards(steps) == {i \in DOMAIN spine(steps) : isLive(spine(steps)[i].state)}
InSight(steps, i) == focusNodeId(steps) = spine(steps)[i].id

ASSUME PictureTellsState ==
  \A steps \in InStates : LET g == layoutWorkflow(steps) tasks == taskSteps(steps) IN
    /\ \A m, n \in g.nodes :
         m.kind = "judge" /\ n.kind = "step" /\ m.step = n.step =>
           (m.state = "judging" <=> n.state = "judging")
    /\ \A e \in g.edges : e.state = "active" =>
         \E i \in LiveCards(steps) : spine(steps)[i].step \in {e.from[1], e.to[1]}
    /\ \A i \in DOMAIN tasks :
         (\E e \in g.edges : e.kind = "retry" /\ e.to[1] = tasks[i].id)
           <=> (tasks[i].criteria /\ tasks[i].retries > 0)
    /\ LiveCards(steps) # {} => \E i \in LiveCards(steps) : InSight(steps, i)
    /\ focusNodeId(steps) = << >> <=>
         \A i \in DOMAIN spine(steps) : spine(steps)[i].state \in {"done", "failed"}

(* A plan is drawn without its run: whatever the mirror says of its steps, *)
(* nothing is lit and nothing is done.                                     *)
PlanRows ==
  {<<[key |-> 1, order |-> 0, status |-> s, criteria |-> TRUE, inline |-> FALSE, retries |-> 1],
     [key |-> 2, order |-> 1, status |-> t, criteria |-> FALSE, inline |-> TRUE, retries |-> 0]>> :
     s, t \in CARD_STATES}

ASSUME PlanHasNoRun ==
  \A rows \in PlanRows, context \in BOOLEAN :
    LET g == layoutWorkflow(drawnSteps(remoteStepsToCanvas(rows, context), TRUE))
    IN /\ \A x \in g.nodes \cup g.edges : x.state = "pending"
       /\ Cardinality(g.nodes) = Len(rows) + (IF context THEN 1 ELSE 0) + 2
-----------------------------------------------------------------------------
Rows ==
  [local : BOOLEAN, status : {"none", "paused", "deleting"} \cup STEP_ACKED,
   client : {"none", "old", "schedules"}, series : BOOLEAN,
   schedule : {"none", "armed", "missed"}, archived : BOOLEAN]
StepRows ==
  {[i \in 1 .. n |-> [key |-> i, status |-> s[i], onClient |-> c[i]]] :
     n \in 0 .. 2, s \in [1 .. 2 -> {"pending", "done"}], c \in [1 .. 2 -> BOOLEAN]}
Pending == {{}, {"workflow.start"}, {"step.edit", "workflow.restart"}, {"step.add"}}

(* The line under the button says why the button is off, and says nothing  *)
(* of the kind when it is on; and a start is offered only for steps that   *)
(* have not run.                                                           *)
ASSUME LineExplainsButton ==
  \A w \in {r \in Rows : r.client = "old" /\ r.schedule = "none" /\ ~ r.archived /\ ~ r.series},
     rows \in StepRows \ {<< >>}, commands \in Pending :
    /\ startDisabled(w, rows, commands, ToSet(rows), FALSE) <=>
         describeRunState(w, commands, countStepsPendingSync(rows, w.local))
           \in {"not on the client", "still syncing", "run waiting", "running"}
    /\ \A chosen \in SUBSET ToSet(rows) : computeRunAction(w.status, chosen) = "start" =>
         \A r \in chosen : r.status = "pending"

(* The panel offers a change of schedule exactly when the server takes it, *)
(* although each has its own list of statuses.                             *)
ASSUME ScheduleButtonsAgree ==
  \A w \in Rows, may \in SUBSET {"execute", "manage"} :
    selectedScheduleReason(w, may) = "none" <=> scheduleAccepted(w, may)

(* Every row is on one of the lists all and archived, and a row of a       *)
(* series that is not archived on one of scheduled and runs; the badges    *)
(* say which; a workflow that is not remote is on the list of all only.    *)
ASSUME FiltersPartition ==
  \A w \in Rows : LET In(f) == matchesScheduleFilter(w, f) IN
    /\ In("all") # In("archived")
    /\ In("scheduled") \/ In("runs") => In("all") /\ w.series
    /\ w.series /\ In("all") => In("scheduled") # In("runs")
    /\ In("scheduled") => "scheduled" \in workflowBadges(w)
    /\ In("runs") => "run" \in workflowBadges(w)
    /\ Cardinality(workflowBadges(w)) <= 2
    /\ \A f \in SCHEDULE_FILTERS :
         (visibleInActivity({w}, f) <=> In(f)) /\ (visibleInActivity({}, f) <=> f = "all")
=============================================================================
