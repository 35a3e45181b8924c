---------------------------- MODULE RemotePanel ----------------------------
(***************************************************************************)
(* An operator's browser on the remote workflows of the server: the panel  *)
(* that polls the plan of the selected workflow, keeps its own set of      *)
(* checked steps and writes it back, and the routes behind it, while other *)
(* operators change the same plans (ui RemoteWorkflowsPanel, useApi, App;  *)
(* server.mjs run-selection, commands and from-template; db.mjs remote     *)
(* steps).  Answers of polls arrive in any order, also those to a path     *)
(* that is no longer shown; the requests that write are started side by    *)
(* side and reach the server in any order.                                 *)
(* What the hub makes of commands is RemotePlan's; descriptions and the    *)
(* drafts of other fields are left out.                                    *)
(***************************************************************************)
EXTENDS Integers, Sequences, FiniteSets, FiniteSetsExt, SequencesExt

CONSTANTS
  Workflows,  \* remote workflows on the list
  None,       \* nothing selected, nothing shown, a free slot
  Start,      \* the plans the panel finds: rows by workflow
  MaxKey,     \* bound: step keys step-1 .. step-n
  Slots,      \* polls the browser has on their way at a time
  MaxClicks,  \* bound: what the operator does
  MaxOthers   \* bound: what the other operators do

ASSUME NoneAssumption == None \notin Workflows
ASSUME PanelBoundAssumption == MaxKey \in 1 .. 9 /\ MaxClicks \in Nat /\ MaxOthers \in Nat

VARIABLES
  plan,      \* remote_workflow_steps: rows of each workflow
  hub,       \* external: the order the commands queued so far leave
  unsure,    \* history: workflows whose plan may have gaps, or a key added twice
  selected,  \* selectedRemoteId
  paths,     \* workflows an interval of the panel polls
  polls,     \* answers on their way, by slot
  shown,     \* the last answer that arrived
  checked,   \* selectedStepKeys
  seeded,    \* what the checked set was last seeded for
  stained,   \* history: may the checks made since then be off?
  writes,    \* requests on their way to the server
  clicks,    \* what the operator did so far
  others     \* what the other operators did so far

panelVars == <<plan, hub, unsure, selected, paths, polls, shown, checked, seeded, stained,
          writes, clicks, others>>

server == <<plan, hub, unsure>>
panel == <<selected, paths, polls, shown, checked, seeded, stained>>

Keys == 1 .. MaxKey

(* The key is the rows' primary key.                                       *)
ASSUME StartAssumption ==
  /\ Start \in [Workflows -> SUBSET [key : Keys, order : Nat, sel : BOOLEAN]]
  /\ \A w \in Workflows : /\ IsFiniteSet(Start[w])
                          /\ \A r, q \in Start[w] : r.key = q.key => r = q

KeysOf(rows) == {r.key : r \in rows}
Chosen(rows) == {r.key : r \in {r \in rows : r.sel}}

-----------------------------------------------------------------------------
(* The server's rows of one plan.                                          *)

(* listRemoteSteps: by order, ties by key; each row comes after as many as *)
(* there are before it.                                                    *)
Before(rows, r) ==
  {q \in rows : q.order < r.order \/ (q.order = r.order /\ q.key < r.key)}

Listed(rows) ==
  [i \in 1 .. Cardinality(rows) |-> CHOOSE r \in rows : Cardinality(Before(rows, r)) = i - 1]

ListedKeys(rows) == [i \in DOMAIN Listed(rows) |-> Listed(rows)[i].key]

(* One more than the highest of the keys that are known.                   *)
NextKey(keys) == IF keys = {} THEN 1 ELSE Max(keys) + 1

(* upsertRemoteStep: the end of the plan is its number of rows; a row that *)
(* has the key is replaced and keeps its run selection.                    *)
Upserted(rows, k) ==
  {r \in rows : r.key # k}
    \cup {[key |-> k, order |-> Cardinality(rows),
           sel |-> \A r \in rows : r.key = k => r.sel]}

Deleted(rows, k) == {r \in rows : r.key # k}

(* Seeded fault: the other rows keep the order they had.                   *)
MovedAlone(rows, k, to) ==
  {IF r.key = k THEN [r EXCEPT !.order = to] ELSE r : r \in rows}

(* moveRemoteStep: every row is numbered anew.                             *)
Moved(rows, k, to) ==
  LET steps == Listed(rows)
      at == CHOOSE i \in DOMAIN steps : steps[i].key = k
      without == RemoveAt(steps, at)
      moved == InsertAt(without, Min({to, Len(without)}) + 1, steps[at])
  IN {[moved[i] EXCEPT !.order = i - 1] : i \in DOMAIN moved}

(* updateRemoteStepRunSelection: unknown keys are ignored.                 *)
RunSelected(rows, keys) == {[r EXCEPT !.sel = r.key \in keys] : r \in rows}

(* The hub appends what is added and moves what is moved.                  *)
Without(order, k) ==
  IF \E i \in DOMAIN order : order[i] = k
  THEN RemoveAt(order, CHOOSE i \in DOMAIN order : order[i] = k)
  ELSE order

Inserted(order, k, to) ==
  LET rest == Without(order, k) IN InsertAt(rest, Min({to, Len(rest)}) + 1, k)

-----------------------------------------------------------------------------
(* The routes that change a plan.                                          *)

SetPlan(w, rows, order, doubt) ==
  /\ plan' = [plan EXCEPT ![w] = rows]
  /\ hub' = [hub EXCEPT ![w] = order]
  /\ unsure' = IF doubt THEN unsure \cup {w} ELSE unsure

(* step.add, with the key the sender chose.                                *)
Add(w, k) ==
  SetPlan(w, Upserted(plan[w], k), Append(Without(hub[w], k), k), k \in KeysOf(plan[w]))

Drop(w, k) ==
  SetPlan(w, Deleted(plan[w], k), Without(hub[w], k), TRUE)

Move(w, k, to) ==
  IF k \in KeysOf(plan[w])
  THEN SetPlan(w, Moved(plan[w], k, to), Inserted(hub[w], k, to), FALSE)
  ELSE UNCHANGED server

(* PATCH run-selection.                                                    *)
SelectRuns(w, keys) == SetPlan(w, RunSelected(plan[w], keys), hub[w], FALSE)

(* workflow.start: the keys of the request become the selection; without   *)
(* keys the stored selection is run, or the request is refused.            *)
StartRun(w, keys) ==
  IF keys = {} THEN UNCHANGED server ELSE SelectRuns(w, keys)

(* Steps from a template: keys are chosen where the rows are.              *)
FromTemplate(w) ==
  LET k == NextKey(KeysOf(plan[w]))
      once == Upserted(plan[w], k)
  IN /\ k + 1 \in Keys
     /\ SetPlan(w, Upserted(once, k + 1), hub[w] \o <<k, k + 1>>, FALSE)

(* A request is handled in one step: the body is read before the rows are. *)
Apply(write) ==
  CASE write.op = "add" -> Add(write.wf, write.key)
    [] write.op = "remove" -> Drop(write.wf, write.key)
    [] write.op = "move" -> Move(write.wf, write.key, write.to)
    [] write.op = "select" -> SelectRuns(write.wf, write.keys)
    [] write.op = "start" -> StartRun(write.wf, write.keys)

Handle ==
  /\ \E i \in DOMAIN writes : Apply(writes[i]) /\ writes' = RemoveAt(writes, i)
  /\ UNCHANGED <<panel, clicks, others>>

Other ==
  /\ others < MaxOthers
  /\ others' = others + 1
  /\ \E w \in Workflows :
       \/ NextKey(KeysOf(plan[w])) \in Keys /\ Add(w, NextKey(KeysOf(plan[w])))
       \/ FromTemplate(w)
       \/ \E k \in KeysOf(plan[w]) : Drop(w, k)
       \/ \E k \in KeysOf(plan[w]), to \in 0 .. MaxKey - 1 : Move(w, k, to)
  /\ UNCHANGED <<panel, writes, clicks>>

-----------------------------------------------------------------------------
(* The panel: polling.                                                     *)

Steps(view) == IF view = None THEN {} ELSE view.rows

(* stepPlanSignature: keys and run selection, in order.                    *)
Signature(view) ==
  LET rows == Listed(Steps(view)) IN [i \in DOMAIN rows |-> <<rows[i].key, rows[i].sel>>]


(* Renders a view: the checked set is seeded again when the workflow or    *)
(* the signature changes, not on every poll.                               *)
Render(wf, view) ==
  /\ shown' = view
  /\ seeded' = <<wf, Signature(view)>>
  /\ IF seeded' = seeded THEN UNCHANGED <<checked, stained>>
     ELSE checked' = Chosen(Steps(view)) /\ stained' = FALSE

(* load, at once and on every tick of the interval.                        *)
Poll(i) ==
  /\ polls[i] = None
  /\ \E w \in paths : polls' = [polls EXCEPT ![i] = [wf |-> w, rows |-> plan[w]]]
  /\ UNCHANGED <<server, selected, paths, shown, checked, seeded, stained, writes, clicks, others>>

(* Whatever path it was asked for, the answer is what is shown.            *)
Arrive(i) ==
  /\ polls[i] # None
  /\ polls' = [polls EXCEPT ![i] = None]
  /\ Render(selected, polls[i])
  /\ UNCHANGED <<server, selected, paths, writes, clicks, others>>

-----------------------------------------------------------------------------
(* The panel: the operator.                                                *)

Click == clicks < MaxClicks /\ clicks' = clicks + 1 /\ UNCHANGED others

(* The effect of the new path starts after the old one's is cleaned up.    *)
Paths(w) == IF w = None THEN {} ELSE {w}

(* Another workflow, or none: without a path nothing is shown; else the    *)
(* old answer stays until the next one.                                    *)
Select(w) ==
  /\ Click
  /\ w # selected
  /\ selected' = w
  /\ paths' = Paths(w)
  /\ Render(w, IF w = None THEN None ELSE shown)
  /\ UNCHANGED <<server, polls, writes>>

(* What the panel acts on: the workflow shown, or the row of the list.     *)
Target == IF shown # None THEN shown.wf ELSE selected

Acts ==
  /\ Click
  /\ Target # None

Send(write) == writes' = Append(writes, write) /\ UNCHANGED <<server, selected, paths, polls, shown, seeded>>

(* Checks are off when they were made on the steps of a workflow that is   *)
(* not the selected one, or over a selection still on its way.             *)
Stains ==
  \/ shown.wf # selected
  \/ \E i \in DOMAIN writes : writes[i].op \in {"select", "start"}

Check(keys) ==
  /\ Acts
  /\ shown # None
  /\ checked' = keys
  /\ stained' = (stained \/ Stains)
  /\ Send([op |-> "select", wf |-> Target, keys |-> keys])

Toggle(k) ==
  /\ k \in KeysOf(Steps(shown))
  /\ Check(IF k \in checked THEN checked \ {k} ELSE checked \cup {k})

ToggleAll ==
  Check(IF Cardinality(checked) = Cardinality(Steps(shown)) THEN {} ELSE KeysOf(Steps(shown)))

(* One command at a time: the buttons wait for the answer (busy).          *)
Busy == \E i \in DOMAIN writes : writes[i].op # "select"

Command(write) == Acts /\ ~Busy /\ Send(write) /\ UNCHANGED <<checked, stained>>

(* The key of a new step is chosen from the steps that are shown.          *)
AddStep ==
  LET k == NextKey(KeysOf(Steps(shown)))
  IN k \in Keys /\ Command([op |-> "add", wf |-> Target, key |-> k])

RemoveStep(k) ==
  k \in KeysOf(Steps(shown)) /\ Command([op |-> "remove", wf |-> Target, key |-> k])

(* One place up or down from where the step is shown.                      *)
MoveStep(k, to) ==
  /\ \E i \in DOMAIN Listed(Steps(shown)) :
       /\ Listed(Steps(shown))[i].key = k
       /\ to \in {i - 2, i} \cap (0 .. Cardinality(Steps(shown)) - 1)
  /\ Command([op |-> "move", wf |-> Target, key |-> k, to |-> to])

PressStart ==
  checked # {} /\ Command([op |-> "start", wf |-> Target, keys |-> checked])

-----------------------------------------------------------------------------
PanelInit ==
  /\ plan = Start
  /\ hub = [w \in Workflows |-> ListedKeys(Start[w])]
  /\ unsure = {w \in Workflows : {r.order : r \in Start[w]} # 0 .. Cardinality(Start[w]) - 1}
  /\ selected = None /\ paths = {}
  /\ polls = [i \in Slots |-> None]
  /\ shown = None /\ checked = {} /\ seeded = <<None, << >> >> /\ stained = FALSE
  /\ writes = << >>
  /\ clicks = 0 /\ others = 0

PanelNext ==
  \/ Handle
  \/ Other
  \/ \E i \in Slots : Poll(i) \/ Arrive(i)
  \/ \E w \in Workflows \cup {None} : Select(w)
  \/ \E k \in Keys : Toggle(k) \/ RemoveStep(k)
  \/ \E k \in Keys, to \in 0 .. MaxKey - 1 : MoveStep(k, to)
  \/ ToggleAll
  \/ AddStep
  \/ PressStart

PanelSpec == PanelInit /\ [][PanelNext]_panelVars

(* The interval ticks, answers arrive and requests are handled.            *)
PanelFairness ==
  /\ WF_panelVars(\E i \in Slots : Poll(i))
  /\ \A i \in Slots : WF_panelVars(Arrive(i))
  /\ WF_panelVars(Handle)

PanelFairSpec == PanelSpec /\ PanelFairness

-----------------------------------------------------------------------------
(* Properties.                                                             *)

(* The checks are the run selection the server has.                        *)
Saved == checked = Chosen(plan[selected])


(* The server lists the steps in the order the hub is left with, whoever   *)
(* added and moved them, until a removal leaves a gap in the numbers or a  *)
(* key is added twice (mirrorCommandToPlan, moveRemoteStep).               *)
OrderFollowsHub ==
  \A w \in Workflows \ unsure : ListedKeys(plan[w]) = hub[w]
=============================================================================
