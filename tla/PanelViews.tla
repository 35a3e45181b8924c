----------------------------- MODULE PanelViews -----------------------------
(***************************************************************************)
(* What the lists of the dashboard derive from the rows they are given:    *)
(* the steps a canvas draws, whether a plan has reached its hub, what a    *)
(* run would be and whether it may be started, when a schedule may be      *)
(* changed, and which rows and badges the schedule filters keep            *)
(* (RemoteWorkflowsPanel.tsx, WorkflowCanvas.tsx, Badges.tsx,              *)
(* lib/scheduleView.ts).  "none" stands for null.                          *)
(***************************************************************************)
EXTENDS Canvas, FiniteSets
-----------------------------------------------------------------------------
(* From rows to the steps of a canvas.                                     *)

(* The hub's context comes first, and pushes the others down by one.       *)
remoteStepsToCanvas(rows, context) ==
  LET shift == IF context THEN 1 ELSE 0
      contextRow ==
        [id |-> 0, kind |-> "context", order |-> 0, status |-> "pending", phase |-> "none",
         criteria |-> FALSE, inline |-> FALSE, retries |-> 0, retried |-> 0]
      Task(r) ==
        [id |-> r.key, kind |-> "task", order |-> r.order + shift, status |-> r.status,
         phase |-> "none", criteria |-> r.criteria, inline |-> r.inline,
         retries |-> r.retries, retried |-> 0]
      tasks == [i \in DOMAIN rows |-> Task(rows[i])]
  IN IF context THEN <<contextRow>> \o tasks ELSE tasks

(* Fields no snapshot carried get the hub's defaults; a plan is drawn      *)
(* without its run.                                                        *)
toCanvasStep(s, fallbackOrder, planMode) ==
  [s EXCEPT !.kind = IF @ = "none" THEN "task" ELSE @,
            !.order = IF @ = -1 THEN fallbackOrder ELSE @,
            !.status = IF planMode THEN "pending" ELSE @]

drawnSteps(steps, planMode) ==
  [i \in DOMAIN steps |-> toCanvasStep(steps[i], i - 1, planMode)]
-----------------------------------------------------------------------------
(* A plan on its way to the hub, and the run it would make.                *)

STEP_ACKED == {"running", "waiting", "done", "completed", "failed"}

isStepSyncedOnClient(r, onClient) == onClient /\ (r.onClient \/ r.status \in STEP_ACKED)

countStepsPendingSync(rows, onClient) ==
  IF ~ onClient THEN 0
  ELSE Cardinality({i \in DOMAIN rows : ~ isStepSyncedOnClient(rows[i], TRUE)})

(* A workflow row: [local, status, client, series, schedule, archived];    *)
(* commands are the types of its pending commands.                         *)
RUN_LIFECYCLE_COMMANDS == {"workflow.start", "workflow.resume", "workflow.restart"}

computeRunAction(status, chosen) ==
  LET begun == \E r \in chosen : r.status # "pending"
  IN CASE status = "paused" -> IF begun THEN "restart" ELSE "resume"
       [] status \in {"completed", "done", "failed"} \/ (status # "paused" /\ begun) -> "restart"
       [] OTHER -> "start"

(* The line under the button, by what it says.                             *)
describeRunState(w, commands, pendingSync) ==
  CASE ~ w.local -> "not on the client"
    [] w.local /\ pendingSync > 0 -> "still syncing"
    [] w.local /\ pendingSync = 0 ->
         IF commands \cap RUN_LIFECYCLE_COMMANDS # {} THEN "run waiting"
         ELSE CASE w.status \in {"running", "waiting"} -> "running"
                [] w.status \in {"completed", "done"} -> "finished"
                [] w.status = "failed" -> "failed"
                [] OTHER -> "ready"

startDisabled(w, rows, commands, chosen, busy) ==
  \/ busy \/ ~ w.local
  \/ countStepsPendingSync(rows, w.local) > 0
  \/ w.status \in {"running", "waiting"}
  \/ commands \cap RUN_LIFECYCLE_COMMANDS # {}
  \/ chosen = {} \/ rows = << >>
-----------------------------------------------------------------------------
(* Scheduling.                                                             *)

(* The panel's statuses in which a schedule is not changed, and those in   *)
(* which the server refuses to: a deleted workflow has gone before that.   *)
PANEL_BUSY_STATUSES == {"running", "waiting", "paused", "deleting"}
SERVER_BUSY_STATUSES == {"running", "waiting", "paused"}

scheduleUnavailableReason(client, may) ==
  IF ~ ({"execute", "manage"} \subseteq may) THEN "permissions"
  ELSE IF client = "none" THEN "no client"
  ELSE IF client # "schedules" THEN "not supported" ELSE "none"

selectedScheduleReason(w, may) ==
  LET reason == scheduleUnavailableReason(w.client, may)
  IN IF reason # "none" THEN reason
     ELSE IF w.status \in PANEL_BUSY_STATUSES THEN "busy" ELSE "none"

(* PUT /api/sync/remote-workflows/:id/schedule.                            *)
scheduleAccepted(w, may) ==
  /\ {"execute", "manage"} \subseteq may
  /\ w.client = "schedules"
  /\ w.status # "deleting"
  /\ w.status \notin SERVER_BUSY_STATUSES
-----------------------------------------------------------------------------
(* Lists.                                                                  *)

SCHEDULE_FILTERS == {"all", "scheduled", "runs", "archived"}

isArchived(w) == w.archived
isArmedInstance(w) == w.series /\ w.schedule = "armed"
isScheduledRun(w) == w.series /\ ~ isArmedInstance(w)

matchesScheduleFilter(w, filter) ==
  IF filter = "archived" THEN isArchived(w)
  ELSE /\ ~ isArchived(w)
       /\ filter = "scheduled" => isArmedInstance(w)
       /\ filter = "runs" => isScheduledRun(w)

workflowBadges(w) ==
  {b \in {"scheduled", "run", "archived"} :
     CASE b = "scheduled" -> isArmedInstance(w)
       [] b = "run" -> isScheduledRun(w)
       [] b = "archived" -> isArchived(w)}

(* The activity table: a workflow that is not remote has no schedule.      *)
visibleInActivity(remote, filter) ==
  IF remote = {} THEN filter = "all"
  ELSE \E w \in remote : matchesScheduleFilter(w, filter)
=============================================================================
