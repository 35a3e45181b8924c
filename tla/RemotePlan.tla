----------------------------- MODULE RemotePlan -----------------------------
(***************************************************************************)
(* The server-side mirror of one remote workflow: its row, its planned     *)
(* steps and the way commands, acknowledgements, hub events and operator   *)
(* reads move them (db.mjs 3884-4415 and the routes of server.mjs).  The   *)
(* mirror is keyed by remote id throughout, so one workflow and its        *)
(* command channel are the whole story; the order of the channel is what   *)
(* CommandQueue shows.  Each handler runs several separate SQLite          *)
(* transactions: with Crashes the server may stop between two of them.     *)
(***************************************************************************)
EXTENDS Naturals, Sequences, FiniteSets

CONSTANTS
  Keys,         \* step keys
  MaxCommands,  \* bound: commands ever enqueued for the workflow
  MaxEvents,    \* bound: events the hub ever emits
  HubRefuses,   \* may the hub fail a command it could apply?
  Crashes       \* may the server stop between two transactions of a handler?

ASSUME BoundAssumption == MaxCommands \in Nat /\ MaxEvents \in Nat
ASSUME KeyAssumption == "none" \notin Keys
ASSUME FlagAssumption == HubRefuses \in BOOLEAN /\ Crashes \in BOOLEAN

VARIABLES
  status,    \* remote_workflows.status, or "none" when there is no row
  localId,   \* has remote_workflows.local_id been set?
  steps,     \* remote_workflow_steps: key |-> row or NoStep
  queue,     \* commands of the workflow by sequence number
  lost,      \* external: commands handed out in an answer that never arrived
  hub,       \* external: does the hub have the workflow, and which version
             \* of each step (0: not there)
  reports,   \* the hub's acknowledgements; each is retried until answered
  outbox,    \* the hub's events, by id; each may arrive late and repeatedly
  stored     \* sync_events: the ids already inserted

vars == <<status, localId, steps, queue, lost, hub, reports, outbox, stored>>
server == <<status, localId, steps, queue, stored>>

NoStep == [ver |-> 0, st |-> "none", onClient |-> FALSE]
Finished == {"done", "failed"}          \* done, completed and failed in the code

CommandTypes == {"workflow.create", "workflow.delete", "step.add", "step.edit", "step.remove"}
Errors == {"none", "gone", "other"}     \* "gone": not mapped locally | unknown workflow

StepRows == [ver : 1 .. MaxCommands, st : {"pending", "done", "failed"}, onClient : BOOLEAN]
Events ==
  [kind : {"workflow"}, to : {"running", "completed"}]
    \cup [kind : {"step"}, key : Keys, to : Finished]
    \cup [kind : {"ack"}, n : 1 .. MaxCommands, error : Errors]

TypeOK ==
  /\ status \in {"none", "pending", "draft", "running", "completed", "deleting"}
  /\ localId \in BOOLEAN
  /\ steps \in [Keys -> StepRows \cup {NoStep}]
  /\ \A n \in DOMAIN queue :
       /\ queue[n].type \in CommandTypes
       /\ queue[n].status \in {"pending", "delivered", "acked", "failed"}
  /\ lost \subseteq DOMAIN queue
  /\ hub \in [has : BOOLEAN, ver : [Keys -> 0 .. MaxCommands]]
  /\ reports \subseteq [n : DOMAIN queue, error : Errors]
  /\ \A e \in DOMAIN outbox : outbox[e] \in Events
  /\ stored \subseteq DOMAIN outbox

-----------------------------------------------------------------------------
(* Tables.                                                                 *)

Exists == status # "none"
Planned(k) == steps[k] # NoStep
InFlight(c) == c.status \in {"pending", "delivered"}
IsStepWrite(c, k) == c.type \in {"step.add", "step.edit"} /\ c.key = k
IsDelete(c) == c.type = "workflow.delete"

Command(type, key) == [type |-> type, key |-> key, status |-> "pending"]
NextSequence == Len(queue) + 1
HasRoom == Len(queue) < MaxCommands

(* Is there a step.add or step.edit for k in one of these states?          *)
HasStepWrite(q, k, states) ==
  \E n \in DOMAIN q : IsStepWrite(q[n], k) /\ q[n].status \in states

(* Seeded fault: the refresh without its second statement.                 *)
RefreshSetsOnly(q, s) ==
  [k \in Keys |->
     IF s[k] = NoStep THEN NoStep
     ELSE [s[k] EXCEPT !.onClient = @ \/ HasStepWrite(q, k, {"acked"})]]

(* refreshRemoteStepClientSync: set from the acked step commands, then     *)
(* clear for the ones in flight.                                           *)
Refresh(q, s) ==
  [k \in Keys |->
     IF s[k] = NoStep THEN NoStep
     ELSE [s[k] EXCEPT !.onClient =
             /\ ~HasStepWrite(q, k, {"pending", "delivered"})
             /\ @ \/ HasStepWrite(q, k, {"acked"})]]

Mark(s, k) == IF s[k] = NoStep THEN s ELSE [s EXCEPT ![k].onClient = TRUE]

AllFinished(s) ==
  /\ \E k \in Keys : s[k] # NoStep
  /\ \A k \in Keys : s[k] # NoStep => s[k].st \in Finished

(* removeRemoteWorkflow, and revertRemoteWorkflowDeleteState which reads   *)
(* the steps (and thereby refreshes them) on the way.                      *)
Remove ==
  /\ status' = "none"
  /\ localId' = FALSE
  /\ steps' = [k \in Keys |-> NoStep]

(* Seeded fault: only a finished plan is taken out of deleting.            *)
RevertFinishedOnly(q) ==
  IF status = "deleting" /\ AllFinished(steps)
  THEN status' = "completed" /\ steps' = Refresh(q, steps) /\ UNCHANGED localId
  ELSE UNCHANGED <<status, steps, localId>>

Revert(q) ==
  IF status = "deleting"
  THEN /\ status' = IF AllFinished(steps) THEN "completed" ELSE "draft"
       /\ steps' = Refresh(q, steps)
       /\ UNCHANGED localId
  ELSE UNCHANGED <<status, steps, localId>>

(* Seeded fault: whatever the outcome of a delete, the row goes.           *)
ApplyAckAlwaysRemoves(c, error, q) ==
  IF IsDelete(c) THEN Remove
  ELSE /\ steps' = IF error = "none" /\ \E k \in Keys : IsStepWrite(c, k)
                   THEN Mark(steps, c.key) ELSE steps
       /\ UNCHANGED <<status, localId>>

(* applyCommandAckToPlan for a command with this outcome; q is the queue   *)
(* as it is by then.                                                       *)
ApplyAckToPlan(c, error, q) ==
  IF IsDelete(c)
  THEN IF error \in {"none", "gone"} THEN Remove ELSE Revert(q)
  ELSE /\ steps' = IF error = "none" /\ \E k \in Keys : IsStepWrite(c, k)
                   THEN Mark(steps, c.key) ELSE steps
       /\ UNCHANGED <<status, localId>>

-----------------------------------------------------------------------------
(* The operators.                                                          *)

(* POST /api/sync/remote-workflows: the row, then workflow.create, then a  *)
(* step.add and its mirror row for each step of the template.  A server    *)
(* that stops on the way leaves the first m commands, all or all but the   *)
(* last of their steps mirrored.                                           *)
CreateCommands(template) ==
  <<Command("workflow.create", "none")>>
    \o [i \in DOMAIN template |-> Command("step.add", template[i])]

MirrorOf(template, count) ==
  [k \in Keys |->
     IF \E i \in 1 .. count : template[i] = k
     THEN [ver |-> 1 + CHOOSE i \in 1 .. count : template[i] = k,
           st |-> "pending", onClient |-> FALSE]
     ELSE NoStep]

NewRow ==
  /\ queue = << >>
  /\ ~Exists
  /\ status' = "pending"
  /\ UNCHANGED <<localId, lost, hub, reports, outbox, stored>>

Create(template) ==
  /\ NewRow
  /\ Len(template) < MaxCommands
  /\ queue' = CreateCommands(template)
  /\ steps' = MirrorOf(template, Len(template))

CreateThenCrash(template, m, mirrored) ==
  /\ Crashes
  /\ NewRow
  /\ Len(template) < MaxCommands
  /\ m \in 0 .. (Len(template) + 1)
  /\ \/ mirrored + 1 = m
     \/ mirrored + 2 = m
     \/ m = 0 /\ mirrored = 0
  /\ queue' = SubSeq(CreateCommands(template), 1, m)
  /\ steps' = MirrorOf(template, mirrored)

(* POST .../commands: enqueueCommand, then mirrorCommandToPlan.            *)
Enqueue(type, k) ==
  /\ Exists
  /\ HasRoom
  /\ queue' = Append(queue, Command(type, k))
  /\ UNCHANGED <<localId, lost, hub, reports, outbox, stored>>

(* An upsert keeps on_client of an existing row and resets its status.     *)
AddStep(k) ==
  /\ Enqueue("step.add", k)
  /\ steps' = [steps EXCEPT ![k] = [ver |-> NextSequence, st |-> "pending", onClient |-> @.onClient]]
  /\ UNCHANGED status

EditStep(k) ==
  /\ Enqueue("step.edit", k)
  /\ steps' = IF Planned(k)
              THEN [steps EXCEPT ![k] = [@ EXCEPT !.ver = NextSequence, !.onClient = FALSE]]
              ELSE steps
  /\ UNCHANGED status

RemoveStep(k) ==
  /\ Enqueue("step.remove", k)
  /\ steps' = [steps EXCEPT ![k] = NoStep]
  /\ UNCHANGED status

(* DELETE /api/sync/remote-workflows/:id.  The row is read before the body *)
(* of the request is awaited and used after it: by then it may be gone.    *)
Delete ==
  /\ Exists \/ queue # << >>
  /\ HasRoom
  /\ queue' = Append(queue, Command("workflow.delete", "none"))
  /\ status' = IF Exists THEN "deleting" ELSE status
  /\ UNCHANGED <<localId, steps, lost, hub, reports, outbox, stored>>

(* The server stops after the command row is committed and before the plan *)
(* or the status follows.                                                  *)
EnqueueThenCrash(type, k) ==
  /\ Crashes
  /\ Enqueue(type, k)
  /\ UNCHANGED <<status, steps>>

(* GET .../:id refreshes the steps; GET the list also reconciles           *)
(* workflows stuck in deleting.                                            *)
Detail ==
  /\ steps' = Refresh(queue, steps)
  /\ UNCHANGED <<status, localId, queue, lost, hub, reports, outbox, stored>>

DeleteIs(states) == \E n \in DOMAIN queue : IsDelete(queue[n]) /\ queue[n].status \in states

GoneReported ==
  \E e \in stored : outbox[e].kind = "ack" /\ outbox[e].error = "gone"

List ==
  /\ IF status = "deleting" /\ DeleteIs({"acked"}) THEN Remove
     ELSE IF status = "deleting" /\ DeleteIs({"failed"}) /\ ~DeleteIs({"pending", "delivered"})
     THEN IF GoneReported THEN Remove ELSE Revert(queue)
     ELSE /\ steps' = Refresh(queue, steps)
          /\ UNCHANGED <<status, localId>>
  /\ UNCHANGED <<queue, lost, hub, reports, outbox, stored>>

-----------------------------------------------------------------------------
(* The hub (external).                                                     *)

(* Seeded fault: a poll that does not look at the command before.          *)
ClaimAnyOrder(n) ==
  /\ queue[n].status = "pending"
  /\ queue' = [queue EXCEPT ![n].status = "delivered"]
  /\ UNCHANGED <<status, localId, steps, hub, reports, outbox, stored>>

(* A poll claims the oldest pending command once everything before it has  *)
(* settled, and commits it as delivered before the answer leaves.          *)
Claim(n) ==
  /\ queue[n].status = "pending"
  /\ n > 1 => ~InFlight(queue[n - 1])
  /\ queue' = [queue EXCEPT ![n].status = "delivered"]
  /\ UNCHANGED <<status, localId, steps, hub, reports, outbox, stored>>

(* The answer arrives, or it is lost and the command with it: no later     *)
(* poll hands out what is delivered already.                               *)
Deliver(n) == Claim(n) /\ UNCHANGED lost
LoseAnswer(n) == Claim(n) /\ lost' = lost \cup {n}

HubSucceeds(c, n) ==
  CASE c.type = "workflow.create" -> hub' = [hub EXCEPT !.has = TRUE]
    [] c.type = "workflow.delete" -> hub' = [has |-> FALSE, ver |-> [k \in Keys |-> 0]]
    [] c.type = "step.remove"     -> hub' = [hub EXCEPT !.ver[c.key] = 0]
    [] OTHER                      -> hub' = [hub EXCEPT !.ver[c.key] = n]

HubCan(c) ==
  /\ c.type # "workflow.create" => hub.has
  /\ c.type \in {"step.edit", "step.remove"} => hub.ver[c.key] # 0

(* The hub works on a command once and reports: by acknowledging it and,   *)
(* if it likes, also with a command.ack event.                             *)
HubApply(n) ==
  /\ queue[n].status = "delivered"
  /\ n \notin lost
  /\ \A r \in reports : r.n # n
  /\ \E error \in Errors :
       /\ CASE error = "none"  -> HubCan(queue[n]) /\ HubSucceeds(queue[n], n)
            [] error = "gone"  -> /\ ~hub.has
                                  /\ queue[n].type # "workflow.create"
                                  /\ UNCHANGED hub
            [] error = "other" -> /\ HubRefuses \/ (hub.has /\ ~HubCan(queue[n]))
                                  /\ hub.has \/ queue[n].type = "workflow.create"
                                  /\ UNCHANGED hub
       /\ reports' = reports \cup {[n |-> n, error |-> error]}
       /\ \/ UNCHANGED outbox
          \/ /\ Len(outbox) < MaxEvents
             /\ outbox' = Append(outbox, [kind |-> "ack", n |-> n, error |-> error])
  /\ UNCHANGED <<server, lost>>

(* The hub runs what it has and tells the server about it.                 *)
HubEmits(e) ==
  /\ hub.has
  /\ Len(outbox) < MaxEvents
  /\ e.kind \in {"workflow", "step"}
  /\ e.kind = "step" => hub.ver[e.key] # 0
  /\ outbox' = Append(outbox, e)
  /\ UNCHANGED <<status, localId, steps, queue, lost, hub, reports, stored>>

-----------------------------------------------------------------------------
(* The sync routes of the server.                                          *)

Settle(r) ==
  IF InFlight(queue[r.n])
  THEN [queue EXCEPT ![r.n].status = IF r.error = "none" THEN "acked" ELSE "failed"]
  ELSE queue

(* POST /api/sync/commands/:id/ack.  An acknowledgement that is already    *)
(* recorded is applied to the plan again, which repairs a crash.           *)
HandleAck(r) ==
  /\ r \in reports
  /\ queue' = Settle(r)
  /\ LET c == queue[r.n]
     IN IF c.type = "workflow.create"
        THEN /\ localId' = (localId \/ (Exists /\ r.error = "none"))
             /\ UNCHANGED <<status, steps>>
        ELSE ApplyAckToPlan(c, r.error, queue')
  /\ UNCHANGED <<lost, hub, reports, outbox, stored>>

HandleAckThenCrash(r) ==
  /\ Crashes
  /\ r \in reports
  /\ queue' = Settle(r)
  /\ UNCHANGED <<status, localId, steps, lost, hub, reports, outbox, stored>>

(* mirrorSyncEventToPlan.                                                  *)
MirrorEvent(e) ==
  CASE e.kind = "workflow" ->
         /\ status' = IF Exists /\ status # "deleting" THEN e.to ELSE status
         /\ UNCHANGED <<steps, localId>>
    [] e.kind = "step" ->
         /\ steps' = IF Planned(e.key)
                     THEN [steps EXCEPT ![e.key] = [@ EXCEPT !.st = e.to, !.onClient = TRUE]]
                     ELSE steps
         /\ UNCHANGED <<status, localId>>
    [] e.kind = "ack" -> ApplyAckToPlan(queue[e.n], e.error, queue)

(* POST /api/sync/events: insertSyncEvent, then the mirror; a duplicate id *)
(* is not mirrored again.                                                  *)
HandleEvent(e) ==
  /\ IF e \in stored THEN UNCHANGED <<status, localId, steps>> ELSE MirrorEvent(outbox[e])
  /\ stored' = stored \cup {e}
  /\ UNCHANGED <<queue, lost, hub, reports, outbox>>

HandleEventThenCrash(e) ==
  /\ Crashes
  /\ stored' = stored \cup {e}
  /\ UNCHANGED <<status, localId, steps, queue, lost, hub, reports, outbox>>

-----------------------------------------------------------------------------
Templates == {<< >>} \cup {<<k>> : k \in Keys}

Init ==
  /\ status = "none"
  /\ localId = FALSE
  /\ steps = [k \in Keys |-> NoStep]
  /\ queue = << >>
  /\ hub = [has |-> FALSE, ver |-> [k \in Keys |-> 0]]
  /\ lost = {}
  /\ reports = {}
  /\ outbox = << >>
  /\ stored = {}

Operator ==
  \/ \E template \in Templates : Create(template)
  \/ \E template \in Templates, m \in 0 .. 2, j \in 0 .. 1 : CreateThenCrash(template, m, j)
  \/ \E k \in Keys : AddStep(k)
  \/ \E k \in Keys : EditStep(k)
  \/ \E k \in Keys : RemoveStep(k)
  \/ Delete
  \/ \E k \in Keys, type \in {"step.add", "step.edit", "step.remove"} : EnqueueThenCrash(type, k)
  \/ EnqueueThenCrash("workflow.delete", "none")
  \/ Detail
  \/ List

HubSide ==
  \/ \E n \in DOMAIN queue : Deliver(n)
  \/ \E n \in DOMAIN queue : LoseAnswer(n)
  \/ \E n \in DOMAIN queue : HubApply(n)
  \/ \E e \in Events : HubEmits(e)

SyncRoutes ==
  \/ \E r \in reports : HandleAck(r)
  \/ \E r \in reports : HandleAckThenCrash(r)
  \/ \E e \in DOMAIN outbox : HandleEvent(e)
  \/ \E e \in DOMAIN outbox : HandleEventThenCrash(e)

Next == Operator \/ HubSide \/ SyncRoutes
Spec == Init /\ [][Next]_vars

(* The hub polls; what reaches it it works on, and it repeats its reports  *)
(* until they are answered; the dashboard lists the workflows every few    *)
(* seconds.  A command whose poll answer was lost is owed nothing.         *)
Fairness ==
  /\ \A n \in 1 .. MaxCommands :
       /\ WF_vars(n \in DOMAIN queue /\ (Deliver(n) \/ LoseAnswer(n)))
       /\ WF_vars(n \in DOMAIN queue /\ HubApply(n))
       /\ WF_vars(\E r \in reports : r.n = n /\ HandleAck(r))
  /\ WF_vars(List)

FairSpec == Spec /\ Fairness
-----------------------------------------------------------------------------
(* When the server forgets a workflow the hub no longer has it: no delete  *)
(* that failed, repeated or arrived late leaves one running unseen.        *)
ForgottenMeansGone == (queue # << >> /\ ~Exists) => ~hub.has

(* What an operator who reads now sees in on_client.                       *)
Shown(k) == Refresh(queue, steps)[k].onClient

Refused(k) == \E n \in DOMAIN queue : queue[n].key = k /\ queue[n].status = "failed"

(* Did the plan follow the last command for k?  It did not when the server *)
(* stopped between the two.                                                *)
Mirrored(k) ==
  \A n \in DOMAIN queue :
    (queue[n].key = k /\ \A m \in DOMAIN queue : m > n => queue[m].key # k)
      => steps[k].ver = IF queue[n].type = "step.remove" THEN 0 ELSE n

(* A step shown as on the client is there in the version the server shows, *)
(* whatever order events and acknowledgements came in and wherever the     *)
(* server stopped, unless the hub refused a change to it or the plan never *)
(* got the last one (db.mjs 3949-3970, server.mjs 2290 and 2323).          *)
SyncedIsTruthful ==
  \A k \in Keys :
    (Planned(k) /\ Shown(k) /\ hub.has /\ Mirrored(k) /\ ~Refused(k)) => hub.ver[k] = steps[k].ver

(* Once the hub accepted everything, plan and hub agree step by step.      *)
Converged ==
  (Exists /\ \A n \in DOMAIN queue : queue[n].status = "acked")
    => \/ DeleteIs({"acked"})
       \/ \A k \in Keys : Mirrored(k) => hub.ver[k] = steps[k].ver

(* Only an answer to a delete takes a workflow out of deleting: no late    *)
(* status event and no read brings it back before, or removes it.          *)
DeleteAnswered ==
  [][status = "deleting" /\ status' # "deleting"
       => \E r \in reports : IsDelete(queue[r.n])]_vars

(* The answer that carried the delete, or a command before it, was lost.   *)
DeleteLost ==
  \E n \in lost, d \in DOMAIN queue :
    n <= d /\ IsDelete(queue[d]) /\ InFlight(queue[d])

(* A delete is eventually answered unless a poll answer on its way is lost: *)
(* the workflow is removed, or it is back in its plan state for the        *)
(* operator to use; and only an answer of the hub does it.  After a loss   *)
(* nothing does: the workflow stays in deleting (db.mjs 3814-3825, 4002).  *)
DeleteResolves ==
  /\ status = "deleting" ~> (status # "deleting" \/ DeleteLost)
  /\ DeleteAnswered
=============================================================================
