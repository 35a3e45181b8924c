--------------------------- MODULE ScheduleSeries ---------------------------
(***************************************************************************)
(* Scheduled series between the server and one hub: the series rows, the   *)
(* workflows that are their instances, the commands that set and cancel a  *)
(* schedule, and the hub's announcements (db.mjs 4417-4775, server.mjs     *)
(* scheduleRemoteWorkflow, PUT and DELETE .../schedule and the events      *)
(* route).  The hub runs the schedule: when an instance fires it clones    *)
(* the next one under an id it mints and announces it until the server     *)
(* confirms.  A command travels on the channel of the workflow the         *)
(* operator acted on but addresses the series; channels are first-in       *)
(* first-out (CommandQueue) and unordered among each other.  How a         *)
(* workflow is deleted is RemotePlan; here a delete is applied and         *)
(* acknowledged in one step.  Recurrence, steps and selections of a cloned *)
(* instance are left out.                                                  *)
(***************************************************************************)
EXTENDS Naturals, Sequences, FiniteSets

CONSTANTS
  Series,       \* series ids
  Roots,        \* workflows operators created
  Clones,       \* ids the hub may mint: they bound how often a series fires
  Specs,        \* schedules an operator may choose
  MaxCommands,  \* bound: commands ever queued
  MaxEvents,    \* bound: events in the outbox before which a hub archives or
                \* reports a run, and up to which it breaks a series
  MaxCrashes    \* bound: how often the server stops between two transactions
                \* of a handler

ASSUME IdAssumption == Roots \cap Clones = {} /\ "none" \notin Series
ASSUME BoundAssumption == MaxCommands \in Nat /\ MaxEvents \in Nat /\ MaxCrashes \in Nat

VARIABLES
  series,    \* remote_schedule_series: id |-> state and spec
  wf,        \* remote_workflows: id |-> row or NoRow
  log,       \* commands queued per workflow, by sequence number
  applied,   \* how many of them the hub has applied and acknowledged
  hub,       \* external: its series, with the spec it runs and the live instance
  mine,      \* external: the workflows the hub has
  outbox,    \* the hub's events; the server gets them in order ...
  answered,  \* ... each repeated until it is answered, or again much later
  stored,    \* sync_events: positions of the outbox already inserted
  notices,   \* remote_schedule_notices, by the event they came with
  crashes    \* history: how often the server stopped within a handler

vars == <<series, wf, log, applied, hub, mine, outbox, answered, stored, notices, crashes>>
hubSide == <<applied, hub, mine, outbox, answered>>

Workflows == Roots \cup Clones
NoRow == [series |-> "none", sched |-> "none", status |-> "none", archived |-> FALSE]
NoSeries == [state |-> "none", spec |-> 0]

ScheduleStates == {"none", "armed", "fired", "missed", "cancelled", "broken"}

TypeOK ==
  /\ \A s \in Series :
       series[s] = NoSeries \/ series[s] \in [state : {"active", "cancelled", "broken"}, spec : Specs]
  /\ \A w \in Workflows :
       wf[w] = NoRow \/ wf[w] \in [series : Series \cup {"none"}, sched : ScheduleStates,
                                   status : {"idle", "busy", "deleting"}, archived : BOOLEAN]
  /\ DOMAIN log = Workflows
  /\ applied \in [Workflows -> 0 .. MaxCommands]
  /\ \A s \in Series : hub[s].state \in {"none", "armed", "cancelled", "broken"}
  /\ mine \subseteq Workflows
  /\ answered \in 0 .. Len(outbox)
  /\ stored \subseteq DOMAIN outbox
  /\ notices \subseteq stored
  /\ crashes \in 0 .. MaxCrashes

-----------------------------------------------------------------------------
(* Tables, commands and events.                                            *)

(* createRemoteWorkflow: a row without a schedule.                         *)
CreatedRow == [series |-> "none", sched |-> "none", status |-> "idle", archived |-> FALSE]

(* createSeries, and updateSeries with a schedule: the same row results.   *)
SeriesSet(s, spec) == [series EXCEPT ![s] = [state |-> "active", spec |-> spec]]

(* updateSeries with a state alone.                                        *)
SeriesMoved(s, state) == [series EXCEPT ![s].state = state]

(* setRemoteWorkflowScheduleFields: the fields that are given.             *)
ScheduleFields(row, fields) ==
  [f \in DOMAIN row |-> IF f \in DOMAIN fields THEN fields[f] ELSE row[f]]

Known(s) == series[s] # NoSeries
Exists(w) == wf[w] # NoRow
Instances(s) == {w \in Workflows : Exists(w) /\ wf[w].series = s}

SetSchedule(s, spec) == [type |-> "set", series |-> s, spec |-> spec]
CancelSchedule(s) == [type |-> "cancel", series |-> s, spec |-> 0]
DeleteWorkflow == [type |-> "delete", series |-> "none", spec |-> 0]

Commands == UNION {{<<w, n>> : n \in DOMAIN log[w]} : w \in Workflows}
Queue(w, c) ==
  /\ Cardinality(Commands) < MaxCommands
  /\ log' = [log EXCEPT ![w] = Append(@, c)]

Created(s, w, prev) == [kind |-> "created", series |-> s, w |-> w, prev |-> prev, to |-> "armed"]
Changed(s, w, state) == [kind |-> "changed", series |-> s, w |-> w, prev |-> w, to |-> state]
Missed(s, w) == [kind |-> "missed", series |-> s, w |-> w, prev |-> w, to |-> "missed"]
Archived(w, to) == [kind |-> "archived", series |-> "none", w |-> w, prev |-> w, to |-> to]
Status(w, to) == [kind |-> "status", series |-> "none", w |-> w, prev |-> w, to |-> to]

(* randomUUID: an id no row and no command has.                            *)
Fresh(s) == ~Known(s) /\ \A id \in Commands : log[id[1]][id[2]].series # s

(* The server stops here and starts again.                                 *)
Crash == crashes < MaxCrashes /\ crashes' = crashes + 1

-----------------------------------------------------------------------------
(* The operators.                                                          *)

(* A cancelled series is history; anything else is updated in place.       *)
HasLiveSeries(w) == wf[w].series # "none" /\ series[wf[w].series].state # "cancelled"

SeriesFor(w) == IF HasLiveSeries(w) THEN {wf[w].series} ELSE {s \in Series : Fresh(s)}

(* The guards of PUT .../schedule: known, not running, not being deleted.  *)
CanSchedule(w) == Exists(w) /\ wf[w].status = "idle"

(* scheduleRemoteWorkflow: the command, the series, then the pointer.      *)
Schedule(w, s, spec) ==
  /\ CanSchedule(w)
  /\ s \in SeriesFor(w)
  /\ Queue(w, SetSchedule(s, spec))
  /\ series' = SeriesSet(s, spec)
  /\ wf' = IF HasLiveSeries(w) THEN wf
            ELSE [wf EXCEPT ![w] = ScheduleFields(@, [series |-> s, sched |-> "none"])]
  /\ UNCHANGED <<hubSide, stored, notices, crashes>>

ScheduleThenCrash(w, s, spec) ==
  /\ Crash
  /\ CanSchedule(w)
  /\ s \in SeriesFor(w)
  /\ Queue(w, SetSchedule(s, spec))
  /\ \/ UNCHANGED series
     \/ series' = SeriesSet(s, spec)
  /\ UNCHANGED <<wf, hubSide, stored, notices>>

(* DELETE .../schedule, which a busy or deleting workflow does not refuse. *)
CanCancel(w) == Exists(w) /\ HasLiveSeries(w)

Cancel(w) ==
  /\ CanCancel(w)
  /\ Queue(w, CancelSchedule(wf[w].series))
  /\ series' = SeriesMoved(wf[w].series, "cancelled")
  /\ UNCHANGED <<wf, hubSide, stored, notices, crashes>>

CancelThenCrash(w) ==
  /\ Crash
  /\ CanCancel(w)
  /\ Queue(w, CancelSchedule(wf[w].series))
  /\ UNCHANGED <<series, wf, hubSide, stored, notices>>

(* DELETE /api/sync/remote-workflows/:id.                                  *)
Delete(w) ==
  /\ Exists(w)
  /\ Queue(w, DeleteWorkflow)
  /\ wf' = [wf EXCEPT ![w].status = "deleting"]
  /\ UNCHANGED <<series, hubSide, stored, notices, crashes>>

-----------------------------------------------------------------------------
(* The hub (external), as server.mjs and docs/remote-sync.md rely on it.   *)

LiveOn(w) == {s \in Series : hub[s].live = w /\ hub[s].state = "armed"}

(* A command for a series addresses its live instance; an unknown series,  *)
(* or one whose live instance was deleted, starts with the workflow the    *)
(* command came for, if the hub has it and no other series runs it; a      *)
(* cancelled series stays cancelled.                                       *)
HubSets(w, c) ==
  LET s == c.series
      inPlace == hub[s].state \in {"armed", "broken"} /\ hub[s].live \in mine
      starts == hub[s].state # "cancelled" /\ w \in mine /\ LiveOn(w) = {}
      live == IF inPlace THEN hub[s].live ELSE w
  IN IF inPlace \/ starts
     THEN /\ hub' = [hub EXCEPT ![s] = [state |-> "armed", spec |-> c.spec, live |-> live]]
          /\ outbox' = Append(outbox, Changed(s, live, "armed"))
     ELSE UNCHANGED <<hub, outbox>>

HubCancels(c) ==
  IF hub[c.series].state \in {"armed", "broken"}
  THEN /\ hub' = [hub EXCEPT ![c.series].state = "cancelled"]
       /\ outbox' = Append(outbox, Changed(c.series, hub[c.series].live, "cancelled"))
  ELSE UNCHANGED <<hub, outbox>>

(* Deleting the live instance breaks its series.                           *)
HubDeletes(w) ==
  \/ LiveOn(w) = {} /\ UNCHANGED <<hub, outbox>>
  \/ \E s \in LiveOn(w) :
       /\ hub' = [hub EXCEPT ![s].state = "broken"]
       /\ outbox' = Append(outbox, Changed(s, w, "broken"))

(* The next command of a channel; an acknowledged delete removes the row.  *)
HubApply(w) ==
  /\ applied[w] < Len(log[w])
  /\ applied' = [applied EXCEPT ![w] = @ + 1]
  /\ LET c == log[w][applied[w] + 1]
     IN CASE c.type = "set"    -> HubSets(w, c) /\ UNCHANGED <<wf, mine>>
          [] c.type = "cancel" -> HubCancels(c) /\ UNCHANGED <<wf, mine>>
          [] c.type = "delete" -> /\ HubDeletes(w)
                                  /\ mine' = mine \ {w}
                                  /\ wf' = [wf EXCEPT ![w] = NoRow]
  /\ UNCHANGED <<series, log, answered, stored, notices, crashes>>

Minted == {outbox[i].w : i \in {j \in DOMAIN outbox : outbox[j].kind = "created"}}

(* The live instance fires, or is missed, and its successor is announced.  *)
HubFires(s, w) ==
  /\ hub[s].state = "armed"
  /\ w \in Clones \ Minted
  /\ hub' = [hub EXCEPT ![s].live = w]
  /\ mine' = mine \cup {w}
  /\ \E before \in {<< >>, <<Missed(s, hub[s].live), Changed(s, hub[s].live, "missed")>>} :
       outbox' = outbox \o before \o <<Created(s, w, hub[s].live)>>
  /\ UNCHANGED <<series, wf, log, applied, answered, stored, notices, crashes>>

HubBreaks(s) ==
  /\ hub[s].state = "armed"
  /\ Len(outbox) <= MaxEvents
  /\ hub' = [hub EXCEPT ![s].state = "broken"]
  /\ outbox' = Append(outbox, Changed(s, hub[s].live, "broken"))
  /\ UNCHANGED <<series, wf, log, applied, mine, answered, stored, notices, crashes>>

(* The hub archives a workflow, and may take it back from the archive.     *)
HubArchives(w) ==
  /\ w \in mine
  /\ Len(outbox) < MaxEvents
  /\ \E after \in {<< >>, <<Archived(w, "unarchived")>>} :
       outbox' = Append(outbox, Archived(w, "archived")) \o after
  /\ UNCHANGED <<series, wf, log, applied, hub, mine, answered, stored, notices, crashes>>

HubRuns(w, to) ==
  /\ w \in mine
  /\ Len(outbox) < MaxEvents
  /\ outbox' = Append(outbox, Status(w, to))
  /\ UNCHANGED <<series, wf, log, applied, hub, mine, answered, stored, notices, crashes>>

-----------------------------------------------------------------------------
(* POST /api/sync/events.                                                  *)

(* The refusals of applyScheduleInstanceCreated: series unknown or         *)
(* cancelled; the id taken by another series; no such previous instance.   *)
Accepts(e) ==
  /\ Known(e.series)
  /\ series[e.series].state # "cancelled"
  /\ IF Exists(e.w) THEN e.w \in Instances(e.series) ELSE e.prev \in Instances(e.series)

Armed(s) == ScheduleFields(CreatedRow, [series |-> s, sched |-> "armed"])

(* Seeded fault: the previous instance is left as it is.                   *)
InsertOnly(e) == IF Exists(e.w) THEN wf ELSE [wf EXCEPT ![e.w] = Armed(e.series)]

Fired(row) ==
  IF row.sched \in {"armed", "none"} THEN ScheduleFields(row, [sched |-> "fired"]) ELSE row

(* The new instance is armed and the previous one has fired, unless the    *)
(* hub has reported otherwise.  A resend finds its own row.                *)
InsertInstance(e) ==
  IF Exists(e.w) THEN wf
  ELSE [wf EXCEPT ![e.w] = Armed(e.series), ![e.prev] = Fired(@)]

(* Seeded faults: a cancelled series follows its instance too; a broken    *)
(* one stays broken.                                                       *)
NextStateRevived(state, to) ==
  IF to \in {"broken", "cancelled"} THEN to ELSE "active"
NextStateStuck(state, to) ==
  IF state # "cancelled" /\ to \in {"broken", "cancelled"} THEN to ELSE state

(* The series follows its instance, except that a cancel is final.         *)
NextState(state, to) ==
  IF state = "cancelled" THEN state
  ELSE IF to \in {"broken", "cancelled"} THEN to ELSE "active"

(* mirrorScheduleSyncEvent, by kind of event.                              *)
MirrorArchived(e) ==
  /\ wf' = IF Exists(e.w)
           THEN [wf EXCEPT ![e.w] = ScheduleFields(@, [archived |-> e.to = "archived"])] ELSE wf
  /\ UNCHANGED <<series, notices>>

MirrorChanged(e) ==
  /\ wf' = IF Known(e.series) /\ e.w \in Instances(e.series)
           THEN [wf EXCEPT ![e.w] = ScheduleFields(@, [sched |-> e.to])] ELSE wf
  /\ series' = IF Known(e.series)
               THEN SeriesMoved(e.series, NextState(series[e.series].state, e.to)) ELSE series
  /\ UNCHANGED notices

(* A missed run leaves a notice under the id of its event.                 *)
MirrorMissed(i) ==
  /\ notices' = IF Known(outbox[i].series) THEN notices \cup {i} ELSE notices
  /\ UNCHANGED <<series, wf>>

(* mirrorSyncEventToPlan: a status, unless the workflow is being deleted.  *)
MirrorStatus(e) ==
  /\ wf' = IF Exists(e.w) /\ wf[e.w].status # "deleting"
           THEN [wf EXCEPT ![e.w].status = e.to] ELSE wf
  /\ UNCHANGED <<series, notices>>

Mirror(i) ==
  LET e == outbox[i]
  IN \/ e.kind = "archived" /\ MirrorArchived(e)
     \/ e.kind = "changed" /\ MirrorChanged(e)
     \/ e.kind = "missed" /\ MirrorMissed(i)
     \/ e.kind = "status" /\ MirrorStatus(e)

(* The server gets event i: the first unanswered one, or once more one it  *)
(* has answered.  Its answer reaches the hub or is lost.                   *)
Arrives(i) == i \in DOMAIN outbox /\ i <= answered + 1

Answered(i) == answered' = answered \/ (i = answered + 1 /\ answered' = i)

(* An announcement is applied before the event is stored; other events are *)
(* stored first and mirrored once.                                         *)
HandleEvent(i) ==
  /\ Arrives(i)
  /\ LET e == outbox[i]
     IN /\ e.kind = "created" => Accepts(e)
        /\ IF e.kind = "created" THEN wf' = InsertInstance(e) /\ UNCHANGED <<series, notices>>
           ELSE IF i \in stored THEN UNCHANGED <<series, wf, notices>>
           ELSE Mirror(i)
  /\ stored' = stored \cup {i}
  /\ Answered(i)
  /\ UNCHANGED <<log, applied, hub, mine, outbox, crashes>>

(* Seeded fault: a refused announcement is answered like a duplicate.      *)
RefuseAsDuplicate(i) ==
  /\ Arrives(i)
  /\ outbox[i].kind = "created"
  /\ ~Accepts(outbox[i])
  /\ Answered(i)
  /\ UNCHANGED <<series, wf, log, applied, hub, mine, outbox, stored, notices, crashes>>

(* Refused: nothing is stored, and the hub that reads the answer breaks    *)
(* its series.                                                             *)
RefuseEvent(i) ==
  /\ Arrives(i)
  /\ LET e == outbox[i]
     IN /\ e.kind = "created"
        /\ ~Accepts(e)
        /\ Answered(i)
        /\ IF answered' = i /\ answered # i /\ hub[e.series].state = "armed"
           THEN /\ hub' = [hub EXCEPT ![e.series].state = "broken"]
                /\ outbox' = Append(outbox, Changed(e.series, hub[e.series].live, "broken"))
           ELSE UNCHANGED <<hub, outbox>>
  /\ UNCHANGED <<series, wf, log, applied, mine, stored, notices, crashes>>

(* The server stops after the first transaction: the announced instance is *)
(* there but not the event, or the event but not its mirror.               *)
HandleEventThenCrash(i) ==
  /\ Crash
  /\ Arrives(i)
  /\ i \notin stored
  /\ LET e == outbox[i]
     IN IF e.kind = "created"
        THEN Accepts(e) /\ wf' = InsertInstance(e) /\ UNCHANGED stored
        ELSE stored' = stored \cup {i} /\ UNCHANGED wf
  /\ UNCHANGED <<series, log, hubSide, notices>>

-----------------------------------------------------------------------------
Init ==
  /\ series = [s \in Series |-> NoSeries]
  /\ wf = [w \in Workflows |->
            IF w \in Roots THEN CreatedRow ELSE NoRow]
  /\ log = [w \in Workflows |-> << >>]
  /\ applied = [w \in Workflows |-> 0]
  /\ hub = [s \in Series |-> [state |-> "none", spec |-> 0, live |-> "none"]]
  /\ mine = Roots
  /\ outbox = << >>
  /\ answered = 0
  /\ stored = {}
  /\ notices = {}
  /\ crashes = 0

Operator ==
  \/ \E w \in Workflows, s \in Series, spec \in Specs : Schedule(w, s, spec)
  \/ \E w \in Workflows, s \in Series, spec \in Specs : ScheduleThenCrash(w, s, spec)
  \/ \E w \in Workflows : Cancel(w)
  \/ \E w \in Workflows : CancelThenCrash(w)
  \/ \E w \in Workflows : Delete(w)

Hub ==
  \/ \E w \in Workflows : HubApply(w)
  \/ \E s \in Series, w \in Clones : HubFires(s, w)
  \/ \E s \in Series : HubBreaks(s)
  \/ \E w \in Workflows, to \in {"idle", "busy"} : HubRuns(w, to)
  \/ \E w \in Workflows : HubArchives(w)

Events ==
  \/ \E i \in DOMAIN outbox : HandleEvent(i)
  \/ \E i \in DOMAIN outbox : RefuseEvent(i)
  \/ \E i \in DOMAIN outbox : HandleEventThenCrash(i)

Next == Operator \/ Hub \/ Events
Spec == Init /\ [][Next]_vars

(* The hub repeats an event until it reads the answer.                     *)
EventAnswered ==
  \E i \in DOMAIN outbox : (HandleEvent(i) \/ RefuseEvent(i)) /\ i = answered + 1 /\ answered' = i

(* The hub empties its outbox.  Nothing is asked of its polls: an answer   *)
(* with commands may be lost, and they are not handed out again.           *)
Fairness == WF_vars(EventAnswered)

FairSpec == Spec /\ Fairness
-----------------------------------------------------------------------------
DeletedByNow(w) == \E n \in 1 .. applied[w] : log[w][n].type = "delete"

(* A cancelled series stays cancelled, whatever the hub still reports: "a  *)
(* server cancel is never revived".                                        *)
CancelIsFinal ==
  [][\A s \in Series : series[s].state = "cancelled" => series[s]'.state = "cancelled"]_vars

(* A series never shows two armed instances, unless an announced one was   *)
(* deleted: resent, its announcement may bring it back beside the one the  *)
(* series has gone on with.                                                *)
AnnouncedDeleted(s) ==
  \E i \in DOMAIN outbox :
    outbox[i].kind = "created" /\ outbox[i].series = s /\ DeletedByNow(outbox[i].w)

OneArmed ==
  \A s \in Series :
    \/ Cardinality({w \in Instances(s) : wf[w].sched = "armed"}) <= 1
    \/ AnnouncedDeleted(s)

(* The channels the commands of a series were queued on.                   *)
Doors(s) == {w \in Workflows : \E n \in DOMAIN log[w] : log[w][n].series = s}

Quiet == answered = Len(outbox) /\ \A w \in Workflows : applied[w] = Len(log[w])

StateOf(state) == IF state = "armed" THEN "active" ELSE state

Agrees(s) ==
  Known(s) /\ hub[s].state # "none"
    => /\ series[s].state = StateOf(hub[s].state)
       /\ hub[s].state = "armed" => series[s].spec = hub[s].spec

EventsOn(w, kind) == {i \in DOMAIN outbox : outbox[i].kind = kind /\ outbox[i].w = w}

(* A row may come back, or come late, through an announcement that was     *)
(* refused at first because the instance before it had been deleted.       *)
CameBack(w) == \E i \in EventsOn(w, "created") : AnnouncedDeleted(outbox[i].series)

(* What the last archive event of a workflow says is what its row shows,   *)
(* unless its row may have come back.                                      *)
ArchiveAgrees(w) ==
  Exists(w) /\ ~CameBack(w) /\ EventsOn(w, "archived") # {}
    => \E i \in EventsOn(w, "archived") :
         /\ \A j \in EventsOn(w, "archived") : j <= i
         /\ wf[w].archived = (outbox[i].to = "archived")

(* Once every command and every event is through, server and hub agree on  *)
(* the state and the spec of a series whose commands took one channel and  *)
(* no announced instance of which was deleted, and on what is archived,    *)
(* and every missed run has its notice, if the server never stopped        *)
(* between two writes.                                                     *)
AgreesWhenQuiet ==
  Quiet /\ crashes = 0
    => /\ \A s \in Series : Cardinality(Doors(s)) <= 1 /\ ~AnnouncedDeleted(s) => Agrees(s)
       /\ \A w \in Workflows : ArchiveAgrees(w)
       /\ notices = {i \in DOMAIN outbox : outbox[i].kind = "missed"}

(* No instance runs unseen: an announcement on its way ends with the       *)
(* instance in the plan, or with a hub that no longer runs the series.     *)
Announcing(s, w) ==
  \E i \in (answered + 1) .. Len(outbox) :
    outbox[i].kind = "created" /\ outbox[i].series = s /\ outbox[i].w = w

MintedGetsKnown ==
  \A s \in Series, w \in Clones :
    Announcing(s, w) ~> (Exists(w) \/ hub[s].state # "armed" \/ DeletedByNow(w))
=============================================================================
