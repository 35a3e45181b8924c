------------------------------ MODULE Activity ------------------------------
(***************************************************************************)
(* What hubs report and the dashboard shows: POST /ingest (server.mjs      *)
(* 518-617, db.mjs 2156-2242), the price table (server.mjs 3501-3580,      *)
(* db.mjs 2787-2885) and the figures computed on every read (db.mjs        *)
(* 2249-3485).  A batch is read completely before anything is written and  *)
(* its events are then stored one after the other without a transaction,   *)
(* so nobody acts in between but the server may stop.  received_at is the  *)
(* wall clock, any time in 1 .. MaxTime since it may be set back; rowid is *)
(* the order of the inserts.                                               *)
(* Reports stand for the events of a hub: workflow, kind, and of the data  *)
(* what the figures use.                                                   *)
(***************************************************************************)
EXTENDS Pricing, FiniteSets, FiniteSetsExt

CONSTANTS
  Devices,    \* linked hubs; a device reports under its own id
  OwnerOf,    \* the account of each device
  Unlinked,   \* instance ids of hubs that are not linked
  Required,   \* DEVICE_LINKING_MODE = required: unlinked hubs are refused
  Reports,    \* what each device, and an unlinked hub, may report
  Rules,      \* price rules operators may write
  WorkflowIds,\* the ids of the workflows, in their order
  MaxStored,  \* bound: events stored
  MaxBatch,   \* bound: events of one request
  MaxTime,    \* bound: the clock
  MaxStops    \* bound: stops of the server within a request

ASSUME DeviceAssumption == None \notin Devices \cup Unlinked /\ None \notin {OwnerOf[d] : d \in Devices}
ASSUME FleetAssumption == IsFiniteSet(Devices \cup Unlinked)
ASSUME ActivityBounds ==
  {MaxStored, MaxTime, MaxStops} \subseteq Nat /\ MaxBatch \in Nat \ {0}

(* Only "*" stands for more than one agent, and no name is as long as the  *)
(* score of an exact one.                                                  *)
Letters == UNION {ToSet(r.model.text) : r \in Rules}
ASSUME RuleAssumption ==
  \A r \in Rules :
    /\ r # None /\ r.from \in Nat
    /\ r.model \in [glob : BOOLEAN, text : Seq(Letters)] /\ 1 + Len(r.model.text) < Exact
    /\ r.agent = AnyName \/ r.agent = [glob |-> FALSE, text |-> r.agent.text]

VARIABLES
  events,     \* table events, by rowid
  instances,  \* table instances: owner, device and events_count
  rules,      \* table pricing_rules
  stops       \* stops within a request so far

activityVars == <<events, instances, rules, stops>>

Instances == Devices \cup Unlinked
Owners == {OwnerOf[d] : d \in Devices}
NoInstance == [device |-> None, owner |-> None, count |-> 0]

-----------------------------------------------------------------------------
(* Order of events, and the owner of a workflow.                           *)

Before(ev, i, j) == ev[i].at < ev[j].at \/ (ev[i].at = ev[j].at /\ i < j)

(* Of each group under the key, the last event: ROW_NUMBER ... = 1 over    *)
(* received_at DESC, rowid DESC.                                           *)
LatestOf(S, Group(_)) ==
  {i \in S : \A j \in S : Group(j) = Group(i) => ~Before(events, i, j)}

(* workflowOwner: the owner of the first stored event.                     *)
WorkflowOwner(ev, w) ==
  LET S == {i \in DOMAIN ev : ev[i].what.wf = w}
  IN IF S = {} THEN [exists |-> FALSE, owner |-> None]
     ELSE [exists |-> TRUE,
           owner |-> ev[CHOOSE i \in S : \A j \in S \ {i} : Before(ev, i, j)].owner]

(* Seeded fault: whoever has an account is let in.                         *)
AllowsAnyAccount(existing, owner) ==
  \/ ~existing.exists
  \/ existing.owner = owner
  \/ owner # None

(* ingestWorkflowOwnerAllows: an unowned workflow is open to every account.*)
OwnerAllows(existing, owner) ==
  \/ ~existing.exists
  \/ existing.owner = owner
  \/ existing.owner = None /\ owner # None

-----------------------------------------------------------------------------
(* POST /ingest.                                                           *)

(* A request: who authenticated, and the instance id of its batch.         *)
Clients == {[device |-> d, inst |-> d] : d \in Devices}
             \cup {[device |-> None, inst |-> i] : i \in Instances}

AccountOf(c) == IF c.device = None THEN None ELSE OwnerOf[c.device]

(* instanceOwnedByDevice.                                                  *)
OwnedByDevice(i) == instances[i].device # None \/ instances[i].owner # None

(* Seeded fault: an instance that was linked takes unlinked batches.       *)
MayIngestAlways(c) == c.device # None \/ ~Required

MayIngest(c) == c.device # None \/ (~Required /\ ~OwnedByDevice(c.inst))

(* upsertInstance: a link, once made, stays.                               *)
UpsertInstance(c) ==
  LET row == instances[c.inst]
  IN [count |-> row.count,
      device |-> IF c.device = None THEN row.device ELSE c.device,
      owner |-> IF c.device = None THEN row.owner ELSE AccountOf(c)]

(* An event of a batch: one that is stored already, by whomever, or new.   *)
Resent == [kind |-> "resent"]
Items(c) == Reports[c.device] \cup IF events = << >> THEN {} ELSE {Resent}
Batches(c) == UNION {[1 .. n -> Items(c)] : n \in 1 .. MaxBatch}

(* A stored id is a duplicate, an event of a foreign workflow is rejected, *)
(* the rest is inserted.  The owner a batch remembers of a workflow is the *)
(* one it would find again.                                                *)
StoreEvent(ev, c, item, at) ==
  IF item = Resent \/ ~OwnerAllows(WorkflowOwner(ev, item.wf), AccountOf(c)) THEN ev
  ELSE Append(ev, [what |-> item, inst |-> c.inst, device |-> c.device,
                   owner |-> AccountOf(c), at |-> at])

Stored(c, batch, at) ==
  LET after[n \in 0 .. Len(batch)] ==
        IF n = 0 THEN events ELSE StoreEvent(after[n - 1], c, batch[n], at)
  IN after[Len(batch)]

(* What bumpInstanceCount adds.                                            *)
Counted(batch, stored) == Len(stored) - Len(events)

Ingest(c, batch, at) ==
  LET stored == Stored(c, batch, at) IN
  /\ MayIngest(c)
  /\ Len(stored) <= MaxStored
  /\ events' = stored
  /\ instances' = [instances EXCEPT ![c.inst] =
                     [UpsertInstance(c) EXCEPT !.count = @ + Counted(batch, stored)]]
  /\ UNCHANGED <<rules, stops>>

(* The server stops after some of the events; the hub sends them again.    *)
IngestThenStop(c, batch, at) ==
  LET stored == Stored(c, batch, at) IN
  /\ stops < MaxStops
  /\ MayIngest(c)
  /\ Len(stored) <= MaxStored
  /\ events' = stored
  /\ instances' = [instances EXCEPT ![c.inst] = UpsertInstance(c)]
  /\ stops' = stops + 1
  /\ UNCHANGED rules

-----------------------------------------------------------------------------
(* The price table, unique over agent, model and date.                     *)

SameRule(r, q) == r.agent = q.agent /\ r.model = q.model /\ r.from = q.from

Edit(table) ==
  /\ rules' = table
  /\ UNCHANGED <<events, instances, stops>>

CreateRule(r) == (\A q \in rules : ~SameRule(q, r)) /\ Edit(rules \cup {r})

UpdateRule(q, r) ==
  /\ q \in rules
  /\ \A x \in rules \ {q} : ~SameRule(x, r)
  /\ Edit((rules \ {q}) \cup {r})

DeleteRule(q) == q \in rules /\ Edit(rules \ {q})

(* One transaction: merge overwrites the rules of the same key.            *)
ImportRules(file, mode) ==
  Edit(file \cup IF mode = "replace" THEN {}
                 ELSE {q \in rules : \A r \in file : ~SameRule(q, r)})

(* /api/settings/pricing: validated rules of an operator who may edit.     *)
PricingRoute ==
  \/ \E r \in Rules : CreateRule(r)
  \/ \E q, r \in Rules : UpdateRule(q, r)
  \/ \E r \in Rules : DeleteRule(r)
  \/ \E r \in Rules, mode \in {"merge", "replace"} : ImportRules({r}, mode)

-----------------------------------------------------------------------------
(* The read side.  A viewer is an account, or None for all of them.        *)

Viewers == Owners \cup {None}
All == None

Own(v) == {i \in DOMAIN events : v = All \/ events[i].owner = v}
KindOf(i) == events[i].what.kind
WorkflowOf(i) == events[i].what.wf
OfKind(S, kinds) == {i \in S : KindOf(i) \in kinds}
OfWorkflow(S, w) == {i \in S : WorkflowOf(i) = w}
Workflows(S) == {WorkflowOf(i) : i \in S}
The(S) == CHOOSE i \in S : TRUE

(* PARTITION BY workflow_id, session_id.                                   *)
SessionOf(i) == <<WorkflowOf(i), events[i].what.session>>

LastSnapshots(S) == LatestOf(OfKind(S, {"usage.snapshot"}), SessionOf)
TokensOf(i) == events[i].what.usage.input + events[i].what.usage.output

(* latestUsageTotals, over the events of the filters.                      *)
UsageTotals(S) == MapThenSumSet(TokensOf, LastSnapshots(S))

(* usageByWorkflow, over the whole history of the workflow.                *)
UsageOfWorkflow(v, w) ==
  MapThenSumSet(TokensOf, LatestOf(OfWorkflow(OfKind(Own(v), {"usage.snapshot"}), w),
                                   LAMBDA i : events[i].what.session))

(* The agent of a snapshot: its own or the last one the workflow named.    *)
Named(v, w) == {i \in OfWorkflow(Own(v), w) : events[i].what.agent # None}
AgentOf(v, i) ==
  LET named == Named(v, WorkflowOf(i))
  IN IF events[i].what.agent # None THEN events[i].what.agent
     ELSE IF named = {} THEN None
     ELSE events[The(LatestOf(named, WorkflowOf))].what.agent

(* Seeded fault: today's tariff prices every session.                      *)
CostToday(v, i) == PriceSession(SetToSeq(rules), AgentOf(v, i), MaxTime, events[i].what.usage)

(* pricedLatestSessions: the tariff of the day the snapshot came.          *)
CostOf(v, i) == PriceSession(SetToSeq(rules), AgentOf(v, i), events[i].at, events[i].what.usage)

PricedLatestSessions(v, S) ==
  LET last == SetToSeq(LastSnapshots(S))
  IN [k \in DOMAIN last |-> CostOf(v, last[k])]

UnpricedSessions(costs) == Len(SelectSeq(costs, LAMBDA c : c = None))

CostOfWorkflow(v, w) == SumCosts(PricedLatestSessions(v, OfWorkflow(Own(v), w)))

(* workflowUsage: the sessions of one workflow, each with its last words.  *)
WorkflowUsage(v, w) ==
  LET snaps == OfKind(OfWorkflow(Own(v), w), {"usage.snapshot"})
      last == LatestOf(snaps, LAMBDA i : events[i].what.session)
  IN {[session |-> events[i].what.session, tokens |-> TokensOf(i), cost |-> CostOf(v, i)] : i \in last}

(* unpricedUsage: the sessions without a tariff, by agent and model.       *)
UnpricedUsage(v) ==
  LET without == {i \in LastSnapshots(DOMAIN events) : CostOf(v, i) = None}
      Pair(i) == <<AgentOf(v, i), events[i].what.usage.model>>
  IN [pair \in {Pair(i) : i \in without} |-> Cardinality({i \in without : Pair(i) = pair})]

(* estimateHistory: what each step of the workflow cost, session by        *)
(* session, the unpriced snapshots left out.                               *)
StepCosts(v, w) ==
  LET snaps == OfKind(OfWorkflow(Own(v), w), {"usage.snapshot"})
      costs(s) == LET own == SetToSortSeq({i \in snaps : events[i].what.session = s},
                                          LAMBDA i, j : Before(events, i, j))
                  IN SelectSeq([k \in DOMAIN own |-> CostOf(v, own[k])], LAMBDA c : c # None)
      sessions == SetToSeq({events[i].what.session : i \in snaps})
  IN FlattenSeq([k \in DOMAIN sessions |-> StepCostDeltas(costs(sessions[k]))])

-----------------------------------------------------------------------------
(* Steps.                                                                  *)

LifeKinds == {"step.added", "step.started", "step.waiting", "step.done", "step.failed"}

StepOf(i) == <<WorkflowOf(i), events[i].what.step>>

(* The last lifecycle event of each step: what the list and the counters   *)
(* of failures go by.                                                      *)
LastLife(S) == LatestOf(OfKind(S, LifeKinds), StepOf)

(* latestPlans: the newest workflow.plan, if there is one.                 *)
Plans(v, w) == OfKind(OfWorkflow(Own(v), w), {"workflow.plan"})
PlanOf(v, w) == events[The(LatestOf(Plans(v, w), WorkflowOf))].what.steps

(* planTaskSteps: the context step is none of the N.                       *)
PlanTaskSteps(plan) == DOMAIN plan \ {"context"}

(* A row of the list: the plan's steps, or the last events of each step.   *)
RowSteps(v, w, status) ==
  IF Plans(v, w) # {}
  THEN Cardinality({s \in PlanTaskSteps(PlanOf(v, w)) : PlanOf(v, w)[s] = status})
  ELSE Cardinality(OfKind(LastLife(OfWorkflow(Own(v), w)),
                          {IF status = "done" THEN "step.done" ELSE "step.failed"}))

(* The detail folds the events of a step oldest first; step.added tells    *)
(* the plan and leaves the status.                                         *)
StatusAfter == [x \in {"step.started", "step.waiting", "step.done", "step.failed"} |->
                 CASE x = "step.started" -> "running" [] x = "step.waiting" -> "waiting"
                   [] x = "step.done" -> "done" [] x = "step.failed" -> "failed"]

(* Seeded fault: a failure is not forgotten when the step is run again.    *)
FoldLatched(status, kind) ==
  IF kind = "step.added" \/ status = "failed" THEN status ELSE StatusAfter[kind]

FoldStep(status, kind) == IF kind = "step.added" THEN status ELSE StatusAfter[kind]

Folded(v, w) ==
  LET life == SetToSortSeq(OfKind(OfWorkflow(Own(v), w), LifeKinds), LAMBDA i, j : Before(events, i, j))
      kinds(s) == LET own == SelectSeq(life, LAMBDA i : events[i].what.step = s)
                  IN [k \in DOMAIN own |-> KindOf(own[k])]
  IN [s \in {events[life[k]].what.step : k \in DOMAIN life} |-> FoldLeft(FoldStep, "pending", kinds(s))]

DetailSteps(v, w) == IF Plans(v, w) # {} THEN PlanOf(v, w) ELSE Folded(v, w)

(* The status of a row without a plan: a step started after the last       *)
(* change, else one added after a terminal one, else that change.          *)
Changes(v, w) == OfKind(OfWorkflow(Own(v), w), {"workflow.status_changed"})
ChangedAt(v, w) == IF Changes(v, w) = {} THEN 0 ELSE Max({events[i].at : i \in Changes(v, w)})
StatusTo(v, w) ==
  IF Changes(v, w) = {} THEN "draft" ELSE events[The(LatestOf(Changes(v, w), WorkflowOf))].what.to

StatusOf(v, w) ==
  LET since(kind) == {i \in LastLife(OfWorkflow(Own(v), w)) :
                        KindOf(i) = kind /\ events[i].at > ChangedAt(v, w)}
  IN IF since("step.started") # {} THEN "running"
     ELSE IF since("step.added") # {} /\ StatusTo(v, w) \in {"completed", "failed", "cancelled"}
          THEN "draft"
     ELSE StatusTo(v, w)

(* foldStepNotes: the notes of each step; one is gone once deleted, and    *)
(* back when it is written again.                                          *)
NoteKinds == {"step.note.added", "step.note.modified", "step.note.deleted"}
NoteOf(i) == <<StepOf(i), events[i].what.note>>

FoldNote(notes, i) ==
  IF KindOf(i) = "step.note.deleted" THEN notes \ {NoteOf(i)} ELSE notes \cup {NoteOf(i)}

Notes(v, w) ==
  FoldLeft(FoldNote, {}, SetToSortSeq(OfKind(OfWorkflow(Own(v), w), NoteKinds),
                                      LAMBDA i, j : Before(events, i, j)))

-----------------------------------------------------------------------------
(* The lists and tiles.                                                    *)

Newest(S) == SetToSortSeq(S, LAMBDA i, j : Before(events, j, i))

RecentEvents(v, limit) ==
  LET all == Newest(Own(v)) IN SubSeq(all, 1, Min({limit, Len(all)}))

(* The filter from = the start of a date range.                            *)
Since(v, from) == {i \in Own(v) : events[i].at >= from}

LastActivity(S, w) == Max({events[i].at : i \in OfWorkflow(S, w)})
Rank(w) == CHOOSE k \in DOMAIN WorkflowIds : WorkflowIds[k] = w

(* Newest activity first, the id breaks ties: a total order to page by.    *)
WorkflowRows(S) ==
  SetToSortSeq(Workflows(S), LAMBDA w, x :
    \/ LastActivity(S, w) > LastActivity(S, x)
    \/ LastActivity(S, w) = LastActivity(S, x) /\ Rank(w) > Rank(x))

ListWorkflows(v, from, limit, offset) ==
  LET rows == WorkflowRows(Since(v, from))
  IN SubSeq(rows, offset + 1, Min({offset + limit, Len(rows)}))

CountWorkflows(v, from) == Cardinality(Workflows(Since(v, from)))

ListWorkflowNames(v, from) == WorkflowRows(Since(v, from))

Stats(v, from) ==
  LET S == Since(v, from)
      costs == PricedLatestSessions(v, S)
  IN [events |-> Cardinality(S),
      workflows |-> Cardinality(Workflows(S)),
      failures |-> Cardinality(OfKind(LastLife(S), {"step.failed"})),
      byKind |-> [k \in {KindOf(i) : i \in S} |-> Cardinality(OfKind(S, {k}))],
      tokens |-> UsageTotals(S),
      cost |-> SumCosts(costs),
      unpriced |-> UnpricedSessions(costs)]

(* The fleet: the instances of the viewer, and their users, who are named  *)
(* after the account that linked them or nobody.                           *)
ListInstances(v) == {i \in Instances : v = All \/ instances[i].owner = v}

ListUsers(v) ==
  [name \in {instances[i].owner : i \in ListInstances(v)} |->
     MapThenSumSet(LAMBDA i : instances[i].count, {i \in ListInstances(v) : instances[i].owner = name})]

-----------------------------------------------------------------------------
ActivityInit ==
  /\ events = << >>
  /\ instances = [i \in Instances |-> NoInstance]
  /\ rules = {}
  /\ stops = 0

ActivityNext ==
  \/ \E c \in Clients, at \in 1 .. MaxTime : \E batch \in Batches(c) : Ingest(c, batch, at)
  \/ \E c \in Clients, at \in 1 .. MaxTime : \E batch \in Batches(c) : IngestThenStop(c, batch, at)
  \/ PricingRoute

ActivitySpec == ActivityInit /\ [][ActivityNext]_activityVars
-----------------------------------------------------------------------------
(* A workflow an account reported first stays its own: no other account    *)
(* and no unlinked hub gets an event in, wherever the clock stands when it *)
(* tries.  One that started unowned is open to accounts (server.mjs        *)
(* 518-523, 558).                                                          *)
OneOwner ==
  \A w \in Workflows(DOMAIN events) :
    LET all == OfWorkflow(DOMAIN events, w)
        first == events[Min(all)].owner
    IN first # None => \A i \in all : events[i].owner = first

(* Once an instance is linked, its events come from its device and from    *)
(* nobody who merely knows its id.                                         *)
LinkedStaysLinked ==
  \A i, j \in DOMAIN events :
    (i < j /\ events[i].inst = events[j].inst /\ events[i].device # None)
      => events[j].device = events[i].device

(* What the dashboard shows of the same events is computed by a dozen      *)
(* queries that each filter, partition and order for themselves.  Between  *)
(* two of them, for every viewer and every start of a date range, each     *)
(* conjunct says what the one figure is of the other.                      *)

(* The tiles count what came in the range, the rows of the workflows that  *)
(* were active in it count their whole history.  They differ by exactly    *)
(* the sessions and failures of those workflows whose last word is older   *)
(* than the range: none is counted twice or dropped.                       *)
TilesMatchRows(v, from) ==
  LET tiles == Stats(v, from)
      rows == Workflows(Since(v, from))
      sessions == UNION {{<<w, u>> : u \in WorkflowUsage(v, w)} : w \in rows}
      older == {i \in Own(v) : WorkflowOf(i) \in rows /\ events[i].at < from}
      lapsed == older \cap LastSnapshots(Own(v))
  IN /\ tiles.tokens + MapThenSumSet(TokensOf, lapsed)
           = MapThenSumSet(LAMBDA w : UsageOfWorkflow(v, w), rows)
     /\ tiles.tokens + MapThenSumSet(TokensOf, lapsed)
           = MapThenSumSet(LAMBDA x : x[2].tokens, sessions)
     /\ tiles.unpriced + Cardinality({i \in lapsed : CostOf(v, i) = None})
           = Cardinality({x \in sessions : x[2].cost = None})
     /\ (\A w \in rows : Plans(v, w) = {})
          => tiles.failures + Cardinality(older \cap OfKind(LastLife(Own(v)), {"step.failed"}))
               = MapThenSumSet(LAMBDA w : RowSteps(v, w, "failed"), rows)

(* Over the whole history, the unpriced sessions by agent and model add up *)
(* to the tile, and the steps of a workflow cost no less than the whole.   *)
CostsAddUp(v) ==
  /\ v = All => Stats(v, 1).unpriced = MapThenSumSet(LAMBDA p : UnpricedUsage(v)[p], DOMAIN UnpricedUsage(v))
  /\ \A w \in Workflows(Own(v)) : CostOfWorkflow(v, w) # None =>
       CostOfWorkflow(v, w) <= FoldLeft(LAMBDA a, c : a + c, 0, StepCosts(v, w))

(* Paging visits every workflow of the range once, newest first.           *)
PagesCoverRows(v) ==
  \A from \in 1 .. MaxTime :
    LET n == CountWorkflows(v, from)
        pages == [k \in 1 .. n |-> ListWorkflows(v, from, 1, k - 1)]
    IN /\ FlattenSeq(pages) = ListWorkflowNames(v, from)
       /\ Stats(v, from).workflows = n
       /\ {pages[k][1] : k \in 1 .. n} = Workflows(Since(v, from))
       /\ ListWorkflows(v, from, 1, n) = << >>
       /\ n > 0 => events[RecentEvents(v, 1)[1]].at = LastActivity(Own(v), pages[1][1])

(* The fleet's counters, kept beside the events and not in one transaction *)
(* with them: an instance has as many events as were counted for it, or    *)
(* more when a request was cut short, whatever was sent twice or refused;  *)
(* and the instances listed for an account account for all its events.     *)
FleetMatchesEvents ==
  /\ \A i \in Instances :
       LET stored == Cardinality({n \in DOMAIN events : events[n].inst = i})
       IN instances[i].count <= stored /\ (stops = 0 => instances[i].count = stored)
  /\ \A v \in Owners : stops = 0 /\ Own(v) # {} => Cardinality(Own(v)) <= ListUsers(v)[v]

(* The list and the detail, which find the present of a workflow in        *)
(* different ways, agree: on the steps that are done and failed, and on    *)
(* whether it runs.  As long as the clock is not set back, a step is added *)
(* once, and a status change does not come in the same flush as a step.    *)
InOrder == \A i, j \in DOMAIN events : i < j => events[i].at <= events[j].at
AddedFirst ==
  \A i, j \in OfKind(DOMAIN events, LifeKinds) :
    (i < j /\ StepOf(i) = StepOf(j)) => KindOf(j) # "step.added"
NoTie ==
  \A i \in OfKind(DOMAIN events, {"workflow.status_changed"}) :
    \A j \in OfKind(DOMAIN events, LifeKinds) : events[i].at # events[j].at

Shows(v, w, status) ==
  {s \in DOMAIN DetailSteps(v, w) \ {"context"} : DetailSteps(v, w)[s] = status}

DetailMatchesRow(v) ==
  InOrder /\ AddedFirst =>
    \A w \in Workflows(Own(v)) :
      /\ \A status \in {"done", "failed"} :
           RowSteps(v, w, status) = Cardinality(Shows(v, w, status))
      /\ (NoTie /\ Plans(v, w) = {}) =>
           (StatusOf(v, w) = "running"
              <=> \E i \in LastLife(OfWorkflow(Own(v), w)) :
                    /\ events[i].what.step \in Shows(v, w, "running")
                    /\ \A j \in Changes(v, w) : j < i)

(* A note shown is one whose last word was not its deletion.               *)
NotesAreCurrent(v) ==
  \A w \in Workflows(Own(v)) :
    Notes(v, w) = {NoteOf(i) : i \in {j \in LatestOf(OfKind(OfWorkflow(Own(v), w), NoteKinds), NoteOf) :
                                        KindOf(j) # "step.note.deleted"}}

ViewsAgree ==
  /\ FleetMatchesEvents
  /\ \A v \in Viewers :
       /\ \A from \in 1 .. MaxTime : TilesMatchRows(v, from)
       /\ CostsAddUp(v) /\ PagesCoverRows(v) /\ DetailMatchesRow(v) /\ NotesAreCurrent(v)

(* A tariff prices what came after it started: writing rules of a later    *)
(* date changes no figure of an earlier session ("effectiveFrom keep old   *)
(* sessions on the tariff that applied when they ran", pricing.mjs 7).     *)
Touched == (rules \ rules') \cup (rules' \ rules)

OldCostsStay ==
  [][rules' # rules =>
       \A v \in Viewers : \A i \in OfKind(Own(v), {"usage.snapshot"}) :
         (\A r \in Touched : r.from > events[i].at) => CostOf(v, i)' = CostOf(v, i)]_activityVars
=============================================================================
