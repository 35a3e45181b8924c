------------------------------ MODULE Resources ------------------------------
(***************************************************************************)
(* Resources of the hubs as the server sees them, and the catalog packs it *)
(* attaches to remote workflows: db.mjs remote_resources, the catalog      *)
(* tables and the selections of a workflow, with the operators' routes and *)
(* POST /api/sync/events of server.mjs.  Catalog says what the routes of   *)
(* the catalog do to it.  Commands travel on first-in first-out lanes      *)
(* (CommandQueue shows that they are), one for each resource domain of a   *)
(* hub and one for each workflow.                                          *)
(***************************************************************************)
EXTENDS Catalog

CONSTANTS
  Clients,       \* the registered clients
  Workflows,     \* remote workflows
  Locals,        \* ids of resources a hub owns
  Addressed,     \* the resources operators address on a hub
  Keys,          \* Idempotency-Key values of the operators
  HostOf,        \* the hub of a workflow
  Supports,      \* the domains a hub announced sync/v2 for
  ContentsOf,    \* the contents a resource may be given
  Asked,         \* the selections operators ask for in a PUT
  Libraries,     \* the catalogs to start with
  CatalogCalls,  \* requests to the routes of the catalog
  UniqueIds,     \* are event ids unique over all hubs, or for one hub only?
  MaxRequests,   \* bound: requests of the operators
  MaxEdits,      \* bound: changes made at the hubs
  MaxFaults      \* bound: stops of the server, lost answers and refusals

Resources == Packs \cup Locals
Kinds == {"templates", "tcp_tools", "resource_sets"}

ASSUME NoneAssumption == None \notin {"upsert", "delete"}
ASSUME WorkflowsAssumption == HostOf \in [Workflows -> Clients]
ASSUME NamesAssumption ==
  /\ Workflows \cap (Resources \cup (Clients \X (Kinds \cup Resources))) = {}
  /\ Locals \cap Items = {}
ASSUME AddressedAssumption == Addressed \subseteq Resources
ASSUME KindsAssumption == KindOf \in [Items \cup Locals -> Kinds]
ASSUME SupportAssumption == Supports \in [Clients -> SUBSET Kinds]
ASSUME IdsAssumption == UniqueIds \in BOOLEAN
(* A missing value is no content, and what normalization makes of a        *)
(* content is one.                                                         *)
Stores(p, content) == NormalizeContent(p, content) \in ContentsOf[p]

ASSUME ContentsAssumption ==
  /\ \A r \in Resources : None \notin ContentsOf[r]
  /\ \A p \in Packs : \A content \in ContentsOf[p] : Stores(p, content)
ASSUME BoundsAssumption == {MaxRequests, MaxEdits, MaxFaults} \subseteq Nat

(* The selections of requests and of the rows there are to start with are  *)
(* lists of entries, each with a pack and names.                           *)
IsList(s) == s \in Seq(ToSet(s))
AreEntries(s) == IsList(s) /\ \A e \in ToSet(s) : DOMAIN e = {"pack", "names"}
InputListed(input) ==
  /\ \A s \in {input.tcps, input.sets} : s = None \/ AreEntries(s)
  /\ input.ids = None \/ IsList(input.ids)
IsLibrary(lib) ==
  DOMAIN lib = {"items", "unborn", "listed", "roles"} /\ DOMAIN lib.items = Items
RowsListed(lib) ==
  \A t \in TemplateIds : Exists(lib, t) =>
    LET row == lib.items[t] IN AreEntries(row.tcps) /\ AreEntries(row.sets) /\ IsList(row.ids)
PacksFilled(lib) == \A p \in Packs : Exists(lib, p) => lib.items[p] \in ContentsOf[p]

ASSUME AskedAssumption ==
  \A kind \in {"tcp_tools", "resource_sets"} : \A sels \in Asked[kind] : AreEntries(sels)
ASSUME LibrariesAssumption ==
  \A lib \in Libraries : IsLibrary(lib) /\ RowsListed(lib) /\ PacksFilled(lib)
ASSUME CallsAssumption ==
  \A c \in CatalogCalls :
    /\ c.op \in {"create", "update"} =>
         /\ c.id \in Items
         /\ KindOf[c.id] = "templates" => InputListed(c.input)
    /\ c.op = "create" /\ c.id \in Packs => Stores(c.id, Or(c.input.content, << >>))
    /\ c.op = "update" /\ c.id \in Packs /\ c.input.content # None => Stores(c.id, c.input.content)
    /\ c.op = "import" =>
         /\ IsList(c.ids) /\ ToSet(c.ids) \subseteq Items
         /\ \A n \in DOMAIN c.ids : LET i == c.ids[n] input == c.inputs[n] IN
              IF KindOf[i] = "templates"
              THEN /\ DOMAIN input = {"steps", "ids", "tcps", "sets", "roles"}
                   /\ InputListed(input)
              ELSE DOMAIN input = {"content", "roles"} /\ Stores(i, Or(input.content, << >>))

VARIABLES
  library,       \* the catalog (see Catalog)
  selections,    \* remote_workflows.tcp_selections and resource_selections
  mirror,        \* remote_resources of each hub
  lanes,         \* the commands of a channel the hub has not dealt with
  byKey,         \* the command an Idempotency-Key stands for, on each hub
  seen,          \* the ids in sync_events
  hub,           \* external: the resources of each hub
  selected,      \* external: the selection a hub applied to a workflow
  outbox,        \* external: events a hub has not seen answered
  sent,          \* external: how many events a hub has written
  requests, edits, faults,
  doubtful,      \* history: resources the hub refused, or cut off by a stop
  unsure,        \* history: workflows whose selection met the same
  removed,       \* history: packs deleted somewhere, or refused by a hub
  applied        \* history: how often a hub applied the command of a key

queues == <<lanes, byKey, mirror>>
atHubs == <<hub, selected, outbox, sent>>
history == <<doubtful, unsure, removed, applied>>
resourceVars == <<library, selections, queues, seen, atHubs, requests, edits, faults, history>>

LaneIds == (Clients \X Kinds) \cup Workflows
HubOf(ch) == IF ch \in Workflows THEN HostOf[ch] ELSE ch[1]
ChannelOf(h, r) == <<h, KindOf[r]>>

Names == UNION {NamesIn(content) : content \in UNION {ContentsOf[r] : r \in Resources}}
Selection == [pack : Packs, names : SUBSET Names]
Content(r) == ContentsOf[r] \cup {None}

ResourcesTyped ==
  /\ DOMAIN library.items = Items
  /\ library.listed \subseteq Items \X Roles
  /\ selections \in [Workflows -> Seq(Selection)]
  /\ \A h \in Clients, r \in Resources : {mirror[h][r], hub[h][r]} \subseteq Content(r)
  /\ DOMAIN lanes = LaneIds
  /\ byKey \in [Clients \X Kinds \X Keys -> {None, "upsert", "delete"}]
  /\ doubtful \subseteq Clients \X Resources /\ unsure \subseteq Workflows
  /\ removed \subseteq Resources
  /\ requests <= MaxRequests /\ edits <= MaxEdits /\ faults <= MaxFaults
-----------------------------------------------------------------------------
(* Commands.                                                               *)

Upsert(r, content, key) == [op |-> "upsert", of |-> r, what |-> content, key |-> key]
Delete(r, key) == [op |-> "delete", of |-> r, what |-> None, key |-> key]
SetSelection(w, sels) == [op |-> "set_selection", of |-> w, what |-> sels, key |-> None]

Enqueued(ch, commands) == [lanes EXCEPT ![ch] = @ \o commands]

Supported(h, sels) ==
  \A kind \in {"tcp_tools", "resource_sets"} :
    OfKind(sels, kind) # << >> => kind \in Supports[h]

(* The upserts applyRemoteWorkflowSelections queues: one for each entry    *)
(* whose pack is in the catalog, TCP packs before resource sets.           *)
Shipment(sels) ==
  LET ordered == OfKind(sels, "tcp_tools") \o OfKind(sels, "resource_sets")
      known == Entries(ordered, {n \in DOMAIN ordered : Exists(library, ordered[n].pack)})
  IN [i \in DOMAIN known |->
        Upsert(known[i].pack, ReadPack(library, known[i].pack).content, None)]

Mirrored(h, shipped) ==
  [mirror EXCEPT ![h] = [r \in Resources |->
     LET about == {c \in ToSet(shipped) : c.of = r}
     IN IF about = {} THEN mirror[h][r] ELSE (CHOOSE c \in about : TRUE).what]]

(* Seeded fault: the upserts queued on the resource channel of each pack.  *)
QueuedOnResourceChannels(w, sels) ==
  [ch \in LaneIds |->
     lanes[ch] \o SelectSeq(Shipment(sels), LAMBDA c : ch = ChannelOf(HostOf[w], c.of))
               \o (IF ch = w THEN <<SetSelection(w, sels)>> ELSE << >>)]

(* Upserts share the lane of the workflow with set_selection.              *)
Queued(w, sels) == Enqueued(w, Shipment(sels) \o <<SetSelection(w, sels)>>)

-----------------------------------------------------------------------------
ResourcesInit ==
  /\ library \in Libraries
  /\ selections = [w \in Workflows |-> << >>]
  /\ mirror = [h \in Clients |-> [r \in Resources |-> None]]
  /\ lanes = [ch \in LaneIds |-> << >>]
  /\ byKey = [k \in Clients \X Kinds \X Keys |-> None]
  /\ seen = {}
  /\ hub = [h \in Clients |-> [r \in Resources |-> None]]
  /\ selected = [w \in Workflows |-> << >>]
  /\ outbox = [h \in Clients |-> << >>]
  /\ sent = [h \in Clients |-> 0]
  /\ requests = 0 /\ edits = 0 /\ faults = 0
  /\ doubtful = {} /\ unsure = {}
  /\ removed = {}
  /\ applied = [k \in Clients \X Kinds \X Keys |-> 0]

Request == requests < MaxRequests /\ requests' = requests + 1
Fault == faults < MaxFaults /\ faults' = faults + 1

(* A request to the catalog.  Nothing is sent to a hub, and no selection   *)
(* of a workflow is touched.                                               *)
CatalogCall(c) ==
  /\ Request
  /\ c.op = "create" => c.id \in library.unborn
  /\ c.op = "import" => \A n \in DOMAIN c.ids : c.ids[n] \in library.unborn
  /\ library' = CatalogRoute(library, c)
  /\ removed' = removed \cup {p \in Packs : Exists(library, p) /\ library'.items[p] = None}
  /\ UNCHANGED <<selections, queues, seen, atHubs, edits, faults, doubtful, unsure, applied>>

(* A role nobody has is deleted, and no item is listed for it any more.    *)
DropRole(r) ==
  /\ Request
  /\ r \in library.roles
  /\ library' = DeleteRole(library, r)
  /\ UNCHANGED <<selections, queues, seen, atHubs, edits, faults, history>>

(* POST, PATCH and DELETE of a resource of one hub, and an item of an      *)
(* import: the command, then the mirror.  A call whose key stands for a    *)
(* command already is answered with it, or refused if it was the other     *)
(* operation, and changes nothing.                                         *)
(* Seeded fault first: the key is not looked up.                           *)
NeverRemembered(h, c) == FALSE

Remembered(h, c) == c.key # None /\ byKey[<<h, KindOf[c.of], c.key>>] # None

(* Seeded fault: the mirror is written also by a call that is answered     *)
(* with the command it stands for.                                         *)
MirrorsAlways(h, c) == TRUE

MirrorsCommand(h, c) == ~ Remembered(h, c)

StoreCommand(h, c) ==
  IF Remembered(h, c) THEN UNCHANGED <<lanes, byKey>>
  ELSE /\ lanes' = Enqueued(ChannelOf(h, c.of), <<c>>)
       /\ byKey' = IF c.key = None THEN byKey
                   ELSE [byKey EXCEPT ![<<h, KindOf[c.of], c.key>>] = c.op]

NoteRemoval(h, c) ==
  removed' = IF c.op = "delete" THEN removed \cup {c.of} ELSE removed

QueueResourceCommand(h, c) ==
  /\ Request
  /\ KindOf[c.of] \in Supports[h]
  /\ StoreCommand(h, c)
  /\ mirror' = IF MirrorsCommand(h, c) THEN [mirror EXCEPT ![h][c.of] = c.what] ELSE mirror
  /\ NoteRemoval(h, c)
  /\ UNCHANGED <<library, selections, seen, atHubs, edits, faults, doubtful, unsure, applied>>

(* The server stops after the command is stored and before the mirror is.  *)
QueueThenStop(h, c) ==
  /\ Request /\ Fault
  /\ KindOf[c.of] \in Supports[h]
  /\ StoreCommand(h, c)
  /\ NoteRemoval(h, c)
  /\ UNCHANGED <<library, selections, mirror, seen, atHubs, edits, doubtful, unsure, applied>>

ResourceCommands ==
  UNION {{Upsert(r, content, key) : content \in ContentsOf[r]} \cup {Delete(r, key)} :
           r \in Addressed, key \in Keys \cup {None}}

(* PUT /tcps and PUT /resource-sets: the list of one kind is replaced, the *)
(* stored list of the other kind is kept and shipped again as it is.       *)
Replaced(w, kind, sels) ==
  LET new(k) == IF k = kind THEN Validated(library, sels) ELSE OfKind(selections[w], k)
  IN new("tcp_tools") \o new("resource_sets")

(* POST /steps/from-template: its selections are merged into the stored.   *)
Incoming(t) ==
  LET read == ReadTemplate(library, t) IN Validated(library, read.tcps \o read.sets)

WithTemplate(w, t) == MergeSelections(selections[w], Incoming(t))

(* applyRemoteWorkflowSelections: store, then upserts with their mirrors,  *)
(* then set_selection.                                                     *)
ApplySelections(w, stored, sels) ==
  /\ Supported(HostOf[w], sels)
  /\ selections' = [selections EXCEPT ![w] = stored]
  /\ lanes' = Queued(w, sels)
  /\ mirror' = Mirrored(HostOf[w], Shipment(sels))
  /\ unsure' = unsure \ {w}
  /\ UNCHANGED <<library, byKey, seen, atHubs, edits, doubtful, removed, applied>>

(* The server stops after n of the upserts, the last one not mirrored yet. *)
ApplyThenStop(w, sels, n) ==
  /\ Supported(HostOf[w], sels)
  /\ n <= Len(Shipment(sels))
  /\ selections' = [selections EXCEPT ![w] = sels]
  /\ lanes' = Enqueued(w, SubSeq(Shipment(sels), 1, n))
  /\ mirror' = Mirrored(HostOf[w], SubSeq(Shipment(sels), 1, n - 1))
  /\ unsure' = unsure \cup {w}
  /\ UNCHANGED <<library, byKey, seen, atHubs, edits, doubtful, removed, applied>>

PutSelections(w, kind, sels) ==
  /\ Request
  /\ AllKnown(library, sels, kind)
  /\ ApplySelections(w, Replaced(w, kind, sels), Replaced(w, kind, sels))
  /\ UNCHANGED faults

PutThenStop(w, kind, sels) ==
  /\ Request /\ Fault
  /\ AllKnown(library, sels, kind)
  /\ \E n \in 0 .. 2 : ApplyThenStop(w, Replaced(w, kind, sels), n)

(* The steps of the template are commands of their own (see RemotePlan); a *)
(* template without usable selections changes nothing here.                *)
AddTemplate(w, t) ==
  /\ Request
  /\ Exists(library, t)
  /\ Incoming(t) # << >>
  /\ ApplySelections(w, WithTemplate(w, t), WithTemplate(w, t))
  /\ UNCHANGED faults

-----------------------------------------------------------------------------
(* External: what the hubs do.                                             *)

EventOf(h, r, content) ==
  [id |-> IF UniqueIds THEN <<h, sent[h]>> ELSE sent[h], of |-> r, what |-> content]

Announce(h, r, content) ==
  /\ hub' = [hub EXCEPT ![h][r] = content]
  /\ outbox' = [outbox EXCEPT ![h] = Append(@, EventOf(h, r, content))]
  /\ sent' = [sent EXCEPT ![h] = @ + 1]

Counted(h, c) ==
  IF c.key = None THEN applied ELSE [applied EXCEPT ![<<h, KindOf[c.of], c.key>>] = @ + 1]

(* A hub applies the oldest command of a lane, and tells of the resource.  *)
HubApplies(ch) ==
  /\ lanes[ch] # << >>
  /\ LET c == Head(lanes[ch]) h == HubOf(ch) IN
       /\ IF c.op = "set_selection"
          THEN /\ selected' = [selected EXCEPT ![c.of] = c.what]
               /\ UNCHANGED <<hub, outbox, sent>>
          ELSE Announce(h, c.of, c.what) /\ UNCHANGED selected
       /\ applied' = Counted(h, c)
  /\ lanes' = [lanes EXCEPT ![ch] = Tail(@)]
  /\ UNCHANGED <<library, selections, byKey, mirror, seen, requests, edits, faults,
                 doubtful, unsure, removed>>

(* It refuses it (a selection, once the context was injected).             *)
HubRefuses(ch) ==
  /\ Fault
  /\ lanes[ch] # << >>
  /\ LET c == Head(lanes[ch]) IN
       /\ IF c.op = "set_selection"
          THEN unsure' = unsure \cup {c.of} /\ UNCHANGED doubtful
          ELSE doubtful' = doubtful \cup {<<HubOf(ch), c.of>>} /\ UNCHANGED unsure
       /\ removed' = IF c.op = "upsert" THEN removed \cup {c.of} ELSE removed
  /\ lanes' = [lanes EXCEPT ![ch] = Tail(@)]
  /\ UNCHANGED <<library, selections, byKey, mirror, seen, atHubs, requests, edits, applied>>

(* A hub's user changes or deletes a resource of the hub's own.            *)
HubEdits(h, r, content) ==
  /\ edits < MaxEdits /\ edits' = edits + 1
  /\ r \in Locals
  /\ content # hub[h][r]
  /\ Announce(h, r, content)
  /\ UNCHANGED <<library, selections, queues, seen, selected, requests, faults, history>>

-----------------------------------------------------------------------------
(* POST /api/sync/events with the first n events of a hub's outbox: an     *)
(* event whose id is stored already is a duplicate, any other is stored    *)
(* and mirrored, one after the other.                                      *)
Inserted(h, n) == {i \in 1 .. n : outbox[h][i].id \notin seen}
IdsOf(h, n) == {outbox[h][i].id : i \in 1 .. n}

MirrorEvents(h, events) ==
  [mirror EXCEPT ![h] = [r \in Resources |->
     LET about == {i \in events : outbox[h][i].of = r}
     IN IF about = {} THEN mirror[h][r] ELSE outbox[h][Max(about)].what]]

(* The answer may be lost: then the hub sends the events again.            *)
Deliver(h, n, lost) ==
  /\ n \in 1 .. Len(outbox[h])
  /\ IF lost THEN Fault ELSE UNCHANGED faults
  /\ mirror' = MirrorEvents(h, Inserted(h, n))
  /\ seen' = seen \cup IdsOf(h, n)
  /\ outbox' = IF lost THEN outbox
               ELSE [outbox EXCEPT ![h] = SubSeq(@, n + 1, Len(@))]
  /\ doubtful' = doubtful \ {<<h, outbox[h][i].of>> : i \in Inserted(h, n)}
  /\ UNCHANGED <<library, selections, lanes, byKey, hub, selected, sent,
                 requests, edits, unsure, removed, applied>>

(* The server stops after the n-th event is stored, before it is mirrored. *)
DeliverThenStop(h, n) ==
  /\ Fault
  /\ n \in Inserted(h, Len(outbox[h]))
  /\ mirror' = MirrorEvents(h, Inserted(h, n - 1))
  /\ seen' = seen \cup IdsOf(h, n)
  /\ doubtful' = (doubtful \ {<<h, outbox[h][i].of>> : i \in Inserted(h, n - 1)})
                   \cup {<<h, outbox[h][n].of>>}
  /\ UNCHANGED <<library, selections, lanes, byKey, atHubs, requests, edits,
                 unsure, removed, applied>>

ResourcesNext ==
  \/ \E c \in CatalogCalls : CatalogCall(c)
  \/ \E r \in Roles : DropRole(r)
  \/ \E h \in Clients, c \in ResourceCommands : QueueResourceCommand(h, c) \/ QueueThenStop(h, c)
  \/ \E w \in Workflows, kind \in {"tcp_tools", "resource_sets"} :
       \E sels \in Asked[kind] : PutSelections(w, kind, sels) \/ PutThenStop(w, kind, sels)
  \/ \E w \in Workflows, t \in TemplateIds : AddTemplate(w, t)
  \/ \E ch \in LaneIds : HubApplies(ch) \/ HubRefuses(ch)
  \/ \E h \in Clients, r \in Locals : \E content \in Content(r) : HubEdits(h, r, content)
  \/ \E h \in Clients, lost \in BOOLEAN : \E n \in 1 .. Len(outbox[h]) : Deliver(h, n, lost)
  \/ \E h \in Clients : \E n \in 1 .. Len(outbox[h]) : DeliverThenStop(h, n)

ResourcesSpec == ResourcesInit /\ [][ResourcesNext]_resourceVars
-----------------------------------------------------------------------------
(* Nothing about a resource of a hub is under way: no command waits in a   *)
(* lane of the hub and no event in its outbox.                             *)
Quiet(h, r) ==
  /\ \A ch \in LaneIds : HubOf(ch) = h => \A c \in ToSet(lanes[ch]) : c.of # r
  /\ \A e \in ToSet(outbox[h]) : e.of # r

(* Once nothing about a resource is under way the mirror shows what the    *)
(* hub has, whatever operators queued on two kinds of lanes, hubs changed  *)
(* meanwhile and answers got lost; only a refusal by the hub, or a stop    *)
(* between storing an event and mirroring it, leaves it in doubt, and only *)
(* until the next event of the resource (queueResourceCommand and          *)
(* mirrorResourceSyncEvent write the same row).  Likewise a hub that has   *)
(* dealt with the lane of a workflow has the selection the server stores,  *)
(* both kinds of it, although each PUT carries one kind only.              *)
HubsConverge ==
  /\ \A h \in Clients, r \in Resources :
       Quiet(h, r) /\ <<h, r>> \notin doubtful => mirror[h][r] = hub[h][r]
  /\ \A w \in Workflows :
       lanes[w] = << >> /\ w \notin unsure => selected[w] = selections[w]

(* When a hub applies a selection, every pack in it has arrived before     *)
(* (the upserts share the lane of set_selection), unless somebody deleted  *)
(* the pack, from the catalog or from a hub, or a hub refused it.          *)
SelectionsBacked ==
  [][\A w \in Workflows : selected'[w] # selected[w] =>
       \A p \in PacksIn(selected'[w]) : hub[HostOf[w]][p] # None \/ p \in removed]_resourceVars

(* A request repeated under its Idempotency-Key, also after a stop of the  *)
(* server and also after its command was applied, never makes a hub apply  *)
(* a second command.                                                       *)
KeysApplyOnce == \A k \in DOMAIN applied : applied[k] <= 1
=============================================================================
