------------------------------- MODULE Catalog -------------------------------
(***************************************************************************)
(* The catalog of an organization: its templates, TCP packs and resource   *)
(* sets, and the roles each of them is listed for (db.mjs 4760-5484 and    *)
(* handleCatalogRoute of server.mjs).  A library holds the rows as they    *)
(* are stored; reading a row normalizes it again, and filters a template   *)
(* down to the packs that still exist.  Every operation is a function from *)
(* the library and a request to the library after it.  Names, words and    *)
(* documents are values; None stands for a blank, missing or undefined one *)
(* and Malformed for one of the wrong type.                                *)
(***************************************************************************)
EXTENDS Integers, Sequences, FiniteSets, SequencesExt, FiniteSetsExt

CONSTANTS
  None, Malformed,
  Items,         \* ids of templates, TCP packs and resource sets
  KindOf,        \* the kind of an id
  Roles,         \* ids of roles
  Admin          \* the role of administrators

TemplateIds == {i \in Items : KindOf[i] = "templates"}
Packs == Items \ TemplateIds

(* A library: the payload of each row (None if there is no row), the ids   *)
(* randomUUID has not given out, catalog_sync_roles and the roles.         *)
EmptyLibrary ==
  [items |-> [i \in Items |-> None], unborn |-> Items, listed |-> {}, roles |-> Roles]

Exists(lib, i) == lib.items[i] # None

(* The entries of a list at some of its places, in their order.            *)
Entries(list, places) ==
  LET upTo[n \in 0 .. Len(list)] ==
        IF n = 0 THEN << >>
        ELSE IF n \in places THEN Append(upTo[n - 1], list[n]) ELSE upTo[n - 1]
  IN upTo[Len(list)]

NamesIn(content) == {content[n].name : n \in DOMAIN content}
-----------------------------------------------------------------------------
(* Normalization of what a request carries and of what a row holds.        *)

(* Entries without a pack, or with a malformed list, are dropped; no names *)
(* stands for the whole pack, as null and [] do.                           *)
NormalizeSelections(input) ==
  LET sound(s) == s.pack # None /\ s.names # Malformed
      usable == Entries(input, {n \in DOMAIN input : sound(input[n])})
  IN [n \in DOMAIN usable |->
        [usable[n] EXCEPT !.names = IF @ = None THEN {} ELSE @ \ {None}]]

NormalizeTcpIds(ids) ==
  LET first(n) == \A m \in 1 .. n - 1 : ids[m] # ids[n]
  IN Entries(ids, {n \in DOMAIN ids : ids[n] # None /\ first(n)})

WholePacks(ids) == [n \in DOMAIN ids |-> [pack |-> ids[n], names |-> {}]]

NormalizeNotes(notes) ==
  LET written == SelectSeq(notes, LAMBDA n : n.content # None)
      themed(n) == [n EXCEPT !.theme = IF @ \in {"warning", "success"} THEN @ ELSE "neutral"]
  IN [n \in DOMAIN written |-> themed(written[n])]

NormalizeSteps(steps) ==
  LET described == SelectSeq(steps, LAMBDA s : s.description # None)
      Clean(s) == [s EXCEPT !.notes = NormalizeNotes(@), !.maxRetries = Max({0, @})]
  IN [n \in DOMAIN described |-> Clean(described[n])]

(* A placeholder is a word and whether a $ stands before it.               *)
NormalizeInputs(inputs) ==
  LET named == SelectSeq(inputs, LAMBDA i : i.name # None /\ i.placeholder # None)
  IN [n \in DOMAIN named |-> [named[n] EXCEPT !.dollar = TRUE]]

NormalizeTokens(tokens) == [t \in DOMAIN tokens \ {None} |-> tokens[t]]

(* Tools keep their order, and two tools of a pack may share a name.       *)
NormalizeTools(tools) ==
  LET kept == SelectSeq(tools, LAMBDA t : t.name # None /\ t.request # None)
      Clean(t) == [t EXCEPT !.inputs = NormalizeInputs(@), !.tokens = NormalizeTokens(@)]
  IN [n \in DOMAIN kept |-> Clean(kept[n])]

(* A path is a sequence of segments; one that climbs is emptied.           *)
NormalizePath(path) ==
  IF ".." \in ToSet(path) THEN << >> ELSE SelectSeq(path, LAMBDA s : s \notin {"", "."})

NormalizeFiles(files) ==
  LET Add(got, f) ==
        LET path == NormalizePath(f.path)
        IN IF path = << >> \/ \E g \in ToSet(got) : g.path = path THEN got
           ELSE Append(got, [f EXCEPT !.path = path])
  IN FoldLeft(Add, << >>, files)

(* Resources of a set are known by their names: the first of a name stays. *)
NormalizeResources(resources) ==
  LET Kind(k) == IF k \in {"agent", "doc"} THEN k ELSE "skill"
      Add(got, r) ==
        IF r.name = None \/ r.name \in NamesIn(got) THEN got
        ELSE Append(got, [r EXCEPT !.kind = Kind(@), !.files = NormalizeFiles(@)])
  IN FoldLeft(Add, << >>, resources)

NormalizeContent(i, content) ==
  IF KindOf[i] = "tcp_tools" THEN NormalizeTools(content) ELSE NormalizeResources(content)
-----------------------------------------------------------------------------
(* Selections: a pack and the names chosen of it, no name for all of it.   *)

OfKind(sels, kind) == Entries(sels, {n \in DOMAIN sels : KindOf[sels[n].pack] = kind})
PacksIn(sels) == {s.pack : s \in ToSet(sels)}

(* The whole pack wins over a partial list.                                *)
MergeSelectionNames(a, b) == IF a = {} \/ b = {} THEN {} ELSE a \cup b

(* new Map of the existing list: a later entry of a pack replaces an       *)
(* earlier one.                                                            *)
LastNames(sels, p) == sels[Max({n \in DOMAIN sels : sels[n].pack = p})].names

(* One more entry of a map from packs to names.                            *)
MergeSelection(map, s) ==
  IF s.pack \in DOMAIN map
  THEN [map EXCEPT ![s.pack] = MergeSelectionNames(@, s.names)]
  ELSE [p \in DOMAIN map \cup {s.pack} |-> IF p = s.pack THEN s.names ELSE map[p]]

(* mergeTcpSelections and mergeResourceSelections: union by pack.          *)
MergeSelections(existing, incoming) ==
  LET stored == [p \in PacksIn(existing) |-> LastNames(existing, p)]
      map[n \in 0 .. Len(incoming)] ==
        IF n = 0 THEN stored ELSE MergeSelection(map[n - 1], incoming[n])
      merged == map[Len(incoming)]
  IN SetToSeq({[pack |-> p, names |-> merged[p]] : p \in DOMAIN merged})

(* What a selection sent for a workflow becomes: a list naming an unknown  *)
(* pack is refused; names the pack does not have are dropped, and the      *)
(* entry with them if none is left.                                        *)
AllKnown(lib, sels, kind) ==
  \A p \in PacksIn(NormalizeSelections(sels)) : p \in Packs /\ KindOf[p] = kind /\ Exists(lib, p)

Validated(lib, sels) ==
  LET Content(s) == NormalizeContent(s.pack, lib.items[s.pack])
      Left(s) == s.names \cap NamesIn(Content(s))
      Holds(s) == s.names = {} \/ Left(s) # {}
      All(s) == Cardinality(Left(s)) = Len(Content(s))
      Trim(s) == [s EXCEPT !.names = IF All(s) THEN {} ELSE Left(s)]
      given == NormalizeSelections(sels)
      kept == Entries(given, {n \in DOMAIN given : Holds(given[n])})
  IN [n \in DOMAIN kept |-> Trim(kept[n])]

(* A selection of a pack the server does not have, or has as the other     *)
(* kind, is left out.                                                      *)
FilteredToServer(lib, sels, kind) ==
  LET known(p) == p \in Packs /\ KindOf[p] = kind /\ Exists(lib, p)
  IN Entries(sels, {n \in DOMAIN sels : known(sels[n].pack)})
-----------------------------------------------------------------------------
(* Reading a row.                                                          *)

SyncRoles(lib, i) == {r \in Roles : <<i, r>> \in lib.listed}

(* Rows of earlier releases name packs only by tcpIds.                     *)
ReadTemplate(lib, i) ==
  LET row == lib.items[i]
      chosen == NormalizeSelections(row.tcps)
      tcps == IF chosen # << >> THEN chosen ELSE WholePacks(NormalizeTcpIds(row.ids))
  IN [steps |-> NormalizeSteps(row.steps),
      tcps |-> FilteredToServer(lib, tcps, "tcp_tools"),
      sets |-> FilteredToServer(lib, NormalizeSelections(row.sets), "resource_sets"),
      roles |-> SyncRoles(lib, i)]

ReadPack(lib, i) ==
  [content |-> NormalizeContent(i, lib.items[i]), roles |-> SyncRoles(lib, i)]

Read(lib, i) == IF i \in TemplateIds THEN ReadTemplate(lib, i) ELSE ReadPack(lib, i)
-----------------------------------------------------------------------------
(* Writing a row.  A field that is None in a request keeps what a read of  *)
(* the row returned.                                                       *)

Or(field, default) == IF field = None THEN default ELSE field

(* A request listing a role that does not exist is refused whole.          *)
RolesKnown(lib, input) == input.roles = None \/ input.roles \subseteq lib.roles

WriteSyncRoles(lib, i, roles) ==
  {l \in lib.listed : l[1] # i} \cup ({i} \X roles)

(* tcpSelections before the older tcpIds, and before what there was.       *)
TemplateSelections(lib, input, existing) ==
  LET tcps == IF input.tcps # None THEN NormalizeSelections(input.tcps)
              ELSE IF input.ids # None THEN WholePacks(NormalizeTcpIds(input.ids))
              ELSE existing.tcps
  IN [tcps |-> FilteredToServer(lib, tcps, "tcp_tools"),
      sets |-> IF input.sets = None THEN existing.sets
               ELSE FilteredToServer(lib, NormalizeSelections(input.sets), "resource_sets")]

TemplateRow(steps, chosen) ==
  [steps |-> steps, tcps |-> chosen.tcps, sets |-> chosen.sets,
   ids |-> [n \in DOMAIN chosen.tcps |-> chosen.tcps[n].pack]]

Written(lib, i, row, roles) ==
  [lib EXCEPT !.items[i] = row, !.unborn = @ \ {i},
              !.listed = IF roles = None THEN @ ELSE WriteSyncRoles(lib, i, roles)]

NoTemplate == [steps |-> << >>, tcps |-> << >>, sets |-> << >>]

CreateTemplate(lib, i, input) ==
  Written(lib, i,
          TemplateRow(NormalizeSteps(Or(input.steps, << >>)),
                      TemplateSelections(lib, input, NoTemplate)),
          Or(input.roles, {}))

UpdateTemplate(lib, i, input) ==
  LET existing == ReadTemplate(lib, i)
      steps == IF input.steps = None THEN existing.steps ELSE NormalizeSteps(input.steps)
  IN Written(lib, i, TemplateRow(steps, TemplateSelections(lib, input, existing)), input.roles)

CreateTcp(lib, i, input) ==
  Written(lib, i, NormalizeTools(Or(input.content, << >>)), Or(input.roles, {}))

UpdateTcp(lib, i, input) ==
  LET tools == IF input.content = None THEN ReadPack(lib, i).content
               ELSE NormalizeTools(input.content)
  IN Written(lib, i, tools, input.roles)

CreateResourceSet(lib, i, input) ==
  Written(lib, i, NormalizeResources(Or(input.content, << >>)), Or(input.roles, {}))

UpdateResourceSet(lib, i, input) ==
  LET resources == IF input.content = None THEN ReadPack(lib, i).content
                   ELSE NormalizeResources(input.content)
  IN Written(lib, i, resources, input.roles)

(* The row and its listings; the templates that select a pack keep it in   *)
(* their rows.                                                             *)
DeleteItem(lib, i) ==
  [lib EXCEPT !.items[i] = None, !.listed = {l \in @ : l[1] # i}]

(* deleteRole of db.mjs, for a role no user has.                           *)
DeleteRole(lib, r) ==
  [lib EXCEPT !.roles = @ \ {r}, !.listed = {l \in @ : l[2] # r}]

CreateItem(lib, i, input) ==
  CASE KindOf[i] = "templates" -> CreateTemplate(lib, i, input)
    [] KindOf[i] = "tcp_tools" -> CreateTcp(lib, i, input)
    [] KindOf[i] = "resource_sets" -> CreateResourceSet(lib, i, input)

UpdateItem(lib, i, input) ==
  CASE KindOf[i] = "templates" -> UpdateTemplate(lib, i, input)
    [] KindOf[i] = "tcp_tools" -> UpdateTcp(lib, i, input)
    [] KindOf[i] = "resource_sets" -> UpdateResourceSet(lib, i, input)

(* Entries of a bundle are created one after the other, listed to nobody.  *)
ImportItems(lib, ids, inputs) ==
  LET after[n \in 0 .. Len(ids)] ==
        IF n = 0 THEN lib ELSE CreateItem(after[n - 1], ids[n], [inputs[n] EXCEPT !.roles = None])
  IN after[Len(ids)]

(* The routes of the catalog.  A request that is refused, or is about no   *)
(* row, changes nothing.                                                   *)
CatalogRoute(lib, c) ==
  CASE c.op = "create" /\ RolesKnown(lib, c.input) -> CreateItem(lib, c.id, c.input)
    [] c.op = "update" /\ Exists(lib, c.id) /\ RolesKnown(lib, c.input) ->
         UpdateItem(lib, c.id, c.input)
    [] c.op = "delete" /\ Exists(lib, c.id) -> DeleteItem(lib, c.id)
    [] c.op = "import" -> ImportItems(lib, c.ids, c.inputs)
    [] OTHER -> lib
-----------------------------------------------------------------------------
(* Bundles: no ids and no roles, and of a token only that there is one.    *)

TemplateBundle(lib, i) ==
  LET t == ReadTemplate(lib, i)
  IN [steps |-> t.steps, tcps |-> t.tcps, sets |-> t.sets,
      ids |-> [n \in DOMAIN t.tcps |-> t.tcps[n].pack], roles |-> None]

TcpBundle(lib, i) ==
  LET tools == ReadPack(lib, i).content
      Blanked(t) == [t EXCEPT !.tokens = [k \in DOMAIN @ |-> None]]
  IN [content |-> [n \in DOMAIN tools |-> Blanked(tools[n])], roles |-> None]

ResourceSetBundle(lib, i) == [content |-> ReadPack(lib, i).content, roles |-> None]

Bundle(lib, i) ==
  CASE KindOf[i] = "templates" -> TemplateBundle(lib, i)
    [] KindOf[i] = "tcp_tools" -> TcpBundle(lib, i)
    [] KindOf[i] = "resource_sets" -> ResourceSetBundle(lib, i)

(* What the owner of a linked hub may pull: administrators all of a kind   *)
(* they may sync, others what is listed for their role.                    *)
Syncable(lib, owner) ==
  {i \in Items : /\ Exists(lib, i)
                 /\ KindOf[i] \in owner.maySync
                 /\ owner.role = Admin \/ owner.role \in SyncRoles(lib, i)}

(* GET /api/sync/catalog: selections of packs that are not pulled are left *)
(* out of the pulled templates.                                            *)
PulledTemplate(lib, owner, i) ==
  LET t == ReadTemplate(lib, i)
      Pulled(s) == s.pack \in Syncable(lib, owner)
  IN [steps |-> t.steps, tcps |-> SelectSeq(t.tcps, Pulled), sets |-> SelectSeq(t.sets, Pulled)]

Pull(lib, owner) ==
  [i \in Syncable(lib, owner) |->
     IF i \in TemplateIds THEN PulledTemplate(lib, owner, i) ELSE ReadPack(lib, i).content]
=============================================================================
