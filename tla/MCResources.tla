----------------------------- MODULE MCResources -----------------------------
(***************************************************************************)
(* An instance of Resources, and laws of Catalog over small requests and   *)
(* over all catalogs that up to three of them make.                        *)
(***************************************************************************)
EXTENDS Resources

CONSTANTS h1, w1, tcp, set, tpl, own, a, b, x, role, other

MCHostOf == [w \in Workflows |-> h1]
MCKindOf ==
  [r \in {tcp, set, tpl, own} |->
     IF r = set THEN "resource_sets" ELSE IF r = tpl THEN "templates" ELSE "tcp_tools"]
MCSupports == [h \in Clients |-> {"tcp_tools", "resource_sets"}]

Of(p, names) == [pack |-> p, names |-> names]
Tool(n, word) ==
  [name |-> n, request |-> word, inputs |-> <<[name |-> x, placeholder |-> x, dollar |-> FALSE]>>,
   tokens |-> [t \in {None, x} |-> word]]
Plain(n) == [name |-> n, request |-> x, inputs |-> << >>, tokens |-> << >>]
Doc(n) == [name |-> n, kind |-> "skill", files |-> << >>]
Step(word) ==
  [description |-> word, notes |-> <<[content |-> word, theme |-> x]>>, maxRetries |-> -1]

MCContentsOf ==
  [r \in Resources |->
     IF r = tcp THEN {<<Plain(a)>>, <<Plain(a), Plain(b)>>}
     ELSE IF r = set THEN {<<Doc(x)>>} ELSE {<<Plain(a)>>, <<Plain(b)>>}]
MCAsked == [tcp_tools |-> {<< >>, <<Of(tcp, {b})>>}, resource_sets |-> {<<Of(set, {x})>>}]

Pack(content, roles) == [content |-> content, roles |-> roles]
Template(tcps, sets, roles) ==
  [steps |-> << >>, ids |-> None, tcps |-> tcps, sets |-> sets, roles |-> roles]
Whole == Template(<<Of(tcp, {a})>>, <<Of(set, None)>>, None)

Initial(content) == CreateTcp(EmptyLibrary, tcp, Pack(content, {role}))
WithSet(lib) == CreateResourceSet(lib, set, Pack(<<Doc(x)>>, None))
MCLibraries ==
  {CreateTemplate(WithSet(Initial(c)), tpl, Whole) : c \in MCContentsOf[tcp]}
    \cup {CreateTemplate(Initial(<<Plain(a)>>), tpl, Whole), WithSet(EmptyLibrary)}

Call(op, i, input) == [op |-> op, id |-> i, input |-> input]
MCCatalogCalls ==
  {Call("create", tcp, Pack(c, None)) : c \in MCContentsOf[tcp]}
    \cup {Call("update", tcp, Pack(c, None)) : c \in MCContentsOf[tcp]}
    \cup {Call("update", tpl, Template(<<Of(tcp, {b})>>, None, None))}
    \cup {Call("delete", i, None) : i \in {tcp, set, tpl}}
    \cup {[op |-> "import", ids |-> <<set>>, inputs |-> <<Pack(<<Doc(x)>>, None)>>]}
-----------------------------------------------------------------------------
Lists == {s \in BoundedSeq([pack : {tcp, set}, names : SUBSET {a, b}], 2) :
            Len(s) = 2 => s[1].pack # s[2].pack}
Merged(s, t) == ToSet(MergeSelections(s, t))

Covers(wide, s) ==
  \E t \in ToSet(wide) : t.pack = s.pack
    /\ (t.names = {} \/ (s.names # {} /\ s.names \subseteq t.names))

(* mergeTcpSelections on lists that name a pack once: the union by pack,   *)
(* in which the whole pack wins, in either order and however often.        *)
ASSUME MergeIsUnion ==
  \A s, t \in Lists :
    /\ Merged(s, t) = Merged(t, s)
    /\ Merged(MergeSelections(s, t), t) = Merged(s, t)
    /\ \A e \in ToSet(s \o t) : Covers(MergeSelections(s, t), e)
    /\ \A e \in Merged(s, t) : \A n \in e.names : \E f \in ToSet(s \o t) : f.pack = e.pack /\ n \in f.names

(* Requests with fields that are missing, malformed or repeated.           *)
RolesGiven == {None, {}, {role}, {role, other}}
ToolLists == {None, <<Tool(a, x), Tool(a, None)>>, <<Tool(None, x), Tool(b, x), Tool(b, x)>>}
Paths == {<<"", "d">>, <<".", "d">>, <<"d", "..">>, << >>}
DocLists ==
  {None} \cup
  {<<[name |-> n, kind |-> "skills", files |-> <<[path |-> q], [path |-> r]>>],
     [name |-> a, kind |-> "doc", files |-> << >>]>> : n \in {None, a}, q, r \in Paths}
Selections == {None, << >>, <<Of(None, None), Of(tcp, {a, None})>>, <<Of(set, {x}), Of(tcp, Malformed)>>}

TemplateInputs ==
  [steps : {None, <<Step(x), Step(None)>>}, ids : {None, <<tcp, None, tcp, set>>},
   tcps : Selections, sets : Selections, roles : {None, {role}}]
InputsOf(i) ==
  IF i = tpl THEN TemplateInputs
  ELSE [content : IF i = tcp THEN ToolLists ELSE DocLists, roles : RolesGiven]

(* Catalogs that a few of those requests make, one after the other.        *)
SomeInputs(i) ==
  IF i = tpl THEN {Template(<<Of(tcp, {a})>>, <<Of(set, {})>>, {role}), Template(None, None, {})}
  ELSE {Pack(IF i = tcp THEN <<Tool(a, x)>> ELSE <<Doc(x)>>, roles) : roles \in {None, {role}, {other}}}
SomeCalls(lib) ==
  UNION {{Call(IF i \in lib.unborn THEN "create" ELSE "update", i, n) : n \in SomeInputs(i)} : i \in Items}
    \cup {Call("delete", i, None) : i \in Items}
After(libs) ==
  libs \cup UNION {{CatalogRoute(lib, c) : c \in SomeCalls(lib)} : lib \in libs}
       \cup {DeleteRole(lib, role) : lib \in libs}
Reached == After(After(After({EmptyLibrary})))

(* createTemplate, createTcp and createResourceSet answer with what they   *)
(* stored, and every later read normalizes it again: the two agree, and an *)
(* update that carries no field changes nothing that a reader sees.        *)
Nothing(i) ==
  IF i = tpl THEN [Template(None, None, None) EXCEPT !.steps = None] ELSE Pack(None, None)
Made(lib, i, n) == IF i \in lib.unborn THEN CreateItem(lib, i, n) ELSE UpdateItem(lib, i, n)
Shown(lib, i) ==
  LET row == lib.items[i] roles == SyncRoles(lib, i)
  IN IF i = tpl THEN [steps |-> row.steps, tcps |-> row.tcps, sets |-> row.sets, roles |-> roles]
     ELSE [content |-> row, roles |-> roles]

ASSUME ReadsWhatWasWritten ==
  \A lib \in Reached, i \in Items : i \in lib.unborn \/ Exists(lib, i) =>
    \A n \in InputsOf(i) : RolesKnown(lib, n) =>
      LET made == Made(lib, i, n)
      IN /\ Read(made, i) = Shown(made, i)
         /\ Read(UpdateItem(made, i, Nothing(i)), i) = Read(made, i)

(* An item that is exported and imported reads as it did, except that it   *)
(* is listed for nobody and that its tokens have to be entered again.      *)
Unlisted(read) == [read EXCEPT !.roles = {}]
Blank(i, read) ==
  IF i # tcp THEN read
  ELSE [read EXCEPT !.content = [n \in DOMAIN @ |->
          [@[n] EXCEPT !.tokens = [t \in DOMAIN @ |-> None]]]]

ASSUME BundlesComeBack ==
  \A lib \in Reached, i \in Items : Exists(lib, i) =>
    Read(ImportItems(lib, <<i>>, <<Bundle(lib, i)>>), i) = Unlisted(Blank(i, Read(lib, i)))

(* Whatever is created, changed, deleted and listed before, and whichever  *)
(* role is gone: a listing is of an item and a role there are; templates   *)
(* show only packs there are; and what the owner of a hub pulls is listed  *)
(* for the role, all of it for an administrator, in templates that name    *)
(* only packs pulled with them.                                            *)
Owners == [role : {Admin, role, other}, maySync : SUBSET Kinds]

ASSUME PullsAreListed ==
  \A lib \in Reached :
    /\ lib.listed \subseteq {i \in Items : Exists(lib, i)} \X lib.roles
    /\ Exists(lib, tpl) =>
         \A s \in ToSet(Read(lib, tpl).tcps \o Read(lib, tpl).sets) : Exists(lib, s.pack)
    /\ \A owner \in Owners : LET pulled == Pull(lib, owner) IN
         /\ \A i \in Items : i \in DOMAIN pulled <=>
              /\ Exists(lib, i) /\ KindOf[i] \in owner.maySync
              /\ owner.role = Admin \/ <<i, owner.role>> \in lib.listed
         /\ tpl \in DOMAIN pulled =>
              \A s \in ToSet(pulled[tpl].tcps \o pulled[tpl].sets) : s.pack \in DOMAIN pulled

(* A selection that was validated once is not changed by validating it     *)
(* again: storing what a PUT kept and sending it back is no change.        *)
ASSUME ValidatedIsStable ==
  \A lib \in Reached, s \in Selections \ {None} :
    AllKnown(lib, OfKind(NormalizeSelections(s), "tcp_tools"), "tcp_tools") =>
      LET once == Validated(lib, OfKind(NormalizeSelections(s), "tcp_tools"))
      IN Validated(lib, once) = once
=============================================================================
