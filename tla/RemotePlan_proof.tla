-------------------------- MODULE RemotePlan_proof --------------------------
(***************************************************************************)
(* Theorems about RemotePlan, for any step keys, any number of commands    *)
(* and events, with a hub that refuses what it likes and a server that may *)
(* stop between two transactions of a handler; and, at the end, about the  *)
(* drawing of a workflow (Canvas), for plans of every length.              *)
(***************************************************************************)
EXTENDS RemotePlan, Canvas, SequenceTheorems, WellFoundedInduction, TLAPS

Statuses == {"pending", "delivered", "acked", "failed"}
Commands == [type : CommandTypes, key : Keys \cup {"none"}, status : Statuses]
Sent == Events \cup [kind : {"ack"}, n : Nat, error : Errors]

Typed ==
  /\ queue \in Seq(Commands)
  /\ hub \in [has : BOOLEAN, ver : [Keys -> Nat]]
  /\ reports \subseteq [n : DOMAIN queue, error : Errors]
  /\ outbox \in Seq(Sent)
  /\ stored \subseteq DOMAIN outbox

(* Only a first command can bring the workflow to the hub.                 *)
CreateIsFirst == \A n \in DOMAIN queue : queue[n].type = "workflow.create" => n = 1

(* What was handed out comes after what is settled.                        *)
InOrder ==
  \A n \in DOMAIN queue :
    queue[n].status # "pending" => \A m \in DOMAIN queue : m < n => ~InFlight(queue[m])

(* A settled command was reported, as its status says; and what is         *)
(* reported, by acknowledgement or event, was handed out.                  *)
ReportsKnown ==
  /\ \A n \in DOMAIN queue : ~InFlight(queue[n]) =>
       \E r \in reports : r.n = n /\ (queue[n].status = "acked" => r.error = "none")
  /\ \A r \in reports : queue[r.n].status # "pending"
  /\ \A e \in DOMAIN outbox : outbox[e].kind = "ack" =>
       \E r \in reports : r.n = outbox[e].n /\ r.error = outbox[e].error

(* A report after which the hub does not have the workflow.                *)
Farewell(r) == r.error = "gone" \/ (r.error = "none" /\ IsDelete(queue[r.n]))
Farewells == {r \in reports : Farewell(r)}

(* The server forgets on such a report only, and such a report is final.   *)
ForgottenOnReport ==
  /\ Farewells # {} => ~hub.has
  /\ (queue # << >> /\ ~Exists) => Farewells # {}

IInv == Typed /\ CreateIsFirst /\ InOrder /\ ReportsKnown /\ ForgottenOnReport

-----------------------------------------------------------------------------
(* The commands have their types one by one. *)
LEMMA CommandTyped ==
  ASSUME Typed
  PROVE  /\ DOMAIN queue = 1 .. Len(queue) /\ Len(queue) \in Nat
         /\ \A n \in DOMAIN queue : n \in Nat /\ queue[n] \in Commands
         /\ \A r \in reports : r.n \in DOMAIN queue /\ r.error \in Errors
BY DEF Typed

(* A step that leaves queue, hub and reports alone may only forget the     *)
(* workflow when the hub has said farewell.                                *)
LEMMA PlanMoves ==
  ASSUME IInv,
         UNCHANGED <<queue, hub, reports, outbox>>,
         stored' \subseteq DOMAIN outbox,
         Exists' \/ ~Exists \/ Farewells # {}
  PROVE  IInv'
<1>1. Farewells' = Farewells
  BY DEF Farewells, Farewell, IsDelete
<1>2. Typed' /\ CreateIsFirst' /\ InOrder' /\ ReportsKnown'
  BY DEF IInv, Typed, CreateIsFirst, InOrder, ReportsKnown, InFlight
<1> QED BY <1>1, <1>2 DEF IInv, ForgottenOnReport, Exists

(* Commands that are added wait at the end, behind a first one.            *)
LEMMA CommandAdded ==
  ASSUME IInv,
         NEW type \in CommandTypes \ {"workflow.create"}, NEW k \in Keys \cup {"none"},
         queue' = Append(queue, Command(type, k)),
         UNCHANGED <<hub, reports, outbox, stored>>,
         Exists' \/ (queue # << >> /\ UNCHANGED status)
  PROVE  IInv'
<1> DEFINE c == Command(type, k)
<1>1. c \in Commands /\ c.type = type /\ c.status = "pending"
  BY DEF Command, Commands, Statuses
<1> HIDE DEF c
<1>2. queue' = Append(queue, c)
  BY DEF c
<1>3. /\ queue' \in Seq(Commands)
      /\ Len(queue') = Len(queue) + 1
      /\ DOMAIN queue' = DOMAIN queue \cup {Len(queue) + 1}
      /\ queue'[Len(queue) + 1] = c
      /\ \A n \in DOMAIN queue : queue'[n] = queue[n]
      /\ \A n \in DOMAIN queue : n < Len(queue) + 1
  BY <1>1, <1>2, CommandTyped DEF IInv, Typed
<1>4. Typed'
  BY <1>3 DEF IInv, Typed
<1>5. CreateIsFirst'
  BY <1>1, <1>3 DEF IInv, CreateIsFirst
<1>6. InOrder'
  BY <1>1, <1>3, CommandTyped DEF IInv, InOrder, InFlight
<1>7. ReportsKnown'
  BY <1>1, <1>3, CommandTyped DEF IInv, ReportsKnown, InFlight
<1>8. Farewells' = Farewells
  BY <1>3, CommandTyped DEF IInv, Farewells, Farewell, IsDelete
<1> QED BY <1>4, <1>5, <1>6, <1>7, <1>8 DEF IInv, ForgottenOnReport, Exists

(* A command whose status changes.                                         *)
LEMMA StatusMoves ==
  ASSUME Typed, NEW n \in DOMAIN queue, NEW s \in Statuses,
         queue' = [queue EXCEPT ![n].status = s]
  PROVE  /\ queue' \in Seq(Commands)
         /\ DOMAIN queue' = DOMAIN queue
         /\ queue'[n].status = s
         /\ \A m \in DOMAIN queue : queue'[m].type = queue[m].type /\ queue'[m].key = queue[m].key
         /\ \A m \in DOMAIN queue : m # n => queue'[m] = queue[m]
<1> DEFINE c == [queue[n] EXCEPT !.status = s]
<1>1. c \in Commands /\ c.status = s /\ c.type = queue[n].type /\ c.key = queue[n].key
  BY CommandTyped DEF Commands
<1>2. queue' = [queue EXCEPT ![n] = c]
  OBVIOUS
<1> HIDE DEF c
<1>3. queue' \in Seq(Commands) /\ DOMAIN queue' = DOMAIN queue
  <2>1. n \in 1 .. Len(queue) /\ queue \in Seq(Commands)
    BY CommandTyped DEF Typed
  <2> QED BY <1>1, <1>2, <2>1, ExceptSeq
<1>4. queue'[n] = c /\ \A m \in DOMAIN queue : m # n => queue'[m] = queue[m]
  BY <1>2
<1> QED BY <1>1, <1>3, <1>4

(* Handing a command out or settling a reported one keeps the order and    *)
(* what the reports say.                                                   *)
LEMMA QueueMoves ==
  ASSUME IInv, NEW n \in DOMAIN queue, NEW s \in Statuses \ {"pending"},
         queue' = [queue EXCEPT ![n].status = s],
         UNCHANGED <<hub, reports, outbox, stored>>,
         Exists' \/ ~Exists \/ Farewells # {},
         \A m \in DOMAIN queue : m < n => ~InFlight(queue[m]),
         s = "delivered" \/ \E r \in reports : r.n = n /\ (s = "acked" => r.error = "none"),
         s = "delivered" => queue[n].status = "pending"
  PROVE  IInv'
<1>1. /\ queue' \in Seq(Commands)
      /\ DOMAIN queue' = DOMAIN queue
      /\ queue'[n].status = s
      /\ \A m \in DOMAIN queue : queue'[m].type = queue[m].type
      /\ \A m \in DOMAIN queue : m # n => queue'[m] = queue[m]
  BY StatusMoves DEF IInv
<1>2. Typed'
  BY <1>1 DEF IInv, Typed
<1>3. CreateIsFirst'
  BY <1>1 DEF IInv, CreateIsFirst
<1>4. InOrder'
  <2> SUFFICES ASSUME NEW x \in DOMAIN queue, queue'[x].status # "pending",
                      NEW m \in DOMAIN queue, m < x
               PROVE  ~InFlight(queue'[m])
    BY <1>1 DEF InOrder
  <2>1. ~InFlight(queue[m])
    BY <1>1 DEF IInv, InOrder
  <2>2. m = n => s # "delivered"
    BY <2>1 DEF InFlight
  <2> QED BY <1>1, <2>1, <2>2 DEF InFlight
<1>5. ReportsKnown'
  <2>1. \A x \in DOMAIN queue : ~InFlight(queue'[x]) =>
          \E r \in reports : r.n = x /\ (queue'[x].status = "acked" => r.error = "none")
    BY <1>1 DEF IInv, ReportsKnown, InFlight
  <2>2. \A r \in reports : queue'[r.n].status # "pending"
    BY <1>1, CommandTyped DEF IInv, ReportsKnown
  <2> QED BY <1>1, <2>1, <2>2 DEF IInv, ReportsKnown
<1>6. Farewells' = Farewells
  BY <1>1, CommandTyped DEF IInv, Farewells, Farewell, IsDelete
<1>7. queue' # << >> <=> queue # << >>
  BY <1>1
<1> QED BY <1>2, <1>3, <1>4, <1>5, <1>6, <1>7 DEF IInv, ForgottenOnReport, Exists

(* A report is on a command all before which are settled.                  *)
LEMMA ReportedInOrder ==
  ASSUME IInv, NEW r \in reports
  PROVE  /\ r.n \in DOMAIN queue
         /\ \A m \in DOMAIN queue : m < r.n => ~InFlight(queue[m])
BY CommandTyped DEF IInv, ReportsKnown, InOrder

(* A report on a delete that the server takes as its success is a farewell.*)
LEMMA FarewellReported ==
  ASSUME IInv, NEW r \in reports, IsDelete(queue[r.n]), r.error \in {"none", "gone"}
  PROVE  Farewells # {}
BY DEF Farewells, Farewell

(* The plan follows an acknowledgement: it goes only on such a report.     *)
LEMMA AckForgets ==
  ASSUME IInv, NEW r \in reports, NEW q,
         ApplyAckToPlan(queue[r.n], r.error, q)
  PROVE  Exists' \/ ~Exists \/ Farewells # {}
<1>1. CASE IsDelete(queue[r.n]) /\ r.error \in {"none", "gone"}
  BY <1>1, FarewellReported
<1>2. CASE IsDelete(queue[r.n]) /\ r.error \notin {"none", "gone"}
  BY <1>2 DEF ApplyAckToPlan, Revert, Exists
<1>3. CASE ~IsDelete(queue[r.n])
  BY <1>3 DEF ApplyAckToPlan, Exists
<1> QED BY <1>1, <1>2, <1>3

-----------------------------------------------------------------------------
(* Nothing is queued before the first step. *)
LEMMA InitInv == Init => IInv
<1> SUFFICES ASSUME Init PROVE IInv
  OBVIOUS
<1>1. queue = << >> /\ reports = {} /\ outbox = << >> /\ stored = {}
  BY DEF Init
<1>2. hub \in [has : BOOLEAN, ver : [Keys -> Nat]]
  BY DEF Init
<1>3. Typed
  BY <1>1, <1>2 DEF Typed
<1> QED
  BY <1>1, <1>3 DEF IInv, CreateIsFirst, InOrder, ReportsKnown, ForgottenOnReport, Farewells

(* What the server queues for a template: a create and its steps.          *)
LEMMA CommandsOfTemplate ==
  ASSUME NEW template \in Templates
  PROVE  /\ template \in Seq(Keys) /\ Len(template) \in 0 .. 1
         /\ CreateCommands(template) \in Seq(Commands)
         /\ Len(CreateCommands(template)) = Len(template) + 1
         /\ \A n \in 1 .. Len(CreateCommands(template)) :
              /\ CreateCommands(template)[n].status = "pending"
              /\ n # 1 => CreateCommands(template)[n].type = "step.add"
<1> DEFINE all == CreateCommands(template)
<1>1. template \in Seq(Keys) /\ Len(template) \in 0 .. 1
  <2>1. CASE template = << >>
    BY <2>1
  <2>2. CASE template \in {<<k>> : k \in Keys}
    <3>1. PICK k \in Keys : template = <<k>>
      BY <2>2
    <3> QED BY <3>1
  <2> QED BY <2>1, <2>2 DEF Templates
<1>2. /\ all \in Seq(Commands)
      /\ Len(all) = Len(template) + 1
      /\ \A n \in 1 .. Len(all) : all[n].status = "pending"
      /\ \A n \in 1 .. Len(all) : n # 1 => all[n].type = "step.add"
  <2> DEFINE first == Command("workflow.create", "none")
             rest == [i \in DOMAIN template |-> Command("step.add", template[i])]
  <2>1. \A k \in Keys : /\ Command("step.add", k) \in Commands
                        /\ Command("step.add", k).type = "step.add"
                        /\ Command("step.add", k).status = "pending"
    BY DEF Command, Commands, CommandTypes, Statuses
  <2>2. first \in Commands /\ first.status = "pending"
    BY DEF Command, Commands, CommandTypes, Statuses
  <2>3. \A i \in 1 .. Len(template) :
          rest[i] \in Commands /\ rest[i].type = "step.add" /\ rest[i].status = "pending"
    BY <1>1, <2>1
  <2>4. rest \in Seq(Commands) /\ Len(rest) = Len(template)
    <3>1. rest \in [1 .. Len(template) -> Commands]
      BY <1>1, <2>1
    <3> QED BY <1>1, <3>1
  <2> HIDE DEF first, rest
  <2>5. all = <<first>> \o rest
    BY DEF CreateCommands, first, rest
  <2> HIDE DEF all
  <2> QED BY <1>1, <2>2, <2>3, <2>4, <2>5
<1> QED BY <1>1, <1>2

(* A new row, with the first commands of its template or without.          *)
LEMMA CreateKeeps ==
  ASSUME IInv, NewRow, NEW template \in Templates, NEW m \in 0 .. (Len(template) + 1),
         queue' = SubSeq(CreateCommands(template), 1, m)
  PROVE  IInv'
<1> DEFINE all == CreateCommands(template)
<1>1. \A n \in DOMAIN queue : FALSE
  BY DEF NewRow
<1>2. reports = {}
  BY <1>1, CommandTyped DEF IInv
<1>3. template \in Seq(Keys) /\ Len(template) \in 0 .. 1
  BY CommandsOfTemplate
<1>4. /\ all \in Seq(Commands)
      /\ Len(all) = Len(template) + 1
      /\ \A n \in 1 .. Len(all) : all[n].status = "pending"
      /\ \A n \in 1 .. Len(all) : n # 1 => all[n].type = "step.add"
  BY CommandsOfTemplate
<1> HIDE DEF all
<1>5. queue' = SubSeq(all, 1, m) /\ m \in 0 .. Len(all)
  BY <1>3, <1>4 DEF all
<1>6. /\ queue' \in Seq(Commands)
      /\ DOMAIN queue' = 1 .. m
      /\ \A n \in 1 .. m : queue'[n] = all[n]
  BY <1>3, <1>4, <1>5
<1>7. \A n \in DOMAIN queue' : /\ queue'[n].status = "pending"
                               /\ queue'[n].type = "workflow.create" => n = 1
  BY <1>3, <1>4, <1>5, <1>6
<1>8. UNCHANGED <<hub, reports, outbox, stored>> /\ Exists'
  BY DEF NewRow, Exists
<1>9. Typed'
  BY <1>2, <1>6, <1>8 DEF IInv, Typed
<1>10. ReportsKnown'
  BY <1>2, <1>7, <1>8 DEF IInv, ReportsKnown, InFlight
<1>11. ForgottenOnReport'
  BY <1>2, <1>8 DEF ForgottenOnReport, Farewells
<1> QED BY <1>7, <1>9, <1>10, <1>11 DEF IInv, CreateIsFirst, InOrder

(* The hub brings the workflow back only with the first command, before    *)
(* which no report can have been made.                                     *)
LEMMA HubApplyKeeps ==
  ASSUME IInv, NEW n \in DOMAIN queue, HubApply(n)
  PROVE  IInv'
<1> DEFINE c == queue[n]
<1>1. /\ c.status = "delivered"
      /\ \A r \in reports : r.n # n
      /\ UNCHANGED server
  BY DEF HubApply
<1>2. PICK error \in Errors :
        /\ CASE error = "none"  -> HubCan(c) /\ HubSucceeds(c, n)
             [] error = "gone"  -> ~hub.has /\ c.type # "workflow.create" /\ UNCHANGED hub
             [] error = "other" -> UNCHANGED hub
        /\ reports' = reports \cup {[n |-> n, error |-> error]}
        /\ \/ UNCHANGED outbox
           \/ outbox' = Append(outbox, [kind |-> "ack", n |-> n, error |-> error])
  <2>1. PICK x \in Errors :
          /\ CASE x = "none"  -> HubCan(c) /\ HubSucceeds(c, n)
               [] x = "gone"  -> /\ ~hub.has
                                 /\ c.type # "workflow.create"
                                 /\ UNCHANGED hub
               [] x = "other" -> /\ HubRefuses \/ (hub.has /\ ~HubCan(c))
                                 /\ hub.has \/ c.type = "workflow.create"
                                 /\ UNCHANGED hub
          /\ reports' = reports \cup {[n |-> n, error |-> x]}
          /\ \/ UNCHANGED outbox
             \/ /\ Len(outbox) < MaxEvents
                /\ outbox' = Append(outbox, [kind |-> "ack", n |-> n, error |-> x])
    BY DEF HubApply
  <2> QED BY <2>1 DEF Errors
<1> DEFINE r == [n |-> n, error |-> error]
<1>3. UNCHANGED <<queue, stored, status>>
  BY <1>1 DEF server
<1>4. c \in Commands /\ n \in Nat
  BY CommandTyped DEF IInv
<1>5. outbox' \in Seq(Sent) /\ DOMAIN outbox \subseteq DOMAIN outbox'
      /\ \A e \in DOMAIN outbox' : \/ e \in DOMAIN outbox /\ outbox'[e] = outbox[e]
                                   \/ outbox'[e] = [kind |-> "ack", n |-> n, error |-> error]
  <2> DEFINE ack == [kind |-> "ack", n |-> n, error |-> error]
  <2>1. ack \in Sent
    BY <1>4 DEF Sent
  <2>2. outbox' = outbox \/ outbox' = Append(outbox, ack)
    BY <1>2
  <2> HIDE DEF ack
  <2>3. /\ outbox' \in Seq(Sent) /\ DOMAIN outbox \subseteq DOMAIN outbox'
        /\ \A e \in DOMAIN outbox' : \/ e \in DOMAIN outbox /\ outbox'[e] = outbox[e]
                                     \/ outbox'[e] = ack
    <3>1. outbox \in Seq(Sent)
      BY DEF IInv, Typed
    <3>2. CASE outbox' = outbox
      BY <3>1, <3>2
    <3>3. CASE outbox' = Append(outbox, ack)
      BY <2>1, <3>1, <3>3
    <3> QED BY <2>2, <3>2, <3>3
  <2> QED BY <2>3 DEF ack
<1>6. /\ hub' \in [has : BOOLEAN, ver : [Keys -> Nat]]
      /\ hub'.has => hub.has \/ c.type = "workflow.create"
      /\ error = "none" /\ IsDelete(c) => ~hub'.has
      /\ error = "gone" => ~hub'.has
  <2>1. CASE error = "none"
    <3>1. HubSucceeds(c, n)
      BY <1>2, <2>1
    <3>2. hub \in [has : BOOLEAN, ver : [Keys -> Nat]]
      BY DEF IInv, Typed
    <3>3. c.type \in CommandTypes
      BY <1>4 DEF Commands
    <3>4. CASE c.type = "workflow.create"
      BY <2>1, <3>1, <3>2, <3>4 DEF HubSucceeds, IsDelete
    <3>5. CASE c.type = "workflow.delete"
      <4>1. hub' = [has |-> FALSE, ver |-> [k \in Keys |-> 0]]
        BY <3>1, <3>5 DEF HubSucceeds
      <4>2. hub' \in [has : BOOLEAN, ver : [Keys -> Nat]] /\ ~hub'.has
        BY <4>1
      <4> QED BY <2>1, <4>2
    <3>6. CASE c.type \notin {"workflow.create", "workflow.delete"}
      <4>1. PICK v \in Nat : hub' = [hub EXCEPT !.ver[c.key] = v]
        BY <1>4, <3>1, <3>3, <3>6 DEF HubSucceeds, CommandTypes
      <4>2. hub' \in [has : BOOLEAN, ver : [Keys -> Nat]] /\ hub'.has = hub.has
        BY <3>2, <4>1
      <4> QED BY <2>1, <3>6, <4>2 DEF IsDelete
    <3> QED BY <3>4, <3>5, <3>6
  <2>2. CASE error \in {"gone", "other"}
    BY <1>2, <2>2 DEF IInv, Typed
  <2> QED BY <2>1, <2>2 DEF Errors
<1>7. Typed'
  BY <1>2, <1>3, <1>5, <1>6 DEF IInv, Typed
<1>8. CreateIsFirst' /\ InOrder'
  BY <1>3 DEF IInv, CreateIsFirst, InOrder, InFlight
<1>9. ReportsKnown'
  <2>1. reports \subseteq reports' /\ r \in reports' /\ \A x \in reports' : x \in reports \/ x = r
    BY <1>2
  <2>2. \A x \in DOMAIN queue : ~InFlight(queue[x]) =>
          \E y \in reports' : y.n = x /\ (queue[x].status = "acked" => y.error = "none")
    BY <2>1 DEF IInv, ReportsKnown
  <2>3. \A x \in reports' : queue[x.n].status # "pending"
    BY <1>1, <2>1 DEF IInv, ReportsKnown
  <2>4. \A e \in DOMAIN outbox' : outbox'[e].kind = "ack" =>
          \E y \in reports' : y.n = outbox'[e].n /\ y.error = outbox'[e].error
    BY <1>5, <2>1 DEF IInv, ReportsKnown
  <2> QED BY <1>3, <2>2, <2>3, <2>4 DEF ReportsKnown, InFlight
<1>10. Farewells # {} => ~hub'.has
  <2> SUFFICES ASSUME Farewells # {} PROVE ~hub'.has
    OBVIOUS
  <2>1. ~hub.has
    BY DEF IInv, ForgottenOnReport
  <2>2. c.type # "workflow.create"
    <3>1. PICK x \in reports : TRUE
      BY DEF Farewells
    <3>2. x.n \in DOMAIN queue /\ x.n # n
      BY <1>1, <3>1, CommandTyped DEF IInv
    <3>3. n < x.n => ~InFlight(c)
      BY <3>1, ReportedInOrder
    <3>4. c.type = "workflow.create" => n < x.n
      BY <3>2, CommandTyped DEF IInv, CreateIsFirst
    <3> QED BY <1>1, <3>3, <3>4 DEF InFlight
  <2> QED BY <1>6, <2>1, <2>2
<1>11. Farewells \subseteq Farewells'
       /\ \A x \in Farewells' : x \in Farewells \/ (x = r /\ (error = "gone" \/ (error = "none" /\ IsDelete(c))))
  BY <1>2, <1>3 DEF Farewells, Farewell, IsDelete
<1>12. ForgottenOnReport'
  BY <1>3, <1>6, <1>10, <1>11 DEF IInv, ForgottenOnReport, Exists
<1> QED BY <1>7, <1>8, <1>9, <1>12 DEF IInv
(* Events of a workflow or a step change neither queue nor reports.        *)
LEMMA HubEmitsKeeps ==
  ASSUME IInv, NEW e \in Events, HubEmits(e)
  PROVE  IInv'
<1>1. /\ e.kind # "ack"
      /\ outbox' = Append(outbox, e)
      /\ UNCHANGED <<status, localId, steps, queue, hub, reports, stored>>
  BY DEF HubEmits
<1>2. e \in Sent /\ outbox \in Seq(Sent)
  BY DEF Sent, IInv, Typed
<1>3. /\ outbox' \in Seq(Sent) /\ DOMAIN outbox \subseteq DOMAIN outbox'
      /\ \A x \in DOMAIN outbox' : (x \in DOMAIN outbox /\ outbox'[x] = outbox[x]) \/ outbox'[x] = e
  BY <1>1, <1>2
<1>4. Typed'
  BY <1>1, <1>3 DEF IInv, Typed
<1>5. ReportsKnown'
  BY <1>1, <1>3 DEF IInv, ReportsKnown, InFlight
<1>6. Farewells' = Farewells
  BY <1>1 DEF Farewells, Farewell, IsDelete
<1> QED
  BY <1>1, <1>4, <1>5, <1>6
     DEF IInv, CreateIsFirst, InOrder, InFlight, ForgottenOnReport, Exists

(* Settling by a report, whatever the plan makes of it.                    *)
LEMMA SettleKeeps ==
  ASSUME IInv, NEW r \in reports,
         queue' = Settle(r),
         UNCHANGED <<hub, reports, outbox, stored>>,
         Exists' \/ ~Exists \/ Farewells # {}
  PROVE  IInv'
<1>1. CASE InFlight(queue[r.n])
  <2> DEFINE s == IF r.error = "none" THEN "acked" ELSE "failed"
  <2>1. s \in Statuses \ {"pending"} /\ s # "delivered" /\ (s = "acked" => r.error = "none")
    BY DEF Statuses
  <2>2. queue' = [queue EXCEPT ![r.n].status = s]
    BY <1>1 DEF Settle
  <2> HIDE DEF s
  <2> QED BY <2>1, <2>2, ReportedInOrder, QueueMoves
<1>2. CASE ~InFlight(queue[r.n])
  <2>1. UNCHANGED queue
    BY <1>2 DEF Settle
  <2> QED BY <2>1, PlanMoves DEF IInv, Typed
<1> QED BY <1>1, <1>2

(* A list forgets a workflow whose delete succeeded, or whose hub said in  *)
(* an event that it does not know it.                                      *)
LEMMA ListForgets ==
  ASSUME IInv, List
  PROVE  Exists' \/ ~Exists \/ Farewells # {}
<1>1. ASSUME DeleteIs({"acked"}) PROVE Farewells # {}
  <2>1. PICK n \in DOMAIN queue : IsDelete(queue[n]) /\ queue[n].status = "acked"
    BY <1>1 DEF DeleteIs
  <2>2. PICK r \in reports : r.n = n /\ r.error = "none"
    BY <2>1 DEF IInv, ReportsKnown, InFlight
  <2> QED BY <2>1, <2>2, FarewellReported
<1>2. ASSUME GoneReported PROVE Farewells # {}
  <2>1. PICK e \in DOMAIN outbox : outbox[e].kind = "ack" /\ outbox[e].error = "gone"
    BY <1>2 DEF GoneReported, IInv, Typed
  <2>2. PICK r \in reports : r.error = "gone"
    BY <2>1 DEF IInv, ReportsKnown
  <2> QED BY <2>2 DEF Farewells, Farewell
<1>3. CASE status = "deleting" /\ DeleteIs({"acked"})
  BY <1>1, <1>3
<1>4. CASE GoneReported
  BY <1>2, <1>4
<1>5. CASE ~(status = "deleting" /\ DeleteIs({"acked"})) /\ ~GoneReported
  <2>1. Revert(queue) \/ UNCHANGED status
    BY <1>5 DEF List
  <2> QED BY <2>1 DEF Revert, Exists
<1> QED BY <1>3, <1>4, <1>5

(* Every step of Next keeps the invariant. *)
LEMMA NextInv == IInv /\ [Next]_vars => IInv'
<1> SUFFICES ASSUME IInv, [Next]_vars PROVE IInv'
  OBVIOUS
<1>t. stored \subseteq DOMAIN outbox
  BY DEF IInv, Typed
<1>a. ASSUME NEW type \in {"step.add", "step.edit", "step.remove", "workflow.delete"},
             NEW k \in Keys \cup {"none"}, Enqueue(type, k),
             Exists'
      PROVE  IInv'
  BY <1>a, CommandAdded DEF Enqueue, CommandTypes
<1>1. ASSUME NEW template \in Templates, Create(template) PROVE IInv'
  <2>1. template \in Seq(Keys) /\ CreateCommands(template) \in Seq(Commands)
        /\ Len(CreateCommands(template)) = Len(template) + 1
    BY CommandsOfTemplate
  <2> DEFINE m == Len(template) + 1
  <2>2. m \in 0 .. (Len(template) + 1)
    BY <2>1
  <2>3. CreateCommands(template) = SubSeq(CreateCommands(template), 1, m)
    BY <2>1
  <2> HIDE DEF m
  <2> QED BY <1>1, <2>2, <2>3, CreateKeeps DEF Create
<1>2. ASSUME NEW template \in Templates, NEW m \in 0 .. 2, NEW j \in 0 .. 1,
             CreateThenCrash(template, m, j)
      PROVE  IInv'
  BY <1>2, CreateKeeps DEF CreateThenCrash
<1>3. ASSUME NEW k \in Keys, AddStep(k) \/ EditStep(k) \/ RemoveStep(k) PROVE IInv'
  BY <1>3, <1>a DEF AddStep, EditStep, RemoveStep, Enqueue, Exists
<1>4. CASE Delete
  <2>1. Exists' \/ (queue # << >> /\ UNCHANGED status)
    BY <1>4 DEF Delete, Exists
  <2> QED BY <1>4, <2>1, CommandAdded DEF Delete, CommandTypes
<1>5. ASSUME NEW k \in Keys \cup {"none"},
             NEW type \in {"step.add", "step.edit", "step.remove", "workflow.delete"},
             EnqueueThenCrash(type, k)
      PROVE  IInv'
  BY <1>5, <1>a DEF EnqueueThenCrash, Enqueue, Exists
<1>6. CASE Detail
  BY <1>6, <1>t, PlanMoves DEF Detail, Exists
<1>7. CASE List
  BY <1>7, <1>t, PlanMoves, ListForgets DEF List
<1>8. ASSUME NEW n \in DOMAIN queue, Claim(n) PROVE IInv'
  <2>1. \A m \in DOMAIN queue : m < n => ~InFlight(queue[m])
    <3> SUFFICES ASSUME NEW m \in DOMAIN queue, m < n PROVE ~InFlight(queue[m])
      OBVIOUS
    <3>1. n \in Nat /\ m \in Nat /\ n - 1 \in DOMAIN queue /\ n > 1
      BY CommandTyped DEF IInv
    <3>2. ~InFlight(queue[n - 1])
      BY <1>8, <3>1 DEF Claim
    <3>3. m = n - 1 \/ m < n - 1
      BY <3>1
    <3> QED BY <3>1, <3>2, <3>3 DEF IInv, InOrder, InFlight
  <2>2. UNCHANGED status
    BY <1>8 DEF Claim
  <2> QED BY <1>8, <2>1, <2>2, QueueMoves DEF Claim, Statuses, Exists
<1>9. ASSUME NEW n \in DOMAIN queue, HubApply(n) PROVE IInv'
  BY <1>9, HubApplyKeeps
<1>10. ASSUME NEW e \in Events, HubEmits(e) PROVE IInv'
  BY <1>10, HubEmitsKeeps
<1>11. ASSUME NEW r \in reports, HandleAck(r) PROVE IInv'
  <2>1. Exists' \/ ~Exists \/ Farewells # {}
    <3>1. CASE queue[r.n].type = "workflow.create"
      BY <1>11, <3>1 DEF HandleAck, Exists
    <3>2. CASE ApplyAckToPlan(queue[r.n], r.error, queue')
      BY <3>2, AckForgets
    <3> QED BY <1>11, <3>1, <3>2 DEF HandleAck
  <2> QED BY <1>11, <2>1, SettleKeeps DEF HandleAck
<1>12. ASSUME NEW r \in reports, HandleAckThenCrash(r) PROVE IInv'
  BY <1>12, SettleKeeps DEF HandleAckThenCrash, Exists
<1>13. ASSUME NEW e \in DOMAIN outbox, HandleEvent(e) PROVE IInv'
  <2>1. Exists' \/ ~Exists \/ Farewells # {}
    <3>1. CASE UNCHANGED status
      BY <3>1 DEF Exists
    <3>2. CASE MirrorEvent(outbox[e])
      <4>1. outbox[e].kind \in {"workflow", "step", "ack"}
        BY DEF IInv, Typed, Sent, Events
      <4>2. CASE outbox[e].kind = "workflow"
        <5>1. outbox[e].to # "none"
          BY <4>2 DEF IInv, Typed, Sent, Events
        <5> QED BY <3>2, <4>2, <5>1 DEF MirrorEvent, Exists
      <4>3. CASE outbox[e].kind = "step"
        BY <3>2, <4>3 DEF MirrorEvent, Exists
      <4>4. CASE outbox[e].kind = "ack"
        <5>1. ApplyAckToPlan(queue[outbox[e].n], outbox[e].error, queue)
          BY <3>2, <4>4 DEF MirrorEvent
        <5>2. PICK r \in reports : r.n = outbox[e].n /\ r.error = outbox[e].error
          BY <4>4 DEF IInv, ReportsKnown
        <5> QED BY <5>1, <5>2, AckForgets
      <4> QED BY <4>1, <4>2, <4>3, <4>4
    <3> QED BY <1>13, <3>1, <3>2 DEF HandleEvent
  <2> QED BY <1>13, <1>t, <2>1, PlanMoves DEF HandleEvent
<1>14. ASSUME NEW e \in DOMAIN outbox, HandleEventThenCrash(e) PROVE IInv'
  BY <1>14, <1>t, PlanMoves DEF HandleEventThenCrash, Exists
<1>15. CASE UNCHANGED vars
  BY <1>15, <1>t, PlanMoves DEF vars, Exists
<1>16. CASE Operator
  BY <1>1, <1>2, <1>3, <1>4, <1>5, <1>6, <1>7, <1>16 DEF Operator
<1>17. CASE HubSide
  BY <1>8, <1>9, <1>10, <1>17 DEF HubSide, Deliver, LoseAnswer
<1>18. CASE SyncRoutes
  BY <1>11, <1>12, <1>13, <1>14, <1>18 DEF SyncRoutes
<1> QED BY <1>15, <1>16, <1>17, <1>18 DEF Next

-----------------------------------------------------------------------------
(* However deletes fail, are repeated or answered late, and wherever the   *)
(* server stops: it forgets a workflow only when the hub no longer has it, *)
(* and the hub does not get it back.                                       *)
THEOREM ForgottenStaysGone == Spec => []ForgottenMeansGone
<1>1. IInv => ForgottenMeansGone
  BY DEF IInv, ForgottenOnReport, ForgottenMeansGone
<1>2. IInv /\ [Next]_vars => IInv'
  BY NextInv
<1> QED BY InitInv, <1>1, <1>2, PTL DEF Spec
-----------------------------------------------------------------------------
(* The plan and the hub's copy of it, step by step.                        *)

Success(n) == \E r \in reports : r.n = n /\ r.error = "none"
IsOn(n, k) == queue[n].key = k

(* A step has a key, nothing else has.                                     *)
KeysOfSteps ==
  \A n \in DOMAIN queue :
    queue[n].key = "none" <=> queue[n].type \in {"workflow.create", "workflow.delete"}

(* No step is in the plan without a command that put it there.             *)
PlannedByCommand ==
  \A k \in Keys : Planned(k) => \E n \in DOMAIN queue : IsOn(n, k)

(* The hub has a step as the last command it accepted for it left it, as   *)
(* long as it accepted no delete.                                          *)
LastSuccess(n, k) ==
  /\ IsOn(n, k) /\ Success(n)
  /\ \A m \in DOMAIN queue : (m > n /\ IsOn(m, k)) => ~Success(m)

HubFollows ==
  \A k \in Keys :
    \/ \E n \in DOMAIN queue : IsDelete(queue[n]) /\ Success(n)
    \/ /\ \A n \in DOMAIN queue :
            LastSuccess(n, k) => hub.ver[k] = IF queue[n].type = "step.remove" THEN 0 ELSE n
       /\ (\A n \in DOMAIN queue : IsOn(n, k) => ~Success(n)) => hub.ver[k] = 0

(* Types, as tight as TypeOK.                                              *)
TightTypes ==
  /\ status \in {"none", "pending", "draft", "running", "completed", "deleting"}
  /\ localId \in BOOLEAN
  /\ steps \in [Keys -> StepRows \cup {NoStep}]
  /\ Len(queue) <= MaxCommands
  /\ hub.ver \in [Keys -> 0 .. MaxCommands]
  /\ \A e \in DOMAIN outbox : outbox[e] \in Events

PInv == TightTypes /\ KeysOfSteps /\ PlannedByCommand /\ HubFollows

(* The rows of the plan keep their types and no step comes into it.        *)
StepsKept ==
  /\ steps' \in [Keys -> StepRows \cup {NoStep}]
  /\ \A k \in Keys : steps'[k] # NoStep => steps[k] # NoStep

(* NoStep is not a row. *)
LEMMA NoStepIsNoRow == NoStep \notin StepRows
BY DEF NoStep, StepRows

(* A read refreshes rows, it adds and removes none.                        *)
LEMMA RefreshKeeps ==
  ASSUME TightTypes, NEW q, steps' = Refresh(q, steps)
  PROVE  StepsKept
<1>1. ASSUME NEW k \in Keys
      PROVE  /\ Refresh(q, steps)[k] \in StepRows \cup {NoStep}
             /\ Refresh(q, steps)[k] # NoStep => steps[k] # NoStep
  <2> DEFINE b == /\ ~HasStepWrite(q, k, {"pending", "delivered"})
                  /\ steps[k].onClient \/ HasStepWrite(q, k, {"acked"})
  <2>1. CASE steps[k] = NoStep
    BY <2>1 DEF Refresh
  <2>2. CASE steps[k] # NoStep
    <3>1. steps[k] \in StepRows
      BY <2>2 DEF TightTypes
    <3>2. Refresh(q, steps)[k] = [steps[k] EXCEPT !.onClient = b]
      BY <2>2 DEF Refresh
    <3>3. b \in BOOLEAN
      OBVIOUS
    <3> HIDE DEF b
    <3> QED BY <2>2, <3>1, <3>2, <3>3 DEF StepRows
  <2> QED BY <2>1, <2>2
<1>2. Refresh(q, steps) = [k \in Keys |-> Refresh(q, steps)[k]]
  BY DEF Refresh
<1> QED BY <1>1, <1>2 DEF StepsKept

(* Marking a step as on the client, or not.                                *)
LEMMA MarkKeeps ==
  ASSUME TightTypes, NEW k \in Keys, steps' = Mark(steps, k) \/ UNCHANGED steps
  PROVE  StepsKept
<1>1. CASE UNCHANGED steps
  BY <1>1 DEF TightTypes, StepsKept
<1>2. CASE steps[k] # NoStep /\ steps' = [steps EXCEPT ![k].onClient = TRUE]
  <2> DEFINE row == [steps[k] EXCEPT !.onClient = TRUE]
  <2>1. steps[k] \in StepRows
    BY <1>2 DEF TightTypes
  <2>2. row \in StepRows
    BY <2>1 DEF StepRows
  <2>3. steps' = [steps EXCEPT ![k] = row]
    BY <1>2
  <2> HIDE DEF row
  <2> QED BY <1>2, <2>2, <2>3 DEF TightTypes, StepsKept
<1> QED BY <1>1, <1>2 DEF Mark

(* The whole plan may go.                                                  *)
LEMMA RemoveKeeps ==
  ASSUME Remove
  PROVE  /\ StepsKept
         /\ localId' \in BOOLEAN
         /\ status' = "none"
BY DEF Remove, StepsKept

(* A delete that was refused: the plan is as a read would leave it.        *)
LEMMA RevertKeeps ==
  ASSUME TightTypes, NEW q, Revert(q)
  PROVE  /\ StepsKept
         /\ localId' \in BOOLEAN
         /\ status' \in {"none", "pending", "draft", "running", "completed", "deleting"}
<1>1. CASE status = "deleting"
  <2>1. steps' = Refresh(q, steps)
    BY <1>1 DEF Revert
  <2> QED BY <1>1, <2>1, RefreshKeeps DEF Revert, TightTypes
<1>2. CASE status # "deleting"
  BY <1>2 DEF Revert, TightTypes, StepsKept
<1> QED BY <1>1, <1>2

(* What an acknowledgement does to the plan.                               *)
LEMMA AckKeeps ==
  ASSUME TightTypes, KeysOfSteps, Typed, NEW n \in DOMAIN queue, NEW error, NEW q,
         ApplyAckToPlan(queue[n], error, q)
  PROVE  /\ StepsKept
         /\ localId' \in BOOLEAN
         /\ status' \in {"none", "pending", "draft", "running", "completed", "deleting"}
<1>1. CASE IsDelete(queue[n]) /\ error \in {"none", "gone"}
  BY <1>1, RemoveKeeps DEF ApplyAckToPlan
<1>2. CASE IsDelete(queue[n]) /\ error \notin {"none", "gone"}
  BY <1>2, RevertKeeps DEF ApplyAckToPlan
<1>3. CASE ~IsDelete(queue[n])
  <2>1. UNCHANGED <<status, localId>>
    BY <1>3 DEF ApplyAckToPlan
  <2>2. CASE UNCHANGED steps
    BY <2>1, <2>2 DEF TightTypes, StepsKept
  <2>3. CASE steps' = Mark(steps, queue[n].key) /\ \E k \in Keys : IsStepWrite(queue[n], k)
    <3>1. queue[n].key \in Keys
      BY <2>3 DEF IsStepWrite
    <3> QED BY <2>1, <2>3, <3>1, MarkKeeps DEF TightTypes
  <2> QED BY <1>3, <2>2, <2>3 DEF ApplyAckToPlan
<1> QED BY <1>1, <1>2, <1>3

-----------------------------------------------------------------------------
(* A step of server or hub that adds no command and no report.             *)
LEMMA PlanSettles ==
  ASSUME PInv,
         DOMAIN queue' = DOMAIN queue,
         Len(queue') = Len(queue),
         \A n \in DOMAIN queue : queue'[n].type = queue[n].type /\ queue'[n].key = queue[n].key,
         UNCHANGED <<hub, reports>>,
         \A e \in DOMAIN outbox' : outbox'[e] \in Events,
         StepsKept,
         localId' \in BOOLEAN,
         status' \in {"none", "pending", "draft", "running", "completed", "deleting"}
  PROVE  PInv'
<1>1. TightTypes'
  BY DEF PInv, TightTypes, StepsKept
<1>2. KeysOfSteps'
  BY DEF PInv, KeysOfSteps
<1>3. PlannedByCommand'
  BY DEF PInv, PlannedByCommand, StepsKept, Planned, IsOn
<1>4. /\ \A n \in DOMAIN queue : IsDelete(queue[n])' <=> IsDelete(queue[n])
      /\ \A n : Success(n)' <=> Success(n)
      /\ \A n \in DOMAIN queue, k \in Keys : IsOn(n, k)' <=> IsOn(n, k)
  BY DEF IsDelete, Success, IsOn
<1>5. \A n \in DOMAIN queue, k \in Keys : LastSuccess(n, k)' <=> LastSuccess(n, k)
  BY <1>4 DEF LastSuccess
<1>6. HubFollows'
  BY <1>4, <1>5 DEF PInv, HubFollows
<1> QED BY <1>1, <1>2, <1>3, <1>6 DEF PInv

(* One more command, after which its step may be in the plan.              *)
LEMMA PlanGrows ==
  ASSUME IInv, PInv,
         NEW type \in CommandTypes, NEW k \in Keys \cup {"none"},
         k = "none" <=> type \in {"workflow.create", "workflow.delete"},
         HasRoom,
         queue' = Append(queue, Command(type, k)),
         UNCHANGED <<hub, reports, outbox, localId>>,
         steps' \in [Keys -> StepRows \cup {NoStep}],
         \A j \in Keys : steps'[j] # NoStep => steps[j] # NoStep \/ j = k,
         status' \in {"none", "pending", "draft", "running", "completed", "deleting"}
  PROVE  PInv'
<1> DEFINE c == Command(type, k)
<1>0. PICK new \in Nat : new = Len(queue) + 1
  BY CommandTyped DEF IInv
<1>1. c \in Commands /\ c.type = type /\ c.key = k
  BY DEF Command, Commands, Statuses
<1> HIDE DEF c
<1>2. queue' = Append(queue, c)
  BY DEF c
<1>3. /\ Len(queue') = new
      /\ DOMAIN queue' = DOMAIN queue \cup {new}
      /\ queue'[new] = c
      /\ new \notin DOMAIN queue
      /\ \A n \in DOMAIN queue : queue'[n] = queue[n]
  BY <1>0, <1>1, <1>2, CommandTyped DEF IInv, Typed
<1>4. \A r \in reports : r.n \in DOMAIN queue
  BY CommandTyped DEF IInv
<1>5. TightTypes'
  BY <1>0, <1>3, CommandTyped, BoundAssumption DEF PInv, TightTypes, HasRoom, IInv
<1>6. KeysOfSteps'
  BY <1>1, <1>3 DEF PInv, KeysOfSteps
<1>7. PlannedByCommand'
  BY <1>1, <1>3 DEF PInv, PlannedByCommand, Planned, IsOn
<1>8. /\ \A n \in DOMAIN queue : IsDelete(queue[n])' <=> IsDelete(queue[n])
      /\ \A n : Success(n)' <=> Success(n)
      /\ ~Success(new)
      /\ \A n \in DOMAIN queue, j \in Keys : IsOn(n, j)' <=> IsOn(n, j)
  BY <1>3, <1>4 DEF IsDelete, Success, IsOn
<1>9. /\ \A n \in DOMAIN queue, j \in Keys : LastSuccess(n, j)' => LastSuccess(n, j)
      /\ \A j \in Keys : ~LastSuccess(new, j)'
  <2>1. ASSUME NEW n \in DOMAIN queue, NEW j \in Keys, LastSuccess(n, j)'
        PROVE  LastSuccess(n, j)
    <3>1. IsOn(n, j)' /\ Success(n)' /\ \A m \in DOMAIN queue' : m > n /\ IsOn(m, j)' => ~Success(m)'
      BY <2>1 DEF LastSuccess
    <3>2. \A m \in DOMAIN queue : m > n /\ IsOn(m, j) => ~Success(m)
      BY <1>3, <1>8, <3>1
    <3> QED BY <1>8, <3>1, <3>2 DEF LastSuccess
  <2>2. ASSUME NEW j \in Keys PROVE ~LastSuccess(new, j)'
    BY <1>8 DEF LastSuccess
  <2> QED BY <2>1, <2>2
<1>10. HubFollows'
  <2> SUFFICES ASSUME NEW j \in Keys,
                      \A n \in DOMAIN queue : ~(IsDelete(queue[n]) /\ Success(n))
               PROVE  /\ \A n \in DOMAIN queue' :
                           LastSuccess(n, j)' =>
                             hub'.ver[j] = IF queue'[n].type = "step.remove" THEN 0 ELSE n
                      /\ (\A n \in DOMAIN queue' : IsOn(n, j)' => ~Success(n)') => hub'.ver[j] = 0
    BY <1>3, <1>8 DEF HubFollows
  <2>1. ASSUME NEW n \in DOMAIN queue', LastSuccess(n, j)'
        PROVE  hub'.ver[j] = IF queue'[n].type = "step.remove" THEN 0 ELSE n
    <3>1. n \in DOMAIN queue /\ LastSuccess(n, j)
      BY <1>3, <1>9, <2>1
    <3> QED BY <1>3, <3>1 DEF PInv, HubFollows
  <2>2. ASSUME \A n \in DOMAIN queue' : IsOn(n, j)' => ~Success(n)'
        PROVE  hub'.ver[j] = 0
    <3>1. \A n \in DOMAIN queue : IsOn(n, j) => ~Success(n)
      BY <1>3, <1>8, <2>2
    <3> QED BY <3>1 DEF PInv, HubFollows
  <2> QED BY <2>1, <2>2
<1> QED BY <1>5, <1>6, <1>7, <1>10 DEF PInv

(* A new row mirrors only steps whose command is queued.                   *)
LEMMA CreatePlans ==
  ASSUME IInv, PInv, NewRow, NEW template \in Templates, Len(template) < MaxCommands,
         NEW m \in 0 .. (Len(template) + 1), NEW count \in 0 .. Len(template), count < m \/ count = 0,
         queue' = SubSeq(CreateCommands(template), 1, m),
         steps' = MirrorOf(template, count)
  PROVE  PInv'
<1> DEFINE all == CreateCommands(template)
<1>1. UNCHANGED <<localId, hub, reports, outbox>> /\ status' = "pending" /\ queue = << >>
  BY DEF NewRow
<1>2. reports = {}
  BY <1>1, CommandTyped DEF IInv
<1>3. template \in Seq(Keys) /\ Len(template) \in 0 .. 1 /\ all \in Seq(Commands)
      /\ Len(all) = Len(template) + 1
  BY CommandsOfTemplate
<1>4. /\ all[1].type = "workflow.create" /\ all[1].key = "none"
      /\ \A i \in 1 .. Len(template) : all[i + 1].type = "step.add" /\ all[i + 1].key = template[i]
  <2> DEFINE first == Command("workflow.create", "none")
             rest == [i \in DOMAIN template |-> Command("step.add", template[i])]
  <2>1. \A k \in Keys : Command("step.add", k) \in Commands
    BY DEF Command, Commands, CommandTypes, Statuses
  <2>2. \A i \in 1 .. Len(template) : rest[i].type = "step.add" /\ rest[i].key = template[i]
    BY <1>3 DEF Command
  <2>3. first.type = "workflow.create" /\ first.key = "none" /\ first \in Commands
    BY DEF Command, Commands, CommandTypes, Statuses
  <2>4. rest \in Seq(Commands) /\ Len(rest) = Len(template)
    <3>1. rest \in [1 .. Len(template) -> Commands]
      BY <1>3, <2>1
    <3> QED BY <1>3, <3>1
  <2>5. all = <<first>> \o rest
    BY DEF CreateCommands
  <2> HIDE DEF first, rest, all
  <2>6. all[1] = first /\ \A i \in 1 .. Len(template) : all[i + 1] = rest[i]
    BY <1>3, <2>3, <2>4, <2>5
  <2> QED BY <2>2, <2>3, <2>6
<1> HIDE DEF all
<1>5. /\ queue' \in Seq(Commands)
      /\ Len(queue') = m
      /\ DOMAIN queue' = 1 .. m
      /\ \A n \in 1 .. m : queue'[n] = all[n]
  <2>1. queue' = SubSeq(all, 1, m)
    BY DEF all
  <2> QED BY <1>3, <2>1
<1>6. \A n \in 2 .. m : \E i \in 1 .. Len(template) : n = i + 1
  <2> SUFFICES ASSUME NEW n \in 2 .. m PROVE n - 1 \in 1 .. Len(template) /\ n = (n - 1) + 1
    OBVIOUS
  <2> QED BY <1>3
<1>7. KeysOfSteps'
  <2> SUFFICES ASSUME NEW n \in 1 .. m
               PROVE  all[n].key = "none" <=> all[n].type \in {"workflow.create", "workflow.delete"}
    BY <1>5 DEF KeysOfSteps
  <2>1. CASE n = 1
    BY <1>4, <2>1
  <2>2. CASE n # 1
    <3>1. PICK i \in 1 .. Len(template) : n = i + 1
      BY <1>3, <1>6, <2>2
    <3>2. template[i] \in Keys
      BY <1>3
    <3> QED BY <1>4, <3>1, <3>2, KeyAssumption
  <2> QED BY <2>1, <2>2
<1>8. \A k \in Keys : /\ steps'[k] \in StepRows \cup {NoStep}
                      /\ steps'[k] # NoStep => \E i \in 1 .. count : template[i] = k
  <2> SUFFICES ASSUME NEW k \in Keys, steps'[k] # NoStep
               PROVE  steps'[k] \in StepRows /\ \E i \in 1 .. count : template[i] = k
    OBVIOUS
  <2>1. /\ \E i \in 1 .. count : template[i] = k
        /\ steps'[k] = [ver |-> 1 + CHOOSE i \in 1 .. count : template[i] = k,
                        st |-> "pending", onClient |-> FALSE]
    BY DEF MirrorOf
  <2>2. PICK i \in 1 .. count : i = CHOOSE j \in 1 .. count : template[j] = k
    BY <2>1
  <2>3. 1 + i \in 1 .. MaxCommands
    BY <1>3, <2>2, BoundAssumption
  <2> QED BY <2>1, <2>2, <2>3 DEF StepRows
<1>9. TightTypes'
  <2>1. steps' \in [Keys -> StepRows \cup {NoStep}]
    BY <1>8 DEF MirrorOf
  <2>2. m <= MaxCommands
    BY <1>3, BoundAssumption
  <2> QED BY <1>1, <1>5, <2>1, <2>2 DEF PInv, TightTypes
<1>10. PlannedByCommand'
  <2> SUFFICES ASSUME NEW k \in Keys, steps'[k] # NoStep
               PROVE  \E n \in 1 .. m : queue'[n].key = k
    BY <1>5 DEF PlannedByCommand, Planned, IsOn
  <2>1. PICK i \in 1 .. count : template[i] = k
    BY <1>8
  <2>2. i + 1 \in 1 .. m /\ i \in 1 .. Len(template)
    BY <1>3, <2>1
  <2> QED BY <1>4, <1>5, <2>1, <2>2
<1>11. HubFollows'
  <2>1. \A n : ~Success(n)'
    BY <1>1, <1>2 DEF Success
  <2>2. \A k \in Keys : hub'.ver[k] = 0
    BY <1>1, <1>2 DEF PInv, HubFollows, Success
  <2> QED BY <2>1, <2>2 DEF HubFollows, LastSuccess
<1> QED BY <1>7, <1>9, <1>10, <1>11 DEF PInv

(* The hub works on the last command it was handed, so that what it now    *)
(* has of that step is what the command says, and nothing else changes.    *)
LEMMA HubApplyFollows ==
  ASSUME IInv, PInv, NEW n \in DOMAIN queue, HubApply(n)
  PROVE  PInv'
<1> DEFINE c == queue[n]
<1>1. /\ c.status = "delivered"
      /\ \A r \in reports : r.n # n
      /\ UNCHANGED server
  BY DEF HubApply
<1>2. PICK error \in Errors :
        /\ error = "none" => HubSucceeds(c, n)
        /\ error # "none" => UNCHANGED hub
        /\ reports' = reports \cup {[n |-> n, error |-> error]}
        /\ \/ UNCHANGED outbox
           \/ outbox' = Append(outbox, [kind |-> "ack", n |-> n, error |-> error])
  <2>1. PICK x \in Errors :
          /\ CASE x = "none"  -> HubCan(c) /\ HubSucceeds(c, n)
               [] x = "gone"  -> /\ ~hub.has
                                 /\ c.type # "workflow.create"
                                 /\ UNCHANGED hub
               [] x = "other" -> /\ HubRefuses \/ (hub.has /\ ~HubCan(c))
                                 /\ hub.has \/ c.type = "workflow.create"
                                 /\ UNCHANGED hub
          /\ reports' = reports \cup {[n |-> n, error |-> x]}
          /\ \/ UNCHANGED outbox
             \/ /\ Len(outbox) < MaxEvents
                /\ outbox' = Append(outbox, [kind |-> "ack", n |-> n, error |-> x])
    BY DEF HubApply
  <2> QED BY <2>1 DEF Errors
<1>3. UNCHANGED <<queue, stored, status, localId, steps>>
  BY <1>1 DEF server
<1>4. /\ c \in Commands /\ n \in 1 .. MaxCommands
      /\ hub \in [has : BOOLEAN, ver : [Keys -> 0 .. MaxCommands]]
      /\ outbox \in Seq(Sent)
  BY CommandTyped, BoundAssumption DEF IInv, Typed, PInv, TightTypes
<1>5. \A e \in DOMAIN outbox' : outbox'[e] \in Events
  <2> DEFINE ack == [kind |-> "ack", n |-> n, error |-> error]
  <2>1. ack \in Events
    BY <1>4 DEF Events
  <2>2. outbox' = outbox \/ outbox' = Append(outbox, ack)
    BY <1>2
  <2> HIDE DEF ack
  <2>3. ack \in Sent
    BY <2>1 DEF Sent
  <2> QED BY <1>4, <2>1, <2>2, <2>3 DEF PInv, TightTypes
<1>6. \A m \in DOMAIN queue : m > n => ~Success(m)
  <2> SUFFICES ASSUME NEW r \in reports, r.n > n PROVE FALSE
    BY DEF Success
  <2>1. r.n \in Nat /\ n \in Nat /\ r.n \in DOMAIN queue
    BY CommandTyped DEF IInv
  <2>2. ~InFlight(c)
    BY <2>1, ReportedInOrder
  <2> QED BY <1>1, <2>2 DEF InFlight
<1>7. \A m : Success(m)' <=> Success(m) \/ (m = n /\ error = "none")
  <2> DEFINE new == [n |-> n, error |-> error]
  <2>1. new.n = n /\ new.error = error /\ reports' = reports \cup {new}
    BY <1>2
  <2> HIDE DEF new
  <2>2. SUFFICES ASSUME NEW m
                 PROVE  (\E r \in reports' : r.n = m /\ r.error = "none")
                          <=> Success(m) \/ (m = n /\ error = "none")
    BY DEF Success
  <2> QED BY <2>1 DEF Success
<1>8. /\ \A m \in DOMAIN queue, k \in Keys : IsOn(m, k)' <=> IsOn(m, k)
      /\ \A m \in DOMAIN queue : IsDelete(queue[m])' <=> IsDelete(queue[m])
  BY <1>3 DEF IsOn, IsDelete
<1>9. KeysOfSteps' /\ PlannedByCommand'
  BY <1>3 DEF PInv, KeysOfSteps, PlannedByCommand, Planned, IsOn
<1>10. c.key = "none" <=> c.type \in {"workflow.create", "workflow.delete"}
  BY DEF PInv, KeysOfSteps
<1>11. CASE error # "none"
  <2>1. \A m \in DOMAIN queue, k \in Keys : LastSuccess(m, k)' <=> LastSuccess(m, k)
    BY <1>3, <1>7, <1>8, <1>11 DEF LastSuccess
  <2>2. HubFollows'
    BY <1>2, <1>3, <1>7, <1>8, <1>11, <2>1 DEF PInv, HubFollows
  <2>3. TightTypes'
    BY <1>2, <1>3, <1>5, <1>11 DEF PInv, TightTypes
  <2> QED BY <1>9, <2>2, <2>3 DEF PInv
<1>12. CASE error = "none" /\ c.type = "workflow.delete"
  <2>1. hub' = [has |-> FALSE, ver |-> [k \in Keys |-> 0]]
    BY <1>2, <1>12 DEF HubSucceeds
  <2>2. TightTypes'
    BY <1>3, <1>5, <2>1, BoundAssumption DEF PInv, TightTypes
  <2>3. IsDelete(c) /\ Success(n)'
    BY <1>7, <1>12 DEF IsDelete
  <2>4. HubFollows'
    BY <1>3, <2>3 DEF HubFollows
  <2> QED BY <1>9, <2>2, <2>4 DEF PInv
<1>13. CASE error = "none" /\ c.type # "workflow.delete"
  <2>1. /\ hub'.ver \in [Keys -> 0 .. MaxCommands]
        /\ \A k \in Keys : IF IsOn(n, k) THEN hub'.ver[k] = IF c.type = "step.remove" THEN 0 ELSE n
                           ELSE hub'.ver[k] = hub.ver[k]
    <3>1. CASE c.type = "workflow.create"
      <4>1. hub'.ver = hub.ver
        BY <1>2, <1>4, <1>13, <3>1 DEF HubSucceeds
      <4> QED BY <1>4, <1>10, <3>1, <4>1, KeyAssumption DEF IsOn
    <3>2. CASE c.type # "workflow.create"
      <4> DEFINE v == IF c.type = "step.remove" THEN 0 ELSE n
      <4>1. v \in 0 .. MaxCommands /\ c.key \in Keys
        BY <1>4, <1>10, <1>13, <3>2, BoundAssumption DEF Commands
      <4>2. hub' = [hub EXCEPT !.ver[c.key] = v]
        BY <1>2, <1>4, <1>13, <3>2 DEF HubSucceeds
      <4> HIDE DEF v
      <4>3. hub'.ver = [hub.ver EXCEPT ![c.key] = v]
        BY <1>4, <4>2
      <4>4. /\ hub'.ver \in [Keys -> 0 .. MaxCommands]
            /\ hub'.ver[c.key] = v
            /\ \A k \in Keys : k # c.key => hub'.ver[k] = hub.ver[k]
        BY <1>4, <4>1, <4>3
      <4> QED BY <4>4 DEF IsOn, v
    <3> QED BY <3>1, <3>2
  <2>2. TightTypes'
    BY <1>3, <1>5, <2>1 DEF PInv, TightTypes
  <2>3. ASSUME NEW k \in Keys, IsOn(n, k)
        PROVE  \A m \in DOMAIN queue : LastSuccess(m, k)' => m = n
    <3> SUFFICES ASSUME NEW m \in DOMAIN queue, LastSuccess(m, k)', m # n PROVE FALSE
      OBVIOUS
    <3>1. m \in Nat /\ n \in Nat
      BY CommandTyped DEF IInv
    <3>2. Success(m) /\ m < n
      BY <1>6, <1>7, <3>1 DEF LastSuccess
    <3>3. Success(n)' /\ IsOn(n, k)'
      BY <1>7, <1>8, <1>13, <2>3
    <3>4. ~Success(n)'
      BY <1>3, <3>1, <3>2, <3>3 DEF LastSuccess
    <3> QED BY <3>3, <3>4
  <2>4. ASSUME NEW k \in Keys, ~IsOn(n, k)
        PROVE  /\ \A m \in DOMAIN queue : LastSuccess(m, k)' => LastSuccess(m, k)
               /\ \A m \in DOMAIN queue : IsOn(m, k)' => m # n
    BY <1>3, <1>7, <1>8, <2>4 DEF LastSuccess
  <2>5. HubFollows'
    <3> SUFFICES ASSUME NEW k \in Keys,
                        \A m \in DOMAIN queue : ~(IsDelete(queue[m]) /\ Success(m)')
                 PROVE  /\ \A m \in DOMAIN queue :
                             LastSuccess(m, k)' =>
                               hub'.ver[k] = IF queue[m].type = "step.remove" THEN 0 ELSE m
                        /\ (\A m \in DOMAIN queue : IsOn(m, k)' => ~Success(m)') => hub'.ver[k] = 0
      BY <1>3 DEF HubFollows
    <3>1. CASE IsOn(n, k)
      BY <1>7, <1>8, <1>13, <2>1, <2>3, <3>1
    <3>2. CASE ~IsOn(n, k)
      <4>1. \A m \in DOMAIN queue : ~(IsDelete(queue[m]) /\ Success(m))
        BY <1>7
      <4> QED BY <1>7, <1>8, <2>1, <2>4, <3>2, <4>1 DEF PInv, HubFollows
    <3> QED BY <3>1, <3>2
  <2> QED BY <1>9, <2>2, <2>5 DEF PInv
<1> QED BY <1>11, <1>12, <1>13

(* Every step of Next keeps plan and hub in line. *)
LEMMA NextPlan == IInv /\ PInv /\ [Next]_vars => PInv'
<1> SUFFICES ASSUME IInv, PInv, [Next]_vars PROVE PInv'
  OBVIOUS
<1> DEFINE Stati == {"none", "pending", "draft", "running", "completed", "deleting"}
<1>t. /\ \A e \in DOMAIN outbox : outbox[e] \in Events
      /\ status \in Stati /\ localId \in BOOLEAN
      /\ steps \in [Keys -> StepRows \cup {NoStep}]
      /\ Typed
  BY DEF PInv, TightTypes, IInv
<1>s. UNCHANGED steps => StepsKept
  BY <1>t DEF StepsKept
<1>a. ASSUME UNCHANGED <<queue, hub, reports, outbox>>, StepsKept, localId' \in BOOLEAN, status' \in Stati
      PROVE  PInv'
  BY <1>a, <1>t, PlanSettles
<1>1. ASSUME NEW template \in Templates, Create(template) PROVE PInv'
  <2>1. Len(template) \in 0 .. 1
    BY CommandsOfTemplate
  <2> DEFINE m == Len(template) + 1
  <2>2. m \in 0 .. (Len(template) + 1) /\ Len(template) \in 0 .. Len(template) /\ Len(template) < m
    BY <2>1
  <2>3. CreateCommands(template) = SubSeq(CreateCommands(template), 1, m)
    BY CommandsOfTemplate
  <2> HIDE DEF m
  <2> QED BY <1>1, <2>2, <2>3, CreatePlans DEF Create
<1>2. ASSUME NEW template \in Templates, NEW m \in 0 .. 2, NEW j \in 0 .. 1,
             CreateThenCrash(template, m, j)
      PROVE  PInv'
  <2>1. m \in 0 .. (Len(template) + 1) /\ Len(template) \in 0 .. 1
    BY <1>2, CommandsOfTemplate DEF CreateThenCrash
  <2>2. j \in 0 .. Len(template) /\ (j < m \/ j = 0)
    BY <1>2, <2>1 DEF CreateThenCrash
  <2> QED BY <1>2, <2>1, <2>2, CreatePlans DEF CreateThenCrash
<1>e. ASSUME NEW type \in {"step.add", "step.edit", "step.remove"}, NEW k \in Keys, Enqueue(type, k),
             UNCHANGED status,
             NEW row \in StepRows \cup {NoStep}, steps' = [steps EXCEPT ![k] = row] \/ UNCHANGED steps
      PROVE  PInv'
  <2>1. k # "none" /\ type \in CommandTypes
    BY KeyAssumption DEF CommandTypes
  <2>2. /\ steps' \in [Keys -> StepRows \cup {NoStep}]
        /\ \A j \in Keys : steps'[j] # NoStep => steps[j] # NoStep \/ j = k
    BY <1>e, <1>t
  <2> QED BY <1>e, <1>t, <2>1, <2>2, PlanGrows DEF Enqueue
<1>n. HasRoom => NextSequence \in 1 .. MaxCommands
  BY CommandTyped, BoundAssumption DEF HasRoom, NextSequence, IInv
<1>3. ASSUME NEW k \in Keys, AddStep(k) PROVE PInv'
  <2> DEFINE row == [ver |-> NextSequence, st |-> "pending", onClient |-> steps[k].onClient]
  <2>1. steps[k].onClient \in BOOLEAN
    <3>1. NoStep.onClient \in BOOLEAN /\ \A x \in StepRows : x.onClient \in BOOLEAN
      BY DEF NoStep, StepRows
    <3> QED BY <1>t, <3>1
  <2>2. row \in StepRows
    BY <1>3, <1>n, <2>1 DEF AddStep, Enqueue, StepRows
  <2>3. steps' = [steps EXCEPT ![k] = row]
    BY <1>3 DEF AddStep
  <2> HIDE DEF row
  <2> QED BY <1>3, <1>e, <2>2, <2>3 DEF AddStep
<1>4. ASSUME NEW k \in Keys, EditStep(k) PROVE PInv'
  <2>1. CASE Planned(k)
    <3> DEFINE row == [steps[k] EXCEPT !.ver = NextSequence, !.onClient = FALSE]
    <3>1. steps[k] \in StepRows
      BY <1>t, <2>1 DEF Planned
    <3>2. row \in StepRows
      BY <1>4, <1>n, <3>1 DEF EditStep, Enqueue, StepRows
    <3>3. steps' = [steps EXCEPT ![k] = row]
      BY <1>4, <2>1 DEF EditStep
    <3> HIDE DEF row
    <3> QED BY <1>4, <1>e, <3>2, <3>3 DEF EditStep
  <2>2. CASE ~Planned(k)
    BY <1>4, <1>e, <2>2 DEF EditStep
  <2> QED BY <2>1, <2>2
<1>5. ASSUME NEW k \in Keys, RemoveStep(k) PROVE PInv'
  BY <1>5, <1>e DEF RemoveStep
<1>6. CASE Delete
  <2>1. status' \in Stati
    BY <1>6, <1>t DEF Delete
  <2>2. "workflow.delete" \in CommandTypes
    BY DEF CommandTypes
  <2> QED BY <1>6, <1>t, <2>1, <2>2, PlanGrows DEF Delete
<1>7. ASSUME NEW k \in Keys, NEW type \in {"step.add", "step.edit", "step.remove"},
             EnqueueThenCrash(type, k)
      PROVE  PInv'
  BY <1>7, <1>e DEF EnqueueThenCrash
<1>8. CASE EnqueueThenCrash("workflow.delete", "none")
  <2>1. "workflow.delete" \in CommandTypes
    BY DEF CommandTypes
  <2> QED BY <1>8, <1>t, <2>1, PlanGrows DEF EnqueueThenCrash, Enqueue
<1>9. CASE Detail
  <2>1. StepsKept
    BY <1>9, RefreshKeeps DEF Detail, PInv
  <2> QED BY <1>9, <1>a, <1>t, <2>1 DEF Detail
<1>10. CASE List
  <2>1. \/ Remove
        \/ Revert(queue)
        \/ steps' = Refresh(queue, steps) /\ UNCHANGED <<status, localId>>
    BY <1>10 DEF List
  <2>2. StepsKept /\ localId' \in BOOLEAN /\ status' \in Stati
    BY <1>t, <2>1, RemoveKeeps, RevertKeeps, RefreshKeeps DEF PInv
  <2> QED BY <1>10, <1>a, <2>2 DEF List
<1>q. ASSUME NEW n \in DOMAIN queue, NEW st \in Statuses,
             queue' = [queue EXCEPT ![n].status = st] \/ UNCHANGED queue,
             UNCHANGED <<hub, reports, outbox>>, StepsKept, localId' \in BOOLEAN, status' \in Stati
      PROVE  PInv'
  <2>1. /\ DOMAIN queue' = DOMAIN queue
        /\ Len(queue') = Len(queue)
        /\ \A m \in DOMAIN queue : queue'[m].type = queue[m].type /\ queue'[m].key = queue[m].key
    <3>1. CASE UNCHANGED queue
      BY <3>1
    <3>2. CASE queue' = [queue EXCEPT ![n].status = st]
      <4>1. queue' \in Seq(Commands) /\ queue \in Seq(Commands) /\ DOMAIN queue' = DOMAIN queue
        BY <1>t, <3>2, StatusMoves DEF Typed
      <4> QED BY <1>t, <3>2, <4>1, StatusMoves
    <3> QED BY <1>q, <3>1, <3>2
  <2> QED BY <1>q, <1>t, <2>1, PlanSettles
<1>11. ASSUME NEW n \in DOMAIN queue, Claim(n) PROVE PInv'
  BY <1>11, <1>q, <1>s, <1>t DEF Claim, Statuses
<1>12. ASSUME NEW n \in DOMAIN queue, HubApply(n) PROVE PInv'
  BY <1>12, HubApplyFollows
<1>13. ASSUME NEW e \in Events, HubEmits(e) PROVE PInv'
  <2>1. e \in Sent /\ outbox \in Seq(Sent) /\ outbox' = Append(outbox, e)
    BY <1>13, <1>t DEF Sent, Typed, HubEmits
  <2>2. \A x \in DOMAIN outbox' : outbox'[x] \in Events
    BY <1>t, <2>1
  <2>3. UNCHANGED <<queue, hub, reports, steps, localId, status>>
    BY <1>13 DEF HubEmits
  <2> QED BY <1>s, <1>t, <2>2, <2>3, PlanSettles
<1>r. ASSUME NEW r \in reports, queue' = Settle(r), UNCHANGED <<hub, reports, outbox>>,
             StepsKept, localId' \in BOOLEAN, status' \in Stati
      PROVE  PInv'
  <2>1. r.n \in DOMAIN queue
    BY <1>t, CommandTyped
  <2> DEFINE st == IF r.error = "none" THEN "acked" ELSE "failed"
  <2>2. st \in Statuses /\ (queue' = [queue EXCEPT ![r.n].status = st] \/ UNCHANGED queue)
    BY <1>r DEF Settle, Statuses
  <2> HIDE DEF st
  <2> QED BY <1>q, <1>r, <2>1, <2>2
<1>14. ASSUME NEW r \in reports, HandleAck(r) PROVE PInv'
  <2>1. r.n \in DOMAIN queue
    BY <1>t, CommandTyped
  <2>2. StepsKept /\ localId' \in BOOLEAN /\ status' \in Stati
    <3>1. CASE queue[r.n].type = "workflow.create"
      BY <1>14, <1>s, <1>t, <3>1 DEF HandleAck
    <3>2. CASE queue[r.n].type # "workflow.create"
      <4>1. ApplyAckToPlan(queue[r.n], r.error, queue')
        BY <1>14, <3>2 DEF HandleAck
      <4> QED BY <1>t, <2>1, <4>1, AckKeeps DEF PInv
    <3> QED BY <3>1, <3>2
  <2> QED BY <1>14, <1>r, <2>2 DEF HandleAck
<1>15. ASSUME NEW r \in reports, HandleAckThenCrash(r) PROVE PInv'
  BY <1>15, <1>r, <1>s, <1>t DEF HandleAckThenCrash
<1>16. ASSUME NEW e \in DOMAIN outbox, HandleEvent(e) PROVE PInv'
  <2>1. StepsKept /\ localId' \in BOOLEAN /\ status' \in Stati
    <3>1. CASE UNCHANGED <<status, localId, steps>>
      BY <1>s, <1>t, <3>1
    <3>2. CASE MirrorEvent(outbox[e])
      <4>1. outbox[e] \in Events
        BY <1>t
      <4>2. CASE outbox[e].kind = "workflow"
        <5>1. outbox[e].to \in Stati
          BY <4>1, <4>2 DEF Events
        <5> QED BY <1>s, <1>t, <3>2, <4>2, <5>1 DEF MirrorEvent
      <4>3. CASE outbox[e].kind = "step"
        <5>1. outbox[e].key \in Keys /\ outbox[e].to \in Finished
          BY <4>1, <4>3 DEF Events
        <5>2. PICK k \in Keys, to \in Finished : k = outbox[e].key /\ to = outbox[e].to
          BY <5>1
        <5>3. StepsKept
          <6>1. CASE ~Planned(k)
            BY <1>s, <3>2, <4>3, <5>2, <6>1 DEF MirrorEvent
          <6>2. CASE Planned(k)
            <7> DEFINE row == [steps[k] EXCEPT !.st = to, !.onClient = TRUE]
            <7>1. steps[k] \in StepRows
              BY <1>t, <6>2 DEF Planned
            <7>2. row \in StepRows
              BY <7>1 DEF StepRows, Finished
            <7>3. steps' = [steps EXCEPT ![k] = row]
              BY <3>2, <4>3, <5>2, <6>2 DEF MirrorEvent
            <7> HIDE DEF row
            <7> QED BY <1>t, <6>2, <7>2, <7>3 DEF StepsKept, Planned
          <6> QED BY <6>1, <6>2
        <5> QED BY <1>t, <3>2, <4>3, <5>3 DEF MirrorEvent
      <4>4. CASE outbox[e].kind = "ack"
        <5>1. ApplyAckToPlan(queue[outbox[e].n], outbox[e].error, queue)
          BY <3>2, <4>4 DEF MirrorEvent
        <5>2. outbox[e].n \in DOMAIN queue
          BY <1>t, <4>4, CommandTyped DEF IInv, ReportsKnown
        <5> QED BY <1>t, <5>1, <5>2, AckKeeps DEF PInv
      <4> QED BY <4>1, <4>2, <4>3, <4>4 DEF Events
    <3> QED BY <1>16, <3>1, <3>2 DEF HandleEvent
  <2> QED BY <1>16, <1>a, <2>1 DEF HandleEvent
<1>17. ASSUME NEW e \in DOMAIN outbox, HandleEventThenCrash(e) PROVE PInv'
  BY <1>17, <1>a, <1>s, <1>t DEF HandleEventThenCrash
<1>18. CASE UNCHANGED vars
  BY <1>18, <1>a, <1>s, <1>t DEF vars
<1>19. CASE Operator
  BY <1>1, <1>2, <1>3, <1>4, <1>5, <1>6, <1>7, <1>8, <1>9, <1>10, <1>19 DEF Operator
<1>20. CASE HubSide
  BY <1>11, <1>12, <1>13, <1>20 DEF HubSide, Deliver, LoseAnswer
<1>21. CASE SyncRoutes
  BY <1>14, <1>15, <1>16, <1>17, <1>21 DEF SyncRoutes
<1> QED BY <1>18, <1>19, <1>20, <1>21 DEF Next

(* Both invariants hold in every behaviour. *)
THEOREM Invariance == Spec => [](IInv /\ PInv)
<1>1. Init => PInv
  <2> SUFFICES ASSUME Init PROVE PInv
    OBVIOUS
  <2>1. queue = << >> /\ reports = {} /\ outbox = << >> /\ \A k \in Keys : hub.ver[k] = 0 /\ ~Planned(k)
    BY DEF Init, Planned
  <2>2. hub.ver \in [Keys -> 0 .. MaxCommands] /\ Len(queue) <= MaxCommands
    BY <2>1, BoundAssumption DEF Init
  <2>3. steps \in [Keys -> StepRows \cup {NoStep}]
    BY DEF Init
  <2>4. status = "none" /\ localId = FALSE /\ \A e \in DOMAIN outbox : FALSE
    BY <2>1 DEF Init
  <2>5. TightTypes
    BY <2>2, <2>3, <2>4 DEF TightTypes
  <2> QED BY <2>1, <2>5 DEF PInv, KeysOfSteps, PlannedByCommand, HubFollows
<1>2. IInv /\ PInv /\ [Next]_vars => (IInv /\ PInv)'
  BY NextInv, NextPlan
<1> QED BY InitInv, <1>1, <1>2, PTL DEF Spec

-----------------------------------------------------------------------------
(* A command whose answer was lost stays handed out: nobody reports on it. *)
LostForGood ==
  /\ lost \subseteq DOMAIN queue
  /\ \A n \in lost : queue[n].status = "delivered" /\ \A r \in reports : r.n # n

LEMMA NextLost == IInv /\ LostForGood /\ [Next]_vars => LostForGood'
<1> SUFFICES ASSUME IInv, LostForGood, [Next]_vars PROVE LostForGood'
  OBVIOUS
<1>t. /\ queue \in Seq(Commands)
      /\ DOMAIN queue = 1 .. Len(queue) /\ Len(queue) \in Nat
      /\ lost \subseteq DOMAIN queue
      /\ \A n \in lost : n \in DOMAIN queue /\ queue[n].status = "delivered" /\ \A r \in reports : r.n # n
  BY CommandTyped DEF IInv, Typed, LostForGood
<1>1. ASSUME UNCHANGED <<queue, lost, reports>> PROVE LostForGood'
  BY <1>1 DEF LostForGood
<1>2. ASSUME NewRow, UNCHANGED <<lost, reports>> PROVE LostForGood'
  <2>1. lost = {}
    BY <1>2, <1>t DEF NewRow
  <2> QED BY <1>2, <2>1 DEF LostForGood
<1>3. ASSUME NEW c, queue' = Append(queue, c), UNCHANGED <<lost, reports>> PROVE LostForGood'
  <2>1. DOMAIN queue \subseteq DOMAIN queue' /\ \A n \in DOMAIN queue : queue'[n] = queue[n]
    BY <1>3, <1>t
  <2> QED BY <1>3, <1>t, <2>1 DEF LostForGood
<1>4. ASSUME NEW n \in DOMAIN queue, Deliver(n) \/ LoseAnswer(n) PROVE LostForGood'
  <2>1. /\ queue[n].status = "pending"
        /\ queue' = [queue EXCEPT ![n].status = "delivered"]
        /\ UNCHANGED reports
        /\ lost' = lost \/ lost' = lost \cup {n}
    BY <1>4 DEF Deliver, LoseAnswer, Claim
  <2>2. \A r \in reports : r.n # n
    BY <2>1 DEF IInv, ReportsKnown
  <2>3. /\ DOMAIN queue' = DOMAIN queue
        /\ queue'[n].status = "delivered"
        /\ \A m \in DOMAIN queue : m # n => queue'[m] = queue[m]
    BY <2>1, StatusMoves DEF IInv, Statuses
  <2> QED BY <1>t, <2>1, <2>2, <2>3 DEF LostForGood
<1>5. ASSUME NEW n \in DOMAIN queue, HubApply(n) PROVE LostForGood'
  <2>1. /\ n \notin lost
        /\ \E error \in Errors : reports' = reports \cup {[n |-> n, error |-> error]}
        /\ UNCHANGED <<queue, lost>>
    BY <1>5 DEF HubApply, server
  <2> QED BY <1>t, <2>1 DEF LostForGood
<1>6. ASSUME NEW r \in reports, queue' = Settle(r), UNCHANGED <<lost, reports>> PROVE LostForGood'
  <2>1. r.n \in DOMAIN queue /\ r.n \notin lost
    BY <1>t, CommandTyped DEF IInv
  <2>2. CASE queue' = queue
    BY <1>1, <1>6, <2>2
  <2>3. ASSUME NEW st \in Statuses, queue' = [queue EXCEPT ![r.n].status = st] PROVE LostForGood'
    <3>1. /\ DOMAIN queue' = DOMAIN queue
          /\ \A m \in DOMAIN queue : m # r.n => queue'[m] = queue[m]
      BY <2>1, <2>3, StatusMoves DEF IInv
    <3> QED BY <1>6, <1>t, <2>1, <3>1 DEF LostForGood
  <2> QED BY <1>6, <2>2, <2>3 DEF Settle, Statuses
<1>7. CASE Operator
  BY <1>1, <1>2, <1>3, <1>7
     DEF Operator, Create, CreateThenCrash, NewRow, AddStep, EditStep, RemoveStep, Enqueue,
         Delete, EnqueueThenCrash, Detail, List
<1>8. CASE HubSide
  BY <1>1, <1>4, <1>5, <1>8 DEF HubSide, HubEmits
<1>9. CASE SyncRoutes
  BY <1>1, <1>6, <1>9
     DEF SyncRoutes, HandleAck, HandleAckThenCrash, HandleEvent, HandleEventThenCrash
<1>10. CASE UNCHANGED vars
  BY <1>1, <1>10 DEF vars
<1> QED BY <1>7, <1>8, <1>9, <1>10 DEF Next

(* Behind such a command the channel stands still.                         *)
Jammed == \A n \in lost, m \in DOMAIN queue : n < m => queue[m].status = "pending"

(* No report and no read ever settles a command whose poll answer was      *)
(* lost, and no command behind it is ever handed out.                      *)
THEOREM LostStaysHandedOut == Spec => [](LostForGood /\ Jammed)
<1>1. Init => LostForGood
  BY DEF Init, LostForGood
<1>2. IInv /\ LostForGood /\ [Next]_vars => LostForGood'
  BY NextLost
<1>3. IInv /\ LostForGood => Jammed
  BY DEF IInv, InOrder, InFlight, LostForGood, Jammed
<1> QED BY Invariance, <1>1, <1>2, <1>3, PTL DEF Spec

-----------------------------------------------------------------------------
(* A bounded set of numbers has a greatest element.                        *)
LEMMA Greatest ==
  ASSUME NEW b \in Nat, NEW S \in SUBSET (0 .. b), S # {}
  PROVE  \E x \in S : \A y \in S : y <= x
<1> DEFINE T == {b - x : x \in S}
           R == OpToRel(<, Nat)
<1>1. T \subseteq Nat /\ T # {}
  <2>1. ASSUME NEW x \in S PROVE b - x \in Nat
    <3>1. x \in 0 .. b
      OBVIOUS
    <3> QED BY <3>1
  <2> QED BY <2>1
<1>2. IsWellFoundedOn(R, Nat)
  BY NatLessThanWellFounded
<1>3. PICK t \in T : \A y \in T : ~(<<y, t>> \in R)
  BY <1>1, <1>2, WFMin
<1>4. \A y \in T : ~(y < t)
  BY <1>1, <1>3 DEF OpToRel
<1>5. PICK x \in S : t = b - x
  BY <1>3
<1>6. ASSUME NEW y \in S PROVE y <= x
  <2>1. b - y \in T /\ x \in 0 .. b /\ y \in 0 .. b
    OBVIOUS
  <2>2. ~(b - y < b - x)
    BY <1>4, <1>5, <2>1
  <2> QED BY <2>1, <2>2
<1> QED BY <1>6

(* The last command for a step.                                            *)
Last(n, k) == IsOn(n, k) /\ \A m \in DOMAIN queue : m > n => ~IsOn(m, k)

(* A step that has commands has a last one.                                *)
LEMMA LastExists ==
  ASSUME IInv, NEW k \in Keys, \E n \in DOMAIN queue : IsOn(n, k)
  PROVE  \E n \in DOMAIN queue : Last(n, k)
<1> DEFINE S == {n \in DOMAIN queue : IsOn(n, k)}
<1>1. DOMAIN queue = 1 .. Len(queue) /\ Len(queue) \in Nat
  BY CommandTyped DEF IInv
<1>2. PICK b \in Nat : b = Len(queue)
  BY <1>1
<1>3. S \in SUBSET (0 .. b) /\ S # {}
  BY <1>1, <1>2
<1>4. PICK n \in S : \A y \in S : y <= n
  BY <1>2, <1>3, Greatest
<1>5. ASSUME NEW m \in DOMAIN queue, m > n PROVE ~IsOn(m, k)
  <2>1. m \notin S
    BY <1>1, <1>4, <1>5
  <2> QED BY <2>1
<1> QED BY <1>4, <1>5 DEF Last

(* The version the hub must have for a mirrored step whose last command it *)
(* accepted.                                                               *)
LEMMA LastAccepted ==
  ASSUME IInv, PInv, NEW k \in Keys, NEW n \in DOMAIN queue, Last(n, k), Success(n), Mirrored(k),
         \A m \in DOMAIN queue : ~(IsDelete(queue[m]) /\ Success(m))
  PROVE  hub.ver[k] = steps[k].ver
<1>1. steps[k].ver = IF queue[n].type = "step.remove" THEN 0 ELSE n
  BY DEF Last, Mirrored, IsOn
<1>2. LastSuccess(n, k)
  BY DEF Last, LastSuccess
<1> QED BY <1>1, <1>2 DEF PInv, HubFollows

(* What is acknowledged was accepted.                                      *)
LEMMA AckedIsSuccess ==
  ASSUME IInv, NEW n \in DOMAIN queue, queue[n].status = "acked"
  PROVE  Success(n)
BY DEF IInv, ReportsKnown, InFlight, Success

(* Every state is well typed.                                              *)
THEOREM TypeCorrect == Spec => []TypeOK
<1>1. IInv /\ PInv /\ LostForGood => TypeOK
  <2> SUFFICES ASSUME IInv, PInv, LostForGood PROVE TypeOK
    OBVIOUS
  <2>1. hub \in [has : BOOLEAN, ver : [Keys -> 0 .. MaxCommands]]
    BY DEF IInv, Typed, PInv, TightTypes
  <2>2. \A n \in DOMAIN queue : /\ queue[n].type \in CommandTypes
                                /\ queue[n].status \in {"pending", "delivered", "acked", "failed"}
    BY CommandTyped DEF IInv, Commands, Statuses
  <2> QED BY <2>1, <2>2 DEF IInv, Typed, PInv, TightTypes, LostForGood, TypeOK
<1> QED BY <1>1, Invariance, LostStaysHandedOut, PTL

(* Whatever order acknowledgements, events and reads come in, and wherever *)
(* the server stops: a step shown as on the client is there in the version *)
(* shown, unless a change to it was refused or never mirrored.             *)
THEOREM SyncedHolds == Spec => []SyncedIsTruthful
<1>1. IInv /\ PInv => SyncedIsTruthful
  <2> SUFFICES ASSUME IInv, PInv, NEW k \in Keys,
                      Planned(k), Shown(k), hub.has, Mirrored(k), ~Refused(k)
               PROVE  hub.ver[k] = steps[k].ver
    BY DEF SyncedIsTruthful
  <2>1. PICK n \in DOMAIN queue : Last(n, k)
    BY LastExists DEF PInv, PlannedByCommand
  <2>2. steps[k].ver # 0
    BY DEF PInv, TightTypes, Planned, StepRows
  <2>3. queue[n].type # "step.remove"
    BY <2>1, <2>2 DEF Last, Mirrored, IsOn
  <2>4. IsStepWrite(queue[n], k)
    <3>1. queue[n].key = k /\ k # "none" /\ queue[n].type \in CommandTypes
      BY <2>1, CommandTyped, KeyAssumption DEF Last, IsOn, IInv, Commands
    <3> QED BY <2>3, <3>1 DEF PInv, KeysOfSteps, IsStepWrite, CommandTypes
  <2>5. ~HasStepWrite(queue, k, {"pending", "delivered"})
    <3> DEFINE b == /\ ~HasStepWrite(queue, k, {"pending", "delivered"})
                    /\ steps[k].onClient \/ HasStepWrite(queue, k, {"acked"})
    <3>1. steps[k] \in StepRows /\ Refresh(queue, steps)[k] = [steps[k] EXCEPT !.onClient = b]
      BY DEF PInv, TightTypes, Planned, Refresh
    <3>2. b \in BOOLEAN
      OBVIOUS
    <3> HIDE DEF b
    <3>3. b
      BY <3>1, <3>2 DEF Shown, StepRows
    <3> QED BY <3>3 DEF b
  <2>6. queue[n].status = "acked"
    <3>1. queue[n].status \in Statuses
      BY CommandTyped DEF IInv, Commands
    <3>2. queue[n].status # "failed"
      BY <2>1 DEF Last, IsOn, Refused
    <3> QED BY <2>4, <2>5, <3>1, <3>2 DEF HasStepWrite, Statuses
  <2>7. \A m \in DOMAIN queue : ~(IsDelete(queue[m]) /\ Success(m))
    BY DEF IInv, ForgottenOnReport, Farewells, Farewell, Success
  <2> QED BY <2>1, <2>6, <2>7, AckedIsSuccess, LastAccepted
<1> QED BY <1>1, Invariance, PTL

(* When the hub has accepted every command, a workflow that is neither     *)
(* deleted nor forgotten is on the hub as the plan has it.                 *)
THEOREM ConvergedHolds == Spec => []Converged
<1>1. IInv /\ PInv => Converged
  <2> SUFFICES ASSUME IInv, PInv, \A n \in DOMAIN queue : queue[n].status = "acked",
                      ~DeleteIs({"acked"}), NEW k \in Keys, Mirrored(k)
               PROVE  hub.ver[k] = steps[k].ver
    BY DEF Converged
  <2>1. \A n \in DOMAIN queue : Success(n) /\ ~IsDelete(queue[n])
    BY AckedIsSuccess DEF DeleteIs
  <2>2. CASE \E n \in DOMAIN queue : IsOn(n, k)
    <3>1. PICK n \in DOMAIN queue : Last(n, k)
      BY <2>2, LastExists
    <3> QED BY <2>1, <3>1, LastAccepted
  <2>3. CASE \A n \in DOMAIN queue : ~IsOn(n, k)
    <3>1. steps[k].ver = 0
      BY <2>3 DEF PInv, PlannedByCommand, Planned, NoStep
    <3>2. hub.ver[k] = 0
      BY <2>1, <2>3 DEF PInv, HubFollows
    <3> QED BY <3>1, <3>2
  <2> QED BY <2>2, <2>3
<1> QED BY <1>1, Invariance, PTL

(* The safety half of DeleteResolves: only an answer of the hub to a       *)
(* delete takes the workflow out of deleting.                              *)
THEOREM DeleteAnsweredHolds == Spec => DeleteAnswered
<1> DEFINE Answered == \E r \in reports : IsDelete(queue[r.n])
<1>1. IInv /\ PInv /\ [Next]_vars => (status = "deleting" /\ status' # "deleting" => Answered)
  <2> SUFFICES ASSUME IInv, PInv, [Next]_vars, status = "deleting", status' # "deleting" PROVE Answered
    OBVIOUS
  <2>1. CASE List
    <3>1. DeleteIs({"acked"}) \/ DeleteIs({"failed"})
      BY <2>1 DEF List
    <3>2. PICK n \in DOMAIN queue : IsDelete(queue[n]) /\ queue[n].status \in {"acked", "failed"}
      BY <3>1 DEF DeleteIs
    <3>3. \E r \in reports : r.n = n
      BY <3>2 DEF IInv, ReportsKnown, InFlight
    <3> QED BY <3>2, <3>3
  <2>2. ASSUME NEW r \in reports, HandleAck(r) PROVE Answered
    <3> SUFFICES ASSUME ~IsDelete(queue[r.n]) PROVE FALSE
      OBVIOUS
    <3> QED BY <2>2 DEF HandleAck, ApplyAckToPlan
  <2>3. ASSUME NEW e \in DOMAIN outbox, HandleEvent(e) PROVE Answered
    <3>1. MirrorEvent(outbox[e]) /\ outbox[e] \in Events
      BY <2>3 DEF HandleEvent, PInv, TightTypes
    <3>2. outbox[e].kind = "ack"
      BY <3>1 DEF MirrorEvent, Events
    <3>3. PICK r \in reports : r.n = outbox[e].n
      BY <3>2 DEF IInv, ReportsKnown
    <3>4. ApplyAckToPlan(queue[r.n], outbox[e].error, queue)
      BY <3>1, <3>2, <3>3 DEF MirrorEvent
    <3>5. IsDelete(queue[r.n])
      BY <3>4 DEF ApplyAckToPlan
    <3> QED BY <3>5
  <2>4. CASE UNCHANGED vars
    BY <2>4 DEF vars
  <2>5. CASE Operator
    BY <2>1, <2>5 DEF Operator, Create, CreateThenCrash, NewRow, Exists, AddStep, EditStep,
                      RemoveStep, Delete, EnqueueThenCrash, Detail
  <2>6. CASE HubSide
    BY <2>6 DEF HubSide, Deliver, LoseAnswer, Claim, HubApply, HubEmits, server
  <2>7. CASE SyncRoutes
    BY <2>2, <2>3, <2>7 DEF SyncRoutes, HandleAckThenCrash, HandleEventThenCrash
  <2> QED BY <2>4, <2>5, <2>6, <2>7 DEF Next
<1> QED BY <1>1, Invariance, PTL DEF Spec, DeleteAnswered

-----------------------------------------------------------------------------
(***************************************************************************)
(* The drawing of a workflow (Canvas), for workflows of any number of      *)
(* steps: no two nodes of it overlap, and the loop of a judge back into    *)
(* its step runs in the gap below its row.                                 *)
(***************************************************************************)
(* Rows are 194 apart, the first of them below the context.                *)
LEMMA TopIs ==
  ASSUME NEW context \in BOOLEAN, NEW i \in Int
  PROVE  /\ top(context, i) \in Int
         /\ top(context, i) = (IF context THEN 166 ELSE 28) + 194 * (i - 1)
BY DEF top, CANVAS_PADDING, CONTEXT_CARD_HEIGHT, ROW_GAP, CARD_HEIGHT

(* The cards leave room for the boxes of whatever step delegates.          *)
LEMMA LeftIs ==
  ASSUME NEW tasks
  PROVE  /\ left(tasks) \in {28, 180}
         /\ \A i \in 1 .. Len(tasks) : usesSubagent(tasks[i]) => left(tasks) = 180
BY DEF left, lane, CANVAS_PADDING, SUBAGENT_WIDTH, SUBAGENT_GAP

(* The nodes of one row.                                                   *)
InRow(tasks, context, i, n) ==
  \/ n = StepCard(tasks, context, i)
  \/ usesSubagent(tasks[i]) /\ n = SubagentBox(tasks, context, i)
  \/ n = JudgeCircle(tasks, context, i)

(* A node of a row lies between the top and the bottom of its card.        *)
LEMMA RowHeight ==
  ASSUME NEW tasks, NEW context \in BOOLEAN, NEW i \in Int, NEW n, InRow(tasks, context, i, n)
  PROVE  /\ n.y \in Int /\ n.height \in Int
         /\ top(context, i) <= n.y /\ n.y + n.height <= top(context, i) + 132
<1>1. top(context, i) \in Int
  BY TopIs
<1>2. CASE n = StepCard(tasks, context, i)
  BY <1>1, <1>2 DEF StepCard, Node, CARD_HEIGHT
<1>3. CASE n = SubagentBox(tasks, context, i)
  <2>1. n.y = top(context, i) + (132 - 56) \div 2 /\ n.height = 56
    BY <1>3 DEF SubagentBox, Node, CARD_HEIGHT, SUBAGENT_HEIGHT
  <2>2. (132 - 56) \div 2 = 38
    OBVIOUS
  <2> QED BY <1>1, <2>1, <2>2
<1>4. CASE n = JudgeCircle(tasks, context, i)
  <2>1. n.y = top(context, i) + (132 - 72) \div 2 /\ n.height = 72
    BY <1>4 DEF JudgeCircle, Node, CARD_HEIGHT, JUDGE_SIZE
  <2>2. (132 - 72) \div 2 = 30
    OBVIOUS
  <2> QED BY <1>1, <2>1, <2>2
<1> QED BY <1>2, <1>3, <1>4 DEF InRow

(* Two nodes of one row keep to their columns.                             *)
LEMMA OneRow ==
  ASSUME NEW tasks, NEW context \in BOOLEAN, NEW i \in 1 .. Len(tasks), NEW m, NEW n,
         InRow(tasks, context, i, m), InRow(tasks, context, i, n), m # n
  PROVE  Apart(m, n)
<1> DEFINE Column(k) ==
      \/ k.x = left(tasks) /\ k.width = 264 /\ k = StepCard(tasks, context, i)
      \/ left(tasks) = 180 /\ k.x = 28 /\ k.width = 104 /\ k = SubagentBox(tasks, context, i)
      \/ k.x = left(tasks) + 328 /\ k.width = 72 /\ k = JudgeCircle(tasks, context, i)
<1>1. left(tasks) \in {28, 180}
  BY LeftIs
<1>2. usesSubagent(tasks[i]) => left(tasks) = 180
  BY LeftIs
<1>3. ASSUME NEW k, InRow(tasks, context, i, k) PROVE Column(k)
  <2>1. CASE k = StepCard(tasks, context, i)
    BY <2>1 DEF StepCard, Node, CARD_WIDTH
  <2>2. CASE usesSubagent(tasks[i]) /\ k = SubagentBox(tasks, context, i)
    BY <2>2, <1>2 DEF SubagentBox, Node, SUBAGENT_WIDTH, CANVAS_PADDING
  <2>3. CASE k = JudgeCircle(tasks, context, i)
    BY <2>3, <1>1 DEF JudgeCircle, Node, CARD_WIDTH, COLUMN_GAP, JUDGE_SIZE
  <2> QED BY <1>3, <2>1, <2>2, <2>3 DEF InRow
<1>4. Column(m) /\ Column(n)
  BY <1>3
<1> QED BY <1>1, <1>4 DEF Apart

(* A row is below every row before it.                                     *)
LEMMA TwoRows ==
  ASSUME NEW tasks, NEW context \in BOOLEAN, NEW i \in Int, NEW j \in Int, i < j, NEW m, NEW n,
         InRow(tasks, context, i, m), InRow(tasks, context, j, n)
  PROVE  Apart(m, n) /\ Apart(n, m)
<1>1. top(context, i) + 194 <= top(context, j)
  BY TopIs
<1>2. top(context, i) \in Int /\ top(context, j) \in Int
  BY TopIs
<1>3. m.y \in Int /\ m.height \in Int /\ m.y + m.height <= top(context, i) + 132
  BY RowHeight
<1>4. n.y \in Int /\ top(context, j) <= n.y
  BY RowHeight
<1>5. m.y + m.height <= n.y
  BY <1>1, <1>2, <1>3, <1>4
<1> QED BY <1>5 DEF Apart

(* The context is above every row.                                         *)
LEMMA ContextAbove ==
  ASSUME NEW tasks, NEW s, NEW i \in Int, i >= 1, NEW m, NEW n,
         m = ContextCard(tasks, s), InRow(tasks, TRUE, i, n)
  PROVE  Apart(m, n) /\ Apart(n, m)
<1>1. m.y = 28 /\ m.height = 76
  BY DEF ContextCard, Node, CANVAS_PADDING, CONTEXT_CARD_HEIGHT
<1>2. PICK t \in Int : t = top(TRUE, i)
  BY TopIs
<1>3. t = 166 + 194 * (i - 1)
  BY <1>2, TopIs
<1>4. 166 <= t
  BY <1>3
<1>5. PICK y \in Int : y = n.y /\ t <= y
  BY <1>2, RowHeight
<1>6. m.y + m.height <= n.y
  BY <1>1, <1>4, <1>5
<1> QED BY <1>6 DEF Apart

(* Every node is the context or belongs to a row.                          *)
LEMMA NodeOfRow ==
  ASSUME NEW drawn, NEW n \in nodes(drawn)
  PROVE  \/ hasContext(drawn) /\ n = ContextCard(taskSteps(drawn), contextStep(drawn))
         \/ \E i \in 1 .. Len(taskSteps(drawn)) :
              InRow(taskSteps(drawn), hasContext(drawn), i, n)
BY DEF nodes, InRow

(* No two nodes of a drawing overlap, however many steps a workflow has,   *)
(* which of them delegate or are judged, and with or without a context     *)
(* (NodesApart, evaluated for short workflows by MCRemotePanel).           *)
THEOREM DrawingsKeepApart == \A drawn : NodesApart(drawn)
<1> SUFFICES ASSUME NEW drawn, NEW m \in nodes(drawn), NEW n \in nodes(drawn), m # n
             PROVE  Apart(m, n)
  BY DEF NodesApart
<1> DEFINE tasks == taskSteps(drawn)
           context == hasContext(drawn)
           IsContext(k) == context /\ k = ContextCard(tasks, contextStep(drawn))
           IsInRow(k) == \E i \in 1 .. Len(tasks) : InRow(tasks, context, i, k)
<1>0. context \in BOOLEAN
  BY DEF hasContext
<1>1. /\ IsContext(m) \/ IsInRow(m)
      /\ IsContext(n) \/ IsInRow(n)
  BY NodeOfRow
<1> HIDE DEF tasks, context
<1>2. CASE IsContext(m) /\ IsContext(n)
  BY <1>2
<1>3. CASE IsContext(m) /\ IsInRow(n)
  <2>1. PICK j \in 1 .. Len(tasks) : InRow(tasks, TRUE, j, n)
    BY <1>0, <1>3
  <2>2. j \in Int /\ j >= 1 /\ m = ContextCard(tasks, contextStep(drawn))
    BY <1>3
  <2> QED BY <2>1, <2>2, ContextAbove
<1>4. CASE IsInRow(m) /\ IsContext(n)
  <2>1. PICK i \in 1 .. Len(tasks) : InRow(tasks, TRUE, i, m)
    BY <1>0, <1>4
  <2>2. i \in Int /\ i >= 1 /\ n = ContextCard(tasks, contextStep(drawn))
    BY <1>4
  <2> QED BY <2>1, <2>2, ContextAbove
<1>5. CASE IsInRow(m) /\ IsInRow(n)
  <2>1. PICK i \in 1 .. Len(tasks) : InRow(tasks, context, i, m)
    BY <1>5
  <2>2. PICK j \in 1 .. Len(tasks) : InRow(tasks, context, j, n)
    BY <1>5
  <2>3. CASE i = j
    BY <1>0, <2>1, <2>2, <2>3, OneRow
  <2>4. CASE i < j
    BY <1>0, <2>1, <2>2, <2>4, TwoRows
  <2>5. CASE j < i
    BY <1>0, <2>1, <2>2, <2>5, TwoRows
  <2> QED BY <2>3, <2>4, <2>5
<1> QED BY <1>1, <1>2, <1>3, <1>4, <1>5

(* The loop of a judge back into its step keeps to the gap between its row *)
(* and the next: it starts below the circle, and every point of it is      *)
(* below the middle of the row and above the row that follows.             *)
THEOREM LoopsKeepToTheirGap ==
  ASSUME NEW tasks, NEW context \in BOOLEAN, NEW i \in 1 .. Len(tasks), NEW p \in 1 .. 4
  PROVE  LET at == retry(tasks, context, i).points[p][2]
         IN top(context, i) + 66 < at /\ at < top(context, i + 1)
<1> DEFINE t == top(context, i)
           card == StepCard(tasks, context, i)
           judge == JudgeCircle(tasks, context, i)
           points == retry(tasks, context, i).points
<1>1. t \in Int /\ top(context, i + 1) = t + 194
  BY TopIs
<1>2. card.y = t
  BY DEF StepCard, Node
<1>3. judge.y = t + 30
  <2>1. (132 - 72) \div 2 = 30
    OBVIOUS
  <2> QED BY <2>1 DEF JudgeCircle, Node, CARD_HEIGHT, JUDGE_SIZE
<1>4. /\ points[1][2] = judge.y + 72
      /\ points[2][2] = card.y + 132 + 26
      /\ points[3][2] = card.y + 132 + 26
      /\ points[4][2] = card.y + 132
  BY DEF retry, Edge, CARD_HEIGHT, JUDGE_SIZE, RETRY_DROP
<1>5. points[p][2] \in {t + 102, t + 158, t + 132}
  <2> HIDE DEF points, card, judge, t
  <2>1. p \in {1, 2, 3, 4}
    OBVIOUS
  <2> QED BY <1>1, <1>2, <1>3, <1>4, <2>1
<1>6. points[p][2] \in Int /\ t + 66 < points[p][2] /\ points[p][2] < t + 194
  <2> HIDE DEF points, t
  <2>1. PICK c \in Int : c = t
    BY <1>1
  <2>2. PICK at : at = points[p][2]
    OBVIOUS
  <2>3. at \in {c + 102, c + 158, c + 132}
    BY <1>5, <2>1, <2>2
  <2>4. at \in Int /\ c + 66 < at /\ at < c + 194
    BY <2>3
  <2> QED BY <2>1, <2>2, <2>4
<1> QED BY <1>1, <1>6
=============================================================================
