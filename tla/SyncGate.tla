------------------------------ MODULE SyncGate ------------------------------
(***************************************************************************)
(* What the synchronisation API lets through: the callers it knows         *)
(* (requireSyncClient), the commands it queues and the batches of events   *)
(* it takes (blueprint.mjs, enqueueCommand), what the routes build for a   *)
(* command and what its mirror in the plan reads from it.                  *)
(*                                                                         *)
(* A payload is a function from the names of its fields to values.  Of a   *)
(* value matters what the conversions of the rules do with it: "text",     *)
(* "padded" (text between spaces) and "blank" are strings, "number",       *)
(* "numeral" (a string of digits) and "negative" stand for numbers, "flag" *)
(* and "flag text" (the string) for booleans, "notes" may carry their      *)
(* source and times where "plain notes" do not.  An answer is a set: the   *)
(* value that passed, or nothing.                                          *)
(***************************************************************************)
EXTENDS FiniteSets, Functions, TLC

CONSTANT None    \* null

-----------------------------------------------------------------------------
(* Rules.  A kind maps the values it accepts to what it makes of them; a   *)
(* rule has the kinds of its fields and the fewest fields to be left.      *)

NoFields == [f \in {} |-> f]
Same(values) == [v \in values |-> v]

Text == "text" :> "text" @@ "padded" :> "text"
OptionalText == Text @@ "blank" :> "blank"
Natural == "number" :> "number" @@ "numeral" :> "number"
Boolean == "flag" :> "flag" @@ "flag text" :> "flag"
StrictBoolean == Same({"flag"})
Keys == Same({"keys", "no keys"})
(* Notes keep their id, content and theme.                                 *)
TEMPLATE_STEP_NOTES == "notes" :> "plain notes" @@ "plain notes" :> "plain notes"
Resource == Same({"resource"})
SpecOrZone == Same({"schedule"})
Selections == Same({"selections"})
Objects == Same({"object"})

Rule(required, optional, least) ==
  [required |-> required, optional |-> optional, least |-> least]
Fields(names, kind) == [f \in names |-> kind]

(* BLUEPRINTS' validate: fields no rule names are dropped before the rest  *)
(* is counted.                                                             *)
validate(rule, payload) ==
  LET kinds == rule.required @@ rule.optional
      kept == DOMAIN payload \cap DOMAIN kinds
      passes == /\ DOMAIN rule.required \subseteq DOMAIN payload
                /\ \A f \in kept : payload[f] \in DOMAIN kinds[f]
                /\ Cardinality(kept) >= rule.least
  IN IF passes THEN {[f \in kept |-> kinds[f][payload[f]]]} ELSE {}
-----------------------------------------------------------------------------
(* Commands.                                                               *)

Resources == {"template", "tcp-tool", "resource-set"}
StepToggles ==
  Fields({"manual_review", "use_subagent"}, Boolean)
    @@ Fields({"max_retries", "retry_interval_seconds"}, Natural)
    @@ Fields({"acceptance_criteria"}, OptionalText)
OnlyStep == Rule(Fields({"step_key"}, Text), NoFields, 0)
MayNameSteps == Fields({"step_keys"}, Keys)

WorkflowPayloads ==
  LET Bare == Rule(NoFields, NoFields, 0)
  IN "workflow.create" :>
       Rule(Fields({"name"}, Text), Fields({"workdir", "agent", "sandbox"}, OptionalText), 0)
     @@ "workflow.delete" :> Rule(NoFields, Fields({"force"}, Boolean), 0)
     @@ "workflow.rename" :> Rule(Fields({"name"}, Text), NoFields, 0)
     @@ "workflow.set_context" :> Rule(Fields({"conversation_context"}, Text), NoFields, 0)
     @@ "workflow.start" :> Rule(NoFields, MayNameSteps, 0)
     @@ "workflow.pause" :> Bare
     @@ "workflow.resume" :> Rule(NoFields, MayNameSteps, 0)
     @@ "workflow.restart" :>
          Rule(NoFields, MayNameSteps @@ Fields({"preserve_context"}, Boolean), 0)
     @@ "workflow.set_selection" :>
          Rule(NoFields, Fields({"tcp_selections", "resource_selections"}, Selections), 1)
     @@ "workflow.set_status" :> Rule(Fields({"status"}, Text), NoFields, 0)
     @@ "workflow.create_with_steps" :>
          Rule(Fields({"name"}, Text) @@ Fields({"steps"}, Objects),
               Fields({"workdir", "conversation_context"}, OptionalText), 0)
     @@ "workflow.apply_template" :>
          Rule(Fields({"template_id"}, Text),
               Fields({"name", "workdir"}, OptionalText) @@ Fields({"variables"}, Objects), 0)

StepPayloads ==
  "step.add" :>
    Rule(Fields({"step_key", "description"}, Text),
         StepToggles @@ Fields({"order_index"}, Natural) @@ Fields({"notes"}, TEMPLATE_STEP_NOTES), 0)
  @@ "step.edit" :>
       Rule(Fields({"step_key"}, Text), StepToggles @@ Fields({"description"}, OptionalText), 2)
  @@ "step.move" :> Rule(Fields({"step_key"}, Text) @@ Fields({"to_index"}, Natural), NoFields, 0)
  @@ "step.continue" :> Rule(Fields({"step_key"}, Text), Fields({"note"}, OptionalText), 0)
  @@ "step.set_status" :> Rule(Fields({"step_key", "status"}, Text), NoFields, 0)
  @@ [type \in {"step.remove", "step.run", "step.abort"} |-> OnlyStep]

UpsertRule == Rule(Fields({"resource"}, Resource), NoFields, 0)
DropRule == Rule(Fields({"resource_id"}, Text), NoFields, 0)
ResourcePayloads ==
  [type \in {"template.upsert", "tcp-tool.upsert", "resource-set.upsert"} |-> UpsertRule]
  @@ [type \in {"template.delete", "tcp-tool.delete", "resource-set.delete"} |-> DropRule]

SchedulePayloads ==
  "workflow.set_schedule" :>
    Rule(Fields({"series_id"}, Text) @@ Fields({"spec", "timezone"}, SpecOrZone),
         Fields({"include_previous"}, StrictBoolean), 0)
  @@ "workflow.cancel_schedule" :> Rule(Fields({"series_id"}, Text), NoFields, 0)

COMMAND_PAYLOADS == WorkflowPayloads @@ StepPayloads @@ ResourcePayloads @@ SchedulePayloads
COMMAND_TYPES == DOMAIN COMMAND_PAYLOADS

validateCommand(type, payload) ==
  IF type \in DOMAIN COMMAND_PAYLOADS THEN validate(COMMAND_PAYLOADS[type], payload) ELSE {}

(* A hub that names a command this server does not know is refused.        *)
CapabilitiesAccepted(commands) == commands \subseteq COMMAND_TYPES
-----------------------------------------------------------------------------
(* Events.                                                                 *)

EVENT_PAYLOADS ==
  LET Only(name) == Fields({name}, Text)
      May(names) == Fields(names, OptionalText)
  IN "client.heartbeat" :>
       Rule(Fields({"status"}, Same({"idle", "busy"})), Fields({"active_remote_ids"}, Keys), 0)
     @@ "command.ack" :>
          Rule(Only("command_id") @@ Fields({"status"}, Same({"acked", "failed"})),
               Fields({"error"}, Objects), 0)
     @@ "workflow.created" :>
          Rule(Only("name") @@ Fields({"origin"}, Same({"local", "remote"})), May({"workdir"}), 0)
     @@ "workflow.status_changed" :> Rule(Only("to"), May({"from"}), 0)
     @@ "step.status_changed" :>
          Rule(Only("step_key") @@ Only("to"), May({"local_step_id", "from"}), 0)
     @@ "step.result" :>
          Rule(Only("step_key") @@ Only("outcome"),
               May({"local_step_id", "summary"}) @@ Fields({"usage"}, Objects), 0)
     @@ "workflow.completed" :> Rule(Only("final_status"), Fields({"step_count"}, Natural), 0)
     @@ "workflow.failed" :>
          Rule(Only("reason"), May({"failed_step_key"}) @@ Fields({"error"}, Objects), 0)
     @@ [type \in {"template.upserted", "tcp-tool.upserted", "resource-set.upserted"} |-> UpsertRule]
     @@ [type \in {"template.deleted", "tcp-tool.deleted", "resource-set.deleted"} |-> DropRule]

(* Judged one by one when they are applied: any object passes here.        *)
PERMISSIVE_EVENTS ==
  {"schedule.instance_created", "workflow.schedule_changed", "schedule.run_missed",
   "schedule.run_skipped", "workflow.archived", "workflow.unarchived"}
EVENT_TYPES == DOMAIN EVENT_PAYLOADS \cup PERMISSIVE_EVENTS

validateEvent(type, payload) ==
  IF type \in PERMISSIVE_EVENTS THEN {payload}
  ELSE IF type \in DOMAIN EVENT_PAYLOADS THEN validate(EVENT_PAYLOADS[type], payload) ELSE {}

(* An event is [id, type, payload]; the events that passed are the ones    *)
(* of the envelope, with what they said besides.                           *)
EnvelopeAccepted(events) ==
  events # << >> /\ \A i \in DOMAIN events : events[i].id \in DOMAIN Text /\ events[i].type \in EVENT_TYPES

validateSyncEventBatch(events) ==
  IF /\ EnvelopeAccepted(events)
     /\ \A i \in DOMAIN events : validateEvent(events[i].type, events[i].payload) # {}
  THEN {[i \in DOMAIN events |-> [events[i] EXCEPT !.id = Text[@]]]} ELSE {}
-----------------------------------------------------------------------------
(* What the routes build, and what the plan shows of it.                   *)

(* A step of a template: [criteria, notes], the rest being there always.   *)
templateStepToAddPayload(step) ==
  Fields({"step_key", "description"}, "text")
    @@ Fields({"manual_review", "use_subagent"}, "flag")
    @@ Fields({"max_retries", "retry_interval_seconds"}, "number")
    @@ (IF step.criteria \in DOMAIN Text THEN "acceptance_criteria" :> "text" ELSE NoFields)
    @@ (IF step.notes THEN "notes" :> "notes" ELSE NoFields)

setScheduleCommandPayload ==
  "series_id" :> "text" @@ Fields({"spec", "timezone"}, "schedule") @@ "include_previous" :> "flag"

createPayload(agent) ==
  Fields({"name", "sandbox"}, "text") @@ (IF agent THEN "agent" :> "text" ELSE NoFields)

(* mirrorCommandToPlan is given the payload as it came, not as it passed.  *)
Typed(payload, field, value, otherwise) ==
  IF field \in DOMAIN payload /\ payload[field] = value THEN value ELSE otherwise

Raw(payload, field, otherwise) == IF field \in DOMAIN payload THEN payload[field] ELSE otherwise

AddMirrored(payload) ==
  LET criteria == Raw(payload, "acceptance_criteria", "blank")
  IN [key |-> payload.step_key, description |-> payload.description,
      order |-> Typed(payload, "order_index", "number", "last"),
      criteria |-> IF criteria = "blank" THEN None ELSE "text",
      review |-> Typed(payload, "manual_review", "flag", "off"),
      subagent |-> Typed(payload, "use_subagent", "flag", "on"),
      retries |-> Raw(payload, "max_retries", "zero"),
      interval |-> Raw(payload, "retry_interval_seconds", "zero")]

(* Only a field of the type the row has replaces what the row says.        *)
EditMirrored(payload) ==
  LET String(field) ==
        IF field \in DOMAIN payload THEN payload[field] ELSE "as it was"
  IN [key |-> payload.step_key, description |-> String("description"),
      criteria |-> String("acceptance_criteria"),
      review |-> Typed(payload, "manual_review", "flag", "as it was"),
      subagent |-> Typed(payload, "use_subagent", "flag", "as it was"),
      retries |-> Typed(payload, "max_retries", "number", "as it was"),
      interval |-> Typed(payload, "retry_interval_seconds", "number", "as it was")]

(* PATCH of a workflow's context: stored before the command is queued.     *)
PatchContext(stored, given) ==
  LET context == IF given = "padded" THEN "text" ELSE given
      queued == validateCommand("workflow.set_context", "conversation_context" :> context)
  IN [stored |-> context, queued |-> queued # {}]
-----------------------------------------------------------------------------
(* Whose call it is, and whose rows an event touches.                      *)

(* A call: [device, scopes, token]; clients are [id, deviceId, token,      *)
(* status].  A device that signed in is its client or nobody.              *)
requireSyncClient(call, clients, deviceOnly) ==
  IF call.device # None
  THEN {c \in clients : "sync:write" \in call.scopes /\ c.id = call.device /\ c.deviceId = c.id}
  ELSE {c \in clients : ~ deviceOnly /\ call.token # None /\ c.token = call.token
                          /\ c.status = "active"}

(* An event here is [remote, type, command]; owner tells the client of a   *)
(* workflow (None: unknown), and commands are [client, remote] by id.      *)
syncEventTargetsForeignRemote(client, event, owner, commands) ==
  LET named == IF event.type = "command.ack" /\ event.command \in DOMAIN commands
               THEN {commands[event.command]} ELSE {}
      remotes == ({event.remote} \cup {c.remote : c \in named}) \ {None}
  IN \/ \E c \in named : c.client # client
     \/ \E r \in remotes : owner[r] \notin {None, client}

(* The workflows mirrorSyncEventToPlan writes to.                          *)
mirrorSyncEventToPlan(event, commands) ==
  IF event.remote = None THEN {}
  ELSE IF event.type = "command.ack"
       THEN IF event.command \in DOMAIN commands THEN {commands[event.command].remote} \ {None} ELSE {}
       ELSE IF event.type \in {"workflow.status_changed", "step.status_changed"}
       THEN {event.remote} ELSE {}
=============================================================================
