--------------------------- MODULE MCCommandQueue ---------------------------
(* The instance of CommandQueue for TLC, and the laws of what the API of   *)
(* the hubs lets through, evaluated over payloads of few fields.           *)
EXTENDS CommandQueue, SyncGate

CONSTANTS h1, a, b

MCHubs     == {h1}
MCChannels == {a, b}
(* Two channels of one hub compete for its poll limit.                     *)
MCOwner == a :> h1 @@ b :> h1
-----------------------------------------------------------------------------
Values ==
  {"text", "padded", "blank", "number", "numeral", "negative", "flag", "flag text", "keys",
   "notes", "plain notes", "resource", "schedule", "selections", "object", "idle", "acked", "local"}

(* The least payload a rule accepts, and those that have up to two other   *)
(* fields or values, or nothing else.                                      *)
Least(rule) ==
  [f \in DOMAIN rule.required |-> CHOOSE v \in Values : v \in DOMAIN rule.required[f]]
Samples(rule) ==
  LET names == DOMAIN rule.required \cup DOMAIN rule.optional \cup {"unknown"}
      few == {F \in SUBSET names : Cardinality(F) <= 2}
  IN UNION {UNION {{g, g @@ Least(rule)} : g \in [F -> Values]} : F \in few}

CommandSamples(type) == Samples(COMMAND_PAYLOADS[type])

(* What was validated passes again unchanged: reading a queued command     *)
(* back and sending it once more converts nothing twice.                   *)
PassedStays ==
  \A type \in COMMAND_TYPES : \A p \in CommandSamples(type) :
    \A v \in validateCommand(type, p) : validateCommand(type, v) = {v}

(* Whatever the routes build is queued as it was built, except that a note *)
(* keeps its id, its content and its theme only.                           *)
BuiltPasses ==
  /\ \A step \in [criteria : {"text", "padded", "blank", "null"}, notes : BOOLEAN] :
       LET p == templateStepToAddPayload(step)
       IN \E v \in validateCommand("step.add", p) :
            /\ DOMAIN v = DOMAIN p
            /\ \A f \in DOMAIN p \ {"notes"} : v[f] = p[f]
  /\ \A agent \in BOOLEAN :
       validateCommand("workflow.create", createPayload(agent)) = {createPayload(agent)}
  /\ validateCommand("workflow.set_schedule", setScheduleCommandPayload)
       = {setScheduleCommandPayload}
  /\ \A type \in {"workflow.start", "workflow.resume", "workflow.restart"} :
       validateCommand(type, "step_keys" :> "keys") = {"step_keys" :> "keys"}

(* The plan shows what the hub is told exactly when nothing a caller gave  *)
(* had to be converted: the mirror reads the payload as it came.           *)
PlanShowsWhatIsQueued ==
  LET Told(p, v) ==
        \A f \in DOMAIN v \ {"notes", "acceptance_criteria", "order_index", "to_index"} : p[f] = v[f]
      Order(p, v) == "order_index" \in DOMAIN v => p.order_index = v.order_index
  IN /\ \A p \in CommandSamples("step.add") : \A v \in validateCommand("step.add", p) :
          AddMirrored(p) = AddMirrored(v) <=> Told(p, v) /\ Order(p, v)
     /\ \A p \in CommandSamples("step.edit") : \A v \in validateCommand("step.edit", p) :
          EditMirrored(p) = EditMirrored(v)
            <=> Told(p, v) /\ Raw(p, "acceptance_criteria", "blank") # "padded"

(* One event the rules refuse keeps a whole batch out, and the events of   *)
(* schedules and archives are never that one.                              *)
BatchesStandTogether ==
  LET Good == [id |-> "text", type |-> "workflow.failed", payload |-> "reason" :> "text"]
      Bad == [id |-> "padded", type |-> "workflow.failed", payload |-> "reason" :> "blank"]
      Other == [id |-> "text", type |-> "workflow.renamed", payload |-> NoFields]
  IN /\ \A p \in Samples(EVENT_PAYLOADS["step.result"]) :
          LET e == [id |-> "text", type |-> "step.result", payload |-> p]
          IN validateSyncEventBatch(<<Good, e>>) # {} <=> validateEvent(e.type, p) # {}
     /\ \A e \in {Bad, Other} : validateSyncEventBatch(<<Good, e, Good>>) = {}
     /\ \A type \in PERMISSIVE_EVENTS : \A p \in Samples(OnlyStep) :
          LET e == [id |-> "text", type |-> type, payload |-> p]
          IN validateSyncEventBatch(<<e, Good>>) = {<<e, Good>>}
     /\ validateSyncEventBatch(<< >>) = {}

(* A hub may name every command of this server, and none of a newer one.   *)
CapabilitiesAreKnown ==
  CapabilitiesAccepted(COMMAND_TYPES) /\ ~ CapabilitiesAccepted(COMMAND_TYPES \cup {"workflow.clone"})

(* An emptied context is stored although no command can carry it.          *)
ContextIsStoredFirst ==
  \A given \in {"text", "padded", "blank"} :
    LET after == PatchContext("older", given)
    IN after.stored # "older" /\ (after.queued <=> given # "blank")

(* An event that is let in writes to no workflow of another hub.           *)
EventsStayHome ==
  \A owner \in [{"w", "x"} -> {"h", "k", None}], client \in {"h", "k"},
     commands \in [{"c"} -> [client : {"h", "k"}, remote : {"w", "x", None}]],
     event \in [remote : {"w", "x", None}, command : {"c", "gone"},
                type : {"command.ack", "workflow.status_changed", "step.result"}] :
    ~ syncEventTargetsForeignRemote(client, event, owner, commands)
      => \A r \in mirrorSyncEventToPlan(event, commands) : owner[r] \in {None, client}

(* A call is one client's; a device that signed in is never taken for the  *)
(* client of another, and where links are required nobody else gets in.    *)
CallersAreKnown ==
  LET all == [id : {"h", "k"}, deviceId : {"h", "k", None}, token : {"t"}, status : {"active", "revoked"}]
  IN \A clients \in {S \in SUBSET all : Cardinality(S) <= 2 /\ \A c, d \in S : c.id = d.id => c = d},
        call \in [device : {"h", None}, scopes : SUBSET {"sync:write"}, token : {"t", "u", None}],
        deviceOnly \in BOOLEAN :
       \A c \in requireSyncClient(call, clients, deviceOnly) :
         /\ call.device # None => c.id = call.device
         /\ deviceOnly => c.deviceId = c.id
         /\ c.status = "active" \/ c.deviceId = c.id

ASSUME PassedStays
ASSUME BuiltPasses
ASSUME PlanShowsWhatIsQueued
ASSUME BatchesStandTogether
ASSUME CapabilitiesAreKnown
ASSUME ContextIsStoredFirst
ASSUME EventsStayHome
ASSUME CallersAreKnown
=============================================================================
