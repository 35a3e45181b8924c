---------------------------- MODULE CommandQueue ----------------------------
(***************************************************************************)
(* The command queue between the operators' server and the hubs: db.mjs    *)
(* enqueueCommand, claimPendingCommands and ackCommand, with the routes    *)
(* GET /api/sync/commands and POST /api/sync/commands/:id/ack of           *)
(* server.mjs.  A channel is a remote_id: a remote workflow, or one of the *)
(* resource channels of a hub.  The sequence number of a command is its    *)
(* position in the log of its channel.  node:sqlite is synchronous, so     *)
(* each handler is one atomic step; the network and the hub are external.  *)
(***************************************************************************)
EXTENDS Naturals, Sequences, FiniteSets

CONSTANTS
  Hubs,          \* the registered clients
  Channels,      \* the remote ids commands are queued under
  Owner,         \* the client a remote id belongs to
  Limit,         \* the ?limit= of a poll (1..50 in the route, default 10)
  MaxCommands,   \* bound: commands ever enqueued per channel
  HubReapplies   \* may a hub report a second, different outcome of a command?

ASSUME OwnerAssumption == Owner \in [Channels -> Hubs]
ASSUME LimitAssumption == Limit \in Nat \ {0}
ASSUME BoundAssumption == MaxCommands \in Nat
ASSUME ReapplyAssumption == HubReapplies \in BOOLEAN

VARIABLES
  log,        \* log[ch][n] : status of the command with sequence n on ch
  inFlight,   \* poll responses on their way to a hub: sets of command ids
  received,   \* ids the hubs hold (they persist them)
  lost,       \* ids of the poll responses that never arrived
  reports     \* <<id, outcome>> a hub has reported; a report may reach the
              \* server any number of times, at any later moment, or never

vars == <<log, inFlight, received, lost, reports>>

Status   == {"pending", "delivered", "acked", "failed"}
Settled  == {"acked", "failed"}
Outcomes == {"applied", "failed"}

(* The commands of the log.                                                *)
Commands == UNION {{ch} \X DOMAIN log[ch] : ch \in Channels}
StatusOf(id) == log[id[1]][id[2]]

TypeOK ==
  /\ log \in [Channels -> Seq(Status)]
  /\ inFlight \subseteq SUBSET Commands
  /\ received \subseteq Commands
  /\ lost \subseteq Commands
  /\ reports \subseteq Commands \X Outcomes

-----------------------------------------------------------------------------
(* Seeded faults: the claim loop with a guard that lets a command follow a *)
(* delivered one, and with one that waits for an acked predecessor.        *)
ClaimableAfterDelivered(id) ==
  /\ StatusOf(id) = "pending"
  /\ id[2] > 1 => log[id[1]][id[2] - 1] # "pending"

ClaimableAfterAcked(id) ==
  /\ StatusOf(id) = "pending"
  /\ id[2] > 1 => log[id[1]][id[2] - 1] = "acked"

(* The SELECT and the guard of the claim loop: pending, and the command    *)
(* just before it on the same channel is settled.                          *)
Claimable(id) ==
  /\ StatusOf(id) = "pending"
  /\ id[2] > 1 => log[id[1]][id[2] - 1] \in Settled

ClaimableOf(h) == {id \in Commands : Owner[id[1]] = h /\ Claimable(id)}

(* What one poll takes.  created_at is a wall clock, so the order in which *)
(* the channels of a hub are served is left open; how many are taken is    *)
(* not: as many as the limit allows.                                       *)
Batches(h) ==
  {batch \in SUBSET ClaimableOf(h) :
     \/ Cardinality(batch) = Limit
     \/ Cardinality(batch) < Limit /\ batch = ClaimableOf(h)}

(* Seeded fault: an UPDATE without its status condition.                   *)
AckUpdatesAlways(h, id) == Owner[id[1]] = h

(* UPDATE ... WHERE id = ? AND client_id = ? AND status IN (...).          *)
AckUpdates(h, id) == Owner[id[1]] = h /\ StatusOf(id) \in {"delivered", "pending"}

AckStatus(outcome) == IF outcome = "applied" THEN "acked" ELSE "failed"

-----------------------------------------------------------------------------
Init ==
  /\ log = [ch \in Channels |-> << >>]
  /\ inFlight = {}
  /\ received = {}
  /\ lost = {}
  /\ reports = {}

(* An operator's change is queued with the next sequence of its channel.   *)
Enqueue(ch) ==
  /\ Len(log[ch]) < MaxCommands
  /\ log' = [log EXCEPT ![ch] = Append(@, "pending")]
  /\ UNCHANGED <<inFlight, received, lost, reports>>

(* A hub polls: the batch is committed as delivered before the response    *)
(* leaves the server.  An empty answer changes nothing.                    *)
Poll(h) ==
  \E batch \in Batches(h) :
    /\ log' = [ch \in Channels |->
                 [n \in DOMAIN log[ch] |->
                    IF <<ch, n>> \in batch THEN "delivered" ELSE log[ch][n]]]
    /\ inFlight' = inFlight \cup ({batch} \ {{}})
    /\ UNCHANGED <<received, lost, reports>>

(* External: the response of a poll arrives, or it is lost.                *)
ReceiveBatch(batch) ==
  /\ batch \in inFlight
  /\ inFlight' = inFlight \ {batch}
  /\ received' = received \cup batch
  /\ UNCHANGED <<log, lost, reports>>

LoseBatch(batch) ==
  /\ batch \in inFlight
  /\ inFlight' = inFlight \ {batch}
  /\ lost' = lost \cup batch
  /\ UNCHANGED <<log, received, reports>>

(* External: the hub applies a command it holds and reports the outcome.   *)
(* HubReapplies lets it report the other outcome later (a retry that       *)
(* succeeds after a reported failure).                                     *)
Apply(id, outcome) ==
  /\ id \in received
  /\ HubReapplies \/ \A o \in Outcomes : <<id, o>> \notin reports
  /\ reports' = reports \cup {<<id, outcome>>}
  /\ UNCHANGED <<log, inFlight, received, lost>>

(* POST /api/sync/commands/:id/ack.  A report for a settled command is     *)
(* answered already_recorded (or refused) and changes nothing here.        *)
HandleAck(h, id, outcome) ==
  /\ <<id, outcome>> \in reports
  /\ Owner[id[1]] = h
  /\ log' = IF AckUpdates(h, id)
            THEN [log EXCEPT ![id[1]][id[2]] = AckStatus(outcome)]
            ELSE log
  /\ UNCHANGED <<inFlight, received, lost, reports>>

Next ==
  \/ \E ch \in Channels : Enqueue(ch)
  \/ \E h \in Hubs : Poll(h)
  \/ \E batch \in inFlight : ReceiveBatch(batch)
  \/ \E batch \in inFlight : LoseBatch(batch)
  \/ \E id \in received, outcome \in Outcomes : Apply(id, outcome)
  \/ \E h \in Hubs, r \in reports : HandleAck(h, r[1], r[2])

Spec == Init /\ [][Next]_vars

(* A hub polls every few seconds; a response arrives or is lost; a hub     *)
(* works on what it received and repeats a report until it is answered.    *)
Fairness ==
  /\ \A h \in Hubs : WF_vars(Poll(h))
  /\ WF_vars(\E batch \in inFlight : ReceiveBatch(batch) \/ LoseBatch(batch))
  /\ \A ch \in Channels, n \in 1 .. MaxCommands :
       /\ WF_vars(\E o \in Outcomes :
                    /\ \A p \in Outcomes : <<<<ch, n>>, p>> \notin reports
                    /\ Apply(<<ch, n>>, o))
       /\ WF_vars(\E h \in Hubs, o \in Outcomes : HandleAck(h, <<ch, n>>, o))

FairSpec == Spec /\ Fairness
-----------------------------------------------------------------------------
(* On a channel everything before a command that was handed out is         *)
(* settled, although the claim loop looks only one sequence number back:   *)
(* commands are delivered in order, at most one outstanding per channel.   *)
DeliveredInOrder ==
  \A ch \in Channels : \A n \in DOMAIN log[ch] :
    log[ch][n] # "pending" => \A m \in 1 .. (n - 1) : log[ch][m] \in Settled

(* A hub never gets the same command in two poll responses, so "apply each *)
(* command exactly once" cannot be broken by the polling itself.           *)
HandedOutOnce ==
  /\ \A b, c \in inFlight : b # c => b \cap c = {}
  /\ \A b \in inFlight : b \cap (received \cup lost) = {}
  /\ received \cap lost = {}

(* Commands of one channel are applied by the hub in sequence order: when  *)
(* a hub has reported on a command it has reported on all earlier ones.    *)
AppliedInOrder ==
  \A r \in reports : \A m \in 1 .. (r[1][2] - 1) :
    \E o \in Outcomes : <<<<r[1][1], m>>, o>> \in reports

(* The status of a settled command is an outcome its hub did report, and   *)
(* a command nobody reported on is not settled.                            *)
SettledAsReported ==
  \A id \in Commands :
    /\ StatusOf(id) = "acked"  => <<id, "applied">> \in reports
    /\ StatusOf(id) = "failed" => <<id, "failed">> \in reports

(* ackCommand records the first report only: repeated or contradicting     *)
(* reports never change the status of a settled command, and a delivered   *)
(* command never goes back to the queue.                                   *)
SettledIsFinal ==
  [][\A id \in Commands :
       /\ id \in Commands'
       /\ StatusOf(id) \in Settled => StatusOf(id)' = StatusOf(id)
       /\ StatusOf(id) = "delivered" => StatusOf(id)' # "pending"]_vars

(* Every command is eventually settled unless a response carrying it, or   *)
(* an earlier command of the same channel, was lost: a loss blocks its own *)
(* channel and no other.                                                   *)
SettledUnlessLost ==
  \A ch \in Channels, n \in 1 .. MaxCommands :
    (<<ch, n>> \in Commands)
      ~> \/ /\ <<ch, n>> \in Commands
            /\ StatusOf(<<ch, n>>) \in Settled
         \/ \E m \in 1 .. n : <<ch, m>> \in lost

-----------------------------------------------------------------------------
StageOf(status) ==
  IF status \in Settled THEN "done"
  ELSE IF status = "pending" THEN "queued" ELSE "out"

stages == [ch \in Channels |-> [n \in DOMAIN log[ch] |-> StageOf(log[ch][n])]]

(* The queue implements one first-in first-out lane per channel.           *)
Lanes == INSTANCE FifoDelivery WITH stage <- stages
ImplementsFifo == Lanes!Spec
=============================================================================
