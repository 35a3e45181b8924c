----------------------------- MODULE DeviceLink -----------------------------
(***************************************************************************)
(* Linking hubs as devices: link requests, devices with their credentials, *)
(* the control plane's directory and the sync clients of devices           *)
(* (server.mjs 3017-3365 and 2126-2202, db.mjs 1599-2127, control-plane.mjs*)
(* 581-690).  With several organizations a request lives in the control    *)
(* database and a device in the database of its organization, so that one  *)
(* consume is three transactions.  One owner; scopes, proofs, audit rows   *)
(* and legacy hubs without a device are left out.                          *)
(***************************************************************************)
EXTENDS Naturals, FiniteSets

CONSTANTS
  Requests,    \* link requests that may be made
  Calls,       \* bound: calls of devices that may be under way at a time
  MaxDevices,  \* bound: devices ever created
  MaxVersion,  \* bound: credential versions of a device
  PollLimit,   \* polls of a request answered in one window (10)
  MaxFaults    \* bound: lost answers and server stops

ASSUME CountAssumption == MaxDevices \in Nat /\ MaxVersion \in Nat \ {0} /\ MaxFaults \in Nat
ASSUME LimitAssumption == PollLimit \in Nat \ {0}

Devices == 1 .. MaxDevices
Versions == 1 .. MaxVersion

VARIABLES
  multiOrg,   \* are there several organizations?  Fixed while the server runs
  request,    \* device_link_requests: status, and the device it became
  late,       \* requests whose expires_at has passed
  device,     \* linked_devices and device_credentials: status, request,
              \* current version, versions not revoked
  directory,  \* device_directory: devices a request can be routed to
  client,     \* clients, by device
  handlers,   \* calls that were authenticated and await their body
  answers,    \* answers to rotations on their way, in no order
  hub,        \* external: requests it knows and heard approved, polls it made
              \* of each in the window, version of the secret it holds
  faults      \* answers lost and server stops

vars == <<multiOrg, request, late, device, directory, client, handlers, answers, hub, faults>>

NoDevice == [st |-> "none", req |-> "none", ver |-> 0, live |-> {}]

(* The answer to a rotation: the version of the new secret, 0 if refused.  *)
Answers == [call : Calls, d : Devices, ver : 0 .. MaxVersion]

TypeOK ==
  /\ \A r \in Requests :
       /\ request[r].st \in {"none", "pending", "approved", "denied", "expired", "consumed"}
       /\ request[r].device \in 0 .. MaxDevices
       /\ (request[r].st = "consumed") <=> (request[r].device # 0)
  /\ \A d \in Devices : device[d] = NoDevice \/
       (device[d].req \in Requests /\ device[d].ver \in Versions /\ device[d].live \subseteq Versions)
  /\ directory \subseteq {d \in Devices : device[d] # NoDevice}
  /\ client \in [Devices -> {"none", "active", "archived"}]
  /\ handlers \subseteq [call : Calls, op : {"register", "rotate"}, d : Devices, ver : Versions]
  /\ answers \subseteq Answers

Fault == faults < MaxFaults /\ faults' = faults + 1

-----------------------------------------------------------------------------
(* Link requests.                                                          *)

NewRequest == [st |-> "pending", device |-> 0]

(* createDeviceLinkRequest, in the database of the one organization or in  *)
(* the control database.                                                   *)
CreateDeviceLinkRequest(r) == request' = [request EXCEPT ![r] = NewRequest]

(* POST requests.  A repeat with the same key shows no credential, so a    *)
(* hub that lost the answer cannot go on with this request.                *)
Initiate(r) ==
  /\ request[r].st = "none"
  /\ CreateDeviceLinkRequest(r)
  /\ \/ hub' = [hub EXCEPT !.known = @ \cup {r}] /\ UNCHANGED faults
     \/ Fault /\ UNCHANGED hub
  /\ UNCHANGED <<multiOrg, late, device, directory, client, handlers, answers>>

Expires(r) ==
  /\ r \notin late
  /\ request[r].st # "none"
  /\ late' = late \cup {r}
  /\ UNCHANGED <<multiOrg, request, device, directory, client, handlers, answers, hub, faults>>

Open(r) == request[r].st \in {"pending", "approved"}

(* Seeded fault: a poll expires pending requests only.                     *)
ExpiredPendingOnly(r) ==
  IF request[r].st = "pending" /\ r \in late THEN [request EXCEPT ![r].st = "expired"] ELSE request

Expired(r) == IF Open(r) /\ r \in late THEN [request EXCEPT ![r].st = "expired"] ELSE request

(* A decision or consume that comes too late expires the request, but the  *)
(* error rolls that back unless the request is in the control database.    *)
ExpiredByError(r) == IF multiOrg THEN Expired(r) ELSE request

(* POST poll.  No sweep runs: requests expire when somebody asks.          *)
Poll(r) ==
  /\ r \in hub.known
  /\ hub.polls[r] < PollLimit
  /\ request' = Expired(r)
  /\ hub' = [hub EXCEPT !.polls[r] = @ + 1,
                        !.heard = IF request'[r].st = "approved" THEN @ \cup {r} ELSE @]
  /\ UNCHANGED <<multiOrg, late, device, directory, client, handlers, answers, faults>>

(* The rate limit's window is longer than a request lives.                 *)
WindowEnds(r) ==
  /\ r \in late
  /\ hub.polls[r] = PollLimit
  /\ hub' = [hub EXCEPT !.polls[r] = 0]
  /\ UNCHANGED <<multiOrg, request, late, device, directory, client, handlers, answers, faults>>

(* decideDeviceLinkRequest: a live pending request only.                   *)
Decided(r, decision) ==
  IF request[r].st = "pending"
  THEN IF r \in late THEN ExpiredByError(r) ELSE [request EXCEPT ![r].st = decision]
  ELSE request

(* POST approve and deny, by an operator.                                  *)
Decide(r, decision) ==
  /\ request[r].st # "none"
  /\ request' = Decided(r, decision)
  /\ UNCHANGED <<multiOrg, late, device, directory, client, handlers, answers, hub, faults>>

-----------------------------------------------------------------------------
(* POST consume: a device, the request consumed, the directory entry; one  *)
(* transaction and the entry, or three transactions.                       *)

NewDevice == Cardinality({d \in Devices : device[d] # NoDevice}) + 1

Consumable(r) ==
  /\ r \in hub.heard
  /\ request[r].st = "approved"
  /\ r \notin late
  /\ NewDevice <= MaxDevices

Insert(r) ==
  device' = [device EXCEPT ![NewDevice] = [st |-> "active", req |-> r, ver |-> 1, live |-> {1}]]
MarkConsumed(r) == request' = [request EXCEPT ![r] = [st |-> "consumed", device |-> NewDevice]]

Enter == directory' = directory \cup {NewDevice}

Consume(r) ==
  /\ Consumable(r)
  /\ Insert(r)
  /\ MarkConsumed(r)
  /\ Enter
  /\ \/ hub' = [hub EXCEPT !.secret[NewDevice] = 1] /\ UNCHANGED faults
     \/ Fault /\ UNCHANGED hub
  /\ UNCHANGED <<multiOrg, late, client, handlers, answers>>

(* Seeded fault: the directory entry comes first.                          *)
ConsumeEntersFirstThenCrash(r) ==
  /\ Consumable(r)
  /\ Insert(r)
  /\ MarkConsumed(r) \/ (multiOrg /\ UNCHANGED request)
  /\ Enter
  /\ Fault
  /\ handlers' = {}
  /\ UNCHANGED <<multiOrg, late, client, answers, hub>>

(* The server stops after the first or the second transaction.             *)
ConsumeThenCrash(r) ==
  /\ Consumable(r)
  /\ Insert(r)
  /\ MarkConsumed(r) \/ (multiOrg /\ UNCHANGED request)
  /\ Fault
  /\ handlers' = {}
  /\ UNCHANGED <<multiOrg, late, directory, client, answers, hub>>

ConsumeRefused(r) ==
  /\ r \in hub.heard
  /\ request[r].st = "approved" /\ r \in late
  /\ request' = ExpiredByError(r)
  /\ UNCHANGED <<multiOrg, late, device, directory, client, handlers, answers, hub, faults>>

-----------------------------------------------------------------------------
(* Calls of a device.                                                      *)

(* resolvePrincipalOrg and authenticateDevice.                             *)
Accepts(d, ver) ==
  /\ multiOrg => d \in directory
  /\ device[d].st = "active"
  /\ ver = device[d].ver
  /\ ver \in device[d].live

(* POST register and rotate authenticate, then await the body.  Each call  *)
(* is one of its own, also when it presents the same secret as another.    *)
Begin(c, op, d) ==
  /\ \A x \in handlers \cup answers : x.call # c
  /\ hub.secret[d] # 0
  /\ Accepts(d, hub.secret[d])
  /\ handlers' = handlers \cup {[call |-> c, op |-> op, d |-> d, ver |-> hub.secret[d]]}
  /\ UNCHANGED <<multiOrg, request, late, device, directory, client, answers, hub, faults>>

(* The client of the device is active, whatever it was.                    *)
UpsertClient(d) == client' = [client EXCEPT ![d] = "active"]

Register(h) ==
  /\ h \in handlers /\ h.op = "register"
  /\ UpsertClient(h.d)
  /\ handlers' = handlers \ {h}
  /\ UNCHANGED <<multiOrg, request, late, device, directory, answers, hub, faults>>

(* Seeded fault: what was authenticated is trusted after the await.        *)
MayRotateStale(h) == TRUE

(* The transaction looks at the device and its credential again.           *)
MayRotate(h) == device[h.d].st = "active" /\ h.ver = device[h.d].ver /\ h.ver \in device[h.d].live

(* The new credential supersedes the current one.                          *)
Rotated(d) ==
  [device[d] EXCEPT !.ver = @ + 1, !.live = (@ \ {device[d].ver}) \cup {device[d].ver + 1}]

(* The call ends and its answer is on its way.                             *)
Answer(h, ver) ==
  /\ handlers' = handlers \ {h}
  /\ answers' = answers \cup {[call |-> h.call, d |-> h.d, ver |-> ver]}

Rotate(h) ==
  /\ h \in handlers /\ h.op = "rotate"
  /\ MayRotate(h)
  /\ device[h.d].ver < MaxVersion
  /\ device' = [device EXCEPT ![h.d] = Rotated(h.d)]
  /\ Answer(h, device[h.d].ver + 1)
  /\ UNCHANGED <<multiOrg, request, late, directory, client, hub, faults>>

RotateRefused(h) ==
  /\ h \in handlers /\ h.op = "rotate"
  /\ ~MayRotate(h)
  /\ Answer(h, 0)
  /\ UNCHANGED <<multiOrg, request, late, device, directory, client, hub, faults>>

(* The hub (external) takes the secret of whatever answer comes; one that  *)
(* refuses leaves it the secret it has.                                    *)
TakeAnswer(a) ==
  /\ answers' = answers \ {a}
  /\ hub' = IF a.ver = 0 THEN hub ELSE [hub EXCEPT !.secret[a.d] = a.ver]
  /\ UNCHANGED <<multiOrg, request, late, device, directory, client, handlers, faults>>

LoseAnswer(a) ==
  /\ Fault
  /\ answers' = answers \ {a}
  /\ UNCHANGED <<multiOrg, request, late, device, directory, client, handlers, hub>>

Revoked(d) == device' = [device EXCEPT ![d].st = "revoked", ![d].live = {}]
Archive(d) == client' = [client EXCEPT ![d] = IF @ = "none" THEN @ ELSE "archived"]

(* POST revoke, by an operator: device, credentials and client at once.    *)
Revoke(d) ==
  /\ device[d].st = "active"
  /\ Revoked(d)
  /\ Archive(d)
  /\ UNCHANGED <<multiOrg, request, late, directory, handlers, answers, hub, faults>>

(* POST disconnect, by the hub, which needs the current secret.            *)
Disconnect(d) ==
  /\ device[d].st = "active"
  /\ multiOrg => d \in directory
  /\ hub.secret[d] = device[d].ver
  /\ Revoked(d)
  /\ Archive(d)
  /\ UNCHANGED <<multiOrg, request, late, directory, handlers, answers, hub, faults>>

Crash ==
  /\ handlers # {}
  /\ Fault
  /\ handlers' = {}
  /\ UNCHANGED <<multiOrg, request, late, device, directory, client, answers, hub>>

-----------------------------------------------------------------------------
Init ==
  /\ multiOrg \in BOOLEAN
  /\ request = [r \in Requests |-> [st |-> "none", device |-> 0]]
  /\ late = {}
  /\ device = [d \in Devices |-> NoDevice]
  /\ directory = {}
  /\ client = [d \in Devices |-> "none"]
  /\ handlers = {}
  /\ answers = {}
  /\ hub = [known |-> {}, heard |-> {}, polls |-> [r \in Requests |-> 0], secret |-> [d \in Devices |-> 0]]
  /\ faults = 0

(* Everything under /api/device-links/.                                    *)
DeviceLinkRoute ==
  \/ \E r \in Requests : Initiate(r)
  \/ \E r \in Requests : Poll(r)
  \/ \E r \in Requests, decision \in {"approved", "denied"} : Decide(r, decision)
  \/ \E r \in Requests : Consume(r)
  \/ \E r \in Requests : ConsumeRefused(r)
  \/ \E c \in Calls, d \in Devices : Begin(c, "rotate", d)
  \/ \E h \in handlers : Rotate(h)
  \/ \E h \in handlers : RotateRefused(h)
  \/ \E d \in Devices : Revoke(d)
  \/ \E d \in Devices : Disconnect(d)

(* POST /api/sync/register.                                                *)
RegisterRoute ==
  \/ \E c \in Calls, d \in Devices : Begin(c, "register", d)
  \/ \E h \in handlers : Register(h)

Next ==
  \/ DeviceLinkRoute
  \/ RegisterRoute
  \/ \E r \in Requests : Expires(r)
  \/ \E r \in Requests : WindowEnds(r)
  \/ \E r \in Requests : ConsumeThenCrash(r)
  \/ \E a \in answers : TakeAnswer(a)
  \/ \E a \in answers : LoseAnswer(a)
  \/ Crash

Spec == Init /\ [][Next]_vars

(* Time goes on and a hub polls the requests it knows.                     *)
Fairness ==
  \A r \in Requests : WF_vars(Expires(r)) /\ WF_vars(WindowEnds(r)) /\ WF_vars(Poll(r))

FairSpec == Spec /\ Fairness

-----------------------------------------------------------------------------
(* Properties.                                                             *)

(* One request, one usable device: whatever a stop in the middle of a      *)
(* consume left behind, a device that can be reached was consumed by       *)
(* exactly one request, whose consumer it is, and which nobody denied.     *)
UsableIsConsumed ==
  \A d \in Devices, ver \in Versions :
    Accepts(d, ver) => request[device[d].req] = [st |-> "consumed", device |-> d]

(* The current credential of an active device is its only one, and a       *)
(* revoked device has none, also when rotations and revocations overlap.   *)
OneCredential ==
  \A d \in Devices : device[d].live = IF device[d].st = "active" THEN {device[d].ver} ELSE {}

(* A hub is locked out of an active device only when an answer was lost or *)
(* the server stopped: however many of its rotations overlap, begun with   *)
(* the same secret or not, and in whatever order their answers come, it    *)
(* holds the current secret or that is on its way to it.                   *)
SecretWorks ==
  \A d \in Devices : (device[d].st = "active" /\ faults = 0) =>
    \/ Accepts(d, hub.secret[d])
    \/ \E a \in answers : a.d = d /\ Accepts(d, a.ver)

(* denied, expired and consumed are the end of a request, revoked the end  *)
(* of a device (docs/device-linking-v1.md), in whatever order the calls of *)
(* hubs and operators arrive.                                              *)
EndsAreFinal ==
  [][/\ \A r \in Requests : request[r].st \in {"denied", "expired", "consumed"} => request'[r] = request[r]
     /\ \A d \in Devices : device[d].st = "revoked" => device'[d] = device[d]]_vars

(* A request a hub knows ends, decided in time or not: nothing sweeps, so  *)
(* the hub's own polls must expire it, also when it was approved and the   *)
(* limit of polls was reached before.                                      *)
KnownRequestsEnd == \A r \in Requests : (r \in hub.known /\ Open(r)) ~> ~Open(r)
=============================================================================
