-------------------------- MODULE DeviceLink_proof --------------------------
(***************************************************************************)
(* Theorems about DeviceLink, for every set of link requests, any number   *)
(* of devices, credential versions, polls, lost answers and server stops.  *)
(***************************************************************************)
EXTENDS DeviceLink, FiniteSetTheorems, TLAPS

Statuses == {"none", "pending", "approved", "denied", "expired", "consumed"}
Device == [st : {"active", "revoked"}, req : Requests, ver : Versions, live : SUBSET Versions]

Call == [call : Calls, op : {"register", "rotate"}, d : Devices, ver : Versions]

Used == {d \in Devices : device[d] # NoDevice}

Typed ==
  /\ request \in [Requests -> [st : Statuses, device : 0 .. MaxDevices]]
  /\ \A r \in Requests : request[r].st = "consumed" <=> request[r].device # 0
  /\ device \in [Devices -> Device \cup {NoDevice}]
  /\ client \in [Devices -> {"none", "active", "archived"}]
  /\ handlers \subseteq Call
  /\ answers \subseteq Answers

(* Devices are numbered without gaps, so that a new one replaces nothing.  *)
Prefix == \E k \in 0 .. MaxDevices : Used = 1 .. k

(* A device was consumed by its request, or nothing can be routed to it:   *)
(* the device is written before the request and the directory after both.  *)
Belongs ==
  \A d \in Used : \/ request[device[d].req] = [st |-> "consumed", device |-> d]
                  \/ multiOrg /\ d \notin directory

IInv ==
  /\ Typed
  /\ directory \subseteq Used
  /\ Prefix
  /\ Belongs
  /\ OneCredential

-----------------------------------------------------------------------------
(* What EndsAreFinal says of one step. *)
EndsStay ==
  /\ \A r \in Requests : request[r].st \in {"denied", "expired", "consumed"} => request'[r] = request[r]
  /\ \A d \in Devices : device[d].st = "revoked" => device'[d] = device[d]

(* The devices in use are those with a status. *)
LEMMA UsedByStatus ==
  ASSUME Typed
  PROVE  /\ \A d \in Devices : d \in Used <=> device[d].st \in {"active", "revoked"}
         /\ \A d \in Used : device[d] \in Device
<1>1. NoDevice.st = "none"
  BY DEF NoDevice
<1>2. \A e \in Device : e.st \in {"active", "revoked"}
  BY DEF Device
<1> QED BY <1>1, <1>2 DEF Typed, Used

(* The number of a new device is the first that is free. *)
LEMMA NewDeviceIsFree ==
  ASSUME IInv, NewDevice <= MaxDevices
  PROVE  /\ NewDevice \in Devices
         /\ NewDevice \notin Used
         /\ Used \cup {NewDevice} = 1 .. NewDevice
<1>1. PICK k \in 0 .. MaxDevices : Used = 1 .. k
  BY DEF IInv, Prefix
<1>2. k \in Nat
  BY <1>1, CountAssumption
<1>3. Cardinality(Used) = k
  BY <1>1, <1>2, FS_Interval
<1>4. NewDevice = k + 1
  BY <1>3 DEF NewDevice, Used
<1> QED BY <1>1, <1>2, <1>4, CountAssumption DEF Devices

(* Requests keep their types and their ends when every one that changes    *)
(* was still open or new and is not consumed by it.                        *)
LEMMA RequestsMove ==
  ASSUME IInv,
         request' \in [Requests -> [st : Statuses, device : 0 .. MaxDevices]],
         \A r \in Requests : \/ request'[r] = request[r]
                             \/ /\ request[r].st \in {"none", "pending", "approved"}
                                /\ request'[r].st \in Statuses \ {"consumed"}
                                /\ request'[r].device = request[r].device,
         UNCHANGED <<multiOrg, device, directory, client>>,
         handlers' \subseteq Call, answers' \subseteq Answers
  PROVE  IInv' /\ EndsStay
<1>1. Used' = Used
  BY DEF Used
<1>2. Typed'
  BY DEF IInv, Typed
<1>3. \A r \in Requests : request[r].st \in {"denied", "expired", "consumed"} => request'[r] = request[r]
  OBVIOUS
<1>4. \A d \in Used : device[d].req \in Requests
  BY UsedByStatus DEF IInv, Device
<1>5. Belongs'
  <2> SUFFICES ASSUME NEW d \in Used
               PROVE  \/ request'[device[d].req] = [st |-> "consumed", device |-> d]
                      \/ multiOrg /\ d \notin directory
    BY <1>1 DEF Belongs
  <2>1. CASE request[device[d].req] = [st |-> "consumed", device |-> d]
    BY <1>3, <1>4, <2>1
  <2>2. CASE multiOrg /\ d \notin directory
    BY <2>2
  <2> QED BY <2>1, <2>2 DEF IInv, Belongs
<1>6. Prefix' /\ (directory \subseteq Used)' /\ OneCredential'
  BY <1>1 DEF IInv, Prefix, OneCredential
<1> QED BY <1>2, <1>3, <1>5, <1>6 DEF IInv, EndsStay

(* Changing one active device keeps the invariant, when it keeps its       *)
(* request and leaves the device with its right credentials.               *)
LEMMA DeviceMoves ==
  ASSUME IInv,
         NEW d \in Devices, NEW e \in Device,
         device[d].st = "active",
         e.req = device[d].req,
         e.live = (IF e.st = "active" THEN {e.ver} ELSE {}),
         device' = [device EXCEPT ![d] = e],
         UNCHANGED <<multiOrg, request, directory>>,
         client' \in [Devices -> {"none", "active", "archived"}],
         handlers' \subseteq handlers, answers' \subseteq Answers
  PROVE  IInv' /\ EndsStay
<1>1. d \in Used /\ e # NoDevice
  BY UsedByStatus DEF IInv, Device, NoDevice
<1>2. Typed'
  BY DEF IInv, Typed
<1>3. /\ device'[d] = e
      /\ \A x \in Devices : x # d => device'[x] = device[x]
  BY DEF IInv, Typed
<1>4. Used' = Used
  BY <1>1, <1>3 DEF Used
<1>5. \A x \in Devices : device'[x].req = device[x].req
  BY <1>3
<1>6. Belongs'
  BY <1>4, <1>5 DEF IInv, Belongs, Used
<1>7. OneCredential'
  BY <1>3 DEF IInv, OneCredential
<1>8. EndsStay
  BY <1>3 DEF EndsStay
<1> QED BY <1>2, <1>4, <1>6, <1>7, <1>8 DEF IInv, Prefix

-----------------------------------------------------------------------------
(* What is true before the first request. *)
LEMMA InitInv == Init => IInv
<1> SUFFICES ASSUME Init PROVE IInv
  OBVIOUS
<1>1. Typed
  BY CountAssumption DEF Init, Typed, Statuses
<1>2. Used = {}
  BY DEF Init, Used
<1>3. Prefix
  <2>1. 0 \in 0 .. MaxDevices /\ Used = 1 .. 0
    BY <1>2, CountAssumption
  <2> QED BY <2>1 DEF Prefix
<1>4. OneCredential
  BY DEF Init, OneCredential, NoDevice
<1> QED BY <1>1, <1>2, <1>3, <1>4 DEF IInv, Belongs, Init

(* A consume that gets through writes the first free device and ends its   *)
(* request; one that stops half way leaves the device out of the directory.*)
LEMMA ConsumeKeeps ==
  ASSUME IInv,
         NEW r \in Requests,
         Consumable(r),
         Insert(r),
         \/ MarkConsumed(r)
         \/ multiOrg /\ UNCHANGED request /\ UNCHANGED directory,
         Enter \/ UNCHANGED directory,
         UNCHANGED <<multiOrg, client>>,
         handlers' \subseteq handlers, answers' \subseteq Answers
  PROVE  IInv' /\ EndsStay
<1> DEFINE new == NewDevice
<1> DEFINE e == [st |-> "active", req |-> r, ver |-> 1, live |-> {1}]
<1>1. /\ new \in Devices
      /\ new \notin Used
      /\ Used \cup {new} = 1 .. new
  BY NewDeviceIsFree DEF Consumable
<1> HIDE DEF new
<1>2. /\ device' = [device EXCEPT ![new] = e]
      /\ MarkConsumed(r) => request' = [request EXCEPT ![r] = [st |-> "consumed", device |-> new]]
      /\ Enter => directory' = directory \cup {new}
  BY DEF Insert, MarkConsumed, Enter, new
<1>3. e \in Device /\ e # NoDevice
  BY CountAssumption DEF Device, Versions, NoDevice
<1> HIDE DEF e
<1>4. /\ device'[new] = e
      /\ \A x \in Devices : x # new => device'[x] = device[x]
  BY <1>1, <1>2 DEF IInv, Typed
<1>5. Used' = Used \cup {new}
  BY <1>1, <1>3, <1>4 DEF Used
<1>6. new \in 1 .. MaxDevices
  BY <1>1 DEF Devices
<1>7. Typed'
  <2>1. /\ request' \in [Requests -> [st : Statuses, device : 0 .. MaxDevices]]
        /\ \A q \in Requests : request'[q].st = "consumed" <=> request'[q].device # 0
    <3>1. CASE MarkConsumed(r)
      BY <1>2, <1>6, <3>1 DEF IInv, Typed, Statuses
    <3>2. CASE UNCHANGED request
      BY <3>2 DEF IInv, Typed
    <3> QED BY <3>1, <3>2
  <2>2. device' \in [Devices -> Device \cup {NoDevice}]
    BY <1>1, <1>2, <1>3 DEF IInv, Typed
  <2> QED BY <2>1, <2>2 DEF IInv, Typed
<1>8. (directory \subseteq Used)'
  BY <1>2, <1>5 DEF IInv
<1>9. Prefix'
  BY <1>1, <1>5, <1>6, CountAssumption DEF Prefix
<1>10. \A q \in Requests : q # r => request'[q] = request[q]
  BY <1>2 DEF IInv, Typed
<1>11. Belongs'
  <2> SUFFICES ASSUME NEW d \in Used \cup {new}
               PROVE  \/ request'[device'[d].req] = [st |-> "consumed", device |-> d]
                      \/ multiOrg' /\ d \notin directory'
    BY <1>5 DEF Belongs
  <2>1. CASE d = new
    <3>1. device'[d].req = r
      BY <1>4, <2>1 DEF e
    <3>2. CASE MarkConsumed(r)
      BY <1>2, <2>1, <3>1, <3>2 DEF IInv, Typed
    <3>3. CASE multiOrg /\ UNCHANGED request /\ UNCHANGED directory
      BY <1>1, <2>1, <3>3 DEF IInv
    <3> QED BY <3>2, <3>3
  <2>2. CASE d \in Used /\ d # new
    <3>1. device'[d] = device[d] /\ device[d].req \in Requests
      BY <1>4, <2>2, UsedByStatus DEF IInv, Used, Device
    <3>2. CASE request[device[d].req] = [st |-> "consumed", device |-> d]
      <4>1. device[d].req # r
        BY <3>2 DEF Consumable
      <4> QED BY <1>10, <3>1, <3>2, <4>1
    <3>3. CASE multiOrg /\ d \notin directory
      BY <1>2, <2>2, <3>3
    <3> QED BY <2>2, <3>2, <3>3 DEF IInv, Belongs
  <2> QED BY <2>1, <2>2
<1>12. OneCredential'
  <2>1. e.live = {e.ver} /\ e.st = "active"
    BY DEF e
  <2> QED BY <1>4, <2>1 DEF IInv, OneCredential
<1>13. EndsStay
  <2>1. \A q \in Requests :
          request[q].st \in {"denied", "expired", "consumed"} => request'[q] = request[q]
    BY <1>10 DEF Consumable
  <2>2. \A d \in Devices : device[d].st = "revoked" => d # new
    BY <1>1, UsedByStatus DEF IInv
  <2> QED BY <1>4, <2>1, <2>2 DEF EndsStay
<1> QED BY <1>7, <1>8, <1>9, <1>11, <1>12, <1>13 DEF IInv

(* Every step of Next keeps the invariant and every end. *)
LEMMA NextInv == IInv /\ [Next]_vars => IInv' /\ EndsStay
<1> SUFFICES ASSUME IInv, [Next]_vars PROVE IInv' /\ EndsStay
  OBVIOUS
<1>t. handlers \subseteq Call /\ answers \subseteq Answers /\ request \in [Requests -> [st : Statuses, device : 0 .. MaxDevices]]
  BY DEF IInv, Typed
<1>a. ASSUME UNCHANGED <<multiOrg, request, device, directory>>,
             client' \in [Devices -> {"none", "active", "archived"}],
             handlers' \subseteq Call, answers' \subseteq Answers
      PROVE  IInv' /\ EndsStay
  <2>1. Used' = Used
    BY <1>a DEF Used
  <2> QED BY <1>a, <2>1 DEF IInv, Typed, Prefix, Belongs, OneCredential, EndsStay
<1>b. ASSUME NEW r \in Requests, NEW st \in {"pending", "approved", "denied", "expired"},
             request[r].st \in {"none", "pending", "approved"},
             request' = [request EXCEPT ![r].st = st],
             UNCHANGED <<multiOrg, device, directory, client, handlers, answers>>
      PROVE  IInv' /\ EndsStay
  <2>1. request' \in [Requests -> [st : Statuses, device : 0 .. MaxDevices]]
    BY <1>t, <1>b DEF Statuses
  <2>2. /\ request'[r].st = st /\ request'[r].device = request[r].device
        /\ \A q \in Requests : q # r => request'[q] = request[q]
    BY <1>t, <1>b
  <2> QED BY <1>b, <1>t, <2>1, <2>2, RequestsMove DEF Statuses
<1>c. ASSUME NEW r \in Requests, request' = Expired(r) \/ UNCHANGED request,
             UNCHANGED <<multiOrg, device, directory, client, handlers, answers>>
      PROVE  IInv' /\ EndsStay
  <2>1. CASE UNCHANGED request
    BY <1>a, <1>c, <1>t, <2>1 DEF IInv, Typed
  <2>2. CASE Open(r) /\ request' = [request EXCEPT ![r].st = "expired"]
    BY <1>b, <1>c, <2>2 DEF Open
  <2> QED BY <1>c, <2>1, <2>2 DEF Expired
<1>1. ASSUME NEW r \in Requests, Initiate(r) PROVE IInv' /\ EndsStay
  <2>1. request[r].device = 0
    BY <1>1 DEF Initiate, IInv, Typed, Statuses
  <2>2. request' = [request EXCEPT ![r].st = "pending"]
    BY <1>1, <1>t, <2>1 DEF Initiate, CreateDeviceLinkRequest, NewRequest
  <2> QED BY <1>1, <1>b, <2>2 DEF Initiate
<1>2. ASSUME NEW r \in Requests, Expires(r) PROVE IInv' /\ EndsStay
  BY <1>2, <1>a, <1>t DEF Expires, IInv, Typed
<1>3. ASSUME NEW r \in Requests, Poll(r) PROVE IInv' /\ EndsStay
  BY <1>3, <1>c DEF Poll
<1>4. ASSUME NEW r \in Requests, WindowEnds(r) PROVE IInv' /\ EndsStay
  BY <1>4, <1>a, <1>t DEF WindowEnds, IInv, Typed
<1>5. ASSUME NEW r \in Requests, NEW decision \in {"approved", "denied"}, Decide(r, decision)
      PROVE  IInv' /\ EndsStay
  <2>1. CASE request[r].st = "pending" /\ r \notin late
    <3>1. request' = [request EXCEPT ![r].st = decision]
      BY <1>5, <2>1 DEF Decide, Decided
    <3> QED BY <1>5, <1>b, <2>1, <3>1 DEF Decide
  <2>2. CASE request[r].st = "pending" /\ r \in late
    BY <1>5, <1>c, <2>2 DEF Decide, Decided, ExpiredByError
  <2>3. CASE request[r].st # "pending"
    BY <1>5, <1>c, <2>3 DEF Decide, Decided
  <2> QED BY <2>1, <2>2, <2>3
<1>6. ASSUME NEW r \in Requests, Consume(r) PROVE IInv' /\ EndsStay
  BY <1>6, ConsumeKeeps DEF Consume, IInv, Typed
<1>7. ASSUME NEW r \in Requests, ConsumeThenCrash(r) PROVE IInv' /\ EndsStay
  BY <1>7, ConsumeKeeps DEF ConsumeThenCrash, IInv, Typed
<1>8. ASSUME NEW r \in Requests, ConsumeRefused(r) PROVE IInv' /\ EndsStay
  BY <1>8, <1>c DEF ConsumeRefused, ExpiredByError
<1>9. ASSUME NEW d \in Devices, NEW op \in {"register", "rotate"}, NEW c \in Calls,
             Begin(c, op, d)
      PROVE  IInv' /\ EndsStay
  <2>1. device[d] \in Device /\ hub.secret[d] \in device[d].live
    BY <1>9, UsedByStatus DEF Begin, Accepts, IInv
  <2>2. hub.secret[d] \in Versions
    BY <2>1 DEF Device
  <2>3. handlers' \subseteq Call
    BY <1>9, <1>t, <2>2 DEF Begin, Call
  <2> QED BY <1>9, <1>a, <1>t, <2>3 DEF Begin, IInv, Typed
<1>10. ASSUME NEW h \in handlers, Register(h) PROVE IInv' /\ EndsStay
  BY <1>10, <1>a, <1>t DEF Register, UpsertClient, IInv, Typed
<1>11. ASSUME NEW h \in handlers, Rotate(h) PROVE IInv' /\ EndsStay
  <2> DEFINE e == Rotated(h.d)
  <2>1. h.d \in Devices /\ device[h.d].st = "active" /\ device[h.d] \in Device
    BY <1>11, <1>t, UsedByStatus DEF Rotate, MayRotate, IInv, Call
  <2>2. device[h.d].live = {device[h.d].ver}
    BY <2>1 DEF IInv, OneCredential
  <2>3. device[h.d].ver + 1 \in Versions
    BY <1>11, <2>1, CountAssumption DEF Rotate, Device, Versions
  <2>4. /\ e \in Device
        /\ e.st = "active"
        /\ e.req = device[h.d].req
        /\ e.live = {e.ver}
    <3> DEFINE x == device[h.d]
               v == x.ver + 1
               live == (x.live \ {x.ver}) \cup {v}
    <3>1. live = {v} /\ live \in SUBSET Versions
      BY <2>2, <2>3
    <3>2. e = [x EXCEPT !.ver = v, !.live = live]
      BY DEF Rotated
    <3> HIDE DEF x, v, live
    <3>3. x \in Device /\ v \in Versions /\ x = device[h.d] /\ x.st = "active"
      BY <2>1, <2>3 DEF x, v
    <3>4. e \in Device /\ e.st = x.st /\ e.req = x.req /\ e.ver = v /\ e.live = live
      <4> HIDE DEF e
      <4> QED BY <3>1, <3>2, <3>3 DEF Device
    <3> HIDE DEF e
    <3> QED BY <3>1, <3>3, <3>4
  <2> HIDE DEF e
  <2>5. device' = [device EXCEPT ![h.d] = e]
    BY <1>11 DEF Rotate, e
  <2>6. /\ handlers' \subseteq handlers
        /\ answers' \subseteq Answers
        /\ client' \in [Devices -> {"none", "active", "archived"}]
    <3>1. answers' = answers \cup {[call |-> h.call, d |-> h.d, ver |-> device[h.d].ver + 1]}
      BY <1>11 DEF Rotate, Answer
    <3>2. h.call \in Calls /\ device[h.d].ver + 1 \in 0 .. MaxVersion
      BY <1>t, <2>3, CountAssumption DEF Call, Versions
    <3> QED BY <1>11, <1>t, <2>1, <3>1, <3>2 DEF Rotate, Answer, Answers, IInv, Typed
  <2> QED BY <1>11, <2>1, <2>4, <2>5, <2>6, DeviceMoves DEF Rotate
<1>12. ASSUME NEW h \in handlers, RotateRefused(h) PROVE IInv' /\ EndsStay
  <2>1. answers' \subseteq Answers
    BY <1>12, <1>t, CountAssumption DEF RotateRefused, Answer, Answers, Call
  <2> QED BY <1>12, <1>a, <1>t, <2>1 DEF RotateRefused, Answer, IInv, Typed
<1>e. ASSUME NEW a \in answers, TakeAnswer(a) \/ LoseAnswer(a) PROVE IInv' /\ EndsStay
  BY <1>e, <1>a, <1>t DEF TakeAnswer, LoseAnswer, IInv, Typed
<1>d. ASSUME NEW d \in Devices, device[d].st = "active", Revoked(d), Archive(d),
             UNCHANGED <<multiOrg, request, directory, handlers, answers>>
      PROVE  IInv' /\ EndsStay
  <2> DEFINE e == [device[d] EXCEPT !.st = "revoked", !.live = {}]
  <2>1. device[d] \in Device
    BY <1>d, UsedByStatus DEF IInv
  <2>2. e \in Device /\ e.st = "revoked" /\ e.req = device[d].req /\ e.live = {}
    BY <2>1 DEF Device
  <2>3. device' = [device EXCEPT ![d] = e]
    BY <1>d DEF Revoked
  <2>4. client' \in [Devices -> {"none", "active", "archived"}]
    BY <1>d DEF Archive, IInv, Typed
  <2> HIDE DEF e
  <2> QED BY <1>d, <1>t, <2>2, <2>3, <2>4, DeviceMoves
<1>13. ASSUME NEW d \in Devices, Revoke(d) PROVE IInv' /\ EndsStay
  BY <1>13, <1>d DEF Revoke
<1>14. ASSUME NEW d \in Devices, Disconnect(d) PROVE IInv' /\ EndsStay
  BY <1>14, <1>d DEF Disconnect
<1>15. CASE Crash
  BY <1>15, <1>a, <1>t DEF Crash, IInv, Typed
<1>16. CASE UNCHANGED vars
  BY <1>16, <1>a, <1>t DEF vars, IInv, Typed
<1> QED
  BY <1>1, <1>2, <1>3, <1>4, <1>5, <1>6, <1>7, <1>8, <1>9, <1>10, <1>11, <1>12, <1>13, <1>14,
     <1>15, <1>16, <1>e DEF Next, DeviceLinkRoute, RegisterRoute

(* The inductive invariant holds in every behaviour. *)
THEOREM Invariance == Spec => []IInv
<1>1. IInv /\ [Next]_vars => IInv'
  BY NextInv
<1> QED BY InitInv, <1>1, PTL DEF Spec

-----------------------------------------------------------------------------
(* Requests, devices, directory, clients and pending calls keep their      *)
(* types, and exactly the consumed requests have a device.                 *)
THEOREM TypeCorrect == Spec => []TypeOK
<1>1. IInv => TypeOK
  <2> SUFFICES ASSUME IInv PROVE TypeOK
    OBVIOUS
  <2>1. \A r \in Requests : request[r].st \in Statuses /\ request[r].device \in 0 .. MaxDevices
    BY DEF IInv, Typed
  <2>2. \A d \in Devices : device[d] = NoDevice \/ device[d] \in Device
    BY DEF IInv, Typed
  <2>3. \A e \in Device : e.req \in Requests /\ e.ver \in Versions /\ e.live \subseteq Versions
    BY DEF Device
  <2> QED BY <2>1, <2>2, <2>3 DEF TypeOK, IInv, Typed, Statuses, Used, Call
<1> QED BY Invariance, <1>1, PTL

(* Rotations, revocations and stops in any order leave an active device    *)
(* its current credential and no other, and a revoked device none.         *)
THEOREM OneCredentialHolds == Spec => []OneCredential
<1>1. IInv => OneCredential
  BY DEF IInv
<1> QED BY Invariance, <1>1, PTL

(* Wherever a consume stops, only devices whose request is consumed, by    *)
(* them alone, can authenticate.                                           *)
THEOREM UsableIsConsumedHolds == Spec => []UsableIsConsumed
<1>1. IInv => UsableIsConsumed
  <2> SUFFICES ASSUME IInv, NEW d \in Devices, NEW ver \in Versions, Accepts(d, ver)
               PROVE  request[device[d].req] = [st |-> "consumed", device |-> d]
    BY DEF UsableIsConsumed
  <2>1. d \in Used
    BY UsedByStatus DEF Accepts, IInv
  <2>2. multiOrg => d \in directory
    BY DEF Accepts
  <2> QED BY <2>1, <2>2 DEF IInv, Belongs
<1> QED BY Invariance, <1>1, PTL

(* A request that was denied, expired or consumed and a device that was    *)
(* revoked never change again.                                             *)
THEOREM EndsAreFinalHolds == Spec => EndsAreFinal
<1>1. IInv /\ [Next]_vars => [EndsStay]_vars
  BY NextInv
<1> QED BY Invariance, <1>1, PTL DEF Spec, EndsAreFinal, EndsStay

-----------------------------------------------------------------------------
(* Only devices call and are answered. *)
Callers == \A x \in handlers \cup answers : x.d \in Used

LEMMA NextCallers == IInv /\ Callers /\ [Next]_vars => Callers'
<1> SUFFICES ASSUME IInv, Callers, [Next]_vars PROVE Callers'
  OBVIOUS
<1>t. /\ \A x \in handlers \cup answers : x.d \in Used
      /\ handlers \subseteq Call
  BY DEF Callers, IInv, Typed
<1>a. ASSUME UNCHANGED device, handlers' \subseteq handlers, answers' \subseteq answers PROVE Callers'
  BY <1>a, <1>t DEF Callers, Used
<1>b. ASSUME NEW d \in Devices, NEW e \in Device, device' = [device EXCEPT ![d] = e],
             handlers' \subseteq handlers, \A x \in answers' : x \in answers \/ x.d \in Used
      PROVE  Callers'
  <2>1. Used \subseteq Used'
    <3>1. e # NoDevice
      BY DEF Device, NoDevice
    <3> QED BY <1>b, <3>1 DEF Used, IInv, Typed
  <2> QED BY <1>b, <1>t, <2>1 DEF Callers
<1>1. ASSUME NEW r \in Requests, Consume(r) \/ ConsumeThenCrash(r) PROVE Callers'
  <2> DEFINE e == [st |-> "active", req |-> r, ver |-> 1, live |-> {1}]
  <2>1. NewDevice \in Devices /\ e \in Device
    BY <1>1, NewDeviceIsFree, CountAssumption DEF Consume, ConsumeThenCrash, Consumable, Device, Versions
  <2> HIDE DEF e
  <2>2. device' = [device EXCEPT ![NewDevice] = e]
    BY <1>1 DEF Consume, ConsumeThenCrash, Insert, e
  <2> QED BY <1>1, <1>b, <2>1, <2>2 DEF Consume, ConsumeThenCrash
<1>2. ASSUME NEW h \in handlers, Rotate(h) PROVE Callers'
  <2>1. h.d \in Used /\ h.d \in Devices
    BY <1>t DEF Used
  <2>2. Used' = Used
    <3>1. device[h.d] \in Device
      BY <2>1, UsedByStatus DEF IInv
    <3>2. PICK e : e = Rotated(h.d)
      OBVIOUS
    <3>3. e.st = device[h.d].st
      BY <3>1, <3>2 DEF Rotated, Device
    <3>4. device' = [device EXCEPT ![h.d] = e] /\ device[h.d].st = "active"
      BY <1>2, <3>2 DEF Rotate, MayRotate
    <3>5. e # NoDevice
      BY <3>3, <3>4 DEF NoDevice
    <3> QED BY <2>1, <3>4, <3>5 DEF Used, IInv, Typed
  <2>3. /\ handlers' \subseteq handlers
        /\ \A x \in answers' : x \in answers \/ x.d = h.d
    BY <1>2 DEF Rotate, Answer
  <2> QED BY <1>t, <2>1, <2>2, <2>3 DEF Callers
<1>3. ASSUME NEW h \in handlers, RotateRefused(h) PROVE Callers'
  <2>1. Used' = Used /\ h.d \in Used
    BY <1>3, <1>t DEF RotateRefused, Used
  <2>2. /\ handlers' \subseteq handlers
        /\ \A x \in answers' : x \in answers \/ x.d = h.d
    BY <1>3 DEF RotateRefused, Answer
  <2> QED BY <1>t, <2>1, <2>2 DEF Callers
<1>4. ASSUME NEW d \in Devices, Revoke(d) \/ Disconnect(d) PROVE Callers'
  <2> DEFINE e == [device[d] EXCEPT !.st = "revoked", !.live = {}]
  <2>1. device[d] \in Device
    BY <1>4, UsedByStatus DEF Revoke, Disconnect, IInv
  <2>2. e \in Device
    BY <2>1 DEF Device
  <2>3. device' = [device EXCEPT ![d] = e]
    BY <1>4 DEF Revoke, Disconnect, Revoked
  <2> HIDE DEF e
  <2> QED BY <1>4, <1>b, <2>2, <2>3 DEF Revoke, Disconnect
<1>5. ASSUME NEW d \in Devices, NEW op \in {"register", "rotate"}, NEW c \in Calls, Begin(c, op, d)
      PROVE  Callers'
  <2>1. d \in Used
    BY <1>5, UsedByStatus DEF Begin, Accepts, IInv
  <2>2. /\ UNCHANGED <<device, answers>>
        /\ \A x \in handlers' : x \in handlers \/ x.d = d
    BY <1>5 DEF Begin
  <2> QED BY <1>t, <2>1, <2>2 DEF Callers, Used
<1>6. ASSUME NEW h \in handlers, Register(h) PROVE Callers'
  BY <1>6, <1>a DEF Register
<1>7. ASSUME NEW a \in answers, TakeAnswer(a) \/ LoseAnswer(a) PROVE Callers'
  BY <1>7, <1>a DEF TakeAnswer, LoseAnswer
<1>8. ASSUME NEW r \in Requests, NEW decision \in {"approved", "denied"},
             Initiate(r) \/ Poll(r) \/ Decide(r, decision) \/ ConsumeRefused(r) \/ Expires(r) \/ WindowEnds(r)
      PROVE  Callers'
  BY <1>8, <1>a DEF Initiate, Poll, Decide, ConsumeRefused, Expires, WindowEnds
<1>9. CASE Crash \/ UNCHANGED vars
  BY <1>9, <1>a DEF Crash, vars
<1> QED
  BY <1>1, <1>2, <1>3, <1>4, <1>5, <1>6, <1>7, <1>8, <1>9 DEF Next, DeviceLinkRoute, RegisterRoute

-----------------------------------------------------------------------------
(* What a hub holds. *)
Hub == [known : SUBSET Requests, heard : SUBSET Requests, polls : [Requests -> Nat],
        secret : [Devices -> Nat]]

(* New secrets on their way to the hub. *)
News(d) == {a \in answers : a.d = d /\ a.ver # 0}

(* The hub of d holds the current version of its secret, or one newer      *)
(* secret is on its way, which is current; then no call that still waits   *)
(* was begun with the current one, so that none can supersede it before.   *)
Held(d) ==
  /\ multiOrg => d \in directory
  /\ \A h \in handlers : h.d = d => h.ver <= device[d].ver
  /\ \/ News(d) = {} /\ hub.secret[d] = device[d].ver
     \/ /\ \E a \in answers : News(d) = {a} /\ a.ver = device[d].ver
        /\ hub.secret[d] < device[d].ver
        /\ \A h \in handlers : h.d = d => h.ver < device[d].ver

HubInv ==
  /\ hub \in Hub
  /\ faults \in Nat
  /\ faults = 0 => \A d \in Devices : device[d].st = "active" => Held(d)

(* A fault excuses whatever became of the secrets. *)
LEMMA FaultExcuses ==
  ASSUME HubInv, Fault, hub' = hub
  PROVE  HubInv'
<1>1. faults' \in Nat /\ faults' # 0
  BY DEF HubInv, Fault
<1> QED BY <1>1 DEF HubInv

(* What a step does not touch of a device stays as it is held. *)
LEMMA HeldStays ==
  ASSUME NEW d \in Devices, Held(d),
         device'[d] = device[d], hub'.secret[d] = hub.secret[d],
         \A h \in handlers' : h.d = d => h \in handlers,
         News(d)' = News(d),
         directory \subseteq directory', UNCHANGED multiOrg
  PROVE  Held(d)'
<1>1. CASE News(d) = {} /\ hub.secret[d] = device[d].ver
  BY <1>1 DEF Held
<1>2. ASSUME NEW a \in answers, News(d) = {a}, a.ver = device[d].ver,
             hub.secret[d] < device[d].ver, \A h \in handlers : h.d = d => h.ver < device[d].ver
      PROVE  Held(d)'
  <2>1. a \in answers' /\ News(d)' = {a}
    BY <1>2 DEF News
  <2> QED BY <1>2, <2>1 DEF Held
<1> QED BY <1>1, <1>2 DEF Held

(* A step of a device d after which d is held, or out of use, leaves every *)
(* other as it was.                                                        *)
LEMMA SecretMoves ==
  ASSUME IInv, HubInv, NEW d \in Devices,
         hub' \in Hub,
         \A x \in Devices : x # d =>
           /\ hub'.secret[x] = hub.secret[x] /\ device'[x] = device[x]
           /\ \A h \in handlers' : h.d = x => h \in handlers
           /\ News(x)' = News(x),
         directory \subseteq directory',
         faults = 0 /\ device'[d].st = "active" => Held(d)',
         UNCHANGED <<multiOrg, faults>>
  PROVE  HubInv'
<1> SUFFICES ASSUME faults = 0, NEW x \in Devices, device'[x].st = "active" PROVE Held(x)'
  BY DEF HubInv
<1>1. CASE x # d
  <2>1. Held(x)
    BY <1>1 DEF HubInv
  <2> QED BY <1>1, <2>1, HeldStays
<1> QED BY <1>1

(* Every step keeps what hubs hold. *)
LEMMA NextHub == IInv /\ Callers /\ HubInv /\ [Next]_vars => HubInv'
<1> SUFFICES ASSUME IInv, Callers, HubInv, [Next]_vars PROVE HubInv'
  OBVIOUS
<1>t. /\ hub \in Hub
      /\ handlers \subseteq Call /\ answers \subseteq Answers
      /\ device \in [Devices -> Device \cup {NoDevice}]
      /\ \A x \in Device : x.ver \in Nat
  BY CountAssumption DEF HubInv, IInv, Typed, Device, Versions
<1>a. ASSUME hub' \in Hub, hub'.secret = hub.secret, handlers' \subseteq handlers,
             UNCHANGED <<multiOrg, device, directory, answers, faults>>
      PROVE  HubInv'
  <2> SUFFICES ASSUME faults = 0, NEW x \in Devices, device[x].st = "active" PROVE Held(x)'
    BY <1>a DEF HubInv
  <2>1. Held(x) /\ News(x)' = News(x)
    BY <1>a DEF HubInv, News
  <2> QED BY <1>a, <2>1, HeldStays
<1>b. ASSUME UNCHANGED <<multiOrg, device, directory, answers, hub, faults>>, handlers' \subseteq handlers
      PROVE  HubInv'
  BY <1>b, <1>a, <1>t
<1>s. ASSUME NEW d \in Devices, NEW v \in Nat, hub' = [hub EXCEPT !.secret[d] = v]
      PROVE  /\ hub' \in Hub
             /\ hub'.secret[d] = v
             /\ \A x \in Devices : x # d => hub'.secret[x] = hub.secret[x]
  BY <1>s, <1>t DEF Hub
<1>1. ASSUME NEW r \in Requests, Initiate(r) PROVE HubInv'
  <2>1. CASE hub' = [hub EXCEPT !.known = @ \cup {r}] /\ UNCHANGED faults
    <3>1. hub' \in Hub /\ hub'.secret = hub.secret
      BY <1>t, <2>1 DEF Hub
    <3> QED BY <1>1, <1>a, <2>1, <3>1 DEF Initiate
  <2>2. CASE Fault /\ UNCHANGED hub
    BY <2>2, FaultExcuses
  <2> QED BY <1>1, <2>1, <2>2 DEF Initiate
<1>2. ASSUME NEW r \in Requests, Poll(r) PROVE HubInv'
  <2>1. PICK n \in Nat : n = hub.polls[r] + 1
    BY <1>t DEF Hub
  <2>2. PICK heard \in SUBSET Requests :
          heard = (IF request'[r].st = "approved" THEN hub.heard \cup {r} ELSE hub.heard)
    BY <1>t DEF Hub
  <2>3. hub' = [hub EXCEPT !.polls[r] = n, !.heard = heard]
    BY <1>2, <2>1, <2>2 DEF Poll
  <2>4. hub' \in Hub /\ hub'.secret = hub.secret
    BY <1>t, <2>3 DEF Hub
  <2> QED BY <1>2, <1>a, <2>4 DEF Poll
<1>3. ASSUME NEW r \in Requests, WindowEnds(r) PROVE HubInv'
  <2>1. hub' \in Hub /\ hub'.secret = hub.secret
    BY <1>t, <1>3 DEF WindowEnds, Hub
  <2> QED BY <1>3, <1>a, <2>1 DEF WindowEnds
<1>4. ASSUME NEW r \in Requests, Consume(r) PROVE HubInv'
  <2>1. PICK new \in Devices : new = NewDevice /\ new \notin Used
    BY <1>4, NewDeviceIsFree DEF Consume, Consumable
  <2>2. CASE hub' = [hub EXCEPT !.secret[new] = 1] /\ UNCHANGED faults
    <3>1. /\ device'[new].ver = 1
          /\ \A x \in Devices : x # new => device'[x] = device[x]
      BY <1>4, <1>t, <2>1 DEF Consume, Insert
    <3>2. new \in directory' /\ directory \subseteq directory'
      BY <1>4, <2>1 DEF Consume, Enter
    <3>3. UNCHANGED <<multiOrg, handlers, answers>>
      BY <1>4 DEF Consume
    <3>4. \A x \in handlers \cup answers : x.d # new
      BY <2>1 DEF Callers
    <3>5. \A x \in Devices : News(x)' = News(x)
      BY <3>3 DEF News
    <3>6. hub' \in Hub /\ hub'.secret[new] = 1 /\ \A x \in Devices : x # new => hub'.secret[x] = hub.secret[x]
      BY <1>s, <2>1, <2>2
    <3>7. Held(new)'
      <4>1. News(new)' = {}
        BY <2>1, <3>4, <3>5 DEF News
      <4> QED BY <3>1, <3>2, <3>3, <3>4, <3>6, <4>1 DEF Held
    <3> QED BY <2>1, <2>2, <3>1, <3>2, <3>3, <3>5, <3>6, <3>7, SecretMoves
  <2>3. CASE Fault /\ UNCHANGED hub
    BY <2>3, FaultExcuses
  <2> QED BY <1>4, <2>1, <2>2, <2>3 DEF Consume
<1>5. ASSUME NEW h \in handlers, Rotate(h) PROVE HubInv'
  <2> DEFINE d == h.d
             v == device[h.d].ver
             a == [call |-> h.call, d |-> h.d, ver |-> v + 1]
  <2>1. /\ d \in Devices /\ device[d].st = "active" /\ v \in Nat /\ h.ver = v
    BY <1>5, <1>t, UsedByStatus DEF Rotate, MayRotate, IInv, Used, Call
  <2>2. /\ answers' = answers \cup {a}
        /\ handlers' \subseteq handlers
        /\ UNCHANGED <<multiOrg, directory, hub, faults>>
    BY <1>5 DEF Rotate, Answer
  <2>3. /\ device'[d].ver = v + 1
        /\ \A x \in Devices : x # d => device'[x] = device[x]
    <3>1. device[d] \in Device
      BY <2>1, UsedByStatus DEF IInv
    <3>2. Rotated(d).ver = v + 1
      BY <3>1 DEF Rotated, Device
    <3> QED BY <1>5, <1>t, <2>1, <3>2 DEF Rotate
  <2>4. a.d = d /\ a.ver = v + 1
    OBVIOUS
  <2> HIDE DEF a, v, d
  <2>5. \A x \in Devices : x # d => News(x)' = News(x)
    BY <2>2, <2>4 DEF News
  <2>6. ASSUME faults = 0 PROVE Held(d)'
    <3>1. Held(d)
      BY <2>1, <2>6 DEF HubInv
    <3>2. ~\A x \in handlers : x.d = d => x.ver < device[d].ver
      BY <2>1 DEF d, v
    <3>3. News(d) = {} /\ hub.secret[d] = device[d].ver
      BY <3>1, <3>2 DEF Held
    <3>4. News(d)' = {a} /\ a \in answers'
      <4>1. a.ver # 0
        BY <2>1, <2>4
      <4> QED BY <2>2, <2>4, <3>3, <4>1 DEF News
    <3>5. hub'.secret[d] < device'[d].ver
      BY <2>1, <2>2, <2>3, <3>3 DEF v, d
    <3>6. \A x \in handlers' : x.d = d => x.ver < device'[d].ver
      <4> SUFFICES ASSUME NEW x \in handlers', x.d = d PROVE x.ver < device'[d].ver
        OBVIOUS
      <4>1. x.ver <= v /\ x.ver \in Nat
        BY <1>t, <2>2, <3>1, CountAssumption DEF Held, Call, Versions, v, d
      <4> QED BY <2>1, <2>3, <4>1
    <3>7. multiOrg' => d \in directory'
      BY <2>2, <3>1 DEF Held
    <3>8. \A x \in handlers' : x.d = d => x.ver <= device'[d].ver
      <4> SUFFICES ASSUME NEW x \in handlers', x.d = d PROVE x.ver <= device'[d].ver
        OBVIOUS
      <4>1. x.ver \in Nat
        BY <1>t, <2>2, CountAssumption DEF Call, Versions
      <4> QED BY <2>1, <2>3, <3>6, <4>1
    <3> QED BY <2>3, <2>4, <3>4, <3>5, <3>6, <3>7, <3>8 DEF Held
  <2> QED BY <1>t, <2>1, <2>2, <2>3, <2>5, <2>6, SecretMoves
<1>6. ASSUME NEW h \in handlers, RotateRefused(h) PROVE HubInv'
  <2> DEFINE a == [call |-> h.call, d |-> h.d, ver |-> 0]
  <2>1. /\ handlers' \subseteq handlers
        /\ answers' = answers \cup {a}
        /\ a.ver = 0
        /\ UNCHANGED <<multiOrg, directory, device, hub, faults>>
    BY <1>6 DEF RotateRefused, Answer
  <2> HIDE DEF a
  <2>2. \A x \in Devices : News(x)' = News(x)
    BY <2>1 DEF News
  <2> SUFFICES ASSUME faults = 0, NEW x \in Devices, device[x].st = "active" PROVE Held(x)'
    BY <2>1 DEF HubInv
  <2>3. Held(x)
    BY DEF HubInv
  <2> QED BY <2>1, <2>2, <2>3, HeldStays
<1>7. ASSUME NEW a \in answers, TakeAnswer(a) PROVE HubInv'
  <2>1. /\ answers' = answers \ {a}
        /\ UNCHANGED <<multiOrg, directory, device, handlers, faults>>
        /\ a.d \in Devices /\ a.ver \in Nat
    BY <1>7, <1>t, CountAssumption DEF TakeAnswer, Answers
  <2>2. CASE a.ver = 0
    <3>1. \A x \in Devices : News(x)' = News(x)
      BY <2>1, <2>2 DEF News
    <3>2. UNCHANGED hub
      BY <1>7, <2>2 DEF TakeAnswer
    <3> SUFFICES ASSUME faults = 0, NEW x \in Devices, device[x].st = "active" PROVE Held(x)'
      BY <2>1, <3>2 DEF HubInv
    <3>3. Held(x)
      BY DEF HubInv
    <3> QED BY <2>1, <3>1, <3>2, <3>3, HeldStays
  <2>3. CASE a.ver # 0
    <3>1. hub' = [hub EXCEPT !.secret[a.d] = a.ver]
      BY <1>7, <2>3 DEF TakeAnswer
    <3>2. /\ hub' \in Hub /\ hub'.secret[a.d] = a.ver
          /\ \A x \in Devices : x # a.d => hub'.secret[x] = hub.secret[x]
      BY <1>s, <2>1, <3>1
    <3>3. \A x \in Devices : x # a.d => News(x)' = News(x)
      BY <2>1 DEF News
    <3>4. ASSUME faults = 0, device[a.d].st = "active" PROVE Held(a.d)'
      <4>1. Held(a.d)
        BY <2>1, <3>4 DEF HubInv
      <4>2. a \in News(a.d)
        BY <2>3 DEF News
      <4>3. News(a.d) = {a} /\ a.ver = device[a.d].ver
        BY <4>1, <4>2 DEF Held
      <4>4. News(a.d)' = {}
        BY <2>1, <4>3 DEF News
      <4> QED BY <2>1, <3>2, <4>1, <4>3, <4>4 DEF Held
    <3> QED BY <2>1, <3>2, <3>3, <3>4, SecretMoves
  <2> QED BY <2>2, <2>3
<1>8. ASSUME NEW a \in answers, LoseAnswer(a) PROVE HubInv'
  BY <1>8, FaultExcuses DEF LoseAnswer
<1>c. ASSUME NEW d \in Devices, Revoked(d),
             UNCHANGED <<multiOrg, directory, handlers, answers, hub, faults>>
      PROVE  HubInv'
  <2>1. device'[d].st = "revoked" /\ \A x \in Devices : x # d => device'[x] = device[x]
    <3> DEFINE e == [device[d] EXCEPT !.st = "revoked", !.live = {}]
    <3>1. device[d] \in Device \cup {NoDevice}
      BY <1>t
    <3>2. e.st = "revoked"
      BY <3>1 DEF Device, NoDevice
    <3>3. device' = [device EXCEPT ![d] = e]
      BY <1>c DEF Revoked
    <3> HIDE DEF e
    <3> QED BY <1>t, <3>2, <3>3
  <2>2. \A x \in Devices : News(x)' = News(x)
    BY <1>c DEF News
  <2> QED BY <1>c, <1>t, <2>1, <2>2, SecretMoves
<1>9. ASSUME NEW d \in Devices, Revoke(d) \/ Disconnect(d) PROVE HubInv'
  BY <1>9, <1>c DEF Revoke, Disconnect
<1>10. ASSUME NEW r \in Requests, ConsumeThenCrash(r) PROVE HubInv'
  BY <1>10, FaultExcuses DEF ConsumeThenCrash
<1>11. CASE Crash
  BY <1>11, FaultExcuses DEF Crash
<1>12. ASSUME NEW r \in Requests, Expires(r) \/ ConsumeRefused(r) PROVE HubInv'
  BY <1>12, <1>b DEF Expires, ConsumeRefused
<1>13. ASSUME NEW r \in Requests, NEW decision \in {"approved", "denied"}, Decide(r, decision)
       PROVE  HubInv'
  BY <1>13, <1>b DEF Decide
<1>14. ASSUME NEW d \in Devices, NEW op \in {"register", "rotate"}, NEW c \in Calls, Begin(c, op, d)
       PROVE  HubInv'
  <2>1. /\ \A x \in handlers' : x \in handlers \/ (x.d = d /\ x.ver = hub.secret[d])
        /\ UNCHANGED <<multiOrg, directory, device, answers, hub, faults>>
        /\ hub.secret[d] = device[d].ver
    BY <1>14 DEF Begin, Accepts
  <2>2. \A x \in Devices : News(x)' = News(x)
    BY <2>1 DEF News
  <2>3. ASSUME faults = 0, device[d].st = "active" PROVE Held(d)'
    <3>1. Held(d)
      BY <2>3 DEF HubInv
    <3>2. hub.secret[d] \in Nat
      BY <1>t DEF Hub
    <3>3. News(d) = {}
      BY <2>1, <3>1, <3>2 DEF Held
    <3> QED BY <2>1, <2>2, <3>1, <3>2, <3>3 DEF Held
  <2> QED BY <1>t, <2>1, <2>2, <2>3, SecretMoves
<1>15. ASSUME NEW h \in handlers, Register(h) PROVE HubInv'
  BY <1>15, <1>b DEF Register
<1>16. CASE UNCHANGED vars
  BY <1>16, <1>b DEF vars
<1> QED
  BY <1>1, <1>2, <1>3, <1>4, <1>5, <1>6, <1>7, <1>8, <1>9, <1>10, <1>11, <1>12, <1>13, <1>14,
     <1>15, <1>16 DEF Next, DeviceLinkRoute, RegisterRoute

(* However many rotations and revocations overlap, begun with one secret   *)
(* or several, and in whatever order their answers reach the hub: it holds *)
(* the secret of its active device or that is on its way, unless an answer *)
(* was lost or the server stopped.                                         *)
THEOREM SecretWorksHolds == Spec => []SecretWorks
<1>1. Init => Callers /\ HubInv
  BY DEF Init, Callers, HubInv, Hub, NoDevice
<1>2. IInv /\ HubInv => SecretWorks
  <2> SUFFICES ASSUME IInv, HubInv, NEW d \in Devices, device[d].st = "active", faults = 0
               PROVE  \/ Accepts(d, hub.secret[d])
                      \/ \E a \in answers : a.d = d /\ Accepts(d, a.ver)
    BY DEF SecretWorks
  <2>1. device[d].live = {device[d].ver}
    BY DEF IInv, OneCredential
  <2>2. Held(d)
    BY DEF HubInv
  <2>3. CASE hub.secret[d] = device[d].ver
    BY <2>1, <2>2, <2>3 DEF Held, Accepts
  <2>4. ASSUME NEW a \in answers, News(d) = {a}, a.ver = device[d].ver
        PROVE  a.d = d /\ Accepts(d, a.ver)
    <3>1. a.d = d
      BY <2>4 DEF News
    <3> QED BY <2>1, <2>2, <2>4, <3>1 DEF Held, Accepts
  <2> QED BY <2>2, <2>3, <2>4 DEF Held
<1> QED BY <1>1, <1>2, Invariance, NextCallers, NextHub, PTL DEF Spec
=============================================================================
