--------------------------- MODULE Channels_proof ---------------------------
(***************************************************************************)
(* Theorems about the channels of the hubs.  First CommandQueue, for every *)
(* set of hubs and channels, every poll limit and every bound on the       *)
(* queues; then Resources, whose commands travel on the channels, for      *)
(* every catalog, every set of hubs, workflows, resources and keys, and    *)
(* every bound.                                                            *)
(***************************************************************************)
EXTENDS CommandQueue, Resources, FiniteSetTheorems, SequenceTheorems, WellFoundedInduction, TLAPS

(* Every id that has left the server belongs to a command that is no       *)
(* longer pending: what makes the acknowledgement's "pending" branch dead. *)
OutIsNotPending ==
  /\ \A batch \in inFlight : \A id \in batch : StatusOf(id) # "pending"
  /\ \A id \in received \cup lost : StatusOf(id) # "pending"

ReportsAreReceived == \A r \in reports : r[1] \in received

IInv ==
  /\ TypeOK
  /\ DeliveredInOrder
  /\ OutIsNotPending
  /\ ReportsAreReceived
  /\ HandedOutOnce
  /\ SettledAsReported
  /\ AppliedInOrder

-----------------------------------------------------------------------------
(* The commands of the log, spelled out. *)
LEMMA CommandsDef ==
  ASSUME TypeOK
  PROVE  /\ \A ch \in Channels : Len(log[ch]) \in Nat /\ DOMAIN log[ch] = 1 .. Len(log[ch])
         /\ \A ch, n : <<ch, n>> \in Commands <=> ch \in Channels /\ n \in DOMAIN log[ch]
         /\ \A id \in Commands : /\ id = <<id[1], id[2]>>
                                 /\ id[1] \in Channels
                                 /\ id[2] \in DOMAIN log[id[1]]
                                 /\ id[2] \in Nat
                                 /\ StatusOf(id) \in Status
<1>1. \A ch \in Channels : /\ log[ch] \in Seq(Status)
                           /\ Len(log[ch]) \in Nat
                           /\ DOMAIN log[ch] = 1 .. Len(log[ch])
  BY DEF TypeOK
<1>2. \A ch, n : <<ch, n>> \in Commands <=> ch \in Channels /\ n \in DOMAIN log[ch]
  BY DEF Commands
<1>3. ASSUME NEW id \in Commands
      PROVE  /\ id = <<id[1], id[2]>>
             /\ id[1] \in Channels
             /\ id[2] \in DOMAIN log[id[1]]
             /\ id[2] \in Nat
             /\ StatusOf(id) \in Status
  <2>1. PICK ch \in Channels : id \in {ch} \X DOMAIN log[ch]
    BY <1>3 DEF Commands
  <2>2. id = <<id[1], id[2]>> /\ id[1] = ch /\ id[2] \in DOMAIN log[ch]
    BY <2>1
  <2>3. log[ch] \in Seq(Status) /\ id[2] \in 1 .. Len(log[ch])
    BY <1>1, <2>2
  <2>4. log[ch][id[2]] \in Status
    BY <2>3, ElementOfSeq
  <2> QED BY <2>2, <2>3, <2>4 DEF StatusOf
<1> QED BY <1>1, <1>2, <1>3

(* A sequence of statuses with some entries replaced is one. *)
LEMMA Relabelled ==
  ASSUME NEW S, NEW s \in Seq(S), NEW t, NEW n \in Nat, n = Len(s),
         t \in [1 .. n -> S]
  PROVE  t \in Seq(S) /\ Len(t) = n /\ DOMAIN t = 1 .. n
<1>1. t \in Seq(S)
  BY SeqDef
<1>2. DOMAIN t = 1 .. n
  OBVIOUS
<1> QED BY <1>1, <1>2, LenProperties

(* An empty queue, network and hub satisfy the inductive invariant.         *)
THEOREM InitInv == Init => IInv
<1> SUFFICES ASSUME Init PROVE IInv
  OBVIOUS
<1>1. TypeOK
  BY DEF Init, TypeOK
<1>2. Commands = {}
  BY DEF Init, Commands
<1> QED
  BY <1>1, <1>2 DEF Init, IInv, DeliveredInOrder, OutIsNotPending, ReportsAreReceived,
     HandedOutOnce, SettledAsReported, AppliedInOrder
-----------------------------------------------------------------------------
(* What each action does to the log, position by position. *)
LEMMA EnqueueLog ==
  ASSUME TypeOK, NEW ch \in Channels, Enqueue(ch)
  PROVE  /\ log' \in [Channels -> Seq(Status)]
         /\ \A c \in Channels : \A n \in DOMAIN log[c] :
               n \in DOMAIN log'[c] /\ log'[c][n] = log[c][n]
         /\ \A c \in Channels : \A n \in DOMAIN log'[c] :
               \/ n \in DOMAIN log[c]
               \/ n \notin DOMAIN log[c] /\ log'[c][n] = "pending"
<1>1. log[ch] \in Seq(Status) /\ log' = [log EXCEPT ![ch] = Append(log[ch], "pending")]
  BY DEF TypeOK, Enqueue
<1>2. /\ Append(log[ch], "pending") \in Seq(Status)
      /\ Len(Append(log[ch], "pending")) = Len(log[ch]) + 1
      /\ \A i \in 1 .. Len(log[ch]) : Append(log[ch], "pending")[i] = log[ch][i]
      /\ Append(log[ch], "pending")[Len(log[ch]) + 1] = "pending"
  BY <1>1, AppendProperties DEF Status
<1>3. log' \in [Channels -> Seq(Status)]
  BY <1>1, <1>2 DEF TypeOK
<1>4. ASSUME NEW c \in Channels, NEW n \in DOMAIN log[c]
      PROVE  n \in DOMAIN log'[c] /\ log'[c][n] = log[c][n]
  BY <1>1, <1>2, <1>4 DEF TypeOK
<1>5. ASSUME NEW c \in Channels, NEW n \in DOMAIN log'[c], n \notin DOMAIN log[c]
      PROVE  log'[c][n] = "pending"
  <2>1. c = ch
    BY <1>1, <1>5 DEF TypeOK
  <2>2. n = Len(log[ch]) + 1
    BY <2>1, <1>1, <1>2, <1>5 DEF TypeOK
  <2> QED BY <2>1, <2>2, <1>1, <1>2 DEF TypeOK
<1> QED BY <1>3, <1>4, <1>5

(* A poll relabels some pending commands as delivered and nothing else     *)
(* (the claim loop of claimPendingCommands).                               *)
LEMMA PollLog ==
  ASSUME TypeOK, NEW batch,
         log' = [ch \in Channels |->
                   [n \in DOMAIN log[ch] |->
                      IF <<ch, n>> \in batch THEN "delivered" ELSE log[ch][n]]]
  PROVE  /\ log' \in [Channels -> Seq(Status)]
         /\ \A c \in Channels :
               /\ DOMAIN log'[c] = DOMAIN log[c]
               /\ \A n \in DOMAIN log[c] :
                     log'[c][n] = IF <<c, n>> \in batch THEN "delivered" ELSE log[c][n]
<1>1. ASSUME NEW c \in Channels
      PROVE  /\ log'[c] \in Seq(Status)
             /\ DOMAIN log'[c] = DOMAIN log[c]
             /\ \A n \in DOMAIN log[c] :
                   log'[c][n] = IF <<c, n>> \in batch THEN "delivered" ELSE log[c][n]
  <2>1. log[c] \in Seq(Status) /\ Len(log[c]) \in Nat /\ DOMAIN log[c] = 1 .. Len(log[c])
    BY DEF TypeOK
  <2>2. \A n \in 1 .. Len(log[c]) : log[c][n] \in Status
    BY <2>1, ElementOfSeq
  <2>3. log'[c] = [n \in 1 .. Len(log[c]) |->
                     IF <<c, n>> \in batch THEN "delivered" ELSE log[c][n]]
    BY <2>1
  <2>4. log'[c] \in [1 .. Len(log[c]) -> Status]
    BY <2>2, <2>3 DEF Status
  <2>5. log'[c] \in Seq(Status)
    BY <2>1, <2>4, Relabelled
  <2> QED BY <2>1, <2>3, <2>5
<1>2. log' = [c \in Channels |-> log'[c]]
  OBVIOUS
<1>3. log' \in [Channels -> Seq(Status)]
  BY <1>1, <1>2
<1> QED BY <1>1, <1>3

(* A report relabels at most its own command (ackCommand).                 *)
LEMMA AckLog ==
  ASSUME TypeOK, NEW id \in Commands, NEW s \in Settled,
         log' = [log EXCEPT ![id[1]][id[2]] = s]
  PROVE  /\ log' \in [Channels -> Seq(Status)]
         /\ \A c \in Channels :
               /\ DOMAIN log'[c] = DOMAIN log[c]
               /\ \A n \in DOMAIN log[c] :
                     log'[c][n] = IF <<c, n>> = id THEN s ELSE log[c][n]
<1>1. id[1] \in Channels /\ id[2] \in DOMAIN log[id[1]] /\ id = <<id[1], id[2]>>
  BY CommandsDef
<1>2. log[id[1]] \in Seq(Status) /\ id[2] \in 1 .. Len(log[id[1]])
  BY <1>1 DEF TypeOK
<1>3. [log[id[1]] EXCEPT ![id[2]] = s] \in Seq(Status)
  BY <1>2, ExceptSeq DEF Status, Settled
<1>4. log' = [log EXCEPT ![id[1]] = [log[id[1]] EXCEPT ![id[2]] = s]]
  BY <1>1 DEF TypeOK
<1>5. log' \in [Channels -> Seq(Status)]
  BY <1>1, <1>3, <1>4 DEF TypeOK
<1>6. ASSUME NEW c \in Channels
      PROVE  /\ DOMAIN log'[c] = DOMAIN log[c]
             /\ \A n \in DOMAIN log[c] :
                   log'[c][n] = IF <<c, n>> = id THEN s ELSE log[c][n]
  BY <1>1, <1>4 DEF TypeOK
<1> QED BY <1>5, <1>6

-----------------------------------------------------------------------------
(* Enqueue and Poll leave the reports alone, so a log that only gained     *)
(* pending commands, or only moved some to delivered, settles nothing.     *)
LEMMA EnqueueInv == ASSUME IInv, NEW ch \in Channels, Enqueue(ch) PROVE IInv'
<1> USE DEF IInv
<1>1. /\ log' \in [Channels -> Seq(Status)]
      /\ \A c \in Channels : \A n \in DOMAIN log[c] :
            n \in DOMAIN log'[c] /\ log'[c][n] = log[c][n]
      /\ \A c \in Channels : \A n \in DOMAIN log'[c] :
            \/ n \in DOMAIN log[c]
            \/ n \notin DOMAIN log[c] /\ log'[c][n] = "pending"
  BY EnqueueLog
<1>2. UNCHANGED <<inFlight, received, lost, reports>>
  BY DEF Enqueue
<1>3. \A id \in Commands : id \in Commands' /\ StatusOf(id)' = StatusOf(id)
  BY <1>1, CommandsDef DEF Commands, StatusOf
<1>4. TypeOK'
  BY <1>1, <1>2, <1>3 DEF TypeOK
<1>5. DeliveredInOrder'
  <2> SUFFICES ASSUME NEW c \in Channels, NEW n \in DOMAIN log'[c], log'[c][n] # "pending",
                      NEW m \in 1 .. (n - 1)
               PROVE  log'[c][m] \in Settled
    BY DEF DeliveredInOrder
  <2>1. n \in DOMAIN log[c] /\ log[c][n] = log'[c][n]
    BY <1>1
  <2>2. m \in DOMAIN log[c]
    BY <2>1, CommandsDef
  <2> QED BY <1>1, <2>1, <2>2 DEF DeliveredInOrder
<1>6. OutIsNotPending'
  <2>1. \A batch \in inFlight : batch \subseteq Commands
    BY DEF TypeOK
  <2> QED BY <1>2, <1>3, <2>1 DEF OutIsNotPending, TypeOK
<1>7. (ReportsAreReceived /\ HandedOutOnce /\ AppliedInOrder)'
  BY <1>2 DEF ReportsAreReceived, HandedOutOnce, AppliedInOrder
<1>8. SettledAsReported'
  <2> SUFFICES ASSUME NEW id \in Commands'
               PROVE  /\ StatusOf(id)' = "acked"  => <<id, "applied">> \in reports
                      /\ StatusOf(id)' = "failed" => <<id, "failed">> \in reports
    BY <1>2 DEF SettledAsReported
  <2>1. id[1] \in Channels /\ id[2] \in DOMAIN log'[id[1]] /\ id = <<id[1], id[2]>>
    BY DEF Commands
  <2>2. CASE id \in Commands
    BY <2>2, <1>3 DEF SettledAsReported
  <2>3. CASE id \notin Commands
    BY <2>1, <2>3, <1>1, CommandsDef DEF StatusOf
  <2> QED BY <2>2, <2>3
<1> QED BY <1>4, <1>5, <1>6, <1>7, <1>8

(* The claim loop looks one sequence number back; the invariant on that    *)
(* earlier command carries the rest of the channel.                        *)
LEMMA ClaimableIsHead ==
  ASSUME IInv, NEW ch \in Channels, NEW n \in DOMAIN log[ch], Claimable(<<ch, n>>),
         NEW m \in 1 .. (n - 1)
  PROVE  log[ch][m] \in Settled
<1>1. n \in Nat /\ DOMAIN log[ch] = 1 .. Len(log[ch]) /\ Len(log[ch]) \in Nat
  BY CommandsDef DEF IInv
<1>2. n - 1 \in DOMAIN log[ch] /\ log[ch][n - 1] \in Settled
  BY <1>1 DEF Claimable
<1>3. CASE m = n - 1
  BY <1>2, <1>3
<1>4. CASE m # n - 1
  BY <1>1, <1>2, <1>4 DEF IInv, DeliveredInOrder, Settled
<1> QED BY <1>3, <1>4

(* Handing out a batch keeps the invariant: only heads of channels leave   *)
(* the pending state (claimPendingCommands).                               *)
LEMMA PollInv == ASSUME IInv, NEW h \in Hubs, Poll(h) PROVE IInv'
<1> USE DEF IInv
<1>1. PICK batch \in Batches(h) :
         /\ log' = [ch \in Channels |->
                      [n \in DOMAIN log[ch] |->
                         IF <<ch, n>> \in batch THEN "delivered" ELSE log[ch][n]]]
         /\ inFlight' = inFlight \cup ({batch} \ {{}})
         /\ UNCHANGED <<received, lost, reports>>
  BY DEF Poll
<1>2. /\ log' \in [Channels -> Seq(Status)]
      /\ \A c \in Channels :
            /\ DOMAIN log'[c] = DOMAIN log[c]
            /\ \A n \in DOMAIN log[c] :
                  log'[c][n] = IF <<c, n>> \in batch THEN "delivered" ELSE log[c][n]
  BY <1>1, PollLog
<1>3. batch \subseteq Commands /\ \A id \in batch : Claimable(id)
  BY <1>1 DEF Batches, ClaimableOf
<1>4. /\ Commands' = Commands
      /\ \A id \in Commands :
            StatusOf(id)' = IF id \in batch THEN "delivered" ELSE StatusOf(id)
  <2>1. Commands' = Commands
    BY <1>2 DEF Commands
  <2>2. ASSUME NEW id \in Commands
        PROVE  StatusOf(id)' = IF id \in batch THEN "delivered" ELSE StatusOf(id)
    <3>1. id = <<id[1], id[2]>> /\ id[1] \in Channels /\ id[2] \in DOMAIN log[id[1]]
      BY <2>2, CommandsDef
    <3>2. log'[id[1]][id[2]] = IF <<id[1], id[2]>> \in batch
                               THEN "delivered" ELSE log[id[1]][id[2]]
      BY <1>2, <3>1
    <3> QED BY <3>1, <3>2 DEF StatusOf
  <2> QED BY <2>1, <2>2
<1>5. TypeOK'
  BY <1>1, <1>2, <1>3, <1>4 DEF TypeOK
<1>6. DeliveredInOrder'
  <2> SUFFICES ASSUME NEW c \in Channels, NEW n \in DOMAIN log[c], log'[c][n] # "pending",
                      NEW m \in 1 .. (n - 1)
               PROVE  log'[c][m] \in Settled
    BY <1>2 DEF DeliveredInOrder
  <2>1. log[c][m] \in Settled
    <3>1. CASE <<c, n>> \in batch
      BY <3>1, <1>3, ClaimableIsHead
    <3>2. CASE <<c, n>> \notin batch
      BY <3>2, <1>2 DEF DeliveredInOrder
    <3> QED BY <3>1, <3>2
  <2>2. m \in DOMAIN log[c]
    BY CommandsDef
  <2>3. <<c, m>> \notin batch
    BY <2>1, <1>3 DEF Claimable, StatusOf, Settled
  <2> QED BY <2>1, <2>2, <2>3, <1>2
<1>7. OutIsNotPending'
  <2>1. \A id \in Commands : StatusOf(id) # "pending" => StatusOf(id)' # "pending"
    BY <1>4
  <2>2. \A id \in batch : StatusOf(id)' # "pending"
    BY <1>3, <1>4
  <2> QED BY <1>1, <2>1, <2>2 DEF OutIsNotPending, TypeOK
<1>8. HandedOutOnce'
  <2>1. \A id \in batch : StatusOf(id) = "pending"
    BY <1>3 DEF Claimable
  <2>2. /\ \A b \in inFlight : b \cap batch = {}
        /\ batch \cap (received \cup lost) = {}
    BY <2>1 DEF OutIsNotPending
  <2> QED BY <1>1, <2>2 DEF HandedOutOnce
<1>9. (ReportsAreReceived /\ AppliedInOrder)'
  BY <1>1 DEF ReportsAreReceived, AppliedInOrder
<1>10. SettledAsReported'
  BY <1>1, <1>4 DEF SettledAsReported
<1> QED BY <1>5, <1>6, <1>7, <1>8, <1>9, <1>10

(* The network and the hub leave the log alone. *)
LEMMA NetworkInv ==
  ASSUME IInv, NEW batch \in inFlight, ReceiveBatch(batch) \/ LoseBatch(batch)
  PROVE  IInv'
<1> USE DEF IInv
<1>1. /\ log' = log /\ reports' = reports /\ inFlight' = inFlight \ {batch}
      /\ received \subseteq received'
      /\ received' \cup lost' = received \cup lost \cup batch
      /\ \/ received' = received \cup batch /\ lost' = lost
         \/ received' = received /\ lost' = lost \cup batch
  BY DEF ReceiveBatch, LoseBatch
<1>2. Commands' = Commands /\ \A id : StatusOf(id)' = StatusOf(id)
  BY <1>1 DEF Commands, StatusOf
<1>3. batch \subseteq Commands
  BY DEF TypeOK
<1>4. TypeOK'
  BY <1>1, <1>2, <1>3 DEF TypeOK
<1>5. OutIsNotPending'
  BY <1>1, <1>2 DEF OutIsNotPending
<1>6. HandedOutOnce'
  <2>1. /\ \A b \in inFlight \ {batch} : b \cap batch = {}
        /\ batch \cap (received \cup lost) = {}
    BY DEF HandedOutOnce
  <2> QED BY <1>1, <2>1 DEF HandedOutOnce
<1>7. (DeliveredInOrder /\ ReportsAreReceived /\ SettledAsReported /\ AppliedInOrder)'
  BY <1>1, <1>2 DEF DeliveredInOrder, ReportsAreReceived, SettledAsReported, AppliedInOrder
<1> QED BY <1>4, <1>5, <1>6, <1>7

(* A hub holds a command only when everything before it is settled, that   *)
(* is, reported on: this carries the order from the server to the hub.     *)
LEMMA ApplyInv ==
  ASSUME IInv, NEW id \in received, NEW outcome \in Outcomes, Apply(id, outcome)
  PROVE  IInv'
<1> USE DEF IInv
<1>1. /\ reports' = reports \cup {<<id, outcome>>}
      /\ UNCHANGED <<log, inFlight, received, lost>>
  BY DEF Apply
<1>2. Commands' = Commands /\ \A x : StatusOf(x)' = StatusOf(x)
  BY <1>1 DEF Commands, StatusOf
<1>3. /\ id \in Commands /\ id = <<id[1], id[2]>> /\ id[1] \in Channels
      /\ id[2] \in DOMAIN log[id[1]] /\ DOMAIN log[id[1]] = 1 .. Len(log[id[1]])
      /\ Len(log[id[1]]) \in Nat
  BY CommandsDef DEF TypeOK
<1>4. TypeOK'
  BY <1>1, <1>2, <1>3 DEF TypeOK
<1>5. AppliedInOrder'
  <2>1. ASSUME NEW m \in 1 .. (id[2] - 1)
        PROVE  \E o \in Outcomes : <<<<id[1], m>>, o>> \in reports
    <3>1. log[id[1]][id[2]] # "pending"
      BY DEF OutIsNotPending, StatusOf
    <3>2. m \in DOMAIN log[id[1]] /\ log[id[1]][m] \in Settled
      BY <1>3, <3>1 DEF DeliveredInOrder
    <3>3. <<id[1], m>> \in Commands /\ StatusOf(<<id[1], m>>) \in Settled
      BY <1>3, <3>2, CommandsDef DEF StatusOf
    <3> QED BY <3>3 DEF SettledAsReported, Settled, Outcomes
  <2>2. \A r \in reports' : r \in reports \/ r[1] = id
    BY <1>1
  <2>3. reports \subseteq reports'
    BY <1>1
  <2> QED BY <2>1, <2>2, <2>3 DEF AppliedInOrder
<1>6. SettledAsReported'
  BY <1>1, <1>2 DEF SettledAsReported
<1>7. ReportsAreReceived'
  BY <1>1 DEF ReportsAreReceived
<1>8. (DeliveredInOrder /\ OutIsNotPending /\ HandedOutOnce)'
  BY <1>1, <1>2 DEF DeliveredInOrder, OutIsNotPending, HandedOutOnce
<1> QED BY <1>4, <1>5, <1>6, <1>7, <1>8

(* A step that changes nothing keeps the invariant.                         *)
LEMMA StutterInv == ASSUME IInv, UNCHANGED vars PROVE IInv'
<1> USE DEF IInv, vars
<1>1. Commands' = Commands /\ \A x : StatusOf(x)' = StatusOf(x)
  BY DEF Commands, StatusOf
<1>2. (TypeOK /\ DeliveredInOrder /\ SettledAsReported)'
  BY <1>1 DEF TypeOK, DeliveredInOrder, SettledAsReported
<1>3. (OutIsNotPending /\ ReportsAreReceived /\ HandedOutOnce /\ AppliedInOrder)'
  BY <1>1 DEF OutIsNotPending, ReportsAreReceived, HandedOutOnce, AppliedInOrder
<1> QED BY <1>2, <1>3

(* Recording a report keeps the invariant: a delivered command becomes the *)
(* outcome the hub reported, a settled one stays (ackCommand).             *)
LEMMA HandleAckInv ==
  ASSUME IInv, NEW h \in Hubs, NEW r \in reports, HandleAck(h, r[1], r[2])
  PROVE  IInv'
<1> DEFINE id == r[1]
<1> DEFINE s == AckStatus(r[2])
<1> USE DEF IInv
<1>1. /\ <<id, r[2]>> \in reports
      /\ log' = IF AckUpdates(h, id) THEN [log EXCEPT ![id[1]][id[2]] = s] ELSE log
      /\ UNCHANGED <<inFlight, received, lost, reports>>
  BY DEF HandleAck
<1>2. CASE ~AckUpdates(h, id)
  BY <1>1, <1>2, StutterInv DEF vars
<1>3. CASE AckUpdates(h, id)
  <2>1. id \in Commands /\ id \in received
    BY DEF TypeOK, ReportsAreReceived
  <2>2. s \in Settled /\ (s = "acked" => r[2] = "applied") /\ (s = "failed" => r[2] = "failed")
    BY DEF AckStatus, Settled, TypeOK, Outcomes
  <2>3. /\ log' \in [Channels -> Seq(Status)]
        /\ \A c \in Channels :
              /\ DOMAIN log'[c] = DOMAIN log[c]
              /\ \A n \in DOMAIN log[c] :
                    log'[c][n] = IF <<c, n>> = id THEN s ELSE log[c][n]
    <3>1. log' = [log EXCEPT ![id[1]][id[2]] = s]
      BY <1>1, <1>3
    <3> HIDE DEF id, s
    <3> QED BY <3>1, <2>1, <2>2, AckLog
  <2> HIDE DEF id, s
  <2>4. /\ Commands' = Commands
        /\ \A x \in Commands : StatusOf(x)' = IF x = id THEN s ELSE StatusOf(x)
    <3>1. Commands' = Commands
      BY <2>3 DEF Commands
    <3>2. ASSUME NEW x \in Commands
          PROVE  StatusOf(x)' = IF x = id THEN s ELSE StatusOf(x)
      <4>1. x = <<x[1], x[2]>> /\ x[1] \in Channels /\ x[2] \in DOMAIN log[x[1]]
        BY <3>2, CommandsDef
      <4>2. log'[x[1]][x[2]] = IF <<x[1], x[2]>> = id THEN s ELSE log[x[1]][x[2]]
        BY <2>3, <4>1
      <4> QED BY <4>1, <4>2 DEF StatusOf
    <3> QED BY <3>1, <3>2
  <2>5. StatusOf(id) # "pending" /\ id = <<id[1], id[2]>>
    BY <2>1, CommandsDef DEF OutIsNotPending
  <2>6. TypeOK'
    BY <1>1, <2>3, <2>4 DEF TypeOK
  <2>7. DeliveredInOrder'
    <3> SUFFICES ASSUME NEW c \in Channels, NEW n \in DOMAIN log[c], log'[c][n] # "pending",
                        NEW m \in 1 .. (n - 1)
                 PROVE  log'[c][m] \in Settled
      BY <2>3 DEF DeliveredInOrder
    <3>1. log[c][n] # "pending"
      BY <2>3, <2>5 DEF StatusOf
    <3>2. log[c][m] \in Settled /\ m \in DOMAIN log[c]
      BY <3>1, CommandsDef DEF DeliveredInOrder
    <3> QED BY <2>2, <2>3, <3>2
  <2>8. OutIsNotPending'
    BY <1>1, <2>2, <2>4 DEF OutIsNotPending, TypeOK, Settled
  <2>9. SettledAsReported'
    BY <1>1, <2>2, <2>4 DEF SettledAsReported
  <2>10. (ReportsAreReceived /\ HandedOutOnce /\ AppliedInOrder)'
    BY <1>1 DEF ReportsAreReceived, HandedOutOnce, AppliedInOrder
  <2> QED BY <2>6, <2>7, <2>8, <2>9, <2>10
<1> QED BY <1>2, <1>3

(* Every step of the queue, the network or a hub keeps the invariant.       *)
LEMMA NextInv == IInv /\ [Next]_vars => IInv'
<1> SUFFICES ASSUME IInv, [Next]_vars PROVE IInv'
  OBVIOUS
<1>1. ASSUME NEW ch \in Channels, Enqueue(ch) PROVE IInv'
  BY <1>1, EnqueueInv
<1>2. ASSUME NEW h \in Hubs, Poll(h) PROVE IInv'
  BY <1>2, PollInv
<1>3. ASSUME NEW batch \in inFlight, ReceiveBatch(batch) \/ LoseBatch(batch) PROVE IInv'
  BY <1>3, NetworkInv
<1>4. ASSUME NEW id \in received, NEW outcome \in Outcomes, Apply(id, outcome) PROVE IInv'
  BY <1>4, ApplyInv
<1>5. ASSUME NEW h \in Hubs, NEW r \in reports, HandleAck(h, r[1], r[2]) PROVE IInv'
  BY <1>5, HandleAckInv
<1>6. CASE UNCHANGED vars
  BY <1>6, StutterInv
<1> QED BY <1>1, <1>2, <1>3, <1>4, <1>5, <1>6 DEF Next

(* The inductive invariant holds in every reachable state.                 *)
THEOREM Invariance == Spec => []IInv
BY InitInv, NextInv, PTL DEF Spec

(* The types of the queue, the network and the reports. *)
THEOREM TypeCorrect == Spec => []TypeOK
<1>1. IInv => TypeOK
  BY DEF IInv
<1> QED BY <1>1, Invariance, PTL

(* At most one command of a channel is outstanding, and what was handed    *)
(* out or settled is a prefix of the channel (claimPendingCommands).       *)
THEOREM InOrderDelivery == Spec => []DeliveredInOrder
<1>1. IInv => DeliveredInOrder
  BY DEF IInv
<1> QED BY <1>1, Invariance, PTL

(* No command is in two poll responses (claimPendingCommands commits       *)
(* pending -> delivered before it answers).                                *)
THEOREM AtMostOnceHandOut == Spec => []HandedOutOnce
<1>1. IInv => HandedOutOnce
  BY DEF IInv
<1> QED BY <1>1, Invariance, PTL

(* The hub applies the commands of a channel in sequence order.            *)
THEOREM InOrderApplication == Spec => []AppliedInOrder
<1>1. IInv => AppliedInOrder
  BY DEF IInv
<1> QED BY <1>1, Invariance, PTL

(* A recorded outcome is one the hub reported (ackCommand).                *)
THEOREM HonestOutcome == Spec => []SettledAsReported
<1>1. IInv => SettledAsReported
  BY DEF IInv
<1> QED BY <1>1, Invariance, PTL

-----------------------------------------------------------------------------
(* What a step may do to the status of an existing command. *)
LEMMA StatusStep ==
  ASSUME IInv, [Next]_vars, NEW id \in Commands
  PROVE  /\ id \in Commands'
         /\ StatusOf(id) \in Settled => StatusOf(id)' = StatusOf(id)
         /\ StatusOf(id) = "delivered" => StatusOf(id)' # "pending"
<1> USE DEF IInv
<1>1. id = <<id[1], id[2]>> /\ id[1] \in Channels /\ id[2] \in DOMAIN log[id[1]]
  BY CommandsDef
<1>2. ASSUME NEW ch \in Channels, Enqueue(ch)
      PROVE  id \in Commands' /\ StatusOf(id)' = StatusOf(id)
  BY <1>1, <1>2, EnqueueLog DEF Commands, StatusOf
<1>3. ASSUME NEW h \in Hubs, Poll(h)
      PROVE  /\ id \in Commands'
             /\ StatusOf(id)' = StatusOf(id) \/ StatusOf(id) = "pending"
  <2>1. PICK batch \in Batches(h) :
          log' = [ch \in Channels |->
                    [n \in DOMAIN log[ch] |->
                       IF <<ch, n>> \in batch THEN "delivered" ELSE log[ch][n]]]
    BY <1>3 DEF Poll
  <2>2. \A x \in batch : Claimable(x)
    BY DEF Batches, ClaimableOf
  <2>3. /\ DOMAIN log'[id[1]] = DOMAIN log[id[1]]
        /\ log'[id[1]][id[2]] = IF id \in batch THEN "delivered" ELSE log[id[1]][id[2]]
    BY <1>1, <2>1, PollLog
  <2> QED BY <1>1, <2>2, <2>3 DEF Commands, StatusOf, Claimable
<1>4. ASSUME NEW h \in Hubs, NEW r \in reports, HandleAck(h, r[1], r[2])
      PROVE  /\ id \in Commands'
             /\ StatusOf(id) \in Settled => StatusOf(id)' = StatusOf(id)
             /\ StatusOf(id) = "delivered" => StatusOf(id)' # "pending"
  <2>1. CASE ~AckUpdates(h, r[1])
    BY <1>4, <2>1 DEF HandleAck, Commands, StatusOf
  <2>2. CASE AckUpdates(h, r[1])
    <3> DEFINE k == r[1]
    <3> DEFINE s == AckStatus(r[2])
    <3>1. log' = [log EXCEPT ![k[1]][k[2]] = s] /\ k \in Commands
          /\ s \in Settled /\ StatusOf(k) \notin Settled
      BY <1>4, <2>2 DEF HandleAck, TypeOK, AckStatus, Settled, AckUpdates
    <3> HIDE DEF k, s
    <3>2. \A c \in Channels :
             /\ DOMAIN log'[c] = DOMAIN log[c]
             /\ \A n \in DOMAIN log[c] : log'[c][n] = IF <<c, n>> = k THEN s ELSE log[c][n]
      BY <3>1, AckLog
    <3>3. /\ DOMAIN log'[id[1]] = DOMAIN log[id[1]]
          /\ log'[id[1]][id[2]] = IF <<id[1], id[2]>> = k THEN s ELSE log[id[1]][id[2]]
      BY <1>1, <3>2
    <3> QED BY <1>1, <3>1, <3>3 DEF Commands, StatusOf, Settled
  <2> QED BY <2>1, <2>2
<1>5. ASSUME log' = log
      PROVE  id \in Commands' /\ StatusOf(id)' = StatusOf(id)
  BY <1>5 DEF Commands, StatusOf
<1> QED BY <1>2, <1>3, <1>4, <1>5 DEF Next, vars, ReceiveBatch, LoseBatch, Apply, Settled

(* A settled command keeps its outcome for ever and a delivered one is     *)
(* never queued again, whatever reports arrive (ackCommand).               *)
THEOREM FinalOutcome == Spec => SettledIsFinal
<1>1. IInv /\ [Next]_vars =>
        [\A id \in Commands :
           /\ id \in Commands'
           /\ StatusOf(id) \in Settled => StatusOf(id)' = StatusOf(id)
           /\ StatusOf(id) = "delivered" => StatusOf(id)' # "pending"]_vars
  BY StatusStep
<1> QED BY <1>1, Invariance, PTL DEF Spec, SettledIsFinal

-----------------------------------------------------------------------------
(* The lanes of the refinement mapping, as sequences. *)
LEMMA StagesType ==
  ASSUME TypeOK, NEW ch \in Channels
  PROVE  /\ stages[ch] \in Seq(Lanes!Stage)
         /\ Len(stages[ch]) = Len(log[ch])
         /\ DOMAIN stages[ch] = DOMAIN log[ch]
         /\ \A n \in DOMAIN log[ch] : stages[ch][n] = StageOf(log[ch][n])
<1>1. log[ch] \in Seq(Status) /\ Len(log[ch]) \in Nat /\ DOMAIN log[ch] = 1 .. Len(log[ch])
  BY DEF TypeOK
<1>2. stages[ch] = [n \in 1 .. Len(log[ch]) |-> StageOf(log[ch][n])]
  BY <1>1 DEF stages
<1>3. stages[ch] \in [1 .. Len(log[ch]) -> Lanes!Stage]
  BY <1>2 DEF StageOf, Lanes!Stage
<1>5. stages[ch] \in Seq(Lanes!Stage)
  BY <1>1, <1>3, SeqDef
<1>6. Len(stages[ch]) = Len(log[ch])
  BY <1>1, <1>3, <1>5, LenProperties
<1> QED BY <1>1, <1>2, <1>5, <1>6

(* Enqueueing a command is a submission to the lane of its channel.        *)
LEMMA EnqueueRefines ==
  ASSUME TypeOK, TypeOK', NEW ch \in Channels, Enqueue(ch)
  PROVE  Lanes!Submit(ch)
<1>1. /\ log' = [log EXCEPT ![ch] = Append(log[ch], "pending")]
      /\ log[ch] \in Seq(Status)
      /\ Len(log[ch]) \in Nat
      /\ DOMAIN log[ch] = 1 .. Len(log[ch])
  BY DEF Enqueue, TypeOK
<1>2. /\ \A c \in Channels : c # ch => log'[c] = log[c]
      /\ log'[ch] = Append(log[ch], "pending")
      /\ Len(log'[ch]) = Len(log[ch]) + 1
      /\ DOMAIN log'[ch] = 1 .. (Len(log[ch]) + 1)
      /\ \A n \in 1 .. Len(log[ch]) : log'[ch][n] = log[ch][n]
      /\ log'[ch][Len(log[ch]) + 1] = "pending"
  <2>1. log' \in [Channels -> Seq(Status)] /\ log \in [Channels -> Seq(Status)]
    BY DEF TypeOK
  <2>2. log'[ch] \in Seq(Status)
    BY <2>1
  <2> QED BY <1>1, <2>1, <2>2, AppendProperties, LenProperties DEF Status
<1>3. /\ stages[ch] \in Seq(Lanes!Stage)
      /\ Len(stages[ch]) = Len(log[ch])
      /\ \A n \in 1 .. Len(log[ch]) : stages[ch][n] = StageOf(log[ch][n])
  BY <1>1, StagesType
<1>4. /\ Append(stages[ch], "queued") \in Seq(Lanes!Stage)
      /\ Len(Append(stages[ch], "queued")) = Len(log[ch]) + 1
      /\ \A n \in 1 .. Len(log[ch]) :
            Append(stages[ch], "queued")[n] = StageOf(log[ch][n])
      /\ Append(stages[ch], "queued")[Len(log[ch]) + 1] = "queued"
  BY <1>3, AppendProperties DEF Lanes!Stage
<1>5. /\ stages'[ch] = [n \in 1 .. (Len(log[ch]) + 1) |-> StageOf(log'[ch][n])]
      /\ \A c \in Channels : c # ch => stages'[c] = stages[c]
  BY <1>2 DEF stages
<1>6. DOMAIN Append(stages[ch], "queued") = 1 .. (Len(log[ch]) + 1)
  BY <1>4, LenProperties
<1>7. stages'[ch] = Append(stages[ch], "queued")
  <2>1. \A n \in 1 .. (Len(log[ch]) + 1) :
           stages'[ch][n] = Append(stages[ch], "queued")[n]
    <3> SUFFICES ASSUME NEW n \in 1 .. (Len(log[ch]) + 1)
                 PROVE  stages'[ch][n] = Append(stages[ch], "queued")[n]
      OBVIOUS
    <3>1. CASE n \in 1 .. Len(log[ch])
      BY <3>1, <1>2, <1>4, <1>5
    <3>2. CASE n = Len(log[ch]) + 1
      BY <3>2, <1>1, <1>2, <1>4, <1>5 DEF StageOf, Settled
    <3>3. ASSUME NEW k \in Nat, n \in 1 .. (k + 1) PROVE n \in 1 .. k \/ n = k + 1
      BY <3>3
    <3>4. n \in 1 .. Len(log[ch]) \/ n = Len(log[ch]) + 1
      BY <1>1, <3>3
    <3> QED BY <3>1, <3>2, <3>4
  <2>2. Append(stages[ch], "queued") =
          [n \in 1 .. (Len(log[ch]) + 1) |-> Append(stages[ch], "queued")[n]]
    BY <1>4, <1>6
  <2> QED BY <2>1, <2>2, <1>5
<1>8. stages' = [c \in Channels |-> stages'[c]] /\ stages = [c \in Channels |-> stages[c]]
  BY DEF stages
<1>9. stages' = [stages EXCEPT ![ch] = Append(stages[ch], "queued")]
  BY <1>5, <1>7, <1>8
<1> QED BY <1>9 DEF Lanes!Submit

(* Handing out a batch is a delivery in the lanes it takes heads from.     *)
LEMMA PollRefines ==
  ASSUME IInv, NEW h \in Hubs, Poll(h)
  PROVE  \E out \in SUBSET Lanes!Heads : Lanes!HandOut(out)
<1> USE DEF IInv
<1>1. PICK batch \in Batches(h) :
        log' = [ch \in Channels |->
                  [n \in DOMAIN log[ch] |->
                     IF <<ch, n>> \in batch THEN "delivered" ELSE log[ch][n]]]
  BY DEF Poll
<1>2. batch \subseteq Commands /\ \A id \in batch : Claimable(id)
  BY DEF Batches, ClaimableOf
<1>3. \A c \in Channels :
        /\ DOMAIN log'[c] = DOMAIN log[c]
        /\ \A n \in DOMAIN log[c] :
              log'[c][n] = IF <<c, n>> \in batch THEN "delivered" ELSE log[c][n]
  BY <1>1, PollLog
<1>4. ASSUME NEW id \in batch PROVE id \in Lanes!Heads
  <2>1. id = <<id[1], id[2]>> /\ id[1] \in Channels /\ id[2] \in DOMAIN log[id[1]]
    BY <1>2, CommandsDef
  <2>2. \A m \in 1 .. (id[2] - 1) : log[id[1]][m] \in Settled /\ m \in DOMAIN log[id[1]]
    BY <1>2, <2>1, ClaimableIsHead, CommandsDef
  <2>3. log[id[1]][id[2]] = "pending"
    BY <1>2, <2>1 DEF Claimable, StatusOf
  <2>4. Lanes!IsNext(id[1], id[2])
    BY <2>1, <2>2, <2>3, StagesType DEF Lanes!IsNext, StageOf, Settled
  <2>5. id \in UNION {{ch} \X DOMAIN stages[ch] : ch \in Channels}
    BY <2>1, StagesType
  <2> QED BY <2>4, <2>5 DEF Lanes!Heads
<1>5. Lanes!HandOut(batch)
  <2>1. ASSUME NEW c \in Channels
        PROVE  stages'[c] = [n \in DOMAIN stages[c] |->
                               IF <<c, n>> \in batch THEN "out" ELSE stages[c][n]]
    <3>1. stages'[c] = [n \in DOMAIN log[c] |-> StageOf(log'[c][n])]
      BY <1>3 DEF stages
    <3>2. \A n \in DOMAIN log[c] :
             StageOf(log'[c][n]) = IF <<c, n>> \in batch THEN "out" ELSE stages[c][n]
      BY <1>3, StagesType DEF StageOf, Settled
    <3>3. DOMAIN stages[c] = DOMAIN log[c]
      BY StagesType
    <3> QED BY <3>1, <3>2, <3>3
  <2>2. stages' = [c \in Channels |-> stages'[c]]
    BY DEF stages
  <2> QED BY <2>1, <2>2 DEF Lanes!HandOut
<1> QED BY <1>4, <1>5

(* Recording a report settles the head of one lane or changes no lane.     *)
LEMMA HandleAckRefines ==
  ASSUME IInv, NEW h \in Hubs, NEW r \in reports, HandleAck(h, r[1], r[2])
  PROVE  \/ \E ch \in Channels : \E n \in DOMAIN stages[ch] : Lanes!Settle(ch, n)
         \/ UNCHANGED stages
<1> USE DEF IInv
<1>1. CASE ~AckUpdates(h, r[1])
  BY <1>1 DEF HandleAck, stages
<1>2. CASE AckUpdates(h, r[1])
  <2> DEFINE k == r[1]
  <2> DEFINE s == AckStatus(r[2])
  <2>1. /\ log' = [log EXCEPT ![k[1]][k[2]] = s] /\ k \in Commands /\ k \in received
        /\ s \in Settled /\ StatusOf(k) \in {"delivered", "pending"}
    BY <1>2 DEF HandleAck, TypeOK, AckStatus, Settled, AckUpdates, ReportsAreReceived
  <2> HIDE DEF k, s
  <2>2. StatusOf(k) = "delivered"
    BY <2>1 DEF OutIsNotPending
  <2>3. k = <<k[1], k[2]>> /\ k[1] \in Channels /\ k[2] \in DOMAIN log[k[1]]
    BY <2>1, CommandsDef
  <2>4. \A c \in Channels :
           /\ DOMAIN log'[c] = DOMAIN log[c]
           /\ \A n \in DOMAIN log[c] : log'[c][n] = IF <<c, n>> = k THEN s ELSE log[c][n]
    BY <2>1, AckLog
  <2>5. ASSUME NEW c \in Channels
        PROVE  stages'[c] = [n \in DOMAIN stages[c] |->
                               IF <<c, n>> = k THEN "done" ELSE stages[c][n]]
    <3>1. stages'[c] = [n \in DOMAIN log[c] |-> StageOf(log'[c][n])]
      BY <2>4 DEF stages
    <3>2. \A n \in DOMAIN log[c] :
             StageOf(log'[c][n]) = IF <<c, n>> = k THEN "done" ELSE stages[c][n]
      BY <2>1, <2>4, StagesType DEF StageOf
    <3>3. DOMAIN stages[c] = DOMAIN log[c]
      BY StagesType
    <3> QED BY <3>1, <3>2, <3>3
  <2>6. stages' = [c \in Channels |-> stages'[c]] /\ stages = [c \in Channels |-> stages[c]]
    BY DEF stages
  <2>7. stages' = [stages EXCEPT ![k[1]] = [stages[k[1]] EXCEPT ![k[2]] = "done"]]
    <3>1. k[2] \in DOMAIN stages[k[1]]
      BY <2>3, StagesType
    <3>2. stages'[k[1]] = [stages[k[1]] EXCEPT ![k[2]] = "done"]
      BY <2>3, <2>5, <3>1
    <3>3. ASSUME NEW c \in Channels, c # k[1] PROVE stages'[c] = stages[c]
      <4>1. stages'[c] = [n \in DOMAIN stages[c] |-> stages[c][n]]
        BY <2>3, <2>5, <3>3
      <4>2. stages[c] = [n \in DOMAIN stages[c] |-> stages[c][n]]
        BY DEF stages
      <4> QED BY <4>1, <4>2
    <3> QED BY <2>3, <2>6, <3>2, <3>3
  <2>8. k[2] \in DOMAIN stages[k[1]] /\ stages[k[1]][k[2]] = "out"
    BY <2>2, <2>3, StagesType DEF StatusOf, StageOf, Settled
  <2>9. Lanes!Settle(k[1], k[2])
    BY <2>7, <2>8 DEF Lanes!Settle
  <2> QED BY <2>3, <2>8, <2>9
<1> QED BY <1>1, <1>2

(* The queue implements one first-in first-out lane per channel: every     *)
(* step of the code is a step of a lane or changes no lane.                *)
THEOREM Refinement == Spec => ImplementsFifo
<1>1. Init => Lanes!Init
  <2> SUFFICES ASSUME Init PROVE stages = [ch \in Channels |-> << >>]
    BY DEF Lanes!Init
  <2>1. \A ch \in Channels : DOMAIN log[ch] = {} /\ log[ch] = << >>
    BY DEF Init
  <2>2. \A ch \in Channels : [n \in DOMAIN log[ch] |-> StageOf(log[ch][n])] = << >>
    BY <2>1
  <2> QED BY <2>2 DEF stages
<1>2. IInv /\ IInv' /\ [Next]_vars => [Lanes!Next]_stages
  <2> SUFFICES ASSUME IInv, IInv', [Next]_vars PROVE Lanes!Next \/ UNCHANGED stages
    BY DEF Lanes!Next
  <2>1. ASSUME NEW ch \in Channels, Enqueue(ch) PROVE Lanes!Next
    BY <2>1, EnqueueRefines DEF Lanes!Next, IInv
  <2>2. ASSUME NEW h \in Hubs, Poll(h) PROVE Lanes!Next
    BY <2>2, PollRefines DEF Lanes!Next
  <2>3. ASSUME NEW h \in Hubs, NEW r \in reports, HandleAck(h, r[1], r[2])
        PROVE  Lanes!Next \/ UNCHANGED stages
    BY <2>3, HandleAckRefines DEF Lanes!Next
  <2>4. ASSUME log' = log PROVE UNCHANGED stages
    BY <2>4 DEF stages
  <2> QED BY <2>1, <2>2, <2>3, <2>4 DEF Next, vars, ReceiveBatch, LoseBatch, Apply
<1> QED BY <1>1, <1>2, Invariance, PTL DEF Spec, ImplementsFifo, Lanes!Spec

-----------------------------------------------------------------------------
(* A set of numbers has a least one: what is to hold at the end of a       *)
(* recursive function is proved by its first counterexample.               *)
LEMMA LeastNat ==
  ASSUME NEW S \in SUBSET Nat, S # {}
  PROVE  \E m \in S : \A n \in S : m <= n
<1>1. PICK m \in S : \A n \in S : <<n, m>> \notin OpToRel(<, Nat)
  BY NatLessThanWellFounded, WFMin
<1>2. \A n \in S : ~(n < m)
  BY <1>1 DEF OpToRel
<1> QED BY <1>2

(* Steps one after the other: a function over an interval that starts at   *)
(* base and follows step exists, and stays in W if every step does.        *)
Follows(f, W, base, n, step) ==
  f \in [0 .. n -> W] /\ f[0] = base /\ \A i \in 1 .. n : f[i] = step[i][f[i - 1]]

(* Such a function exists.                                                 *)
LEMMA StepsExist ==
  ASSUME NEW W, NEW base \in W, NEW n \in Nat, NEW step \in [1 .. n -> [W -> W]]
  PROVE  \E f : Follows(f, W, base, n, step)
<1> DEFINE Bad == {k \in 0 .. n : ~ \E f : Follows(f, W, base, k, step)}
<1>0. Bad \in SUBSET Nat
  OBVIOUS
<1> SUFFICES ASSUME ~ \E f : Follows(f, W, base, n, step) PROVE FALSE
  OBVIOUS
<1>1. Bad # {}
  <2>1. n \in 0 .. n
    OBVIOUS
  <2>2. n \in Bad
    BY <2>1
  <2> QED BY <2>2
<1>2. PICK k \in Bad : \A j \in Bad : k <= j
  <2> HIDE DEF Bad
  <2> QED BY <1>0, <1>1, LeastNat
<1>3. k \in 0 .. n /\ ~ \E f : Follows(f, W, base, k, step)
  BY <1>2
<1>4. k # 0
  <2>1. Follows([i \in 0 .. 0 |-> base], W, base, 0, step)
    BY DEF Follows
  <2> QED BY <2>1, <1>3
<1>5. k - 1 \in 0 .. n /\ k - 1 \notin Bad
  <2>1. k - 1 \in 0 .. n /\ ~(k <= k - 1)
    BY <1>3, <1>4
  <2> QED BY <2>1, <1>2
<1>6. PICK f : Follows(f, W, base, k - 1, step)
  BY <1>5
<1>7. f \in [0 .. k - 1 -> W] /\ f[0] = base /\ \A i \in 1 .. k - 1 : f[i] = step[i][f[i - 1]]
  BY <1>6 DEF Follows
<1> DEFINE g == [i \in 0 .. k |-> IF i = k THEN step[k][f[k - 1]] ELSE f[i]]
<1>8. step[k][f[k - 1]] \in W
  BY <1>3, <1>4, <1>7
<1>9. g \in [0 .. k -> W]
  BY <1>3, <1>4, <1>7, <1>8
<1>10. g[0] = base
  BY <1>3, <1>4, <1>7
<1>11. \A i \in 1 .. k : g[i] = step[i][g[i - 1]]
  <2> TAKE i \in 1 .. k
  <2>1. CASE i = k
    BY <2>1, <1>3, <1>4, <1>7
  <2>2. CASE i # k
    <3>1. i \in 1 .. k - 1 /\ i - 1 \in 0 .. k - 1 /\ i - 1 # k
      BY <2>2, <1>3, <1>4
    <3> QED BY <3>1, <2>2, <1>7, <1>3
  <2> QED BY <2>1, <2>2
<1> HIDE DEF g
<1>12. Follows(g, W, base, k, step)
  BY <1>9, <1>10, <1>11 DEF Follows
<1> QED BY <1>12, <1>3

(* Induction up to n.                                                      *)
LEMMA UpTo ==
  ASSUME NEW n \in Nat, NEW S, 0 \in S, \A i \in 1 .. n : i - 1 \in S => i \in S
  PROVE  \A i \in 0 .. n : i \in S
<1> SUFFICES ASSUME {i \in 0 .. n : i \notin S} # {} PROVE FALSE
  OBVIOUS
<1> DEFINE Bad == {i \in 0 .. n : i \notin S}
<1>1. PICK k \in Bad : \A j \in Bad : k <= j
  <2>1. Bad \in SUBSET Nat /\ Bad # {}
    OBVIOUS
  <2> HIDE DEF Bad
  <2> QED BY <2>1, LeastNat
<1>2. k \in 1 .. n /\ k - 1 \in 0 .. n /\ ~(k <= k - 1) /\ k \notin S
  <2>1. k \in 0 .. n /\ k \notin S
    BY <1>1
  <2>2. k # 0
    BY <2>1
  <2> QED BY <2>1, <2>2
<1>3. k - 1 \in S
  BY <1>1, <1>2
<1> QED BY <1>2, <1>3

(* A list is a sequence, of whatever it holds.                             *)
LEMMA SeqIsList ==
  ASSUME NEW S, NEW s \in Seq(S)
  PROVE  IsList(s)
<1>1. s \in Seq(Range(s))
  BY SeqOfRange
<1> QED BY <1>1 DEF IsList, ToSet, Range

LEMMA EmptyIsList == IsList(<< >>) /\ DOMAIN << >> = {} /\ Len(<< >>) = 0
<1>1. << >> \in Seq({})
  OBVIOUS
<1>2. IsList(<< >>)
  BY <1>1, SeqIsList
<1>3. DOMAIN << >> = 1 .. 0 /\ Len(<< >>) = 0
  OBVIOUS
<1>4. 1 .. 0 = {}
  OBVIOUS
<1> QED BY <1>2, <1>3, <1>4

LEMMA ListFacts ==
  ASSUME NEW s, IsList(s)
  PROVE  /\ Len(s) \in Nat /\ DOMAIN s = 1 .. Len(s)
         /\ s = << >> <=> Len(s) = 0
         /\ s = [i \in 1 .. Len(s) |-> s[i]]
<1>1. s \in Seq(ToSet(s))
  BY DEF IsList
<1> HIDE DEF ToSet
<1>2. Len(s) \in Nat /\ DOMAIN s = 1 .. Len(s) /\ s \in [1 .. Len(s) -> ToSet(s)]
  BY <1>1, LenProperties
<1>3. s # << >> => Len(s) \in Nat \ {0}
  BY <1>1, EmptySeq
<1>4. Len(<< >>) = 0
  OBVIOUS
<1> QED BY <1>2, <1>3, <1>4

LEMMA FunctionIsList ==
  ASSUME NEW t, NEW n \in Nat, t = [i \in 1 .. n |-> t[i]]
  PROVE  IsList(t) /\ Len(t) = n
<1>1. t \in [1 .. n -> ToSet(t)]
  BY DEF ToSet
<1>2. t \in Seq(ToSet(t))
  BY <1>1, SeqDef
<1> HIDE DEF ToSet
<1>3. DOMAIN t = 1 .. n /\ DOMAIN t = 1 .. Len(t) /\ Len(t) \in Nat
  BY <1>1, <1>2, LenProperties
<1> QED BY <1>2, <1>3 DEF IsList

LEMMA ListConcat ==
  ASSUME NEW s, NEW t, IsList(s), IsList(t)
  PROVE  /\ IsList(s \o t) /\ Len(s \o t) = Len(s) + Len(t)
         /\ \A i \in 1 .. Len(s) + Len(t) :
              (s \o t)[i] = IF i <= Len(s) THEN s[i] ELSE t[i - Len(s)]
<1> DEFINE S == ToSet(s) \cup ToSet(t)
<1>1. s \in Seq(S) /\ t \in Seq(S)
  <2>1. s \in Seq(ToSet(s)) /\ t \in Seq(ToSet(t))
    BY DEF IsList
  <2> HIDE DEF ToSet
  <2>2. ToSet(s) \subseteq S /\ ToSet(t) \subseteq S
    OBVIOUS
  <2> HIDE DEF S
  <2> QED BY <2>1, <2>2, SeqMonotonic
<1> HIDE DEF S
<1>2. s \o t \in Seq(S) /\ Len(s \o t) = Len(s) + Len(t)
      /\ \A i \in 1 .. Len(s) + Len(t) : (s \o t)[i] = IF i <= Len(s) THEN s[i] ELSE t[i - Len(s)]
  BY <1>1, ConcatProperties
<1> QED BY <1>2, SeqIsList

LEMMA OneIsList ==
  ASSUME NEW e
  PROVE  IsList(<<e>>) /\ Len(<<e>>) = 1 /\ <<e>>[1] = e
<1>1. <<e>> \in Seq({e})
  OBVIOUS
<1> QED BY <1>1, SeqIsList

LEMMA ListTail ==
  ASSUME NEW s, IsList(s), s # << >>
  PROVE  /\ IsList(Tail(s)) /\ Len(Tail(s)) = Len(s) - 1
         /\ \A i \in 1 .. Len(s) - 1 : Tail(s)[i] = s[i + 1]
         /\ Head(s) = s[1]
<1>1. s \in Seq(ToSet(s))
  BY DEF IsList
<1> HIDE DEF ToSet
<1>2. /\ Tail(s) \in Seq(ToSet(s)) /\ Len(Tail(s)) = Len(s) - 1
      /\ \A i \in 1 .. Len(Tail(s)) : Tail(s)[i] = s[i + 1]
  BY <1>1, HeadTailProperties
<1>3. Head(s) = s[1]
  BY <1>1
<1> QED BY <1>2, <1>3, SeqIsList

(* A part of a list.                                                       *)
LEMMA ListPart ==
  ASSUME NEW s, IsList(s), NEW m \in 1 .. Len(s) + 1, NEW n \in 0 .. Len(s)
  PROVE  /\ IsList(SubSeq(s, m, n))
         /\ Len(SubSeq(s, m, n)) = IF m <= n THEN n - m + 1 ELSE 0
         /\ \A i \in 1 .. n - m + 1 : SubSeq(s, m, n)[i] = s[m + i - 1]
<1>1. Len(s) \in Nat /\ DOMAIN s = 1 .. Len(s)
  BY ListFacts
<1>2. \A i \in m .. n : s[i] \in ToSet(s)
  BY <1>1 DEF ToSet
<1>3. m \in Int /\ n \in Int
  BY <1>1
<1> HIDE DEF ToSet
<1>4. /\ SubSeq(s, m, n) \in Seq(ToSet(s))
      /\ Len(SubSeq(s, m, n)) = IF m <= n THEN n - m + 1 ELSE 0
      /\ \A i \in 1 .. n - m + 1 : SubSeq(s, m, n)[i] = s[m + i - 1]
  BY <1>2, <1>3, SubSeqProperties
<1> QED BY <1>4, SeqIsList

LEMMA ListAppend ==
  ASSUME NEW s, IsList(s), NEW e
  PROVE  /\ IsList(Append(s, e)) /\ Len(Append(s, e)) = Len(s) + 1
         /\ \A i \in 1 .. Len(s) : Append(s, e)[i] = s[i]
         /\ Append(s, e)[Len(s) + 1] = e
<1> DEFINE S == ToSet(s) \cup {e}
<1>1. s \in Seq(S)
  <2>1. s \in Seq(ToSet(s))
    BY DEF IsList
  <2> HIDE DEF ToSet
  <2>2. ToSet(s) \subseteq S
    OBVIOUS
  <2> HIDE DEF S
  <2> QED BY <2>1, <2>2, SeqMonotonic
<1>2. e \in S
  OBVIOUS
<1> HIDE DEF S
<1>3. /\ Append(s, e) \in Seq(S) /\ Len(Append(s, e)) = Len(s) + 1
      /\ \A i \in 1 .. Len(s) : Append(s, e)[i] = s[i]
      /\ Append(s, e)[Len(s) + 1] = e
  BY <1>1, <1>2, AppendProperties
<1> QED BY <1>3, SeqIsList

LEMMA AppendedHolds ==
  ASSUME NEW s, IsList(s), NEW e
  PROVE  ToSet(Append(s, e)) = ToSet(s) \cup {e}
<1> DEFINE t == Append(s, e)
<1>1. /\ IsList(t) /\ Len(t) = Len(s) + 1
      /\ \A i \in 1 .. Len(s) : t[i] = s[i]
      /\ t[Len(s) + 1] = e
  BY ListAppend
<1> HIDE DEF t
<1>2. Len(s) \in Nat /\ DOMAIN s = 1 .. Len(s) /\ DOMAIN t = 1 .. Len(s) + 1
  BY <1>1, ListFacts
<1>3. \A i \in 1 .. Len(s) + 1 : i \in 1 .. Len(s) \/ i = Len(s) + 1
  BY <1>2
<1>4. Len(s) + 1 \in 1 .. Len(s) + 1 /\ \A i \in 1 .. Len(s) : i \in 1 .. Len(s) + 1
  BY <1>2
<1>5. ToSet(t) = ToSet(s) \cup {e}
  BY <1>1, <1>2, <1>3, <1>4 DEF ToSet
<1> QED BY <1>5 DEF t

(* The entries picked from a list are a list of what stands at the places. *)
LEMMA EntriesAre ==
  ASSUME NEW s, IsList(s), NEW places
  PROVE  /\ IsList(Entries(s, places))
         /\ ToSet(Entries(s, places)) = {s[k] : k \in DOMAIN s \cap places}
<1> DEFINE n == Len(s)
           W == Seq(ToSet(s))
           next(v, i) == IF i \in places THEN Append(v, s[i]) ELSE v
           step == [i \in 1 .. n |-> [v \in W |-> next(v, i)]]
           Eq(f) == f = [i \in 0 .. n |-> IF i = 0 THEN << >> ELSE next(f[i - 1], i)]
           g == CHOOSE f : Eq(f)
<1>1. n \in Nat /\ DOMAIN s = 1 .. n
  BY ListFacts
<1>2. \A i \in 1 .. n, v \in W : next(v, i) \in W
  <2> TAKE i \in 1 .. n, v \in W
  <2>1. s[i] \in ToSet(s)
    BY <1>1 DEF ToSet
  <2> HIDE DEF ToSet
  <2>2. Append(v, s[i]) \in Seq(ToSet(s))
    BY <2>1, AppendProperties
  <2> QED BY <2>2
<1>3. step \in [1 .. n -> [W -> W]]
  <2> HIDE DEF W, next, n
  <2> QED BY <1>2
<1>4. << >> \in W
  BY EmptySeq
<1>5. PICK f : Follows(f, W, << >>, n, step)
  <2> HIDE DEF W, step, n
  <2> QED BY <1>1, <1>3, <1>4, StepsExist
<1>6. f \in [0 .. n -> W] /\ f[0] = << >> /\ \A i \in 1 .. n : f[i] = step[i][f[i - 1]]
  BY <1>5 DEF Follows
<1>7. Eq(f)
  <2> HIDE DEF W, next, n
  <2>1. \A k \in 1 .. n : k - 1 \in 0 .. n /\ f[k] = next(f[k - 1], k)
    <3> TAKE k \in 1 .. n
    <3>1. k - 1 \in 0 .. n
      BY <1>1
    <3> QED BY <3>1, <1>6
  <2> QED BY <2>1, <1>1, <1>6
<1>8. Entries(s, places) = g[n]
  BY DEF Entries
<1>9. Eq(g)
  <2> HIDE DEF Eq
  <2> QED BY <1>7
<1>10. g[0] = << >> /\ \A k \in 1 .. n : k - 1 \in 0 .. n /\ g[k] = next(g[k - 1], k)
  <2> HIDE DEF g, next, n
  <2> QED BY <1>9, <1>1
<1> DEFINE Picked(k) == {s[j] : j \in (1 .. k) \cap places}
           T == {k \in 0 .. n : g[k] \in W /\ ToSet(g[k]) = Picked(k)}
<1>11. \A k \in 0 .. n : k \in T
  <2>1. 0 \in T
    <3>1. g[0] = << >> /\ << >> \in W /\ 0 \in 0 .. n
      BY <1>1, <1>4, <1>10
    <3>2. ToSet(<< >>) = {} /\ Picked(0) = {}
      BY EmptyIsList DEF ToSet
    <3> HIDE DEF g, W, Picked, n
    <3> QED BY <3>1, <3>2
  <2>2. ASSUME NEW k \in 1 .. n, k - 1 \in T PROVE k \in T
    <3> DEFINE v == g[k - 1]
    <3>1. v \in W /\ ToSet(v) = Picked(k - 1) /\ g[k] = next(v, k) /\ k \in 0 .. n
      <4>1. k \in 0 .. n /\ g[k] = next(v, k)
        <5> HIDE DEF g, n
        <5> QED BY <1>1, <1>10
      <4>2. v \in W /\ ToSet(v) = Picked(k - 1)
        <5> HIDE DEF g, n, W, Picked
        <5> QED BY <2>2
      <4> QED BY <4>1, <4>2
    <3>2. g[k] \in W
      BY <3>1, <1>2
    <3> HIDE DEF g, v, W
    <3>3. \A j \in Int : j \in 1 .. k <=> j \in 1 .. k - 1 \/ j = k
      BY <1>1
    <3>4. CASE k \in places
      <4>1. IsList(v)
        <5> HIDE DEF ToSet
        <5> QED BY <3>1, SeqIsList DEF W
      <4>2. ToSet(Append(v, s[k])) = ToSet(v) \cup {s[k]}
        BY <4>1, AppendedHolds
      <4>3. Picked(k) = Picked(k - 1) \cup {s[k]}
        BY <3>3, <3>4
      <4> HIDE DEF Picked, ToSet
      <4> QED BY <3>1, <3>2, <3>4, <4>2, <4>3
    <3>5. CASE k \notin places
      <4>1. Picked(k) = Picked(k - 1)
        BY <3>3, <3>5
      <4> HIDE DEF Picked, ToSet
      <4> QED BY <3>1, <3>2, <3>5, <4>1
    <3> QED BY <3>4, <3>5
  <2> HIDE DEF T
  <2> QED BY <2>1, <2>2, <1>1, UpTo
<1>12. g[n] \in W /\ ToSet(g[n]) = Picked(n)
  <2>1. n \in 0 .. n
    BY <1>1
  <2>2. n \in T
    BY <1>11, <2>1
  <2> HIDE DEF g, n, W, Picked
  <2> QED BY <2>2
<1>13. Picked(n) = {s[k] : k \in DOMAIN s \cap places}
  BY <1>1
<1> HIDE DEF g, ToSet, Picked
<1>14. IsList(g[n])
  BY <1>12, SeqIsList
<1> QED BY <1>8, <1>12, <1>13, <1>14

-----------------------------------------------------------------------------
(* What the catalog makes of lists of selections are lists of them, of no  *)
(* packs but theirs.                                                       *)
LEMMA PickedAreEntries ==
  ASSUME NEW s, AreEntries(s), NEW places
  PROVE  /\ AreEntries(Entries(s, places)) /\ IsList(Entries(s, places))
         /\ ToSet(Entries(s, places)) \subseteq ToSet(s)
         /\ PacksIn(Entries(s, places)) = {s[k].pack : k \in DOMAIN s \cap places}
<1> DEFINE t == Entries(s, places)
<1>1. IsList(t) /\ ToSet(t) = {s[k] : k \in DOMAIN s \cap places}
  BY EntriesAre DEF AreEntries
<1> HIDE DEF t
<1>2. ToSet(t) \subseteq ToSet(s)
  BY <1>1 DEF ToSet
<1>3. AreEntries(t)
  BY <1>1, <1>2 DEF AreEntries
<1>4. PacksIn(t) = {s[k].pack : k \in DOMAIN s \cap places}
  <2> HIDE DEF ToSet
  <2> QED BY <1>1 DEF PacksIn
<1> QED BY <1>1, <1>2, <1>3, <1>4 DEF t

LEMMA EachKeepsPack ==
  ASSUME NEW s, AreEntries(s), NEW u, IsList(u), ToSet(u) \subseteq ToSet(s),
         NEW t, DOMAIN t = DOMAIN u, t = [n \in DOMAIN u |-> t[n]],
         \A n \in DOMAIN u : DOMAIN t[n] = {"pack", "names"} /\ t[n].pack = u[n].pack
  PROVE  AreEntries(t) /\ PacksIn(t) \subseteq PacksIn(s)
<1>1. Len(u) \in Nat /\ DOMAIN u = 1 .. Len(u)
  BY ListFacts
<1>2. IsList(t)
  BY <1>1, FunctionIsList
<1>3. AreEntries(t)
  BY <1>2 DEF AreEntries, ToSet
<1>4. \A n \in DOMAIN u : t[n].pack \in PacksIn(s)
  BY DEF PacksIn, ToSet
<1>5. PacksIn(t) \subseteq PacksIn(s)
  BY <1>4 DEF PacksIn, ToSet
<1> QED BY <1>3, <1>5

LEMMA NormalizedIsList ==
  ASSUME NEW s, AreEntries(s)
  PROVE  AreEntries(NormalizeSelections(s)) /\ PacksIn(NormalizeSelections(s)) \subseteq PacksIn(s)
<1> DEFINE places == {n \in DOMAIN s : s[n].pack # None /\ s[n].names # Malformed}
           usable == Entries(s, places)
           t == NormalizeSelections(s)
<1>1. IsList(usable) /\ ToSet(usable) \subseteq ToSet(s)
  <2> HIDE DEF places
  <2> QED BY PickedAreEntries
<1>2. t = [n \in DOMAIN usable |-> [usable[n] EXCEPT !.names = IF @ = None THEN {} ELSE @ \ {None}]]
  BY DEF NormalizeSelections
<1>3. \A n \in DOMAIN usable : DOMAIN usable[n] = {"pack", "names"}
  <2> HIDE DEF usable
  <2> QED BY <1>1 DEF AreEntries, ToSet
<1> HIDE DEF usable, t
<1>4. \A n \in DOMAIN usable : DOMAIN t[n] = {"pack", "names"} /\ t[n].pack = usable[n].pack
  BY <1>2, <1>3
<1>5. DOMAIN t = DOMAIN usable /\ t = [n \in DOMAIN usable |-> t[n]]
  BY <1>2
<1>6. AreEntries(t) /\ PacksIn(t) \subseteq PacksIn(s)
  BY <1>1, <1>4, <1>5, EachKeepsPack
<1> QED BY <1>6 DEF t

LEMMA WholeIsList ==
  ASSUME NEW s, IsList(s)
  PROVE  AreEntries(WholePacks(NormalizeTcpIds(s)))
<1> DEFINE ids == NormalizeTcpIds(s)
<1>1. IsList(ids)
  BY EntriesAre DEF NormalizeTcpIds
<1> HIDE DEF ids
<1>2. Len(ids) \in Nat /\ DOMAIN ids = 1 .. Len(ids)
  BY <1>1, ListFacts
<1>3. WholePacks(ids) = [n \in 1 .. Len(ids) |-> [pack |-> ids[n], names |-> {}]]
  BY <1>2 DEF WholePacks
<1>4. IsList(WholePacks(ids))
  BY <1>2, <1>3, FunctionIsList
<1>5. \A e \in ToSet(WholePacks(ids)) : DOMAIN e = {"pack", "names"}
  BY <1>3 DEF ToSet
<1> QED BY <1>4, <1>5 DEF ids, AreEntries

LEMMA JoinedEntries ==
  ASSUME NEW s, NEW t, IsList(s), IsList(t)
  PROVE  /\ ToSet(s \o t) = ToSet(s) \cup ToSet(t) /\ PacksIn(s \o t) = PacksIn(s) \cup PacksIn(t)
         /\ (AreEntries(s) /\ AreEntries(t)) => AreEntries(s \o t)
<1> DEFINE u == s \o t
<1>1. /\ IsList(u) /\ Len(u) = Len(s) + Len(t)
      /\ \A i \in 1 .. Len(s) + Len(t) : u[i] = IF i <= Len(s) THEN s[i] ELSE t[i - Len(s)]
  BY ListConcat
<1> HIDE DEF u
<1>2. /\ Len(s) \in Nat /\ DOMAIN s = 1 .. Len(s) /\ Len(t) \in Nat /\ DOMAIN t = 1 .. Len(t)
      /\ DOMAIN u = 1 .. Len(s) + Len(t)
  BY <1>1, ListFacts
<1>3. \A i \in DOMAIN u :
        \/ i \in DOMAIN s /\ u[i] = s[i]
        \/ i - Len(s) \in DOMAIN t /\ u[i] = t[i - Len(s)]
  BY <1>1, <1>2
<1>4. \A i \in DOMAIN s : i \in DOMAIN u /\ u[i] = s[i]
  BY <1>1, <1>2
<1>5. \A i \in DOMAIN t : Len(s) + i \in DOMAIN u /\ u[Len(s) + i] = t[i]
  <2> TAKE i \in DOMAIN t
  <2>1. Len(s) + i \in 1 .. Len(s) + Len(t) /\ ~(Len(s) + i <= Len(s)) /\ (Len(s) + i) - Len(s) = i
    BY <1>2
  <2> QED BY <1>1, <1>2, <2>1
<1>6. ToSet(u) = ToSet(s) \cup ToSet(t)
  <2>1. ASSUME NEW e \in ToSet(u) PROVE e \in ToSet(s) \cup ToSet(t)
    BY <1>3 DEF ToSet
  <2>2. ASSUME NEW e \in ToSet(s) \cup ToSet(t) PROVE e \in ToSet(u)
    BY <1>4, <1>5 DEF ToSet
  <2> QED BY <2>1, <2>2
<1> HIDE DEF ToSet
<1>7. PacksIn(u) = PacksIn(s) \cup PacksIn(t)
  BY <1>6 DEF PacksIn
<1>8. AreEntries(s) /\ AreEntries(t) => AreEntries(u)
  BY <1>1, <1>6 DEF AreEntries
<1> QED BY <1>6, <1>7, <1>8 DEF u

LEMMA FilteredIsList ==
  ASSUME NEW lib, NEW s, AreEntries(s), NEW kind
  PROVE  /\ AreEntries(FilteredToServer(lib, s, kind))
         /\ \A p \in PacksIn(FilteredToServer(lib, s, kind)) : p \in Packs /\ Exists(lib, p)
<1> DEFINE places == {n \in DOMAIN s : s[n].pack \in Packs /\ KindOf[s[n].pack] = kind /\ Exists(lib, s[n].pack)}
<1>1. FilteredToServer(lib, s, kind) = Entries(s, places)
  BY DEF FilteredToServer
<1>2. \A k \in DOMAIN s \cap places : s[k].pack \in Packs /\ Exists(lib, s[k].pack)
  OBVIOUS
<1> HIDE DEF places
<1> QED BY <1>1, <1>2, PickedAreEntries

LEMMA OfKindIsList ==
  ASSUME NEW s, IsList(s), NEW kind
  PROVE  /\ IsList(OfKind(s, kind))
         /\ ToSet(OfKind(s, kind)) = {e \in ToSet(s) : KindOf[e.pack] = kind}
<1> DEFINE places == {n \in DOMAIN s : KindOf[s[n].pack] = kind}
<1>1. IsList(Entries(s, places)) /\ ToSet(Entries(s, places)) = {s[k] : k \in DOMAIN s \cap places}
  <2> HIDE DEF places
  <2> QED BY EntriesAre
<1>2. {s[k] : k \in DOMAIN s \cap places} = {e \in ToSet(s) : KindOf[e.pack] = kind}
  BY DEF ToSet
<1> QED BY <1>1, <1>2 DEF OfKind

LEMMA ValidatedIsList ==
  ASSUME NEW lib, NEW s, AreEntries(s)
  PROVE  /\ IsList(Validated(lib, s))
         /\ PacksIn(Validated(lib, s)) \subseteq PacksIn(NormalizeSelections(s))
<1> DEFINE given == NormalizeSelections(s)
           Inside(e) == NormalizeContent(e.pack, lib.items[e.pack])
           Left(e) == e.names \cap NamesIn(Inside(e))
           Holds(e) == e.names = {} \/ Left(e) # {}
           All(e) == Cardinality(Left(e)) = Len(Inside(e))
           Trim(e) == [e EXCEPT !.names = IF All(e) THEN {} ELSE Left(e)]
           places == {n \in DOMAIN given : Holds(given[n])}
           kept == Entries(given, places)
           t == Validated(lib, s)
<1>1. AreEntries(given)
  BY NormalizedIsList
<1>2. IsList(kept) /\ ToSet(kept) \subseteq ToSet(given)
  <2> HIDE DEF given, places
  <2> QED BY <1>1, PickedAreEntries
<1>3. t = [n \in DOMAIN kept |-> Trim(kept[n])]
  BY DEF Validated
<1>4. \A n \in DOMAIN kept : DOMAIN kept[n] = {"pack", "names"}
  <2> HIDE DEF kept, given
  <2> QED BY <1>1, <1>2 DEF AreEntries, ToSet
<1> HIDE DEF kept, t, All, Left, given
<1>5. \A n \in DOMAIN kept : DOMAIN t[n] = {"pack", "names"} /\ t[n].pack = kept[n].pack
  BY <1>3, <1>4
<1>6. DOMAIN t = DOMAIN kept /\ t = [n \in DOMAIN kept |-> t[n]]
  BY <1>3
<1>7. AreEntries(t) /\ PacksIn(t) \subseteq PacksIn(given)
  BY <1>1, <1>2, <1>5, <1>6, EachKeepsPack
<1> QED BY <1>7 DEF t, given, AreEntries

(* The packs of a list are finitely many.                                  *)
LEMMA PacksAreFinite ==
  ASSUME NEW s, IsList(s)
  PROVE  IsFiniteSet(PacksIn(s)) /\ \A i \in DOMAIN s : s[i].pack \in PacksIn(s)
<1> DEFINE n == Len(s)
<1>1. n \in Nat /\ DOMAIN s = 1 .. n
  BY ListFacts
<1> DEFINE f == [i \in 1 .. n |-> s[i].pack]
<1>2. PacksIn(s) = {f[i] : i \in 1 .. n}
  BY <1>1 DEF PacksIn, ToSet
<1>3. IsFiniteSet(1 .. n)
  BY <1>1, FS_Interval
<1>4. f \in Surjection(1 .. n, PacksIn(s))
  BY <1>2 DEF Surjection
<1>5. IsFiniteSet(PacksIn(s))
  BY <1>3, <1>4, FS_Surjection
<1> QED BY <1>1, <1>2, <1>5

(* A list of a finite set.                                                 *)
LEMMA SetToSeqIsList ==
  ASSUME NEW S, IsFiniteSet(S)
  PROVE  IsList(SetToSeq(S)) /\ ToSet(SetToSeq(S)) \subseteq S
<1> DEFINE n == Cardinality(S)
           t == SetToSeq(S)
<1>1. n \in Nat /\ ExistsBijection(1 .. n, S)
  BY FS_CardinalityType
<1>2. PICK f : f \in Bijection(1 .. n, S)
  BY <1>1 DEF ExistsBijection
<1>3. f \in [1 .. n -> S] /\ IsInjective(f)
  BY <1>2 DEF Bijection, Injection
<1>4. t \in [1 .. n -> S]
  BY <1>3 DEF SetToSeq
<1>5. t \in Seq(S) /\ ToSet(t) \subseteq S
  BY <1>1, <1>4, SeqDef DEF ToSet
<1> QED BY <1>5, SeqIsList

(* Merged selections are a list: the map they are read from has no packs   *)
(* but those of the two lists.                                             *)
LEMMA MergedIsList ==
  ASSUME NEW s, NEW t, IsList(s), IsList(t)
  PROVE  /\ IsList(MergeSelections(s, t))
         /\ PacksIn(MergeSelections(s, t)) \subseteq PacksIn(s) \cup PacksIn(t)
<1> DEFINE n == Len(t)
           P == PacksIn(s) \cup PacksIn(t)
           stored == [p \in PacksIn(s) |-> LastNames(s, p)]
           N == {LastNames(s, p) : p \in PacksIn(s)} \cup {t[i].names : i \in 1 .. n}
           V == SUBSET UNION N
           W == UNION {[D -> V] : D \in SUBSET P}
           next(m, i) == MergeSelection(m, t[i])
           step == [i \in 1 .. n |-> [m \in W |-> next(m, i)]]
           Eq(f) == f = [i \in 0 .. n |-> IF i = 0 THEN stored ELSE next(f[i - 1], i)]
           g == CHOOSE f : Eq(f)
           merged == g[n]
<1>1. n \in Nat /\ DOMAIN t = 1 .. n /\ IsFiniteSet(P)
  <2>1. IsFiniteSet(PacksIn(s)) /\ IsFiniteSet(PacksIn(t))
    BY PacksAreFinite
  <2> QED BY <2>1, ListFacts, FS_Union
<1>2. \A m : m \in W <=> DOMAIN m \in SUBSET P /\ m \in [DOMAIN m -> V]
  <2> HIDE DEF P, V
  <2> QED OBVIOUS
<1>3. stored \in W
  <2>1. \A p \in PacksIn(s) : LastNames(s, p) \in N
    OBVIOUS
  <2>2. \A p \in PacksIn(s) : LastNames(s, p) \in V
    <3> HIDE DEF N
    <3> QED BY <2>1
  <2> HIDE DEF N, V, W
  <2>3. DOMAIN stored \in SUBSET P /\ stored \in [DOMAIN stored -> V]
    BY <2>2
  <2> HIDE DEF stored
  <2> QED BY <1>2, <2>3
<1>4. \A i \in 1 .. n, m \in W : next(m, i) \in W
  <2> TAKE i \in 1 .. n, m \in W
  <2> DEFINE e == t[i]
             a == e.pack
             k == next(m, i)
  <2>1. a \in P
    BY <1>1, PacksAreFinite
  <2>2. e.names \in N
    OBVIOUS
  <2>3. e.names \in V
    <3> HIDE DEF N, e
    <3> QED BY <2>2
  <2>4. DOMAIN m \in SUBSET P /\ \A p \in DOMAIN m : m[p] \in V
    <3> HIDE DEF P, V, W
    <3> QED BY <1>2
  <2> HIDE DEF P, N, W, a, e
  <2>5. \A x, y \in V : MergeSelectionNames(x, y) \in V
    BY DEF MergeSelectionNames
  <2>6. DOMAIN k \in SUBSET P /\ k \in [DOMAIN k -> V]
    <3> HIDE DEF V
    <3>1. CASE a \in DOMAIN m
      <4>1. k = [m EXCEPT ![a] = MergeSelectionNames(m[a], e.names)]
        BY <3>1 DEF MergeSelection, a, e
      <4>2. MergeSelectionNames(m[a], e.names) \in V
        BY <2>3, <2>4, <2>5, <3>1
      <4> HIDE DEF k
      <4>3. DOMAIN k = DOMAIN m /\ k = [p \in DOMAIN m |-> IF p = a THEN MergeSelectionNames(m[a], e.names) ELSE m[p]]
        BY <4>1
      <4> QED BY <4>2, <4>3, <2>4
    <3>2. CASE a \notin DOMAIN m
      <4>1. k = [p \in DOMAIN m \cup {a} |-> IF p = a THEN e.names ELSE m[p]]
        BY <3>2 DEF MergeSelection, a, e
      <4> HIDE DEF k
      <4> QED BY <4>1, <2>1, <2>3, <2>4
    <3> QED BY <3>1, <3>2
  <2> HIDE DEF k, V
  <2>7. k \in W
    BY <1>2, <2>6
  <2> QED BY <2>7 DEF k
<1>5. step \in [1 .. n -> [W -> W]]
  <2> HIDE DEF W, next, n
  <2> QED BY <1>4
<1>6. PICK f : Follows(f, W, stored, n, step)
  <2> HIDE DEF W, step, n, stored
  <2> QED BY <1>1, <1>3, <1>5, StepsExist
<1>7. f \in [0 .. n -> W] /\ f[0] = stored /\ \A i \in 1 .. n : f[i] = step[i][f[i - 1]]
  BY <1>6 DEF Follows
<1>8. Eq(f)
  <2> HIDE DEF W, next, n, stored
  <2>1. \A k \in 1 .. n : k - 1 \in 0 .. n /\ f[k] = next(f[k - 1], k)
    <3> TAKE k \in 1 .. n
    <3>1. k - 1 \in 0 .. n
      BY <1>1
    <3> QED BY <3>1, <1>7
  <2> QED BY <2>1, <1>1, <1>7
<1>9. Eq(g)
  <2> HIDE DEF Eq
  <2> QED BY <1>8
<1>10. g[0] = stored /\ \A k \in 1 .. n : k - 1 \in 0 .. n /\ g[k] = next(g[k - 1], k)
  <2> HIDE DEF g, next, n, stored
  <2> QED BY <1>9, <1>1
<1>11. MergeSelections(s, t) = SetToSeq({[pack |-> p, names |-> merged[p]] : p \in DOMAIN merged})
  BY DEF MergeSelections
<1> DEFINE T == {k \in 0 .. n : g[k] \in W}
<1>12. \A k \in 0 .. n : k \in T
  <2> HIDE DEF g, next, n, W, stored
  <2>1. 0 \in T
    BY <1>1, <1>3, <1>10
  <2>2. ASSUME NEW k \in 1 .. n, k - 1 \in T PROVE k \in T
    BY <2>2, <1>1, <1>4, <1>10
  <2> HIDE DEF T
  <2> QED BY <2>1, <2>2, <1>1, UpTo
<1>13. merged \in W
  <2> HIDE DEF g, n, W
  <2> QED BY <1>1, <1>12
<1> DEFINE D == DOMAIN merged
           pairs == {[pack |-> p, names |-> merged[p]] : p \in D}
<1>d. D \subseteq P
  <2> HIDE DEF merged, P, W, V
  <2> QED BY <1>2, <1>13
<1>14. IsFiniteSet(D)
  <2> HIDE DEF merged, P, D
  <2> QED BY <1>d, <1>1, FS_Subset
<1> HIDE DEF merged, g
<1> DEFINE h == [p \in D |-> [pack |-> p, names |-> merged[p]]]
<1>15. h \in Surjection(D, pairs)
  BY DEF Surjection
<1>16. IsFiniteSet(pairs)
  <2> HIDE DEF D, pairs, h
  <2> QED BY <1>14, <1>15, FS_Surjection
<1>p. \A e \in pairs : e.pack \in P
  <2> HIDE DEF P, D
  <2> QED BY <1>d
<1> HIDE DEF pairs, P, ToSet
<1>17. IsList(SetToSeq(pairs)) /\ ToSet(SetToSeq(pairs)) \subseteq pairs
  BY <1>16, SetToSeqIsList
<1>18. PacksIn(SetToSeq(pairs)) \subseteq P
  BY <1>p, <1>17 DEF PacksIn
<1> QED BY <1>11, <1>17, <1>18 DEF pairs, P

-----------------------------------------------------------------------------
(* The rows of the catalog keep lists of selections, and contents of       *)
(* packs, whatever its routes do to them.                                  *)
Sound(lib) == IsLibrary(lib) /\ RowsListed(lib) /\ PacksFilled(lib)

(* A row takes the place of another.                                       *)
LEMMA WrittenIsSound ==
  ASSUME NEW lib, Sound(lib), NEW i, NEW row, NEW roles,
         i \in TemplateIds => AreEntries(row.tcps) /\ AreEntries(row.sets) /\ IsList(row.ids),
         i \in Packs => row \in ContentsOf[i]
  PROVE  Sound(Written(lib, i, row, roles))
<1> DEFINE new == Written(lib, i, row, roles)
<1>1. DOMAIN new = DOMAIN lib /\ new.items = [lib.items EXCEPT ![i] = row]
  BY DEF Sound, IsLibrary, Written
<1> HIDE DEF new
<1>2. \A j \in Items : new.items[j] = IF j = i THEN row ELSE lib.items[j]
  BY <1>1 DEF Sound, IsLibrary
<1>3. IsLibrary(new)
  BY <1>1 DEF Sound, IsLibrary
<1>4. RowsListed(new)
  <2> SUFFICES ASSUME NEW t \in TemplateIds, Exists(new, t)
               PROVE  LET r == new.items[t] IN AreEntries(r.tcps) /\ AreEntries(r.sets) /\ IsList(r.ids)
    BY DEF RowsListed
  <2>1. t \in Items
    BY DEF TemplateIds
  <2>2. CASE t = i
    BY <1>2, <2>1, <2>2
  <2>3. CASE t # i
    BY <1>2, <2>1, <2>3 DEF Sound, RowsListed, Exists
  <2> QED BY <2>2, <2>3
<1>5. PacksFilled(new)
  BY <1>2 DEF Sound, PacksFilled, Exists, Packs
<1> QED BY <1>3, <1>4, <1>5 DEF Sound, new

LEMMA ReadIsListed ==
  ASSUME NEW lib, Sound(lib), NEW t \in TemplateIds, Exists(lib, t)
  PROVE  LET read == ReadTemplate(lib, t) IN
           /\ AreEntries(read.tcps) /\ AreEntries(read.sets)
           /\ \A p \in PacksIn(read.tcps) \cup PacksIn(read.sets) : p \in Packs /\ Exists(lib, p)
<1> DEFINE row == lib.items[t]
           chosen == NormalizeSelections(row.tcps)
           tcps == IF chosen # << >> THEN chosen ELSE WholePacks(NormalizeTcpIds(row.ids))
<1>1. AreEntries(row.tcps) /\ AreEntries(row.sets) /\ IsList(row.ids)
  BY DEF Sound, RowsListed
<1> HIDE DEF row
<1>2. /\ AreEntries(chosen) /\ AreEntries(WholePacks(NormalizeTcpIds(row.ids)))
      /\ AreEntries(NormalizeSelections(row.sets))
  BY <1>1, NormalizedIsList, WholeIsList
<1>3. AreEntries(tcps)
  BY <1>2
<1>4. /\ ReadTemplate(lib, t).tcps = FilteredToServer(lib, tcps, "tcp_tools")
      /\ ReadTemplate(lib, t).sets = FilteredToServer(lib, NormalizeSelections(row.sets), "resource_sets")
  BY DEF ReadTemplate, row
<1> HIDE DEF tcps
<1> QED BY <1>2, <1>3, <1>4, FilteredIsList

(* What is read of a pack there is, is a content and no missing value.     *)
LEMMA ReadIsContent ==
  ASSUME NEW lib, Sound(lib), NEW p \in Packs, Exists(lib, p)
  PROVE  ReadPack(lib, p).content \in ContentsOf[p] /\ ReadPack(lib, p).content # None
<1>1. ReadPack(lib, p).content \in ContentsOf[p]
  BY ContentsAssumption DEF Sound, PacksFilled, ReadPack, Stores
<1> QED BY <1>1, ContentsAssumption DEF Resources

LEMMA ChosenIsListed ==
  ASSUME NEW lib, NEW input, InputListed(input),
         NEW existing, AreEntries(existing.tcps), AreEntries(existing.sets), NEW steps
  PROVE  LET row == TemplateRow(steps, TemplateSelections(lib, input, existing))
         IN  AreEntries(row.tcps) /\ AreEntries(row.sets) /\ IsList(row.ids)
<1> DEFINE tcps == IF input.tcps # None THEN NormalizeSelections(input.tcps)
                   ELSE IF input.ids # None THEN WholePacks(NormalizeTcpIds(input.ids))
                   ELSE existing.tcps
           chosen == TemplateSelections(lib, input, existing)
           row == TemplateRow(steps, chosen)
<1>1. /\ input.tcps # None => AreEntries(input.tcps)
      /\ input.sets # None => AreEntries(input.sets)
      /\ input.ids # None => IsList(input.ids)
  BY DEF InputListed
<1>2. AreEntries(tcps)
  BY <1>1, NormalizedIsList, WholeIsList
<1>3. /\ chosen.tcps = FilteredToServer(lib, tcps, "tcp_tools")
      /\ chosen.sets = IF input.sets = None THEN existing.sets
                       ELSE FilteredToServer(lib, NormalizeSelections(input.sets), "resource_sets")
  BY DEF TemplateSelections
<1> HIDE DEF tcps, chosen
<1>4. AreEntries(chosen.tcps) /\ AreEntries(chosen.sets)
  BY <1>1, <1>2, <1>3, FilteredIsList, NormalizedIsList
<1>5. Len(chosen.tcps) \in Nat /\ DOMAIN chosen.tcps = 1 .. Len(chosen.tcps)
  BY <1>4, ListFacts DEF AreEntries
<1>6. /\ row.tcps = chosen.tcps /\ row.sets = chosen.sets
      /\ row.ids = [n \in 1 .. Len(chosen.tcps) |-> chosen.tcps[n].pack]
  BY <1>5 DEF TemplateRow
<1> HIDE DEF row
<1>7. IsList(row.ids)
  BY <1>5, <1>6, FunctionIsList
<1> QED BY <1>4, <1>6, <1>7 DEF row, chosen

LEMMA CreatedIsSound ==
  ASSUME NEW lib, Sound(lib), NEW i \in Items, NEW input,
         KindOf[i] = "templates" => InputListed(input),
         i \in Packs => Stores(i, Or(input.content, << >>))
  PROVE  Sound(CreateItem(lib, i, input))
<1>1. KindOf[i] \in Kinds
  BY KindsAssumption
<1>2. CASE KindOf[i] = "templates"
  <2>1. AreEntries(NoTemplate.tcps) /\ AreEntries(NoTemplate.sets)
    BY EmptyIsList DEF NoTemplate, AreEntries, ToSet
  <2> DEFINE steps == NormalizeSteps(Or(input.steps, << >>))
             row == TemplateRow(steps, TemplateSelections(lib, input, NoTemplate))
  <2>2. AreEntries(row.tcps) /\ AreEntries(row.sets) /\ IsList(row.ids)
    <3> HIDE DEF steps
    <3> QED BY <1>2, <2>1, ChosenIsListed
  <2>3. CreateItem(lib, i, input) = Written(lib, i, row, Or(input.roles, {}))
    BY <1>2 DEF CreateItem, CreateTemplate
  <2>4. i \in TemplateIds /\ i \notin Packs
    BY <1>2 DEF TemplateIds, Packs
  <2> HIDE DEF row
  <2> QED BY <2>2, <2>3, <2>4, WrittenIsSound
<1>3. CASE KindOf[i] = "tcp_tools"
  <2>1. i \in Packs /\ i \notin TemplateIds
    BY <1>3 DEF TemplateIds, Packs
  <2>2. NormalizeTools(Or(input.content, << >>)) \in ContentsOf[i]
    BY <1>3, <2>1 DEF Stores, NormalizeContent
  <2>3. CreateItem(lib, i, input)
          = Written(lib, i, NormalizeTools(Or(input.content, << >>)), Or(input.roles, {}))
    BY <1>3 DEF CreateItem, CreateTcp
  <2> QED BY <2>1, <2>2, <2>3, WrittenIsSound
<1>4. CASE KindOf[i] = "resource_sets"
  <2>1. i \in Packs /\ i \notin TemplateIds
    BY <1>4 DEF TemplateIds, Packs
  <2>2. NormalizeResources(Or(input.content, << >>)) \in ContentsOf[i]
    BY <1>4, <2>1 DEF Stores, NormalizeContent
  <2>3. CreateItem(lib, i, input)
          = Written(lib, i, NormalizeResources(Or(input.content, << >>)), Or(input.roles, {}))
    BY <1>4 DEF CreateItem, CreateResourceSet
  <2> QED BY <2>1, <2>2, <2>3, WrittenIsSound
<1> QED BY <1>1, <1>2, <1>3, <1>4 DEF Kinds

LEMMA UpdatedIsSound ==
  ASSUME NEW lib, Sound(lib), NEW i \in Items, Exists(lib, i), NEW input,
         KindOf[i] = "templates" => InputListed(input),
         i \in Packs /\ input.content # None => Stores(i, input.content)
  PROVE  Sound(UpdateItem(lib, i, input))
<1>1. KindOf[i] \in Kinds
  BY KindsAssumption
<1>2. CASE KindOf[i] = "templates"
  <2> DEFINE existing == ReadTemplate(lib, i)
             steps == IF input.steps = None THEN existing.steps ELSE NormalizeSteps(input.steps)
             row == TemplateRow(steps, TemplateSelections(lib, input, existing))
  <2>1. AreEntries(existing.tcps) /\ AreEntries(existing.sets)
    BY <1>2, ReadIsListed DEF TemplateIds
  <2>2. UpdateItem(lib, i, input) = Written(lib, i, row, input.roles)
    BY <1>2 DEF UpdateItem, UpdateTemplate
  <2> HIDE DEF existing
  <2>3. AreEntries(row.tcps) /\ AreEntries(row.sets) /\ IsList(row.ids)
    <3> HIDE DEF steps
    <3> QED BY <1>2, <2>1, ChosenIsListed
  <2>4. i \in TemplateIds /\ i \notin Packs
    BY <1>2 DEF TemplateIds, Packs
  <2> HIDE DEF row
  <2> QED BY <2>2, <2>3, <2>4, WrittenIsSound
<1>3. CASE KindOf[i] = "tcp_tools"
  <2> DEFINE row == IF input.content = None THEN ReadPack(lib, i).content
                    ELSE NormalizeTools(input.content)
  <2>1. i \in Packs /\ i \notin TemplateIds
    BY <1>3 DEF TemplateIds, Packs
  <2>2. row \in ContentsOf[i]
    BY <1>3, <2>1, ReadIsContent DEF Stores, NormalizeContent
  <2>3. UpdateItem(lib, i, input) = Written(lib, i, row, input.roles)
    BY <1>3 DEF UpdateItem, UpdateTcp
  <2> HIDE DEF row
  <2> QED BY <2>1, <2>2, <2>3, WrittenIsSound
<1>4. CASE KindOf[i] = "resource_sets"
  <2> DEFINE row == IF input.content = None THEN ReadPack(lib, i).content
                    ELSE NormalizeResources(input.content)
  <2>1. i \in Packs /\ i \notin TemplateIds
    BY <1>4 DEF TemplateIds, Packs
  <2>2. row \in ContentsOf[i]
    BY <1>4, <2>1, ReadIsContent DEF Stores, NormalizeContent
  <2>3. UpdateItem(lib, i, input) = Written(lib, i, row, input.roles)
    BY <1>4 DEF UpdateItem, UpdateResourceSet
  <2> HIDE DEF row
  <2> QED BY <2>1, <2>2, <2>3, WrittenIsSound
<1> QED BY <1>1, <1>2, <1>3, <1>4 DEF Kinds

LEMMA DeletedIsSound ==
  ASSUME NEW lib, Sound(lib), NEW i
  PROVE  Sound(DeleteItem(lib, i))
<1> DEFINE new == DeleteItem(lib, i)
<1>1. DOMAIN new = DOMAIN lib /\ new.items = [lib.items EXCEPT ![i] = None]
  BY DEF Sound, IsLibrary, DeleteItem
<1> HIDE DEF new
<1>2. \A j \in Items : new.items[j] = IF j = i THEN None ELSE lib.items[j]
  BY <1>1 DEF Sound, IsLibrary
<1>3. IsLibrary(new)
  BY <1>1 DEF Sound, IsLibrary
<1>4. RowsListed(new) /\ PacksFilled(new)
  BY <1>2 DEF Sound, RowsListed, PacksFilled, Exists, TemplateIds, Packs
<1> QED BY <1>3, <1>4 DEF Sound, new

(* An import creates one item after the other.                             *)
LEMMA ImportedIsSound ==
  ASSUME NEW lib, Sound(lib), NEW ids, IsList(ids), NEW inputs,
         \A n \in DOMAIN ids :
           /\ ids[n] \in Items
           /\ IF KindOf[ids[n]] = "templates"
              THEN /\ DOMAIN inputs[n] = {"steps", "ids", "tcps", "sets", "roles"}
                   /\ InputListed(inputs[n])
              ELSE /\ DOMAIN inputs[n] = {"content", "roles"}
                   /\ Stores(ids[n], Or(inputs[n].content, << >>))
  PROVE  Sound(ImportItems(lib, ids, inputs))
<1> DEFINE n == Len(ids)
           input(i) == [inputs[i] EXCEPT !.roles = None]
           next(l, i) == CreateItem(l, ids[i], input(i))
           Eq(f, k) == f = [i \in 0 .. k |-> IF i = 0 THEN lib ELSE next(f[i - 1], i)]
           g == CHOOSE f : Eq(f, n)
<1>1. n \in Nat /\ DOMAIN ids = 1 .. n
  BY ListFacts
<1>2. \A i \in 1 .. n : KindOf[ids[i]] = "templates" =>
        InputListed(input(i))
  <2> TAKE i \in 1 .. n
  <2> HAVE KindOf[ids[i]] = "templates"
  <2>1. DOMAIN inputs[i] = {"steps", "ids", "tcps", "sets", "roles"}
        /\ InputListed(inputs[i])
    BY <1>1
  <2>2. input(i).tcps = inputs[i].tcps /\ input(i).sets = inputs[i].sets /\ input(i).ids = inputs[i].ids
    BY <2>1
  <2> HIDE DEF input
  <2> QED BY <2>1, <2>2 DEF InputListed
<1>c. \A i \in 1 .. n : ids[i] \in Packs => Stores(ids[i], Or(input(i).content, << >>))
  <2> TAKE i \in 1 .. n
  <2> HAVE ids[i] \in Packs
  <2>1. KindOf[ids[i]] # "templates"
    BY <1>1 DEF Packs, TemplateIds
  <2>2. DOMAIN inputs[i] = {"content", "roles"} /\ Stores(ids[i], Or(inputs[i].content, << >>))
    BY <1>1, <2>1
  <2>3. input(i).content = inputs[i].content
    BY <2>2
  <2> HIDE DEF input
  <2> QED BY <2>2, <2>3
<1> HIDE DEF input
<1>3. \A i \in 1 .. n : \A l : Sound(l) => Sound(next(l, i))
  BY <1>1, <1>2, <1>c, CreatedIsSound
<1>4. ImportItems(lib, ids, inputs) = g[n]
  BY DEF ImportItems, input
<1> HIDE DEF next, n
<1> DEFINE T == {k \in 0 .. n : \E f : Eq(f, k)}
<1>5. \A k \in 0 .. n : k \in T
  <2>1. 0 \in T
    <3>1. Eq([i \in 0 .. 0 |-> lib], 0)
      OBVIOUS
    <3>2. 0 \in 0 .. n
      BY <1>1
    <3> HIDE DEF Eq
    <3> QED BY <3>1, <3>2
  <2>2. ASSUME NEW k \in 1 .. n, k - 1 \in T PROVE k \in T
    <3>1. PICK f : Eq(f, k - 1)
      BY <2>2
    <3> DEFINE h == [i \in 0 .. k |-> IF i = k THEN next(f[k - 1], k) ELSE f[i]]
    <3>2. \A i \in 0 .. k - 1 : h[i] = IF i = 0 THEN lib ELSE next(f[i - 1], i)
      BY <1>1, <3>1
    <3>3. \A i \in 0 .. k : i # 0 => h[i - 1] = f[i - 1]
      BY <1>1
    <3>4. \A i \in 0 .. k : h[i] = IF i = 0 THEN lib ELSE next(h[i - 1], i)
      <4> TAKE i \in 0 .. k
      <4>1. CASE i = k
        <5>1. h[k] = next(f[k - 1], k) /\ h[k - 1] = f[k - 1] /\ k # 0
          BY <1>1, <3>3
        <5> HIDE DEF h
        <5> QED BY <4>1, <5>1
      <4>2. CASE i # k
        <5>1. i \in 0 .. k - 1
          BY <1>1, <4>2
        <5> HIDE DEF h
        <5> QED BY <3>2, <3>3, <5>1
      <4> QED BY <4>1, <4>2
    <3>5. h = [i \in 0 .. k |-> h[i]]
      OBVIOUS
    <3> HIDE DEF h
    <3>6. h = [i \in 0 .. k |-> IF i = 0 THEN lib ELSE next(h[i - 1], i)]
      <4>1. [i \in 0 .. k |-> h[i]] = [i \in 0 .. k |-> IF i = 0 THEN lib ELSE next(h[i - 1], i)]
        BY <3>4, Zenon
      <4> QED BY <3>5, <4>1, Zenon
    <3>7. k \in 0 .. n
      BY <1>1
    <3> QED BY <3>6, <3>7
  <2> HIDE DEF T
  <2> QED BY <2>1, <2>2, <1>1, UpTo
<1>6. Eq(g, n)
  <2>1. n \in T
    BY <1>1, <1>5
  <2> HIDE DEF Eq
  <2> QED BY <2>1
<1>7. g[0] = lib /\ \A k \in 1 .. n : g[k] = next(g[k - 1], k)
  <2> HIDE DEF g
  <2> QED BY <1>1, <1>6
<1> HIDE DEF g
<1> DEFINE G == {k \in 0 .. n : Sound(g[k])}
<1>8. \A k \in 0 .. n : k \in G
  <2>1. 0 \in G
    BY <1>1, <1>7
  <2>2. ASSUME NEW k \in 1 .. n, k - 1 \in G PROVE k \in G
    BY <2>2, <1>1, <1>3, <1>7
  <2> HIDE DEF G
  <2> QED BY <2>1, <2>2, <1>1, UpTo
<1> QED BY <1>1, <1>4, <1>8

LEMMA RoutedIsSound ==
  ASSUME NEW lib, Sound(lib), NEW c \in CatalogCalls
  PROVE  Sound(CatalogRoute(lib, c))
<1>1. CASE c.op = "create"
  <2>1. Sound(CreateItem(lib, c.id, c.input))
    BY <1>1, CallsAssumption, CreatedIsSound
  <2>2. CatalogRoute(lib, c) \in {CreateItem(lib, c.id, c.input), lib}
    BY <1>1 DEF CatalogRoute
  <2> QED BY <2>1, <2>2
<1>2. CASE c.op = "update"
  <2>1. Exists(lib, c.id) => Sound(UpdateItem(lib, c.id, c.input))
    BY <1>2, CallsAssumption, UpdatedIsSound
  <2>2. \/ CatalogRoute(lib, c) = lib
        \/ CatalogRoute(lib, c) = UpdateItem(lib, c.id, c.input) /\ Exists(lib, c.id)
    BY <1>2 DEF CatalogRoute
  <2> QED BY <2>1, <2>2
<1>3. CASE c.op = "delete"
  <2>1. CatalogRoute(lib, c) \in {DeleteItem(lib, c.id), lib}
    BY <1>3 DEF CatalogRoute
  <2> QED BY <2>1, DeletedIsSound
<1>4. CASE c.op = "import"
  <2>1. IsList(c.ids) /\ \A n \in DOMAIN c.ids : c.ids[n] \in Items
    BY <1>4, CallsAssumption DEF ToSet
  <2>2. Sound(ImportItems(lib, c.ids, c.inputs))
    BY <1>4, <2>1, CallsAssumption, ImportedIsSound
  <2>3. CatalogRoute(lib, c) = ImportItems(lib, c.ids, c.inputs)
    BY <1>4 DEF CatalogRoute
  <2> QED BY <2>2, <2>3
<1>5. CASE c.op \notin {"create", "update", "delete", "import"}
  BY <1>5 DEF CatalogRoute
<1> QED BY <1>1, <1>2, <1>3, <1>4, <1>5

LEMMA RoleDroppedIsSound ==
  ASSUME NEW lib, Sound(lib), NEW r
  PROVE  Sound(DeleteRole(lib, r))
<1>1. /\ DOMAIN DeleteRole(lib, r) = DOMAIN lib
      /\ DeleteRole(lib, r).items = lib.items
  BY DEF Sound, IsLibrary, DeleteRole
<1> QED BY <1>1 DEF Sound, IsLibrary, RowsListed, PacksFilled, Exists

-----------------------------------------------------------------------------
(* Resources: what travels on the channels.                                *)

(* The tables have the rows they should, whatever is in them.              *)
Tables ==
  /\ DOMAIN selections = Workflows /\ DOMAIN selected = Workflows
  /\ DOMAIN mirror = Clients /\ DOMAIN hub = Clients
  /\ \A h \in Clients : DOMAIN mirror[h] = Resources /\ DOMAIN hub[h] = Resources
  /\ DOMAIN lanes = LaneIds /\ DOMAIN outbox = Clients
  /\ sent \in [Clients -> Nat]
  /\ byKey \in [Clients \X Kinds \X Keys -> {None, "upsert", "delete"}]
  /\ applied \in [Clients \X Kinds \X Keys -> Nat]

(* A selection is a list, in the catalog and of a workflow.                *)
Lists ==
  /\ Sound(library)
  /\ \A w \in Workflows : IsList(selections[w])

(* The lane of a workflow has no key and selects for that workflow; every  *)
(* other is about resources of its kind.                                   *)
Carries(ch, c) ==
  IF ch \in Workflows
  THEN c.key = None /\ (c.op = "set_selection" => c.of = ch)
  ELSE /\ c.op \in {"upsert", "delete"} /\ c.of \in Resources /\ KindOf[c.of] = ch[2]
       /\ c.key # None => c.key \in Keys

LanesCarry ==
  \A ch \in LaneIds :
    IsList(lanes[ch]) /\ \A i \in DOMAIN lanes[ch] : Carries(ch, lanes[ch][i])

(* The commands of a key that wait: one at most, none before the key is    *)
(* known and none after it was applied.                                    *)
Pending(k) == {i \in DOMAIN lanes[<<k[1], k[2]>>] : lanes[<<k[1], k[2]>>][i].key = k[3]}

KeyOnce(k) ==
  IF k[3] = None THEN applied[k] = 0
  ELSE /\ byKey[k] = None => applied[k] = 0 /\ Pending(k) = {}
       /\ applied[k] <= 1
       /\ applied[k] = 1 => Pending(k) = {}
       /\ \A i, j \in Pending(k) : i = j

KeysOnce == \A k \in Clients \X Kinds \X Keys : KeyOnce(k)

LanesInv == Tables /\ Lists /\ LanesCarry /\ KeysOnce

(* What the hubs report: numbered events, of which the server has seen the *)
(* first ones; the last of a resource says what the hub has of it.         *)
EventId(h, n) == IF UniqueIds THEN <<h, n>> ELSE n

Numbered(h) ==
  /\ IsList(outbox[h]) /\ Len(outbox[h]) <= sent[h]
  /\ \A i \in DOMAIN outbox[h] : outbox[h][i].id = EventId(h, sent[h] - Len(outbox[h]) + i - 1)

SeenInOrder(h) ==
  /\ \A n \in Nat : n >= sent[h] => EventId(h, n) \notin seen
  /\ \A i, j \in DOMAIN outbox[h] :
       i < j /\ outbox[h][j].id \in seen => outbox[h][i].id \in seen

LastOf(h, r, i) ==
  /\ i \in DOMAIN outbox[h] /\ outbox[h][i].of = r
  /\ \A j \in DOMAIN outbox[h] : i < j => outbox[h][j].of # r

LastSays(h) == \A r \in Resources : \A i \in DOMAIN outbox[h] :
                 LastOf(h, r, i) => outbox[h][i].what = hub[h][r]

(* A resource the two differ about is waited for: a command about it is on *)
(* a lane, or an event of it is not seen yet.                              *)
Waits(h, r) ==
  \E ch \in LaneIds : HubOf(ch) = h /\ \E i \in DOMAIN lanes[ch] : lanes[ch][i].of = r
Unseen(h, r) == \E i \in DOMAIN outbox[h] : outbox[h][i].of = r /\ outbox[h][i].id \notin seen

MirrorFollows ==
  \A h \in Clients, r \in Resources :
    \/ Waits(h, r) \/ Unseen(h, r) \/ <<h, r>> \in doubtful
    \/ mirror[h][r] = hub[h][r]

(* The last command on the lane of a workflow carries what is stored.      *)
Selects(lane, w) ==
  lane[Len(lane)].op = "set_selection" /\ lane[Len(lane)].what = selections[w]

SelectionsFollow ==
  \A w \in Workflows :
    \/ w \in unsure
    \/ lanes[w] = << >> /\ selected[w] = selections[w]
    \/ lanes[w] # << >> /\ Selects(lanes[w], w)

HubsInv ==
  /\ \A h \in Clients : Numbered(h) /\ SeenInOrder(h) /\ LastSays(h)
  /\ MirrorFollows
  /\ SelectionsFollow

(* The packs of a selection, from the catalog to the hub: a workflow       *)
(* stores packs the catalog has or had; a command that deletes was noted,  *)
(* and one that writes has something to write; and a selection under way   *)
(* to the hub comes after an upsert of each pack of it the hub lacks.      *)
Known(s) == \A p \in PacksIn(s) : p \in Packs /\ (Exists(library, p) \/ p \in removed)

Honest(c, gone) ==
  /\ c.op \in {"upsert", "delete", "set_selection"}
  /\ c.op = "upsert" => c.what # None
  /\ c.op = "delete" => c.of \in gone

Brings(lane, i, p) == \E j \in DOMAIN lane : j < i /\ lane[j].op = "upsert" /\ lane[j].of = p

Arrives(w, i, p) == hub[HostOf[w]][p] # None \/ p \in removed \/ Brings(lanes[w], i, p)

HonestAt(ch) == \A i \in DOMAIN lanes[ch] : Honest(lanes[ch][i], removed)

ArriveAt(w) ==
  \A i \in DOMAIN lanes[w] : lanes[w][i].op = "set_selection" =>
    \A p \in PacksIn(lanes[w][i].what) : p \in Packs /\ Arrives(w, i, p)

PacksInv ==
  /\ \A w \in Workflows : Known(selections[w])
  /\ \A ch \in LaneIds : HonestAt(ch)
  /\ \A w \in Workflows : ArriveAt(w)

(* Ids of events tell the hubs apart, or there is one hub only.            *)
OneSource == UniqueIds \/ \A g, h \in Clients : g = h

-----------------------------------------------------------------------------
(* A lane is of a workflow or of a hub's resources of a kind, never both.  *)
LEMMA LaneKinds ==
  /\ \A w \in Workflows : /\ w \in LaneIds /\ HubOf(w) = HostOf[w] /\ HubOf(w) \in Clients
                          /\ w \notin Resources /\ w \notin Clients \X Kinds
                          /\ \A h \in Clients, r \in Resources : w # <<h, r>>
  /\ \A h \in Clients, k \in Kinds :
       <<h, k>> \in LaneIds /\ <<h, k>> \notin Workflows /\ HubOf(<<h, k>>) = h
  /\ \A ch \in LaneIds : /\ HubOf(ch) \in Clients
                         /\ ch \notin Workflows => /\ ch \in Clients \X Kinds /\ ch = <<ch[1], ch[2]>>
                                                   /\ HubOf(ch) = ch[1]
  /\ \A r \in Resources : KindOf[r] \in Kinds
<1>1. \A w \in Workflows : w \notin Resources /\ w \notin Clients \X (Kinds \cup Resources)
  BY NamesAssumption
<1>2. \A w \in Workflows : HostOf[w] \in Clients
  BY WorkflowsAssumption
<1>3. \A h \in Clients, k \in Kinds : <<h, k>> \in LaneIds /\ <<h, k>> \notin Workflows
  BY <1>1 DEF LaneIds
<1>4. \A ch \in LaneIds : ch \notin Workflows => ch \in Clients \X Kinds /\ ch = <<ch[1], ch[2]>> /\ ch[1] \in Clients
  BY DEF LaneIds
<1>5. \A r \in Resources : KindOf[r] \in Kinds
  BY KindsAssumption DEF Resources, Packs
<1>6. \A w \in Workflows : w \notin Clients \X Kinds /\ \A h \in Clients, r \in Resources : w # <<h, r>>
  BY <1>1
<1>7. \A w \in Workflows : w \in LaneIds /\ HubOf(w) = HostOf[w]
  BY DEF LaneIds, HubOf
<1>8. \A h \in Clients, k \in Kinds : HubOf(<<h, k>>) = h
  BY <1>3 DEF HubOf
<1>9. \A ch \in LaneIds : HubOf(ch) \in Clients /\ (ch \notin Workflows => HubOf(ch) = ch[1])
  BY <1>2, <1>4 DEF HubOf
<1> QED BY <1>1, <1>2, <1>3, <1>4, <1>5, <1>6, <1>7, <1>8, <1>9

(* What a selection ships are upserts without a key.                       *)
LEMMA ShipmentIs ==
  ASSUME NEW s, IsList(s)
  PROVE  /\ IsList(Shipment(s))
         /\ \A i \in DOMAIN Shipment(s) : Shipment(s)[i].op = "upsert" /\ Shipment(s)[i].key = None
<1> DEFINE ordered == OfKind(s, "tcp_tools") \o OfKind(s, "resource_sets")
           known == Entries(ordered, {n \in DOMAIN ordered : Exists(library, ordered[n].pack)})
           ship == Shipment(s)
<1>1. IsList(ordered)
  BY OfKindIsList, ListConcat
<1>2. IsList(known)
  <2> HIDE DEF ordered
  <2> QED BY <1>1, EntriesAre
<1>3. ship = [i \in DOMAIN known |-> Upsert(known[i].pack, ReadPack(library, known[i].pack).content, None)]
  BY DEF Shipment
<1> HIDE DEF known, ship
<1>4. Len(known) \in Nat /\ DOMAIN known = 1 .. Len(known)
  BY <1>2, ListFacts
<1>5. IsList(ship)
  BY <1>3, <1>4, FunctionIsList
<1>6. \A i \in DOMAIN ship : ship[i].op = "upsert" /\ ship[i].key = None
  BY <1>3 DEF Upsert
<1> QED BY <1>5, <1>6 DEF ship

LEMMA ResourceCommandIs ==
  ASSUME NEW c \in ResourceCommands
  PROVE  /\ c.op \in {"upsert", "delete"} /\ c.of \in Resources
         /\ c.key \in Keys \cup {None}
<1>1. PICK r \in Addressed, key \in Keys \cup {None} :
        \/ \E content \in ContentsOf[r] : c = Upsert(r, content, key)
        \/ c = Delete(r, key)
  BY DEF ResourceCommands
<1>2. c.op \in {"upsert", "delete"} /\ c.of = r /\ c.key = key
  BY <1>1 DEF Upsert, Delete
<1> QED BY <1>1, <1>2, AddressedAssumption

-----------------------------------------------------------------------------
(* Commands are added to the end of one lane, or taken from its head.      *)
Adds(ch, cs) == lanes' = [lanes EXCEPT ![ch] = @ \o cs]
Takes(ch) == lanes[ch] # << >> /\ lanes' = [lanes EXCEPT ![ch] = Tail(@)]

LEMMA Added ==
  ASSUME Tables, LanesCarry, NEW ch \in LaneIds, NEW cs, IsList(cs), Adds(ch, cs)
  PROVE  /\ DOMAIN lanes' = LaneIds
         /\ \A x \in LaneIds : x # ch => lanes'[x] = lanes[x]
         /\ Len(lanes[ch]) \in Nat /\ DOMAIN lanes[ch] = 1 .. Len(lanes[ch])
         /\ Len(cs) \in Nat /\ DOMAIN cs = 1 .. Len(cs)
         /\ IsList(lanes'[ch]) /\ Len(lanes'[ch]) = Len(lanes[ch]) + Len(cs)
         /\ DOMAIN lanes'[ch] = 1 .. Len(lanes[ch]) + Len(cs)
         /\ \A i \in DOMAIN lanes[ch] : i \in DOMAIN lanes'[ch] /\ lanes'[ch][i] = lanes[ch][i]
         /\ \A i \in DOMAIN cs :
              Len(lanes[ch]) + i \in DOMAIN lanes'[ch] /\ lanes'[ch][Len(lanes[ch]) + i] = cs[i]
         /\ \A i \in DOMAIN lanes'[ch] :
              i \in DOMAIN lanes[ch] \/ i - Len(lanes[ch]) \in DOMAIN cs
<1> DEFINE s == lanes[ch]  t == lanes'[ch]  m == Len(s)  k == Len(cs)
<1>1. DOMAIN lanes' = LaneIds /\ t = s \o cs /\ \A x \in LaneIds : x # ch => lanes'[x] = lanes[x]
  BY DEF Tables, Adds
<1>2. IsList(s)
  BY DEF LanesCarry
<1> HIDE DEF s, t
<1>3. /\ IsList(t) /\ Len(t) = m + k
      /\ \A i \in 1 .. m + k : t[i] = IF i <= m THEN s[i] ELSE cs[i - m]
  BY <1>1, <1>2, ListConcat
<1>4. m \in Nat /\ DOMAIN s = 1 .. m /\ k \in Nat /\ DOMAIN cs = 1 .. k /\ DOMAIN t = 1 .. Len(t)
  BY <1>2, <1>3, ListFacts
<1> HIDE DEF m, k
<1>5. \A i \in DOMAIN s : i \in DOMAIN t /\ t[i] = s[i]
  BY <1>3, <1>4
<1>6. \A i \in DOMAIN cs : m + i \in DOMAIN t /\ t[m + i] = cs[i]
  <2> TAKE i \in DOMAIN cs
  <2>1. i \in 1 .. k
    BY <1>4
  <2>2. m + i \in 1 .. m + k /\ ~(m + i <= m) /\ (m + i) - m = i
    BY <1>4, <2>1
  <2>3. m + i \in DOMAIN t
    BY <1>3, <1>4, <2>2
  <2> QED BY <1>3, <2>2, <2>3
<1>7. \A i \in DOMAIN t : i \in DOMAIN s \/ i - m \in DOMAIN cs
  BY <1>3, <1>4
<1> QED BY <1>1, <1>3, <1>4, <1>5, <1>6, <1>7 DEF s, t, m, k

LEMMA Taken ==
  ASSUME Tables, LanesCarry, NEW ch \in LaneIds, Takes(ch)
  PROVE  /\ DOMAIN lanes' = LaneIds
         /\ \A x \in LaneIds : x # ch => lanes'[x] = lanes[x]
         /\ Len(lanes[ch]) \in Nat \ {0} /\ DOMAIN lanes[ch] = 1 .. Len(lanes[ch])
         /\ Head(lanes[ch]) = lanes[ch][1] /\ 1 \in DOMAIN lanes[ch]
         /\ IsList(lanes'[ch]) /\ Len(lanes'[ch]) = Len(lanes[ch]) - 1
         /\ \A i \in DOMAIN lanes'[ch] :
              i + 1 \in DOMAIN lanes[ch] /\ lanes'[ch][i] = lanes[ch][i + 1] /\ i \in Nat /\ i # 0
         /\ \A i \in DOMAIN lanes[ch] :
              i # 1 => i - 1 \in DOMAIN lanes'[ch] /\ lanes'[ch][i - 1] = lanes[ch][i]
<1> DEFINE s == lanes[ch]  t == lanes'[ch]  m == Len(s)
<1>1. DOMAIN lanes' = LaneIds /\ t = Tail(s) /\ s # << >> /\ \A x \in LaneIds : x # ch => lanes'[x] = lanes[x]
  BY DEF Tables, Takes
<1>2. IsList(s)
  BY DEF LanesCarry
<1> HIDE DEF s, t
<1>3. /\ IsList(t) /\ Len(t) = m - 1 /\ Head(s) = s[1]
      /\ \A i \in 1 .. m - 1 : t[i] = s[i + 1]
  BY <1>1, <1>2, ListTail
<1>4. m \in Nat /\ m # 0 /\ DOMAIN s = 1 .. m /\ DOMAIN t = 1 .. Len(t)
  BY <1>1, <1>2, <1>3, ListFacts
<1> HIDE DEF m
<1>5. \A i \in DOMAIN t : i + 1 \in DOMAIN s /\ t[i] = s[i + 1] /\ i \in Nat /\ i # 0
  BY <1>3, <1>4
<1>6. \A i \in DOMAIN s : i # 1 => i - 1 \in DOMAIN t /\ t[i - 1] = s[i]
  <2> TAKE i \in DOMAIN s
  <2> HAVE i # 1
  <2>1. i - 1 \in 1 .. m - 1 /\ (i - 1) + 1 = i
    BY <1>4
  <2> QED BY <1>3, <1>4, <2>1
<1> QED BY <1>1, <1>3, <1>4, <1>5, <1>6 DEF s, t, m

LEMMA AddedCarry ==
  ASSUME Tables, LanesCarry, NEW ch \in LaneIds, NEW cs, IsList(cs), Adds(ch, cs),
         \A i \in DOMAIN cs : Carries(ch, cs[i])
  PROVE  LanesCarry'
<1> SUFFICES ASSUME NEW x \in LaneIds
             PROVE  IsList(lanes'[x]) /\ \A i \in DOMAIN lanes'[x] : Carries(x, lanes'[x][i])
  BY DEF LanesCarry, Carries
<1>1. CASE x # ch
  BY <1>1, Added DEF LanesCarry
<1>2. CASE x = ch
  <2> SUFFICES ASSUME NEW i \in DOMAIN lanes'[ch] PROVE Carries(ch, lanes'[ch][i])
    BY <1>2, Added
  <2>1. CASE i \in DOMAIN lanes[ch]
    BY <2>1, Added DEF LanesCarry
  <2>2. CASE i - Len(lanes[ch]) \in DOMAIN cs
    <3> DEFINE j == i - Len(lanes[ch])
    <3>1. Len(lanes[ch]) + j = i
      BY Added
    <3>2. lanes'[ch][Len(lanes[ch]) + j] = cs[j]
      BY <2>2, Added
    <3> QED BY <2>2, <3>1, <3>2
  <2> QED BY <2>1, <2>2, Added
<1> QED BY <1>1, <1>2

LEMMA TakenCarry ==
  ASSUME Tables, LanesCarry, NEW ch \in LaneIds, Takes(ch)
  PROVE  LanesCarry'
<1> SUFFICES ASSUME NEW x \in LaneIds
             PROVE  IsList(lanes'[x]) /\ \A i \in DOMAIN lanes'[x] : Carries(x, lanes'[x][i])
  BY DEF LanesCarry, Carries
<1>1. CASE x # ch
  BY <1>1, Taken DEF LanesCarry
<1>2. CASE x = ch
  BY <1>2, Taken DEF LanesCarry
<1> QED BY <1>1, <1>2

(* The lane of a workflow has no command of a key.                         *)
LEMMA KeysElsewhere ==
  ASSUME LanesInv, NEW w \in Workflows, \A x \in LaneIds : x # w => lanes'[x] = lanes[x],
         UNCHANGED <<byKey, applied>>
  PROVE  KeysOnce'
<1>1. \A k \in Clients \X Kinds \X Keys : lanes'[<<k[1], k[2]>>] = lanes[<<k[1], k[2]>>]
  BY LaneKinds
<1>2. \A k \in Clients \X Kinds \X Keys : Pending(k)' = Pending(k)
  BY <1>1 DEF Pending
<1>3. \A k \in Clients \X Kinds \X Keys : KeyOnce(k)
  BY DEF LanesInv, KeysOnce
<1> QED BY <1>2, <1>3 DEF KeysOnce, KeyOnce

-----------------------------------------------------------------------------
(* Commands of a key, as commands come and go.                             *)
LEMMA KeyFacts ==
  ASSUME LanesInv, NEW k \in Clients \X Kinds \X Keys
  PROVE  /\ <<k[1], k[2]>> \in LaneIds /\ <<k[1], k[2]>> \notin Workflows
         /\ applied[k] \in Nat /\ KeyOnce(k)
         /\ k = <<k[1], k[2], k[3]>> /\ k[1] \in Clients /\ k[2] \in Kinds /\ k[3] \in Keys
<1>1. k = <<k[1], k[2], k[3]>> /\ k[1] \in Clients /\ k[2] \in Kinds /\ k[3] \in Keys
  OBVIOUS
<1>2. applied[k] \in Nat /\ KeyOnce(k)
  BY DEF LanesInv, Tables, KeysOnce
<1> QED BY <1>1, <1>2, LaneKinds

(* Storing a command of an operator keeps the invariant of the lanes.      *)
LEMMA Stored ==
  ASSUME LanesInv, NEW h \in Clients, NEW c \in ResourceCommands, StoreCommand(h, c),
         UNCHANGED applied
  PROVE  /\ LanesCarry' /\ KeysOnce' /\ DOMAIN lanes' = LaneIds
         /\ byKey' \in [Clients \X Kinds \X Keys -> {None, "upsert", "delete"}]
<1> DEFINE ch == ChannelOf(h, c.of)
<1>0. Tables /\ LanesCarry
  BY DEF LanesInv
<1>1. /\ c.op \in {"upsert", "delete"} /\ c.of \in Resources /\ c.key \in Keys \cup {None}
      /\ KindOf[c.of] \in Kinds
  BY ResourceCommandIs, LaneKinds
<1>2. ch = <<h, KindOf[c.of]>> /\ ch \in LaneIds /\ ch \notin Workflows /\ ch[1] = h /\ ch[2] = KindOf[c.of]
  BY <1>1, LaneKinds DEF ChannelOf
<1>3. CASE Remembered(h, c)
  <2>1. UNCHANGED <<lanes, byKey>>
    BY <1>3 DEF StoreCommand
  <2>2. LanesCarry' /\ KeysOnce'
    BY <2>1 DEF LanesInv, LanesCarry, KeysOnce, KeyOnce, Pending, Carries
  <2> QED BY <2>1, <2>2, <1>0 DEF Tables
<1>4. CASE ~ Remembered(h, c)
  <2> DEFINE k0 == <<h, KindOf[c.of], c.key>>
             one == <<c>>
  <2>1. /\ lanes' = [lanes EXCEPT ![ch] = @ \o one]
        /\ byKey' = IF c.key = None THEN byKey ELSE [byKey EXCEPT ![k0] = c.op]
    BY <1>4 DEF StoreCommand, Enqueued
  <2>2. IsList(one) /\ Len(one) = 1 /\ one[1] = c /\ DOMAIN one = 1 .. 1
    BY OneIsList, ListFacts
  <2> HIDE DEF one
  <2>3. Adds(ch, one) /\ \A i \in DOMAIN one : one[i] = c
    BY <2>1, <2>2 DEF Adds
  <2>4. Carries(ch, c)
    BY <1>1, <1>2 DEF Carries
  <2>5. LanesCarry'
    <3> HIDE DEF ch
    <3> QED BY <1>0, <1>2, <2>2, <2>3, <2>4, AddedCarry
  <2> DEFINE m == Len(lanes[ch])
  <2>6. /\ DOMAIN lanes' = LaneIds
        /\ \A x \in LaneIds : x # ch => lanes'[x] = lanes[x]
        /\ m \in Nat /\ DOMAIN lanes[ch] = 1 .. m /\ DOMAIN lanes'[ch] = 1 .. m + 1
        /\ \A i \in 1 .. m : lanes'[ch][i] = lanes[ch][i]
        /\ lanes'[ch][m + 1] = c
    <3> HIDE DEF ch
    <3>1. /\ DOMAIN lanes' = LaneIds
          /\ \A x \in LaneIds : x # ch => lanes'[x] = lanes[x]
          /\ m \in Nat /\ DOMAIN lanes[ch] = 1 .. m /\ DOMAIN lanes'[ch] = 1 .. m + Len(one)
          /\ \A i \in DOMAIN lanes[ch] : lanes'[ch][i] = lanes[ch][i]
          /\ \A i \in DOMAIN one : lanes'[ch][m + i] = one[i]
      <4>1. ch \in LaneIds /\ IsList(one) /\ Adds(ch, one)
        BY <1>2, <2>2, <2>3
      <4>2. DOMAIN lanes' = LaneIds /\ \A x \in LaneIds : x # ch => lanes'[x] = lanes[x]
        BY <1>0, <4>1, Added
      <4>3. m \in Nat /\ DOMAIN lanes[ch] = 1 .. m /\ DOMAIN lanes'[ch] = 1 .. m + Len(one)
        BY <1>0, <4>1, Added
      <4>4. /\ \A i \in DOMAIN lanes[ch] : lanes'[ch][i] = lanes[ch][i]
            /\ \A i \in DOMAIN one : lanes'[ch][m + i] = one[i]
        BY <1>0, <4>1, Added
      <4> QED BY <4>2, <4>3, <4>4
    <3>2. lanes'[ch][m + 1] = c
      BY <3>1, <2>2
    <3> QED BY <3>1, <3>2, <2>2
  <2>7. byKey' \in [Clients \X Kinds \X Keys -> {None, "upsert", "delete"}]
    <3>1. byKey \in [Clients \X Kinds \X Keys -> {None, "upsert", "delete"}]
      BY <1>0 DEF Tables
    <3> QED BY <3>1, <2>1, <1>1
  <2>8. \A k \in Clients \X Kinds \X Keys :
          Pending(k)' = IF <<k[1], k[2]>> = ch /\ c.key = k[3] THEN Pending(k) \cup {m + 1} ELSE Pending(k)
    <3> TAKE k \in Clients \X Kinds \X Keys
    <3> DEFINE x == <<k[1], k[2]>>
    <3>1. x \in LaneIds
      BY KeyFacts
    <3>2. /\ Pending(k) = {i \in DOMAIN lanes[x] : lanes[x][i].key = k[3]}
          /\ Pending(k)' = {i \in DOMAIN lanes'[x] : lanes'[x][i].key = k[3]}
      BY DEF Pending
    <3> HIDE DEF x, ch, m
    <3>3. CASE x # ch
      BY <3>1, <3>2, <3>3, <2>6 DEF x
    <3>4. CASE x = ch
      <4>1. DOMAIN lanes'[ch] = (1 .. m) \cup {m + 1}
        BY <2>6
      <4> QED BY <3>2, <3>4, <4>1, <2>6 DEF x
    <3> QED BY <3>3, <3>4
  <2>9. KeysOnce'
    <3> SUFFICES ASSUME NEW k \in Clients \X Kinds \X Keys PROVE KeyOnce(k)'
      BY DEF KeysOnce
    <3>1. KeyOnce(k) /\ k = <<k[1], k[2], k[3]>>
      BY KeyFacts
    <3>2. CASE k[3] = None
      BY <3>1, <3>2 DEF KeyOnce
    <3>3. CASE k[3] # None /\ k = k0
      <4>1. byKey[k] = None
        BY <3>3, <1>4 DEF Remembered
      <4>2. applied[k] = 0 /\ Pending(k) = {}
        BY <3>1, <3>3, <4>1 DEF KeyOnce
      <4>3. Pending(k)' = {m + 1}
        <5>1. <<k[1], k[2]>> = ch /\ c.key = k[3]
          BY <3>3, <1>2
        <5> QED BY <2>8, <4>2, <5>1
      <4>4. byKey'[k] = c.op /\ c.op # None
        <5>1. c.key # None /\ byKey' = [byKey EXCEPT ![k0] = c.op]
          BY <3>3, <2>1
        <5>2. DOMAIN byKey = Clients \X Kinds \X Keys
          BY <1>0 DEF Tables
        <5> QED BY <5>1, <5>2, <3>3, <1>1, NoneAssumption
      <4> QED BY <3>3, <4>2, <4>3, <4>4 DEF KeyOnce
    <3>4. CASE k[3] # None /\ k # k0
      <4>1. ~(<<k[1], k[2]>> = ch /\ c.key = k[3])
        BY <3>1, <3>4, <1>2
      <4>2. Pending(k)' = Pending(k)
        BY <2>8, <4>1
      <4>3. byKey'[k] = byKey[k]
        <5>1. DOMAIN byKey = Clients \X Kinds \X Keys
          BY <1>0 DEF Tables
        <5> QED BY <5>1, <2>1, <3>4
      <4> QED BY <3>1, <3>4, <4>2, <4>3 DEF KeyOnce
    <3> QED BY <3>2, <3>3, <3>4
  <2> QED BY <2>5, <2>6, <2>7, <2>9
<1> QED BY <1>3, <1>4

(* So does taking one, whether the hub applies it, which counts it, or     *)
(* refuses it.                                                             *)
LEMMA TakenPending ==
  ASSUME LanesInv, NEW ch \in LaneIds, Takes(ch), NEW k \in Clients \X Kinds \X Keys
  PROVE  Pending(k)' = IF <<k[1], k[2]>> = ch
                       THEN {i \in DOMAIN lanes'[ch] : i + 1 \in Pending(k)} ELSE Pending(k)
<1>0. Tables /\ LanesCarry
  BY DEF LanesInv
<1> DEFINE x == <<k[1], k[2]>>
<1>1. x \in LaneIds
  BY KeyFacts
<1>2. /\ Pending(k) = {i \in DOMAIN lanes[x] : lanes[x][i].key = k[3]}
      /\ Pending(k)' = {i \in DOMAIN lanes'[x] : lanes'[x][i].key = k[3]}
  BY DEF Pending
<1> HIDE DEF x
<1>3. CASE x # ch
  BY <1>0, <1>1, <1>2, <1>3, Taken DEF x
<1>4. CASE x = ch
  <2>1. \A i \in DOMAIN lanes'[ch] :
          i + 1 \in DOMAIN lanes[ch] /\ lanes'[ch][i] = lanes[ch][i + 1]
    BY <1>0, Taken
  <2> QED BY <2>1, <1>2, <1>4 DEF x
<1> QED BY <1>3, <1>4

LEMMA RefusedKeys ==
  ASSUME LanesInv, NEW ch \in LaneIds, Takes(ch), UNCHANGED <<byKey, applied>>
  PROVE  KeysOnce'
<1> SUFFICES ASSUME NEW k \in Clients \X Kinds \X Keys PROVE KeyOnce(k)'
  BY DEF KeysOnce
<1>1. KeyOnce(k)
  BY KeyFacts
<1>2. Tables /\ LanesCarry
  BY DEF LanesInv
<1>3. \A i \in DOMAIN lanes'[ch] : i \in Nat
  BY <1>2, Taken
<1>4. \A i, j \in Pending(k)' : (\A a, b \in Pending(k) : a = b) => i = j
  BY <1>3, TakenPending
<1>5. Pending(k) = {} => Pending(k)' = {}
  BY TakenPending
<1> QED BY <1>1, <1>4, <1>5 DEF KeyOnce

LEMMA AppliedKeys ==
  ASSUME LanesInv, NEW ch \in LaneIds, Takes(ch), UNCHANGED byKey,
         applied' = Counted(HubOf(ch), Head(lanes[ch]))
  PROVE  KeysOnce' /\ applied' \in [Clients \X Kinds \X Keys -> Nat]
<1>c. PICK c : c = Head(lanes[ch])
  OBVIOUS
<1> DEFINE k0 == <<HubOf(ch), KindOf[c.of], c.key>>
<1>0. Tables /\ LanesCarry /\ applied \in [Clients \X Kinds \X Keys -> Nat]
  BY DEF LanesInv, Tables
<1>1. c = lanes[ch][1] /\ 1 \in DOMAIN lanes[ch] /\ Carries(ch, c)
  BY <1>0, <1>c, Taken DEF LanesCarry
<1>2. \A i \in DOMAIN lanes'[ch] : i \in Nat /\ i # 0
  BY <1>0, Taken
<1>3. CASE c.key = None
  <2>1. applied' = applied
    BY <1>3, <1>c DEF Counted
  <2> QED BY <2>1, <1>0, RefusedKeys
<1>4. CASE c.key # None
  <2>1. ch \notin Workflows /\ c.of \in Resources /\ KindOf[c.of] = ch[2] /\ c.key \in Keys
    BY <1>1, <1>4 DEF Carries
  <2>2. ch = <<HubOf(ch), KindOf[c.of]>> /\ HubOf(ch) \in Clients /\ KindOf[c.of] \in Kinds
    BY <2>1, LaneKinds
  <2>3. k0 \in Clients \X Kinds \X Keys
    BY <2>1, <2>2
  <2>4. applied' = [applied EXCEPT ![k0] = @ + 1]
    BY <1>4, <1>c DEF Counted
  <2>5. 1 \in Pending(k0)
    BY <1>1, <2>2 DEF Pending
  <2>6. KeyOnce(k0) /\ applied[k0] \in Nat
    BY <2>3, KeyFacts
  <2>7. applied[k0] = 0 /\ byKey[k0] # None /\ \A i, j \in Pending(k0) : i = j
    <3>1. applied[k0] <= 1 /\ applied[k0] # 1
      BY <2>5, <2>6, <1>4 DEF KeyOnce
    <3> QED BY <3>1, <2>5, <2>6, <1>4 DEF KeyOnce
  <2>8. Pending(k0)' = {}
    <3>1. Pending(k0)' = {i \in DOMAIN lanes'[ch] : i + 1 \in Pending(k0)}
      BY <2>2, <2>3, TakenPending
    <3>2. \A i \in DOMAIN lanes'[ch] : i + 1 # 1
      BY <1>2
    <3> QED BY <3>1, <3>2, <2>5, <2>7
  <2>9. KeysOnce'
    <3> SUFFICES ASSUME NEW k \in Clients \X Kinds \X Keys PROVE KeyOnce(k)'
      BY DEF KeysOnce
    <3>1. CASE k = k0
      <4>1. applied'[k] = 1 /\ byKey'[k] = byKey[k]
        BY <3>1, <1>0, <2>3, <2>4, <2>7
      <4>2. k[3] # None
        BY <3>1, <1>4
      <4> QED BY <3>1, <4>1, <4>2, <2>7, <2>8 DEF KeyOnce
    <3>2. CASE k # k0
      <4>1. applied'[k] = applied[k] /\ byKey'[k] = byKey[k]
        BY <3>2, <1>0, <2>3, <2>4
      <4>2. KeyOnce(k)
        BY KeyFacts
      <4>3. \A i, j \in Pending(k)' : (\A a, b \in Pending(k) : a = b) => i = j
        BY <1>2, TakenPending
      <4>4. Pending(k) = {} => Pending(k)' = {}
        BY TakenPending
      <4> QED BY <4>1, <4>2, <4>3, <4>4 DEF KeyOnce
    <3> QED BY <3>1, <3>2
  <2>10. applied' \in [Clients \X Kinds \X Keys -> Nat]
    BY <1>0, <2>3, <2>4
  <2> QED BY <2>9, <2>10
<1> QED BY <1>3, <1>4

-----------------------------------------------------------------------------
(* Every step keeps the invariant of the lanes.                            *)
LEMMA LanesInit ==
  ASSUME ResourcesInit
  PROVE  LanesInv
<1>1. IsList(<< >>) /\ DOMAIN << >> = {}
  BY EmptyIsList
<1>2. Tables
  BY DEF ResourcesInit, Tables
<1>3. Lists
  BY <1>1, LibrariesAssumption DEF ResourcesInit, Lists, Sound
<1>4. LanesCarry
  BY <1>1 DEF ResourcesInit, LanesCarry
<1>5. KeysOnce
  <2> SUFFICES ASSUME NEW k \in Clients \X Kinds \X Keys PROVE KeyOnce(k)
    BY DEF KeysOnce
  <2>1. k[1] \in Clients /\ k[2] \in Kinds
    OBVIOUS
  <2>2. <<k[1], k[2]>> \in LaneIds
    BY <2>1, LaneKinds
  <2>3. Pending(k) = {}
    BY <1>1, <2>2 DEF ResourcesInit, Pending
  <2>4. applied[k] = 0
    BY DEF ResourcesInit
  <2> QED BY <2>3, <2>4 DEF KeyOnce
<1> QED BY <1>2, <1>3, <1>4, <1>5 DEF LanesInv

LEMMA SameLanes ==
  ASSUME LanesInv, UNCHANGED <<lanes, byKey, applied>>
  PROVE  LanesCarry' /\ KeysOnce'
BY DEF LanesInv, LanesCarry, KeysOnce, KeyOnce, Pending, Carries

LEMMA CatalogCallKeeps ==
  ASSUME LanesInv, NEW c \in CatalogCalls, CatalogCall(c)
  PROVE  LanesInv'
<1>1. LanesCarry' /\ KeysOnce'
  BY SameLanes DEF CatalogCall, queues
<1>2. Sound(library')
  BY RoutedIsSound DEF CatalogCall, LanesInv, Lists
<1>3. Tables' /\ Lists'
  BY <1>2 DEF CatalogCall, LanesInv, Lists, Tables, queues, atHubs
<1> QED BY <1>1, <1>3 DEF LanesInv

LEMMA DropRoleKeeps ==
  ASSUME LanesInv, NEW r, DropRole(r)
  PROVE  LanesInv'
<1>1. LanesCarry' /\ KeysOnce'
  BY SameLanes DEF DropRole, queues, history
<1>2. Sound(library')
  BY RoleDroppedIsSound DEF DropRole, LanesInv, Lists
<1>3. Tables' /\ Lists'
  BY <1>2 DEF DropRole, LanesInv, Lists, Tables, queues, atHubs, history
<1> QED BY <1>1, <1>3 DEF LanesInv

LEMMA QueueResourceCommandKeeps ==
  ASSUME LanesInv, NEW h \in Clients, NEW c \in ResourceCommands,
         QueueResourceCommand(h, c) \/ QueueThenStop(h, c)
  PROVE  LanesInv'
<1>1. /\ StoreCommand(h, c)
      /\ UNCHANGED <<library, selections, atHubs, applied>>
      /\ mirror' = mirror \/ mirror' = [mirror EXCEPT ![h][c.of] = c.what]
  BY DEF QueueResourceCommand, QueueThenStop
<1>2. /\ LanesCarry' /\ KeysOnce' /\ DOMAIN lanes' = LaneIds
      /\ byKey' \in [Clients \X Kinds \X Keys -> {None, "upsert", "delete"}]
  BY <1>1, Stored
<1>3. DOMAIN mirror' = Clients /\ \A g \in Clients : DOMAIN mirror'[g] = Resources
  BY <1>1 DEF LanesInv, Tables
<1>4. Tables' /\ Lists'
  BY <1>1, <1>2, <1>3 DEF LanesInv, Lists, Tables, atHubs
<1> QED BY <1>2, <1>4 DEF LanesInv

(* What an operator's selection becomes is a list.                         *)
LEMMA ReplacedIsList ==
  ASSUME LanesInv, NEW w \in Workflows, NEW kind \in {"tcp_tools", "resource_sets"},
         NEW sels \in Asked[kind]
  PROVE  /\ IsList(Replaced(w, kind, sels))
         /\ PacksIn(Replaced(w, kind, sels))
              \subseteq PacksIn(selections[w]) \cup PacksIn(NormalizeSelections(sels))
<1> DEFINE new(k) == IF k = kind THEN Validated(library, sels) ELSE OfKind(selections[w], k)
           P == PacksIn(selections[w]) \cup PacksIn(NormalizeSelections(sels))
<1>1. AreEntries(sels) /\ IsList(selections[w])
  BY AskedAssumption DEF LanesInv, Lists
<1>2. IsList(Validated(library, sels)) /\ PacksIn(Validated(library, sels)) \subseteq P
  BY <1>1, ValidatedIsList
<1>3. ASSUME NEW k PROVE IsList(OfKind(selections[w], k)) /\ PacksIn(OfKind(selections[w], k)) \subseteq P
  <2>1. /\ IsList(OfKind(selections[w], k))
        /\ ToSet(OfKind(selections[w], k)) = {e \in ToSet(selections[w]) : KindOf[e.pack] = k}
    BY <1>1, OfKindIsList
  <2> HIDE DEF ToSet
  <2> QED BY <2>1 DEF PacksIn
<1> HIDE DEF P
<1>4. \A k : IsList(new(k)) /\ PacksIn(new(k)) \subseteq P
  BY <1>2, <1>3
<1>5. Replaced(w, kind, sels) = new("tcp_tools") \o new("resource_sets")
  BY DEF Replaced
<1> HIDE DEF new
<1>6. /\ IsList(new("tcp_tools")) /\ IsList(new("resource_sets"))
      /\ PacksIn(new("tcp_tools")) \subseteq P /\ PacksIn(new("resource_sets")) \subseteq P
  BY <1>4
<1>7. /\ IsList(Replaced(w, kind, sels))
      /\ PacksIn(Replaced(w, kind, sels)) = PacksIn(new("tcp_tools")) \cup PacksIn(new("resource_sets"))
  BY <1>5, <1>6, ListConcat, JoinedEntries
<1> QED BY <1>6, <1>7 DEF P

LEMMA IncomingIsList ==
  ASSUME Sound(library), NEW t \in TemplateIds, Exists(library, t)
  PROVE  /\ IsList(Incoming(t))
         /\ \A p \in PacksIn(Incoming(t)) : p \in Packs /\ Exists(library, p)
<1> DEFINE read == ReadTemplate(library, t)
           all == read.tcps \o read.sets
<1>1. /\ AreEntries(read.tcps) /\ AreEntries(read.sets)
      /\ \A p \in PacksIn(read.tcps) \cup PacksIn(read.sets) : p \in Packs /\ Exists(library, p)
  BY ReadIsListed
<1>2. Incoming(t) = Validated(library, all)
  BY DEF Incoming
<1> HIDE DEF read
<1>3. IsList(read.tcps) /\ IsList(read.sets)
  BY <1>1 DEF AreEntries
<1>4. AreEntries(all) /\ PacksIn(all) = PacksIn(read.tcps) \cup PacksIn(read.sets)
  BY <1>1, <1>3, JoinedEntries
<1> HIDE DEF all
<1>5. IsList(Validated(library, all)) /\ PacksIn(Validated(library, all)) \subseteq PacksIn(all)
  BY <1>4, ValidatedIsList, NormalizedIsList
<1> QED BY <1>1, <1>2, <1>4, <1>5

LEMMA WithTemplateIsList ==
  ASSUME LanesInv, NEW w \in Workflows, NEW t \in TemplateIds, Exists(library, t)
  PROVE  /\ IsList(WithTemplate(w, t))
         /\ PacksIn(WithTemplate(w, t)) \subseteq PacksIn(selections[w]) \cup PacksIn(Incoming(t))
<1>1. IsList(Incoming(t)) /\ IsList(selections[w])
  BY IncomingIsList DEF LanesInv, Lists
<1> QED BY <1>1, MergedIsList DEF WithTemplate

(* What travels with a selection, whole or cut off by a stop.              *)
LEMMA ShipmentCarried ==
  ASSUME NEW w \in Workflows, NEW s, IsList(s)
  PROVE  LET all == Shipment(s) \o <<SetSelection(w, s)>>
         IN /\ IsList(all) /\ Len(all) \in Nat \ {0} /\ all[Len(all)] = SetSelection(w, s)
            /\ Len(Shipment(s)) \in Nat /\ DOMAIN Shipment(s) = 1 .. Len(Shipment(s))
            /\ Len(all) = Len(Shipment(s)) + 1 /\ DOMAIN all = 1 .. Len(all)
            /\ \A i \in DOMAIN Shipment(s) : all[i] = Shipment(s)[i]
            /\ \A i \in DOMAIN all : Carries(w, all[i])
<1> DEFINE ship == Shipment(s)
           one == <<SetSelection(w, s)>>
           all == ship \o one
<1>1. IsList(ship) /\ \A i \in DOMAIN ship : ship[i].op = "upsert" /\ ship[i].key = None
  BY ShipmentIs
<1>2. IsList(one) /\ Len(one) = 1 /\ one[1] = SetSelection(w, s)
  BY OneIsList
<1> HIDE DEF ship, one
<1>3. /\ IsList(all) /\ Len(all) = Len(ship) + 1
      /\ \A i \in 1 .. Len(ship) + 1 : all[i] = IF i <= Len(ship) THEN ship[i] ELSE one[i - Len(ship)]
  BY <1>1, <1>2, ListConcat
<1> HIDE DEF all
<1>4. /\ Len(ship) \in Nat /\ DOMAIN ship = 1 .. Len(ship)
      /\ DOMAIN all = 1 .. Len(all)
  BY <1>1, <1>3, ListFacts
<1>5. all[Len(all)] = SetSelection(w, s)
  <2>1. Len(all) \in 1 .. Len(ship) + 1 /\ ~(Len(all) <= Len(ship)) /\ Len(all) - Len(ship) = 1
    BY <1>3, <1>4
  <2> QED BY <1>2, <1>3, <2>1
<1>6. \A i \in DOMAIN ship : all[i] = ship[i]
  BY <1>3, <1>4
<1>7. \A i \in DOMAIN all : Carries(w, all[i])
  <2> TAKE i \in DOMAIN all
  <2>1. i \in DOMAIN ship \/ i = Len(all)
    BY <1>3, <1>4
  <2>2. CASE i \in DOMAIN ship
    BY <2>2, <1>1, <1>6 DEF Carries
  <2>3. CASE i = Len(all)
    BY <2>3, <1>5 DEF Carries, SetSelection
  <2> QED BY <2>1, <2>2, <2>3
<1>8. Len(all) \in Nat \ {0}
  BY <1>3, <1>4
<1> QED BY <1>3, <1>4, <1>5, <1>6, <1>7, <1>8 DEF all, ship, one

LEMMA PartCarried ==
  ASSUME NEW w \in Workflows, NEW s, IsList(s), NEW n \in Nat, n <= Len(Shipment(s))
  PROVE  LET part == SubSeq(Shipment(s), 1, n)
         IN /\ IsList(part) /\ Len(part) = n /\ DOMAIN part = 1 .. n
            /\ \A i \in DOMAIN part : i \in DOMAIN Shipment(s) /\ part[i] = Shipment(s)[i]
            /\ \A i \in DOMAIN part : Carries(w, part[i])
<1> DEFINE ship == Shipment(s)
           part == SubSeq(ship, 1, n)
<1>1. IsList(ship) /\ \A i \in DOMAIN ship : ship[i].op = "upsert" /\ ship[i].key = None
  BY ShipmentIs
<1>2. Len(ship) \in Nat /\ DOMAIN ship = 1 .. Len(ship)
  BY <1>1, ListFacts
<1>3. n <= Len(ship)
  OBVIOUS
<1> HIDE DEF ship
<1>4. 1 \in 1 .. Len(ship) + 1 /\ n \in 0 .. Len(ship)
  BY <1>2, <1>3
<1>5. /\ IsList(part) /\ Len(part) = (IF 1 <= n THEN n - 1 + 1 ELSE 0)
      /\ \A i \in 1 .. n - 1 + 1 : part[i] = ship[1 + i - 1]
  BY <1>1, <1>4, ListPart
<1>6. Len(part) = n /\ \A i \in 1 .. n : part[i] = ship[i]
  BY <1>5
<1> HIDE DEF part
<1>7. DOMAIN part = 1 .. n
  BY <1>5, <1>6, ListFacts
<1>8. \A i \in DOMAIN part : i \in DOMAIN ship /\ part[i] = ship[i]
  BY <1>2, <1>3, <1>6, <1>7
<1>9. \A i \in DOMAIN part : Carries(w, part[i])
  BY <1>1, <1>8 DEF Carries
<1> QED BY <1>5, <1>6, <1>7, <1>8, <1>9 DEF part, ship

LEMMA SelectionsKeep ==
  ASSUME LanesInv, NEW w \in Workflows, NEW sels, IsList(sels),
         \/ ApplySelections(w, sels, sels)
         \/ \E n \in 0 .. 2 : ApplyThenStop(w, sels, n),
         UNCHANGED <<applied, hub, selected, outbox, sent, library, byKey>>
  PROVE  LanesInv'
<1>0. Tables /\ LanesCarry
  BY DEF LanesInv
<1>1. w \in LaneIds /\ HubOf(w) \in Clients /\ HubOf(w) = HostOf[w]
  BY LaneKinds
<1>2. \E cs : IsList(cs) /\ Adds(w, cs) /\ \A i \in DOMAIN cs : Carries(w, cs[i])
  <2>1. CASE ApplySelections(w, sels, sels)
    <3> DEFINE all == Shipment(sels) \o <<SetSelection(w, sels)>>
    <3>1. Adds(w, all)
      BY <2>1 DEF ApplySelections, Queued, Enqueued, Adds
    <3>2. IsList(all) /\ \A i \in DOMAIN all : Carries(w, all[i])
      BY ShipmentCarried
    <3> QED BY <3>1, <3>2
  <2>2. CASE \E n \in 0 .. 2 : ApplyThenStop(w, sels, n)
    <3>1. PICK n \in 0 .. 2 : ApplyThenStop(w, sels, n)
      BY <2>2
    <3> DEFINE part == SubSeq(Shipment(sels), 1, n)
    <3>2. Adds(w, part) /\ n <= Len(Shipment(sels)) /\ n \in Nat
      BY <3>1 DEF ApplyThenStop, Enqueued, Adds
    <3>3. IsList(part) /\ \A i \in DOMAIN part : Carries(w, part[i])
      BY <3>2, PartCarried
    <3> QED BY <3>2, <3>3
  <2> QED BY <2>1, <2>2
<1>3. PICK cs : IsList(cs) /\ Adds(w, cs) /\ \A i \in DOMAIN cs : Carries(w, cs[i])
  BY <1>2
<1>4. LanesCarry'
  BY <1>0, <1>1, <1>3, AddedCarry
<1>5. DOMAIN lanes' = LaneIds /\ \A x \in LaneIds : x # w => lanes'[x] = lanes[x]
  BY <1>0, <1>1, <1>3, Added
<1>6. KeysOnce'
  BY <1>5, KeysElsewhere
<1>7. DOMAIN mirror' = Clients /\ \A g \in Clients : DOMAIN mirror'[g] = Resources
  BY <1>0, <1>1 DEF Tables, ApplySelections, ApplyThenStop, Mirrored
<1>8. selections' = [selections EXCEPT ![w] = sels]
  BY DEF ApplySelections, ApplyThenStop
<1>9. Tables' /\ Lists'
  BY <1>5, <1>7, <1>8 DEF LanesInv, Lists, Tables
<1> QED BY <1>4, <1>6, <1>9 DEF LanesInv

LEMMA PutSelectionsKeeps ==
  ASSUME LanesInv, NEW w \in Workflows, NEW kind \in {"tcp_tools", "resource_sets"},
         NEW sels \in Asked[kind], PutSelections(w, kind, sels) \/ PutThenStop(w, kind, sels)
  PROVE  LanesInv'
<1>1. IsList(Replaced(w, kind, sels))
  BY ReplacedIsList
<1>2. /\ \/ ApplySelections(w, Replaced(w, kind, sels), Replaced(w, kind, sels))
         \/ \E n \in 0 .. 2 : ApplyThenStop(w, Replaced(w, kind, sels), n)
      /\ UNCHANGED <<applied, hub, selected, outbox, sent, library, byKey>>
  BY DEF PutSelections, PutThenStop, ApplySelections, ApplyThenStop, atHubs
<1> QED BY <1>1, <1>2, SelectionsKeep

LEMMA AddTemplateKeeps ==
  ASSUME LanesInv, NEW w \in Workflows, NEW t \in TemplateIds, AddTemplate(w, t)
  PROVE  LanesInv'
<1>1. IsList(WithTemplate(w, t))
  BY WithTemplateIsList DEF AddTemplate
<1>2. /\ ApplySelections(w, WithTemplate(w, t), WithTemplate(w, t))
      /\ UNCHANGED <<applied, hub, selected, outbox, sent, library, byKey>>
  BY DEF AddTemplate, ApplySelections, atHubs
<1> QED BY <1>1, <1>2, SelectionsKeep

LEMMA HubTakesKeeps ==
  ASSUME LanesInv, NEW ch \in LaneIds, HubApplies(ch) \/ HubRefuses(ch)
  PROVE  LanesInv'
<1>0. Tables /\ LanesCarry
  BY DEF LanesInv
<1>1. Takes(ch) /\ UNCHANGED <<library, selections, byKey, mirror>>
  BY DEF HubApplies, HubRefuses, Takes
<1>2. LanesCarry' /\ DOMAIN lanes' = LaneIds
  BY <1>0, <1>1, TakenCarry, Taken
<1>3. Lists'
  BY <1>1 DEF LanesInv, Lists
<1>4. CASE HubRefuses(ch)
  <2>1. UNCHANGED <<byKey, applied, atHubs>>
    BY <1>4 DEF HubRefuses
  <2>2. KeysOnce'
    BY <1>1, <2>1, RefusedKeys
  <2>3. Tables'
    BY <1>0, <1>1, <1>2, <2>1 DEF Tables, atHubs
  <2> QED BY <1>2, <1>3, <2>2, <2>3 DEF LanesInv
<1>5. CASE HubApplies(ch)
  <2>c. PICK c : c = Head(lanes[ch])
    OBVIOUS
  <2>1. applied' = Counted(HubOf(ch), Head(lanes[ch]))
    BY <1>5 DEF HubApplies
  <2>2. KeysOnce' /\ applied' \in [Clients \X Kinds \X Keys -> Nat]
    BY <1>1, <2>1, AppliedKeys
  <2>3. HubOf(ch) \in Clients
    BY LaneKinds
  <2>4. /\ DOMAIN selected' = Workflows /\ DOMAIN hub' = Clients
        /\ \A g \in Clients : DOMAIN hub'[g] = Resources
        /\ DOMAIN outbox' = Clients /\ sent' \in [Clients -> Nat]
    <3>1. CASE c.op = "set_selection"
      BY <3>1, <2>c, <1>0, <1>5 DEF HubApplies, Tables
    <3>2. CASE c.op # "set_selection"
      BY <3>2, <2>3, <2>c, <1>0, <1>5 DEF HubApplies, Announce, Tables
    <3> QED BY <3>1, <3>2
  <2>5. Tables'
    BY <1>0, <1>1, <1>2, <2>2, <2>4 DEF Tables
  <2> QED BY <1>2, <1>3, <2>2, <2>5 DEF LanesInv
<1> QED BY <1>4, <1>5

LEMMA HubEditsKeeps ==
  ASSUME LanesInv, NEW h \in Clients, NEW r, NEW content, HubEdits(h, r, content)
  PROVE  LanesInv'
<1>1. LanesCarry' /\ KeysOnce'
  BY SameLanes DEF HubEdits, queues, history
<1>2. Tables' /\ Lists'
  BY DEF HubEdits, Announce, LanesInv, Lists, Tables, queues, history
<1> QED BY <1>1, <1>2 DEF LanesInv

LEMMA DeliverKeeps ==
  ASSUME LanesInv, NEW h \in Clients,
         \/ \E n \in 1 .. Len(outbox[h]), gone \in BOOLEAN : Deliver(h, n, gone)
         \/ \E n \in 1 .. Len(outbox[h]) : DeliverThenStop(h, n)
  PROVE  LanesInv'
<1>1. UNCHANGED <<library, selections, lanes, byKey, hub, selected, sent, applied>>
  BY DEF Deliver, DeliverThenStop, atHubs
<1>2. LanesCarry' /\ KeysOnce'
  BY <1>1, SameLanes
<1>3. DOMAIN mirror' = Clients /\ \A g \in Clients : DOMAIN mirror'[g] = Resources
  BY DEF LanesInv, Tables, Deliver, DeliverThenStop, MirrorEvents
<1>4. DOMAIN outbox' = Clients
  BY DEF LanesInv, Tables, Deliver, DeliverThenStop, atHubs
<1>5. Tables' /\ Lists'
  BY <1>1, <1>3, <1>4 DEF LanesInv, Lists, Tables
<1> QED BY <1>2, <1>5 DEF LanesInv

LEMMA LanesStep ==
  ASSUME LanesInv, [ResourcesNext]_resourceVars
  PROVE  LanesInv'
<1>1. CASE UNCHANGED resourceVars
  <2>1. LanesCarry' /\ KeysOnce'
    BY <1>1, SameLanes DEF resourceVars, queues, history
  <2> QED BY <1>1, <2>1 DEF LanesInv, Tables, Lists, resourceVars, queues, atHubs, history
<1>2. CASE \E c \in CatalogCalls : CatalogCall(c)
  BY <1>2, CatalogCallKeeps
<1>3. CASE \E r \in Roles : DropRole(r)
  BY <1>3, DropRoleKeeps
<1>4. CASE \E h \in Clients, c \in ResourceCommands : QueueResourceCommand(h, c) \/ QueueThenStop(h, c)
  BY <1>4, QueueResourceCommandKeeps
<1>5. CASE \E w \in Workflows, kind \in {"tcp_tools", "resource_sets"} :
             \E sels \in Asked[kind] : PutSelections(w, kind, sels) \/ PutThenStop(w, kind, sels)
  BY <1>5, PutSelectionsKeeps
<1>6. CASE \E w \in Workflows, t \in TemplateIds : AddTemplate(w, t)
  BY <1>6, AddTemplateKeeps
<1>7. CASE \E ch \in LaneIds : HubApplies(ch) \/ HubRefuses(ch)
  BY <1>7, HubTakesKeeps
<1>8. CASE \E h \in Clients, r \in Locals : \E content \in Content(r) : HubEdits(h, r, content)
  BY <1>8, HubEditsKeeps
<1>9. CASE \E h \in Clients, gone \in BOOLEAN : \E n \in 1 .. Len(outbox[h]) : Deliver(h, n, gone)
  BY <1>9, DeliverKeeps
<1>10. CASE \E h \in Clients : \E n \in 1 .. Len(outbox[h]) : DeliverThenStop(h, n)
  BY <1>10, DeliverKeeps
<1> QED BY <1>1, <1>2, <1>3, <1>4, <1>5, <1>6, <1>7, <1>8, <1>9, <1>10 DEF ResourcesNext

THEOREM ResourcesInvariance == ResourcesSpec => []LanesInv
<1>1. ResourcesInit => LanesInv
  BY LanesInit
<1>2. LanesInv /\ [ResourcesNext]_resourceVars => LanesInv'
  BY LanesStep
<1> QED BY <1>1, <1>2, PTL DEF ResourcesSpec

(* KeysApplyOnce: a hub applies one command for an Idempotency-Key at      *)
(* most, however often a request is repeated under it and whatever stops   *)
(* in between.                                                             *)
THEOREM KeysApplyOnceHolds == ResourcesSpec => []KeysApplyOnce
<1>1. LanesInv => KeysApplyOnce
  <2> SUFFICES ASSUME LanesInv, NEW k \in DOMAIN applied PROVE applied[k] <= 1
    BY DEF KeysApplyOnce
  <2>1. k \in Clients \X Kinds \X Keys
    BY DEF LanesInv, Tables
  <2>2. KeyOnce(k) /\ applied[k] \in Nat
    BY <2>1, KeyFacts
  <2> QED BY <2>2 DEF KeyOnce
<1> QED BY <1>1, ResourcesInvariance, PTL

-----------------------------------------------------------------------------
(* Packs.  A shipment has an upsert of each pack the catalog has.          *)
LEMMA ShipmentBrings ==
  ASSUME LanesInv, NEW s, IsList(s), Known(s)
  PROVE  /\ \A i \in DOMAIN Shipment(s) : Shipment(s)[i].what # None
         /\ \A p \in PacksIn(s) : \/ p \in removed
                                  \/ \E i \in DOMAIN Shipment(s) : Shipment(s)[i].of = p
<1> DEFINE ordered == OfKind(s, "tcp_tools") \o OfKind(s, "resource_sets")
           places == {n \in DOMAIN ordered : Exists(library, ordered[n].pack)}
           known == Entries(ordered, places)
           ship == Shipment(s)
<1>1. /\ IsList(ordered)
      /\ ToSet(ordered) = {e \in ToSet(s) : KindOf[e.pack] \in {"tcp_tools", "resource_sets"}}
  <2>1. \A k : /\ IsList(OfKind(s, k))
               /\ ToSet(OfKind(s, k)) = {e \in ToSet(s) : KindOf[e.pack] = k}
    BY OfKindIsList
  <2> HIDE DEF ToSet
  <2>2. IsList(ordered)
    BY <2>1, ListConcat
  <2>3. ToSet(ordered) = ToSet(OfKind(s, "tcp_tools")) \cup ToSet(OfKind(s, "resource_sets"))
    BY <2>1, JoinedEntries
  <2> HIDE DEF ordered
  <2> QED BY <2>1, <2>2, <2>3
<1> HIDE DEF ordered
<1>2. ToSet(known) = {ordered[n] : n \in DOMAIN ordered \cap places}
  <2> HIDE DEF places, ToSet
  <2> QED BY <1>1, EntriesAre
<1>3. ToSet(known) = {e \in ToSet(ordered) : Exists(library, e.pack)}
  <2>1. {ordered[n] : n \in DOMAIN ordered \cap places} = {e \in ToSet(ordered) : Exists(library, e.pack)}
    BY DEF ToSet
  <2> HIDE DEF places, known, ToSet
  <2> QED BY <1>2, <2>1
<1>4. ship = [i \in DOMAIN known |-> Upsert(known[i].pack, ReadPack(library, known[i].pack).content, None)]
  BY DEF Shipment, ordered
<1> HIDE DEF known, ship, places
<1>5. \A i \in DOMAIN ship : /\ i \in DOMAIN known /\ known[i] \in ToSet(known)
                             /\ ship[i].of = known[i].pack
                             /\ ship[i].what = ReadPack(library, known[i].pack).content
  BY <1>4 DEF Upsert, ToSet
<1>6. \A e \in ToSet(known) : \E i \in DOMAIN ship : ship[i].of = e.pack
  BY <1>4 DEF Upsert, ToSet
<1>7. \A e \in ToSet(s) : e.pack \in PacksIn(s)
  <2> HIDE DEF ToSet
  <2> QED BY DEF PacksIn
<1> HIDE DEF ToSet
<1>8. \A i \in DOMAIN ship : ship[i].what # None
  <2> SUFFICES ASSUME NEW i \in DOMAIN ship PROVE ship[i].what # None
    OBVIOUS
  <2>1. known[i].pack \in PacksIn(s) /\ Exists(library, known[i].pack)
    BY <1>1, <1>3, <1>5, <1>7
  <2>2. known[i].pack \in Packs
    BY <2>1 DEF Known
  <2>3. ReadPack(library, known[i].pack).content # None
    BY <2>1, <2>2, ReadIsContent DEF LanesInv, Lists
  <2> QED BY <2>3, <1>5
<1>9. ASSUME NEW p \in PacksIn(s), p \notin removed
      PROVE  \E i \in DOMAIN ship : ship[i].of = p
  <2>1. p \in Packs /\ Exists(library, p)
    BY <1>9 DEF Known
  <2>2. KindOf[p] \in {"tcp_tools", "resource_sets"}
    BY <2>1, KindsAssumption DEF Packs, TemplateIds, Kinds
  <2>3. PICK e \in ToSet(s) : e.pack = p
    BY DEF PacksIn
  <2>4. e \in ToSet(known)
    BY <1>1, <1>3, <2>1, <2>2, <2>3
  <2> QED BY <1>6, <2>3, <2>4
<1> QED BY <1>8, <1>9 DEF ship

(* A hub loses a pack only when that was noted.                            *)
LosesNoPack ==
  /\ removed \subseteq removed'
  /\ \A h \in Clients : \A p \in Packs : hub[h][p] # None => hub'[h][p] # None \/ p \in removed'

LEMMA StillKnown ==
  ASSUME PacksInv, removed \subseteq removed', UNCHANGED selections,
         \A p \in Packs : Exists(library, p) => Exists(library', p) \/ p \in removed'
  PROVE  \A w \in Workflows : Known(selections[w])'
BY DEF PacksInv, Known

LEMMA StillHonest ==
  ASSUME PacksInv, removed \subseteq removed', NEW ch \in LaneIds, lanes'[ch] = lanes[ch]
  PROVE  HonestAt(ch)'
BY DEF PacksInv, HonestAt, Honest

LEMMA StillArrive ==
  ASSUME PacksInv, LosesNoPack, NEW w \in Workflows, lanes'[w] = lanes[w]
  PROVE  ArriveAt(w)'
<1> SUFFICES ASSUME NEW i \in DOMAIN lanes[w], lanes[w][i].op = "set_selection",
                    NEW p \in PacksIn(lanes[w][i].what)
             PROVE  p \in Packs /\ Arrives(w, i, p)'
  BY DEF ArriveAt
<1>1. p \in Packs /\ Arrives(w, i, p)
  BY DEF PacksInv, ArriveAt
<1>2. HostOf[w] \in Clients
  BY WorkflowsAssumption
<1> QED BY <1>1, <1>2 DEF Arrives, LosesNoPack

(* What is neither on the lanes nor at the hubs.                           *)
LEMMA PacksElsewhere ==
  ASSUME PacksInv, LosesNoPack, UNCHANGED lanes, \A w \in Workflows : Known(selections[w])'
  PROVE  PacksInv'
<1>1. \A ch \in LaneIds : HonestAt(ch)'
  BY StillHonest DEF LosesNoPack
<1>2. \A w \in Workflows : ArriveAt(w)'
  BY StillArrive
<1> QED BY <1>1, <1>2 DEF PacksInv

(* Commands come to a lane: they are honest, and a selection among them    *)
(* comes after upserts of its packs.                                       *)
LEMMA AddedPacks ==
  ASSUME LanesInv, PacksInv, NEW ch \in LaneIds, NEW cs, IsList(cs), Adds(ch, cs),
         UNCHANGED hub, removed \subseteq removed',
         \A i \in DOMAIN cs : Honest(cs[i], removed'),
         \A i \in DOMAIN cs : cs[i].op = "set_selection" =>
           \A p \in PacksIn(cs[i].what) : p \in Packs /\ (p \in removed \/ Brings(cs, i, p))
  PROVE  /\ \A x \in LaneIds : HonestAt(x)'
         /\ \A w \in Workflows : ArriveAt(w)'
<1> DEFINE m == Len(lanes[ch])  t == lanes'[ch]
<1>0. Tables /\ LanesCarry
  BY DEF LanesInv
<1>1. /\ \A x \in LaneIds : x # ch => lanes'[x] = lanes[x]
      /\ m \in Nat /\ DOMAIN lanes[ch] = 1 .. m
      /\ DOMAIN cs = 1 .. Len(cs) /\ Len(cs) \in Nat
      /\ \A i \in DOMAIN lanes[ch] : i \in DOMAIN t /\ t[i] = lanes[ch][i]
      /\ \A i \in DOMAIN cs : m + i \in DOMAIN t /\ t[m + i] = cs[i]
      /\ DOMAIN t = 1 .. m + Len(cs)
  BY <1>0, Added
<1>2. LosesNoPack
  BY DEF LosesNoPack
<1> HIDE DEF m, t
<1>3. \A i \in DOMAIN t : i \in DOMAIN lanes[ch] \/ \E j \in DOMAIN cs : i = m + j
  <2> TAKE i \in DOMAIN t
  <2>1. CASE i <= m
    BY <2>1, <1>1
  <2>2. CASE ~ (i <= m)
    <3>1. i - m \in DOMAIN cs /\ i = m + (i - m)
      BY <2>2, <1>1
    <3> QED BY <3>1
  <2> QED BY <2>1, <2>2
<1>4. ASSUME NEW x \in LaneIds PROVE HonestAt(x)'
  <2>1. CASE x # ch
    BY <2>1, <1>1, StillHonest
  <2>2. CASE x = ch
    <3> SUFFICES ASSUME NEW i \in DOMAIN t PROVE Honest(t[i], removed')
      BY <2>2 DEF HonestAt, t
    <3>1. CASE i \in DOMAIN lanes[ch]
      <4>1. Honest(lanes[ch][i], removed)
        BY <3>1 DEF PacksInv, HonestAt
      <4> QED BY <3>1, <4>1, <1>1 DEF Honest
    <3>2. CASE \E j \in DOMAIN cs : i = m + j
      BY <3>2, <1>1 DEF Honest
    <3> QED BY <3>1, <3>2, <1>3
  <2> QED BY <2>1, <2>2
<1>5. ASSUME NEW w \in Workflows PROVE ArriveAt(w)'
  <2>w. w \in LaneIds
    BY LaneKinds
  <2>1. CASE w # ch
    BY <2>1, <2>w, <1>1, <1>2, StillArrive
  <2>2. CASE w = ch
    <3> SUFFICES ASSUME NEW i \in DOMAIN t, t[i].op = "set_selection", NEW p \in PacksIn(t[i].what)
                 PROVE  p \in Packs /\ Arrives(w, i, p)'
      BY <2>2 DEF ArriveAt, t
    <3>1. CASE i \in DOMAIN lanes[ch]
      <4>1. p \in Packs /\ Arrives(w, i, p)
        BY <3>1, <2>2, <1>1 DEF PacksInv, ArriveAt
      <4>2. Brings(lanes[ch], i, p) => Brings(t, i, p)
        BY <1>1 DEF Brings
      <4> QED BY <4>1, <4>2, <2>2 DEF Arrives, t
    <3>2. CASE \E j \in DOMAIN cs : i = m + j
      <4>1. PICK j \in DOMAIN cs : i = m + j
        BY <3>2
      <4>2. p \in Packs /\ (p \in removed \/ Brings(cs, j, p))
        BY <4>1, <1>1
      <4>3. Brings(cs, j, p) => Brings(t, i, p)
        <5> SUFFICES ASSUME NEW k \in DOMAIN cs, k < j, cs[k].op = "upsert", cs[k].of = p
                     PROVE  Brings(t, i, p)
          BY DEF Brings
        <5>1. m + k \in DOMAIN t /\ t[m + k] = cs[k] /\ m + k < i
          BY <4>1, <1>1
        <5> QED BY <5>1 DEF Brings
      <4> QED BY <4>2, <4>3, <2>2 DEF Arrives, t
    <3> QED BY <3>1, <3>2, <1>3
  <2> QED BY <2>1, <2>2
<1> QED BY <1>4, <1>5

(* The first command of a lane goes: if it brought a pack, the hub has it  *)
(* now, or refused it.                                                     *)
LEMMA TakenPacks ==
  ASSUME LanesInv, PacksInv, NEW ch \in LaneIds, Takes(ch), LosesNoPack, UNCHANGED <<library, selections>>,
         lanes[ch][1].op = "upsert" /\ lanes[ch][1].of \in Packs =>
           \/ hub'[HubOf(ch)][lanes[ch][1].of] # None
           \/ lanes[ch][1].of \in removed'
  PROVE  PacksInv'
<1> DEFINE s == lanes[ch]  t == lanes'[ch]
<1>0. Tables /\ LanesCarry
  BY DEF LanesInv
<1>1. /\ \A x \in LaneIds : x # ch => lanes'[x] = lanes[x]
      /\ Len(s) \in Nat /\ DOMAIN s = 1 .. Len(s)
      /\ \A i \in DOMAIN t : i + 1 \in DOMAIN s /\ t[i] = s[i + 1] /\ i \in Nat /\ i # 0
      /\ \A i \in DOMAIN s : i # 1 => i - 1 \in DOMAIN t /\ t[i - 1] = s[i]
  BY <1>0, Taken
<1>2. \A w \in Workflows : Known(selections[w])'
  BY DEF PacksInv, Known, LosesNoPack
<1> HIDE DEF s, t
<1>3. ASSUME NEW x \in LaneIds PROVE HonestAt(x)'
  <2>1. CASE x # ch
    BY <2>1, <1>1, StillHonest DEF LosesNoPack
  <2>2. CASE x = ch
    <3> SUFFICES ASSUME NEW i \in DOMAIN t PROVE Honest(t[i], removed')
      BY <2>2 DEF HonestAt, t
    <3>1. Honest(s[i + 1], removed)
      BY <1>1 DEF PacksInv, HonestAt, s
    <3> QED BY <3>1, <1>1 DEF Honest, LosesNoPack
  <2> QED BY <2>1, <2>2
<1>4. ASSUME NEW w \in Workflows PROVE ArriveAt(w)'
  <2>w. w \in LaneIds /\ HubOf(w) = HostOf[w] /\ HostOf[w] \in Clients
    BY LaneKinds
  <2>1. CASE w # ch
    BY <2>1, <2>w, <1>1, StillArrive
  <2>2. CASE w = ch
    <3> SUFFICES ASSUME NEW i \in DOMAIN t, t[i].op = "set_selection", NEW p \in PacksIn(t[i].what)
                 PROVE  p \in Packs /\ Arrives(w, i, p)'
      BY <2>2 DEF ArriveAt, t
    <3>1. p \in Packs /\ Arrives(w, i + 1, p)
      BY <2>2, <1>1 DEF PacksInv, ArriveAt, s
    <3>2. CASE hub[HostOf[w]][p] # None \/ p \in removed
      BY <3>1, <3>2, <2>w DEF Arrives, LosesNoPack
    <3>3. CASE Brings(s, i + 1, p)
      <4>1. PICK k \in DOMAIN s : k < i + 1 /\ s[k].op = "upsert" /\ s[k].of = p
        BY <3>3 DEF Brings
      <4>2. CASE k = 1
        BY <4>1, <4>2, <3>1, <2>2, <2>w DEF Arrives, s
      <4>3. CASE k # 1
        <5>1. k - 1 \in DOMAIN t /\ t[k - 1] = s[k] /\ k - 1 < i
          BY <4>1, <4>3, <1>1
        <5>2. Brings(t, i, p)
          BY <4>1, <5>1 DEF Brings
        <5> QED BY <5>2, <3>1, <2>2 DEF Arrives, t
      <4> QED BY <4>2, <4>3
    <3> QED BY <3>1, <3>2, <3>3, <2>2 DEF Arrives, s
  <2> QED BY <2>1, <2>2
<1> QED BY <1>2, <1>3, <1>4 DEF PacksInv

LEMMA PacksInit ==
  ASSUME ResourcesInit
  PROVE  PacksInv
<1>1. DOMAIN << >> = {} /\ PacksIn(<< >>) = {}
  BY EmptyIsList DEF PacksIn, ToSet
<1>2. \A ch \in LaneIds : lanes[ch] = << >>
  BY DEF ResourcesInit
<1>3. \A w \in Workflows : w \in LaneIds /\ selections[w] = << >>
  BY LaneKinds DEF ResourcesInit
<1> QED BY <1>1, <1>2, <1>3 DEF PacksInv, Known, HonestAt, ArriveAt

LEMMA PacksAtCatalog ==
  ASSUME LanesInv, PacksInv,
         \/ \E c \in CatalogCalls : CatalogCall(c)
         \/ \E r \in Roles : DropRole(r)
  PROVE  PacksInv'
<1>1. UNCHANGED <<lanes, hub, selections>> /\ removed \subseteq removed'
  BY DEF CatalogCall, DropRole, queues, atHubs, history
<1>2. \A p \in Packs : Exists(library, p) => Exists(library', p) \/ p \in removed'
  <2>1. CASE \E c \in CatalogCalls : CatalogCall(c)
    BY <2>1 DEF CatalogCall, Exists
  <2>2. CASE \E r \in Roles : DropRole(r)
    <3>1. library'.items = library.items
      BY <2>2 DEF DropRole, DeleteRole, LanesInv, Lists, Sound, IsLibrary
    <3> QED BY <3>1 DEF Exists
  <2> QED BY <2>1, <2>2
<1>3. \A w \in Workflows : Known(selections[w])'
  BY <1>1, <1>2, StillKnown
<1>4. LosesNoPack
  BY <1>1 DEF LosesNoPack
<1> QED BY <1>1, <1>3, <1>4, PacksElsewhere

LEMMA PacksAtCommand ==
  ASSUME LanesInv, PacksInv, NEW h \in Clients, NEW c \in ResourceCommands,
         QueueResourceCommand(h, c) \/ QueueThenStop(h, c)
  PROVE  PacksInv'
<1>1. /\ StoreCommand(h, c) /\ NoteRemoval(h, c)
      /\ UNCHANGED <<library, selections, hub>>
  BY DEF QueueResourceCommand, QueueThenStop, atHubs
<1>2. /\ c.op \in {"upsert", "delete"} /\ c.of \in Resources
      /\ c.op = "upsert" => c.what # None
  <2>1. PICK r \in Addressed, key \in Keys \cup {None} :
          \/ \E content \in ContentsOf[r] : c = Upsert(r, content, key)
          \/ c = Delete(r, key)
    BY DEF ResourceCommands
  <2>2. r \in Resources /\ None \notin ContentsOf[r]
    BY AddressedAssumption, ContentsAssumption
  <2> QED BY <2>1, <2>2 DEF Upsert, Delete
<1>3. removed \subseteq removed' /\ Honest(c, removed')
  BY <1>1, <1>2 DEF NoteRemoval, Honest
<1>4. \A w \in Workflows : Known(selections[w])'
  BY <1>1, <1>3, StillKnown
<1>5. LosesNoPack
  BY <1>1, <1>3 DEF LosesNoPack
<1>6. CASE Remembered(h, c)
  BY <1>1, <1>4, <1>5, <1>6, PacksElsewhere DEF StoreCommand
<1>7. CASE ~ Remembered(h, c)
  <2> DEFINE ch == ChannelOf(h, c.of)  cs == <<c>>
  <2>1. ch \in LaneIds
    BY <1>2, LaneKinds DEF ChannelOf
  <2>2. Adds(ch, cs)
    BY <1>1, <1>7 DEF StoreCommand, Enqueued, Adds
  <2>3. IsList(cs) /\ Len(cs) = 1 /\ cs[1] = c
    BY OneIsList
  <2> HIDE DEF ch, cs
  <2>4. \A i \in DOMAIN cs : cs[i] = c
    BY <2>3, ListFacts
  <2>5. /\ \A x \in LaneIds : HonestAt(x)'
        /\ \A w \in Workflows : ArriveAt(w)'
    <3>1. \A i \in DOMAIN cs : cs[i].op # "set_selection"
      BY <2>4, <1>2
    <3>2. \A i \in DOMAIN cs : Honest(cs[i], removed')
      BY <2>4, <1>3 DEF Honest
    <3> QED BY <1>1, <1>3, <2>1, <2>2, <2>3, <3>1, <3>2, AddedPacks
  <2> QED BY <1>4, <2>5 DEF PacksInv
<1> QED BY <1>6, <1>7

(* A selection is stored and shipped, whole or cut off by a stop.          *)
LEMMA PacksAtSelection ==
  ASSUME LanesInv, PacksInv, NEW w \in Workflows, NEW sels, IsList(sels), Known(sels),
         \/ ApplySelections(w, sels, sels)
         \/ \E n \in 0 .. 2 : ApplyThenStop(w, sels, n)
  PROVE  PacksInv'
<1>1. /\ UNCHANGED <<library, hub, removed>>
      /\ selections' = [selections EXCEPT ![w] = sels]
  BY DEF ApplySelections, ApplyThenStop, atHubs
<1>2. w \in LaneIds
  BY LaneKinds
<1>3. \A x \in Workflows : Known(selections[x])'
  <2>1. \A x \in Workflows : Known(selections'[x])
    BY <1>1 DEF PacksInv, LanesInv, Tables
  <2> QED BY <1>1, <2>1 DEF Known
<1>4. \A i \in DOMAIN Shipment(sels) :
        Shipment(sels)[i].op = "upsert" /\ Shipment(sels)[i].what # None
  BY ShipmentIs, ShipmentBrings
<1>5. \E cs : /\ IsList(cs) /\ Adds(w, cs) /\ \A i \in DOMAIN cs : Honest(cs[i], removed')
              /\ \A i \in DOMAIN cs : cs[i].op = "set_selection" =>
                   \A p \in PacksIn(cs[i].what) : p \in Packs /\ (p \in removed \/ Brings(cs, i, p))
  <2>1. CASE ApplySelections(w, sels, sels)
    <3> DEFINE all == Shipment(sels) \o <<SetSelection(w, sels)>>
    <3>1. Adds(w, all)
      BY <2>1 DEF ApplySelections, Queued, Enqueued, Adds
    <3>2. /\ IsList(all) /\ Len(all) \in Nat \ {0} /\ all[Len(all)] = SetSelection(w, sels)
          /\ Len(Shipment(sels)) \in Nat /\ DOMAIN Shipment(sels) = 1 .. Len(Shipment(sels))
          /\ Len(all) = Len(Shipment(sels)) + 1 /\ DOMAIN all = 1 .. Len(all)
          /\ \A i \in DOMAIN Shipment(sels) : all[i] = Shipment(sels)[i]
      BY ShipmentCarried
    <3> HIDE DEF all
    <3>3. \A i \in DOMAIN all : i \in DOMAIN Shipment(sels) \/ i = Len(all)
      BY <3>2
    <3>4. \A i \in DOMAIN Shipment(sels) : i \in DOMAIN all /\ i < Len(all)
      BY <3>2
    <3>5. \A i \in DOMAIN all : Honest(all[i], removed')
      BY <1>4, <3>2, <3>3 DEF Honest, SetSelection
    <3>6. ASSUME NEW i \in DOMAIN all, all[i].op = "set_selection", NEW p \in PacksIn(all[i].what)
          PROVE  p \in Packs /\ (p \in removed \/ Brings(all, i, p))
      <4>1. i = Len(all)
        BY <3>2, <3>3, <3>6, <1>4
      <4>2. p \in PacksIn(sels)
        BY <4>1, <3>2, <3>6 DEF SetSelection
      <4>3. p \in removed \/ \E k \in DOMAIN Shipment(sels) : Shipment(sels)[k].of = p
        BY <4>2, ShipmentBrings
      <4>4. p \in removed \/ Brings(all, i, p)
        BY <4>1, <4>3, <3>2, <3>4, <1>4 DEF Brings
      <4> QED BY <4>2, <4>4 DEF Known
    <3> QED BY <3>1, <3>2, <3>5, <3>6
  <2>2. CASE \E n \in 0 .. 2 : ApplyThenStop(w, sels, n)
    <3>1. PICK n \in 0 .. 2 : ApplyThenStop(w, sels, n)
      BY <2>2
    <3> DEFINE part == SubSeq(Shipment(sels), 1, n)
    <3>2. Adds(w, part) /\ n <= Len(Shipment(sels)) /\ n \in Nat
      BY <3>1 DEF ApplyThenStop, Enqueued, Adds
    <3>3. IsList(part) /\ \A i \in DOMAIN part : i \in DOMAIN Shipment(sels) /\ part[i] = Shipment(sels)[i]
      BY <3>2, PartCarried
    <3> HIDE DEF part
    <3>4. \A i \in DOMAIN part : part[i].op = "upsert" /\ part[i].what # None
      BY <3>3, <1>4
    <3>5. \A i \in DOMAIN part : Honest(part[i], removed')
      BY <3>4 DEF Honest
    <3> QED BY <3>2, <3>3, <3>4, <3>5
  <2> QED BY <2>1, <2>2
<1>6. /\ \A x \in LaneIds : HonestAt(x)'
      /\ \A x \in Workflows : ArriveAt(x)'
  BY <1>1, <1>2, <1>5, AddedPacks
<1> QED BY <1>3, <1>6 DEF PacksInv

LEMMA PacksAtPut ==
  ASSUME LanesInv, PacksInv, NEW w \in Workflows, NEW kind \in {"tcp_tools", "resource_sets"},
         NEW sels \in Asked[kind], PutSelections(w, kind, sels) \/ PutThenStop(w, kind, sels)
  PROVE  PacksInv'
<1> DEFINE new == Replaced(w, kind, sels)
<1>1. /\ IsList(new)
      /\ PacksIn(new) \subseteq PacksIn(selections[w]) \cup PacksIn(NormalizeSelections(sels))
  BY ReplacedIsList
<1>2. /\ AllKnown(library, sels, kind)
      /\ \/ ApplySelections(w, new, new)
         \/ \E n \in 0 .. 2 : ApplyThenStop(w, new, n)
  BY DEF PutSelections, PutThenStop
<1> HIDE DEF new
<1>3. Known(new)
  <2>1. \A p \in PacksIn(selections[w]) : p \in Packs /\ (Exists(library, p) \/ p \in removed)
    BY DEF PacksInv, Known
  <2>2. \A p \in PacksIn(NormalizeSelections(sels)) : p \in Packs /\ Exists(library, p)
    BY <1>2 DEF AllKnown
  <2> QED BY <1>1, <2>1, <2>2 DEF Known
<1> QED BY <1>1, <1>2, <1>3, PacksAtSelection

LEMMA PacksAtTemplate ==
  ASSUME LanesInv, PacksInv, NEW w \in Workflows, NEW t \in TemplateIds, AddTemplate(w, t)
  PROVE  PacksInv'
<1> DEFINE new == WithTemplate(w, t)
<1>1. Exists(library, t) /\ ApplySelections(w, new, new)
  BY DEF AddTemplate
<1>2. /\ IsList(new)
      /\ PacksIn(new) \subseteq PacksIn(selections[w]) \cup PacksIn(Incoming(t))
  BY <1>1, WithTemplateIsList
<1> HIDE DEF new
<1>3. Known(new)
  <2>1. \A p \in PacksIn(selections[w]) : p \in Packs /\ (Exists(library, p) \/ p \in removed)
    BY DEF PacksInv, Known
  <2>2. \A p \in PacksIn(Incoming(t)) : p \in Packs /\ Exists(library, p)
    BY <1>1, IncomingIsList DEF LanesInv, Lists
  <2> QED BY <1>2, <2>1, <2>2 DEF Known
<1> QED BY <1>1, <1>2, <1>3, PacksAtSelection

LEMMA PacksAtTaking ==
  ASSUME LanesInv, PacksInv, NEW ch \in LaneIds, HubApplies(ch) \/ HubRefuses(ch)
  PROVE  PacksInv'
<1> DEFINE h == HubOf(ch)
<1>0. Tables /\ LanesCarry
  BY DEF LanesInv
<1>1. Takes(ch) /\ UNCHANGED <<library, selections>>
  BY DEF HubApplies, HubRefuses, Takes
<1>2. h \in Clients
  BY LaneKinds
<1>3. PICK c : c = Head(lanes[ch]) /\ c = lanes[ch][1] /\ 1 \in DOMAIN lanes[ch]
  BY <1>0, <1>1, Taken
<1>4. Honest(c, removed)
  BY <1>3 DEF PacksInv, HonestAt
<1> HIDE DEF h
<1>5. CASE HubRefuses(ch)
  <2>1. UNCHANGED hub /\ removed' = IF c.op = "upsert" THEN removed \cup {c.of} ELSE removed
    BY <1>3, <1>5 DEF HubRefuses, atHubs
  <2>2. LosesNoPack
    BY <2>1 DEF LosesNoPack
  <2>3. c.op = "upsert" => c.of \in removed'
    BY <2>1
  <2> QED BY <1>1, <1>3, <2>2, <2>3, TakenPacks
<1>6. CASE HubApplies(ch)
  <2>1. /\ removed' = removed
        /\ c.op = "set_selection" => UNCHANGED hub
        /\ c.op # "set_selection" => hub' = [hub EXCEPT ![h][c.of] = c.what]
    BY <1>3, <1>6 DEF HubApplies, Announce, h
  <2>2. LosesNoPack
    <3> SUFFICES ASSUME NEW g \in Clients, NEW p \in Packs, hub[g][p] # None
                 PROVE  hub'[g][p] # None \/ p \in removed'
      BY <2>1 DEF LosesNoPack
    <3>1. CASE c.op = "set_selection"
      BY <3>1, <2>1
    <3>2. CASE c.op # "set_selection" /\ g = h /\ c.of = p
      <4>1. hub'[g][p] = c.what
        BY <3>2, <2>1, <1>0, <1>2 DEF Tables, Resources
      <4> QED BY <4>1, <3>2, <1>4, <2>1 DEF Honest
    <3>3. CASE c.op # "set_selection" /\ ~ (g = h /\ c.of = p)
      <4>1. hub'[g][p] = hub[g][p]
        BY <3>3, <2>1, <1>0, <1>2 DEF Tables, Resources
      <4> QED BY <4>1
    <3> QED BY <3>1, <3>2, <3>3
  <2>3. c.op = "upsert" /\ c.of \in Packs => hub'[h][c.of] # None
    BY <2>1, <1>0, <1>2, <1>4 DEF Tables, Resources, Honest
  <2> QED BY <1>1, <1>3, <2>2, <2>3, TakenPacks DEF h
<1> QED BY <1>5, <1>6

LEMMA PacksAtEdit ==
  ASSUME LanesInv, PacksInv, NEW h \in Clients, NEW r, NEW content, HubEdits(h, r, content)
  PROVE  PacksInv'
<1>1. /\ UNCHANGED <<lanes, library, selections, removed>>
      /\ r \in Locals /\ hub' = [hub EXCEPT ![h][r] = content]
  BY DEF HubEdits, Announce, queues, history
<1>2. \A g \in Clients : \A p \in Packs : hub'[g][p] = hub[g][p]
  BY <1>1, NamesAssumption DEF LanesInv, Tables, Packs
<1>3. LosesNoPack
  BY <1>1, <1>2 DEF LosesNoPack
<1>4. \A w \in Workflows : Known(selections[w])'
  BY <1>1, StillKnown
<1> QED BY <1>1, <1>3, <1>4, PacksElsewhere

LEMMA PacksStep ==
  ASSUME LanesInv, PacksInv, [ResourcesNext]_resourceVars
  PROVE  PacksInv'
<1>1. CASE UNCHANGED <<lanes, library, selections, removed, hub>>
  <2>1. LosesNoPack
    BY <1>1 DEF LosesNoPack
  <2>2. \A w \in Workflows : Known(selections[w])'
    BY <1>1, StillKnown
  <2> QED BY <1>1, <2>1, <2>2, PacksElsewhere
<1>2. CASE (\E c \in CatalogCalls : CatalogCall(c)) \/ \E r \in Roles : DropRole(r)
  BY <1>2, PacksAtCatalog
<1>3. CASE \E h \in Clients, c \in ResourceCommands : QueueResourceCommand(h, c) \/ QueueThenStop(h, c)
  BY <1>3, PacksAtCommand
<1>4. CASE \E w \in Workflows, kind \in {"tcp_tools", "resource_sets"} :
             \E sels \in Asked[kind] : PutSelections(w, kind, sels) \/ PutThenStop(w, kind, sels)
  BY <1>4, PacksAtPut
<1>5. CASE \E w \in Workflows, t \in TemplateIds : AddTemplate(w, t)
  BY <1>5, PacksAtTemplate
<1>6. CASE \E ch \in LaneIds : HubApplies(ch) \/ HubRefuses(ch)
  BY <1>6, PacksAtTaking
<1>7. CASE \E h \in Clients, r \in Locals : \E content \in Content(r) : HubEdits(h, r, content)
  BY <1>7, PacksAtEdit
<1>8. CASE \/ \E h \in Clients, gone \in BOOLEAN : \E n \in 1 .. Len(outbox[h]) : Deliver(h, n, gone)
           \/ \E h \in Clients : \E n \in 1 .. Len(outbox[h]) : DeliverThenStop(h, n)
  <2>1. UNCHANGED <<lanes, library, selections, removed, hub>>
    BY <1>8 DEF Deliver, DeliverThenStop, atHubs
  <2> QED BY <1>1, <2>1
<1>9. CASE UNCHANGED resourceVars
  <2>1. UNCHANGED <<lanes, library, selections, removed, hub>>
    BY <1>9 DEF resourceVars, queues, atHubs, history
  <2> QED BY <1>1, <2>1
<1> QED BY <1>2, <1>3, <1>4, <1>5, <1>6, <1>7, <1>8, <1>9 DEF ResourcesNext

(* SelectionsBacked: when a hub takes over a selection of a workflow, it   *)
(* has every pack in it, unless somebody deleted the pack or a hub refused *)
(* it: the upserts travel before the selection on the lane of the workflow *)
(* and no other lane takes a pack away unnoted.                            *)
THEOREM SelectionsBackedHolds == ResourcesSpec => SelectionsBacked
<1> DEFINE Step == \A w \in Workflows : selected'[w] # selected[w] =>
                     \A p \in PacksIn(selected'[w]) : hub[HostOf[w]][p] # None \/ p \in removed
<1>1. ResourcesInit => LanesInv /\ PacksInv
  BY LanesInit, PacksInit
<1>2. LanesInv /\ PacksInv /\ [ResourcesNext]_resourceVars => LanesInv' /\ PacksInv'
  BY LanesStep, PacksStep
<1>3. ASSUME LanesInv, PacksInv, [ResourcesNext]_resourceVars PROVE [Step]_resourceVars
  <2> SUFFICES ASSUME NEW w \in Workflows, selected'[w] # selected[w], ResourcesNext,
                      NEW p \in PacksIn(selected'[w])
               PROVE  hub[HostOf[w]][p] # None \/ p \in removed
    BY <1>3 DEF resourceVars, atHubs
  <2>1. PICK ch \in LaneIds : HubApplies(ch)
    <3>1. selected' # selected
      OBVIOUS
    <3> QED BY <3>1 DEF ResourcesNext, CatalogCall, DropRole, QueueResourceCommand, QueueThenStop,
               PutSelections, PutThenStop, AddTemplate, ApplySelections, ApplyThenStop, HubRefuses,
               HubEdits, Deliver, DeliverThenStop, atHubs
  <2>2. PICK c : c = Head(lanes[ch]) /\ c = lanes[ch][1] /\ 1 \in DOMAIN lanes[ch]
    <3>1. Takes(ch)
      BY <2>1 DEF HubApplies, Takes
    <3> QED BY <1>3, <3>1, Taken DEF LanesInv
  <2>3. c.op = "set_selection" /\ selected' = [selected EXCEPT ![c.of] = c.what]
    BY <2>1, <2>2 DEF HubApplies
  <2>4. ch \in Workflows /\ c.of = ch
    <3>1. Carries(ch, c)
      BY <1>3, <2>2 DEF LanesInv, LanesCarry
    <3> QED BY <3>1, <2>3 DEF Carries
  <2>5. w = ch /\ selected'[w] = c.what
    BY <1>3, <2>3, <2>4 DEF LanesInv, Tables
  <2>6. Arrives(w, 1, p)
    BY <1>3, <2>2, <2>3, <2>4, <2>5 DEF PacksInv, ArriveAt
  <2>7. ~ Brings(lanes[w], 1, p)
    <3>1. DOMAIN lanes[w] \subseteq Nat \ {0}
      <4>1. IsList(lanes[ch])
        BY <1>3 DEF LanesInv, LanesCarry
      <4>2. DOMAIN lanes[ch] = 1 .. Len(lanes[ch]) /\ Len(lanes[ch]) \in Nat
        BY <4>1, ListFacts
      <4> QED BY <4>2, <2>5
    <3> QED BY <3>1 DEF Brings
  <2> QED BY <2>6, <2>7 DEF Arrives
<1> QED BY <1>1, <1>2, <1>3, PTL DEF ResourcesSpec, SelectionsBacked

-----------------------------------------------------------------------------
(* What the hubs report.  Ids tell events apart.                           *)
LEMMA IdsTellApart ==
  ASSUME OneSource, NEW g \in Clients, NEW h \in Clients, NEW m, NEW n, EventId(g, m) = EventId(h, n)
  PROVE  g = h /\ m = n
<1>1. CASE UniqueIds
  <2>1. <<g, m>> = <<h, n>>
    BY <1>1 DEF EventId
  <2> QED BY <2>1
<1>2. CASE ~ UniqueIds
  BY <1>2 DEF EventId, OneSource
<1> QED BY <1>1, <1>2

LEMMA OutboxFacts ==
  ASSUME LanesInv, HubsInv, NEW h \in Clients
  PROVE  /\ Numbered(h) /\ SeenInOrder(h) /\ LastSays(h)
         /\ Len(outbox[h]) \in Nat /\ DOMAIN outbox[h] = 1 .. Len(outbox[h])
         /\ sent[h] \in Nat /\ Len(outbox[h]) <= sent[h]
         /\ DOMAIN hub = Clients /\ DOMAIN hub[h] = Resources /\ DOMAIN outbox = Clients
<1>1. Numbered(h) /\ SeenInOrder(h) /\ LastSays(h)
  BY DEF HubsInv
<1>2. IsList(outbox[h]) /\ Len(outbox[h]) <= sent[h]
  BY <1>1 DEF Numbered
<1>3. sent[h] \in Nat /\ DOMAIN hub = Clients /\ DOMAIN hub[h] = Resources /\ DOMAIN outbox = Clients
  BY DEF LanesInv, Tables
<1> QED BY <1>1, <1>2, <1>3, ListFacts

(* A hub tells of a resource: an event nobody has seen, the last of it.    *)
LEMMA Announced ==
  ASSUME LanesInv, HubsInv, OneSource, NEW h \in Clients, NEW r, NEW content,
         Announce(h, r, content), UNCHANGED seen
  PROVE  /\ \A g \in Clients : Numbered(g)' /\ SeenInOrder(g)' /\ LastSays(g)'
         /\ Unseen(h, r)'
         /\ \A g \in Clients, q \in Resources : Unseen(g, q) => Unseen(g, q)'
         /\ \A g \in Clients, q \in Resources : g # h \/ q # r => hub'[g][q] = hub[g][q]
<1> DEFINE n == Len(outbox[h])
           e == EventOf(h, r, content)
<1>0. /\ Numbered(h) /\ SeenInOrder(h) /\ LastSays(h)
      /\ n \in Nat /\ DOMAIN outbox[h] = 1 .. n /\ sent[h] \in Nat /\ n <= sent[h]
      /\ DOMAIN hub = Clients /\ DOMAIN hub[h] = Resources
  BY OutboxFacts
<1>1. /\ hub' = [hub EXCEPT ![h][r] = content]
      /\ outbox'[h] = Append(outbox[h], e) /\ sent'[h] = sent[h] + 1
      /\ \A g \in Clients : g # h => outbox'[g] = outbox[g] /\ sent'[g] = sent[g] /\ hub'[g] = hub[g]
  BY DEF Announce, LanesInv, Tables
<1>2. e.id = EventId(h, sent[h]) /\ e.of = r /\ e.what = content
  BY DEF EventOf, EventId
<1> HIDE DEF e
<1>3. /\ IsList(outbox'[h]) /\ Len(outbox'[h]) = n + 1 /\ DOMAIN outbox'[h] = 1 .. n + 1
      /\ \A i \in 1 .. n : outbox'[h][i] = outbox[h][i]
      /\ outbox'[h][n + 1] = e
  <2>1. IsList(outbox[h])
    BY <1>0 DEF Numbered
  <2>2. /\ IsList(outbox'[h]) /\ Len(outbox'[h]) = n + 1
        /\ \A i \in 1 .. n : outbox'[h][i] = outbox[h][i]
        /\ outbox'[h][n + 1] = e
    BY <1>1, <2>1, ListAppend
  <2> QED BY <2>2, ListFacts
<1> HIDE DEF n
<1>4. \A i \in 1 .. n + 1 : i \in 1 .. n \/ i = n + 1
  BY <1>0
<1>5. n + 1 \in 1 .. n + 1 /\ \A i \in 1 .. n : i \in 1 .. n + 1 /\ i < n + 1
  BY <1>0
<1>6. Numbered(h)'
  <2>1. ASSUME NEW i \in 1 .. n + 1 PROVE outbox'[h][i].id = EventId(h, sent'[h] - (n + 1) + i - 1)
    <3>1. CASE i \in 1 .. n
      <4>1. outbox[h][i].id = EventId(h, sent[h] - n + i - 1)
        BY <3>1, <1>0 DEF Numbered, n
      <4>2. sent'[h] - (n + 1) + i - 1 = sent[h] - n + i - 1
        BY <3>1, <1>0, <1>1
      <4> QED BY <3>1, <4>1, <4>2, <1>3
    <3>2. CASE i = n + 1
      <4>1. sent'[h] - (n + 1) + i - 1 = sent[h]
        BY <3>2, <1>0, <1>1
      <4> QED BY <3>2, <4>1, <1>2, <1>3
    <3> QED BY <3>1, <3>2, <1>4
  <2>2. n + 1 <= sent'[h]
    BY <1>0, <1>1
  <2> QED BY <2>1, <2>2, <1>3 DEF Numbered, EventId
<1>7. SeenInOrder(h)'
  <2>1. \A k \in Nat : k >= sent'[h] => EventId(h, k) \notin seen
    BY <1>0, <1>1 DEF SeenInOrder
  <2>2. e.id \notin seen
    BY <1>0, <1>2 DEF SeenInOrder
  <2>3. ASSUME NEW i \in 1 .. n + 1, NEW j \in 1 .. n + 1, i < j, outbox'[h][j].id \in seen
        PROVE  outbox'[h][i].id \in seen
    <3>1. j \in 1 .. n
      BY <2>2, <2>3, <1>3, <1>4
    <3>2. i \in 1 .. n
      BY <3>1, <2>3, <1>0
    <3>3. outbox[h][i].id \in seen
      BY <3>1, <3>2, <2>3, <1>0, <1>3 DEF SeenInOrder
    <3> QED BY <3>2, <3>3, <1>3
  <2> QED BY <2>1, <2>3, <1>3 DEF SeenInOrder, EventId
<1>8. LastSays(h)'
  <2> SUFFICES ASSUME NEW q \in Resources, NEW i \in 1 .. n + 1, LastOf(h, q, i)'
               PROVE  outbox'[h][i].what = hub'[h][q]
    BY <1>3 DEF LastSays
  <2>1. outbox'[h][i].of = q /\ \A j \in 1 .. n + 1 : i < j => outbox'[h][j].of # q
    BY <1>3 DEF LastOf
  <2>2. CASE i = n + 1
    <3>1. q = r /\ outbox'[h][i].what = content
      BY <2>1, <2>2, <1>2, <1>3
    <3> QED BY <3>1, <1>0, <1>1
  <2>3. CASE i \in 1 .. n
    <3>1. q # r
      BY <2>1, <2>3, <1>2, <1>3, <1>5
    <3>2. LastOf(h, q, i)
      BY <2>1, <2>3, <1>0, <1>3, <1>5 DEF LastOf
    <3>3. outbox[h][i].what = hub[h][q]
      BY <3>2, <2>3, <1>0 DEF LastSays
    <3> QED BY <3>1, <3>3, <2>3, <1>0, <1>1, <1>3
  <2> QED BY <2>2, <2>3, <1>4
<1>9. \A g \in Clients : g # h => Numbered(g)' /\ SeenInOrder(g)' /\ LastSays(g)'
  <2> TAKE g \in Clients
  <2> HAVE g # h
  <2>1. Numbered(g) /\ SeenInOrder(g) /\ LastSays(g)
    BY OutboxFacts
  <2> QED BY <2>1, <1>1 DEF Numbered, SeenInOrder, LastSays, LastOf, EventId
<1>10. Unseen(h, r)'
  <2>1. e.id \notin seen
    BY <1>0, <1>2 DEF SeenInOrder
  <2> QED BY <2>1, <1>2, <1>3, <1>5 DEF Unseen
<1>11. \A g \in Clients, q \in Resources : Unseen(g, q) => Unseen(g, q)'
  <2> TAKE g \in Clients, q \in Resources
  <2> HAVE Unseen(g, q)
  <2>1. CASE g = h
    BY <2>1, <1>0, <1>3, <1>5 DEF Unseen
  <2>2. CASE g # h
    BY <2>2, <1>1 DEF Unseen
  <2> QED BY <2>1, <2>2
<1>12. \A g \in Clients, q \in Resources : g # h \/ q # r => hub'[g][q] = hub[g][q]
  BY <1>0, <1>1
<1> QED BY <1>6, <1>7, <1>8, <1>9, <1>10, <1>11, <1>12

LEMMA SameOutboxes ==
  ASSUME HubsInv, UNCHANGED <<hub, outbox, sent, seen>>
  PROVE  /\ \A h \in Clients : Numbered(h)' /\ SeenInOrder(h)' /\ LastSays(h)'
         /\ \A h, r : Unseen(h, r)' = Unseen(h, r)
<1>1. \A h \in Clients : Numbered(h) /\ SeenInOrder(h) /\ LastSays(h)
  BY DEF HubsInv
<1> QED BY <1>1 DEF Numbered, SeenInOrder, LastSays, LastOf, EventId, Unseen

LEMMA SameSelections ==
  ASSUME HubsInv, \A w \in Workflows : lanes'[w] = lanes[w], UNCHANGED <<selections, selected, unsure>>
  PROVE  SelectionsFollow'
<1>1. SelectionsFollow
  BY DEF HubsInv
<1> QED BY <1>1 DEF SelectionsFollow, Selects

(* Commands added to a lane: what they change in the mirror is waited for. *)
LEMMA MirrorWaits ==
  ASSUME LanesInv, HubsInv, NEW ch \in LaneIds, NEW cs, IsList(cs), Adds(ch, cs),
         UNCHANGED <<hub, outbox, sent, seen, doubtful>>,
         \A h \in Clients, r \in Resources :
           \/ mirror'[h][r] = mirror[h][r]
           \/ h = HubOf(ch) /\ \E i \in DOMAIN cs : cs[i].of = r
  PROVE  MirrorFollows'
<1> SUFFICES ASSUME NEW h \in Clients, NEW r \in Resources
             PROVE  \/ Waits(h, r)' \/ Unseen(h, r)' \/ <<h, r>> \in doubtful
                    \/ mirror'[h][r] = hub[h][r]
  BY DEF MirrorFollows
<1>0. Tables /\ LanesCarry /\ (Waits(h, r) \/ Unseen(h, r) \/ <<h, r>> \in doubtful \/ mirror[h][r] = hub[h][r])
  BY DEF LanesInv, HubsInv, MirrorFollows
<1>1. Unseen(h, r)' = Unseen(h, r)
  BY SameOutboxes
<1>2. Waits(h, r) => Waits(h, r)'
  <2> HAVE Waits(h, r)
  <2>1. PICK x \in LaneIds : HubOf(x) = h /\ \E i \in DOMAIN lanes[x] : lanes[x][i].of = r
    BY DEF Waits
  <2>2. PICK i \in DOMAIN lanes[x] : lanes[x][i].of = r
    BY <2>1
  <2>3. i \in DOMAIN lanes'[x] /\ lanes'[x][i] = lanes[x][i]
    <3>1. CASE x = ch
      BY <1>0, <3>1, <2>2, Added
    <3>2. CASE x # ch
      BY <1>0, <3>2, <2>2, Added
    <3> QED BY <3>1, <3>2
  <2>4. HubOf(x)' = h
    BY <2>1 DEF HubOf
  <2> QED BY <2>1, <2>2, <2>3, <2>4 DEF Waits, HubOf
<1>3. ASSUME h = HubOf(ch), NEW i \in DOMAIN cs, cs[i].of = r
      PROVE  Waits(h, r)'
  <2>1. Len(lanes[ch]) + i \in DOMAIN lanes'[ch] /\ lanes'[ch][Len(lanes[ch]) + i] = cs[i]
    BY <1>0, Added
  <2>2. PICK k : k = Len(lanes[ch]) + i
    OBVIOUS
  <2>3. k \in DOMAIN lanes'[ch] /\ lanes'[ch][k].of = r
    BY <1>3, <2>1, <2>2
  <2> QED BY <1>3, <2>3 DEF Waits, HubOf
<1> QED BY <1>0, <1>1, <1>2, <1>3

(* A command taken from a lane: whatever waited is still waited for, but   *)
(* what that command was about.                                            *)
LEMMA StillWaits ==
  ASSUME LanesInv, NEW ch \in LaneIds, Takes(ch), NEW h \in Clients, NEW r \in Resources, Waits(h, r)
  PROVE  Waits(h, r)' \/ (h = HubOf(ch) /\ lanes[ch][1].of = r)
<1>0. Tables /\ LanesCarry
  BY DEF LanesInv
<1>1. PICK x \in LaneIds : HubOf(x) = h /\ \E i \in DOMAIN lanes[x] : lanes[x][i].of = r
  BY DEF Waits
<1>2. PICK i \in DOMAIN lanes[x] : lanes[x][i].of = r
  BY <1>1
<1>3. CASE x # ch
  <2>1. lanes'[x] = lanes[x]
    BY <1>0, <1>3, Taken
  <2> QED BY <2>1, <1>1, <1>2 DEF Waits, HubOf
<1>4. CASE x = ch /\ i = 1
  BY <1>1, <1>2, <1>4
<1>5. CASE x = ch /\ i # 1
  <2>1. i - 1 \in DOMAIN lanes'[x] /\ lanes'[x][i - 1] = lanes[x][i]
    BY <1>0, <1>2, <1>5, Taken
  <2>2. PICK k : k = i - 1
    OBVIOUS
  <2> QED BY <2>1, <2>2, <1>1, <1>2 DEF Waits, HubOf
<1> QED BY <1>3, <1>4, <1>5

(* The lanes of the workflows, when one of them loses its head.            *)
LEMMA TakenSelects ==
  ASSUME LanesInv, HubsInv, NEW ch \in LaneIds, Takes(ch), UNCHANGED selections, NEW w \in Workflows
  PROVE  \/ w \in unsure
         \/ lanes'[w] # << >> /\ Selects(lanes[w], w) /\ Selects(lanes[w], w)'
         \/ w # ch /\ lanes'[w] = << >> /\ lanes[w] = << >> /\ selected[w] = selections[w]
         \/ w = ch /\ lanes'[w] = << >> /\ Selects(<<lanes[w][1]>>, w)
<1>0. Tables /\ LanesCarry /\ w \in LaneIds
  BY LaneKinds DEF LanesInv
<1>1. CASE w \in unsure
  BY <1>1
<1>2. CASE w # ch /\ w \notin unsure
  <2>1. lanes'[w] = lanes[w]
    BY <1>0, <1>2, Taken
  <2> QED BY <1>2, <2>1 DEF HubsInv, SelectionsFollow, Selects
<1>3. CASE w = ch /\ w \notin unsure
  <2> DEFINE s == lanes[w]  t == lanes'[w]  n == Len(s)
  <2>1. /\ n \in Nat \ {0} /\ IsList(t) /\ Len(t) = n - 1 /\ DOMAIN s = 1 .. n
        /\ \A i \in DOMAIN s : i # 1 => i - 1 \in DOMAIN t /\ t[i - 1] = s[i]
    BY <1>0, <1>3, Taken
  <2>2. s[n].op = "set_selection" /\ s[n].what = selections[w]
    <3>1. s # << >>
      BY <1>3 DEF Takes
    <3> QED BY <3>1, <1>3 DEF HubsInv, SelectionsFollow, Selects
  <2>3. CASE n = 1
    <3>1. t = << >>
      BY <2>1, <2>3, ListFacts
    <3> QED BY <3>1, <1>3, <2>2, <2>3 DEF Selects
  <2>4. CASE n # 1
    <3> HIDE DEF s, t, n
    <3>1. t # << >>
      <4>1. Len(t) # 0
        BY <2>1, <2>4
      <4> QED BY <2>1, <4>1, ListFacts
    <3>2. t[Len(t)] = s[n]
      <4>1. n \in DOMAIN s
        BY <2>1
      <4> QED BY <2>1, <2>4, <4>1
    <3> USE DEF s, t, n
    <3> QED BY <3>1, <3>2, <2>1, <2>2 DEF Selects
  <2> QED BY <2>3, <2>4
<1> QED BY <1>1, <1>2, <1>3

-----------------------------------------------------------------------------
(* Every step keeps what is known of the hubs.                             *)
LEMMA HubsInit ==
  ASSUME ResourcesInit
  PROVE  HubsInv
<1>1. IsList(<< >>) /\ DOMAIN << >> = {} /\ Len(<< >>) = 0
  BY EmptyIsList
<1>2. \A h \in Clients : outbox[h] = << >> /\ sent[h] = 0
  BY DEF ResourcesInit
<1>3. \A h \in Clients : Numbered(h) /\ SeenInOrder(h) /\ LastSays(h)
  BY <1>1, <1>2 DEF ResourcesInit, Numbered, SeenInOrder, LastSays
<1>4. MirrorFollows
  BY DEF ResourcesInit, MirrorFollows
<1>5. SelectionsFollow
  BY LaneKinds DEF ResourcesInit, SelectionsFollow
<1> QED BY <1>3, <1>4, <1>5 DEF HubsInv

LEMMA HubsStutter ==
  ASSUME HubsInv,
         UNCHANGED <<selections, lanes, mirror, seen, hub, selected, outbox, sent, doubtful, unsure>>
  PROVE  HubsInv'
<1>1. \A h \in Clients : Numbered(h)' /\ SeenInOrder(h)' /\ LastSays(h)'
  BY SameOutboxes
<1>2. MirrorFollows'
  <2>1. MirrorFollows
    BY DEF HubsInv
  <2> QED BY <2>1 DEF MirrorFollows, Waits, Unseen, HubOf
<1>3. SelectionsFollow'
  BY SameSelections
<1> QED BY <1>1, <1>2, <1>3 DEF HubsInv

LEMMA HubsAtCommand ==
  ASSUME LanesInv, HubsInv, NEW h \in Clients, NEW c \in ResourceCommands,
         QueueResourceCommand(h, c) \/ QueueThenStop(h, c)
  PROVE  HubsInv'
<1> DEFINE ch == ChannelOf(h, c.of)
           one == <<c>>
<1>0. Tables /\ LanesCarry
  BY DEF LanesInv
<1>1. /\ StoreCommand(h, c)
      /\ UNCHANGED <<selections, seen, hub, selected, outbox, sent, doubtful, unsure>>
      /\ mirror' = mirror \/ (~ Remembered(h, c) /\ mirror' = [mirror EXCEPT ![h][c.of] = c.what])
  BY DEF QueueResourceCommand, QueueThenStop, MirrorsCommand, atHubs
<1>2. CASE Remembered(h, c)
  BY <1>1, <1>2, HubsStutter DEF StoreCommand
<1>3. CASE ~ Remembered(h, c)
  <2>1. c.of \in Resources /\ KindOf[c.of] \in Kinds
    BY ResourceCommandIs, LaneKinds
  <2>2. ch \in LaneIds /\ ch \notin Workflows /\ HubOf(ch) = h
    BY <2>1, LaneKinds DEF ChannelOf
  <2>3. Adds(ch, one)
    BY <1>1, <1>3 DEF StoreCommand, Enqueued, Adds
  <2>4. IsList(one) /\ 1 \in DOMAIN one /\ one[1] = c
    BY OneIsList, ListFacts
  <2> HIDE DEF ch, one
  <2>5. \A g \in Clients, r \in Resources :
          \/ mirror'[g][r] = mirror[g][r]
          \/ g = HubOf(ch) /\ \E i \in DOMAIN one : one[i].of = r
    <3> TAKE g \in Clients, r \in Resources
    <3>1. CASE g = h /\ r = c.of
      BY <3>1, <2>2, <2>4
    <3>2. CASE ~(g = h /\ r = c.of)
      BY <3>2, <1>0, <1>1, <2>1 DEF Tables
    <3> QED BY <3>1, <3>2
  <2>6. MirrorFollows'
    BY <1>1, <2>2, <2>3, <2>4, <2>5, MirrorWaits
  <2>7. \A w \in Workflows : lanes'[w] = lanes[w]
    BY <1>0, <2>2, <2>3, <2>4, Added, LaneKinds
  <2>8. SelectionsFollow'
    BY <1>1, <2>7, SameSelections
  <2>9. \A g \in Clients : Numbered(g)' /\ SeenInOrder(g)' /\ LastSays(g)'
    BY <1>1, SameOutboxes
  <2> QED BY <2>6, <2>8, <2>9 DEF HubsInv
<1> QED BY <1>2, <1>3

LEMMA MirroredElsewhere ==
  ASSUME LanesInv, NEW h \in Clients, NEW shipped, NEW g \in Clients, NEW r \in Resources,
         g # h \/ \A i \in DOMAIN shipped : shipped[i].of # r
  PROVE  Mirrored(h, shipped)[g][r] = mirror[g][r]
<1> DEFINE about == {c \in ToSet(shipped) : c.of = r}
<1>1. DOMAIN mirror = Clients
  BY DEF LanesInv, Tables
<1>2. CASE g # h
  BY <1>1, <1>2 DEF Mirrored
<1>3. CASE g = h /\ \A i \in DOMAIN shipped : shipped[i].of # r
  <2>1. about = {}
    BY <1>3 DEF ToSet
  <2>2. Mirrored(h, shipped)[h][r] = IF about = {} THEN mirror[h][r] ELSE (CHOOSE c \in about : TRUE).what
    BY <1>1 DEF Mirrored
  <2> QED BY <2>1, <2>2, <1>3
<1> QED BY <1>2, <1>3

LEMMA HubsAtSelection ==
  ASSUME LanesInv, HubsInv, NEW w \in Workflows, NEW sels, IsList(sels),
         \/ ApplySelections(w, sels, sels)
         \/ \E n \in 0 .. 2 : ApplyThenStop(w, sels, n),
         UNCHANGED <<hub, selected, outbox, sent>>
  PROVE  HubsInv'
<1>0. Tables /\ LanesCarry
  BY DEF LanesInv
<1>1. w \in LaneIds /\ HubOf(w) \in Clients /\ HubOf(w) = HostOf[w]
  BY LaneKinds
<1>2. /\ UNCHANGED <<seen, doubtful>>
      /\ selections' = [selections EXCEPT ![w] = sels]
  BY DEF ApplySelections, ApplyThenStop
<1>3. \A g \in Clients : Numbered(g)' /\ SeenInOrder(g)' /\ LastSays(g)'
  BY <1>2, SameOutboxes
<1>4. SelectionsFollow /\ DOMAIN selections = Workflows
  BY <1>0 DEF HubsInv, Tables
<1>5. CASE ApplySelections(w, sels, sels)
  <2> DEFINE ship == Shipment(sels)
             all == ship \o <<SetSelection(w, sels)>>
  <2>1. Adds(w, all) /\ mirror' = Mirrored(HostOf[w], ship) /\ unsure' = unsure \ {w}
    BY <1>5 DEF ApplySelections, Queued, Enqueued, Adds
  <2>2. /\ IsList(all) /\ Len(all) \in Nat \ {0} /\ all[Len(all)] = SetSelection(w, sels)
        /\ Len(ship) \in Nat /\ DOMAIN ship = 1 .. Len(ship)
        /\ Len(all) = Len(ship) + 1 /\ DOMAIN all = 1 .. Len(all)
        /\ \A i \in DOMAIN ship : all[i] = ship[i]
    BY ShipmentCarried
  <2> HIDE DEF ship, all
  <2>3. \A g \in Clients, r \in Resources :
          \/ mirror'[g][r] = mirror[g][r]
          \/ g = HubOf(w) /\ \E i \in DOMAIN all : all[i].of = r
    <3> TAKE g \in Clients, r \in Resources
    <3>1. CASE g = HostOf[w] /\ \E i \in DOMAIN ship : ship[i].of = r
      <4>1. PICK i \in DOMAIN ship : ship[i].of = r
        BY <3>1
      <4>2. i \in DOMAIN all /\ all[i] = ship[i]
        BY <2>2
      <4> QED BY <3>1, <4>1, <4>2, <1>1
    <3>2. CASE g # HostOf[w] \/ \A i \in DOMAIN ship : ship[i].of # r
      BY <3>2, <1>1, <2>1, MirroredElsewhere
    <3> QED BY <3>1, <3>2
  <2>4. MirrorFollows'
    BY <1>1, <1>2, <2>1, <2>2, <2>3, MirrorWaits
  <2>5. /\ \A x \in LaneIds : x # w => lanes'[x] = lanes[x]
        /\ Len(lanes'[w]) = Len(lanes[w]) + Len(all) /\ Len(lanes[w]) \in Nat /\ IsList(lanes'[w])
        /\ \A i \in DOMAIN all : lanes'[w][Len(lanes[w]) + i] = all[i]
    BY <1>0, <1>1, <2>1, <2>2, Added
  <2>6. lanes'[w] # << >> /\ lanes'[w][Len(lanes'[w])] = SetSelection(w, sels)
    <3>1. Len(all) \in DOMAIN all
      BY <2>2
    <3>2. lanes'[w][Len(lanes'[w])] = all[Len(all)]
      BY <3>1, <2>5
    <3>3. Len(lanes'[w]) # 0
      <4>1. \A a, b \in Nat : b # 0 => a + b # 0
        OBVIOUS
      <4> QED BY <4>1, <2>2, <2>5
    <3> QED BY <3>2, <3>3, <2>2, <2>5, ListFacts
  <2>7. Selects(lanes[w], w)'
    BY <2>6, <1>2, <1>4 DEF Selects, SetSelection
  <2>8. SelectionsFollow'
    <3> SUFFICES ASSUME NEW v \in Workflows, v # w
                 PROVE  \/ v \in unsure'
                        \/ lanes'[v] = << >> /\ selected[v] = selections'[v]
                        \/ lanes'[v] # << >> /\ Selects(lanes[v], v)'
      BY <2>6, <2>7 DEF SelectionsFollow
    <3>1. lanes'[v] = lanes[v] /\ selections'[v] = selections[v] /\ (v \in unsure => v \in unsure')
      BY <1>2, <1>4, <2>1, <2>5, LaneKinds
    <3> QED BY <3>1, <1>4 DEF SelectionsFollow, Selects
  <2> QED BY <1>3, <2>4, <2>8 DEF HubsInv
<1>6. CASE \E n \in 0 .. 2 : ApplyThenStop(w, sels, n)
  <2>1. PICK n \in 0 .. 2 : ApplyThenStop(w, sels, n)
    BY <1>6
  <2> DEFINE ship == Shipment(sels)
             part == SubSeq(ship, 1, n)
             less == SubSeq(ship, 1, n - 1)
  <2>2. /\ Adds(w, part) /\ mirror' = Mirrored(HostOf[w], less) /\ unsure' = unsure \cup {w}
        /\ n \in Nat /\ n <= Len(ship)
    BY <2>1 DEF ApplyThenStop, Enqueued, Adds
  <2>3. /\ IsList(part) /\ DOMAIN part = 1 .. n
        /\ \A i \in DOMAIN part : i \in DOMAIN ship /\ part[i] = ship[i]
    BY <2>2, PartCarried
  <2>4. \A i \in DOMAIN less : i \in DOMAIN part /\ part[i] = less[i]
    <3>1. CASE n = 0
      <4>1. DOMAIN less = 1 .. (n - 1)
        BY <2>2, <3>1 DEF less
      <4> QED BY <3>1, <4>1
    <3>2. CASE n # 0
      <4>1. n - 1 \in Nat /\ n - 1 <= Len(ship)
        <5>1. Len(ship) \in Nat
          BY ShipmentIs, ListFacts
        <5> QED BY <3>2, <2>2, <5>1
      <4>2. DOMAIN less = 1 .. (n - 1) /\ \A i \in DOMAIN less : less[i] = ship[i]
        BY <4>1, PartCarried
      <4> HIDE DEF less, part, ship
      <4>3. \A i \in 1 .. (n - 1) : i \in 1 .. n
        BY <2>2
      <4> QED BY <4>2, <4>3, <2>3
    <3> QED BY <3>1, <3>2
  <2> HIDE DEF ship, part, less
  <2>5. \A g \in Clients, r \in Resources :
          \/ mirror'[g][r] = mirror[g][r]
          \/ g = HubOf(w) /\ \E i \in DOMAIN part : part[i].of = r
    <3> TAKE g \in Clients, r \in Resources
    <3>1. CASE g = HostOf[w] /\ \E i \in DOMAIN less : less[i].of = r
      <4>1. PICK i \in DOMAIN less : less[i].of = r
        BY <3>1
      <4> QED BY <3>1, <4>1, <2>4, <1>1
    <3>2. CASE g # HostOf[w] \/ \A i \in DOMAIN less : less[i].of # r
      BY <3>2, <1>1, <2>2, MirroredElsewhere
    <3> QED BY <3>1, <3>2
  <2>6. MirrorFollows'
    BY <1>1, <1>2, <2>2, <2>3, <2>5, MirrorWaits
  <2>7. \A x \in LaneIds : x # w => lanes'[x] = lanes[x]
    BY <1>0, <1>1, <2>2, <2>3, Added
  <2>8. SelectionsFollow'
    <3> SUFFICES ASSUME NEW v \in Workflows, v # w
                 PROVE  \/ v \in unsure'
                        \/ lanes'[v] = << >> /\ selected[v] = selections'[v]
                        \/ lanes'[v] # << >> /\ Selects(lanes[v], v)'
      BY <2>2 DEF SelectionsFollow
    <3>1. lanes'[v] = lanes[v] /\ selections'[v] = selections[v] /\ (v \in unsure => v \in unsure')
      BY <1>2, <1>4, <2>2, <2>7, LaneKinds
    <3> QED BY <3>1, <1>4 DEF SelectionsFollow, Selects
  <2> QED BY <1>3, <2>6, <2>8 DEF HubsInv
<1> QED BY <1>5, <1>6

LEMMA HubsAtTaking ==
  ASSUME LanesInv, HubsInv, OneSource, NEW ch \in LaneIds, HubApplies(ch) \/ HubRefuses(ch)
  PROVE  HubsInv'
<1>c. PICK c : c = lanes[ch][1]
  OBVIOUS
<1>0. Tables /\ LanesCarry /\ MirrorFollows
  BY DEF LanesInv, HubsInv
<1>1. Takes(ch) /\ UNCHANGED <<selections, mirror, seen>>
  BY DEF HubApplies, HubRefuses, Takes
<1>2. Head(lanes[ch]) = c /\ Carries(ch, c)
  BY <1>0, <1>1, <1>c, Taken DEF LanesCarry
<1>3. HubOf(ch) \in Clients
  BY LaneKinds
<1>4. c.op = "set_selection" => ch \in Workflows /\ c.of = ch /\ c.of \notin Resources
  BY <1>2, LaneKinds DEF Carries
<1>5. CASE HubRefuses(ch)
  <2>1. /\ UNCHANGED <<hub, selected, outbox, sent>>
        /\ IF c.op = "set_selection"
           THEN unsure' = unsure \cup {c.of} /\ UNCHANGED doubtful
           ELSE doubtful' = doubtful \cup {<<HubOf(ch), c.of>>} /\ UNCHANGED unsure
    BY <1>2, <1>5 DEF HubRefuses, atHubs
  <2>2. \A g \in Clients : Numbered(g)' /\ SeenInOrder(g)' /\ LastSays(g)'
    BY <1>1, <2>1, SameOutboxes
  <2>3. MirrorFollows'
    <3> SUFFICES ASSUME NEW h \in Clients, NEW r \in Resources
                 PROVE  \/ Waits(h, r)' \/ Unseen(h, r)' \/ <<h, r>> \in doubtful'
                        \/ mirror[h][r] = hub[h][r]
      BY <1>1, <2>1 DEF MirrorFollows
    <3>1. Waits(h, r) \/ Unseen(h, r) \/ <<h, r>> \in doubtful \/ mirror[h][r] = hub[h][r]
      BY <1>0 DEF MirrorFollows
    <3>2. Unseen(h, r) => Unseen(h, r)'
      BY <1>1, <2>1, SameOutboxes
    <3>3. Waits(h, r) => Waits(h, r)' \/ (h = HubOf(ch) /\ c.of = r)
      BY <1>1, <1>c, StillWaits
    <3>4. h = HubOf(ch) /\ c.of = r => <<h, r>> \in doubtful'
      BY <1>4, <2>1
    <3>5. <<h, r>> \in doubtful => <<h, r>> \in doubtful'
      BY <2>1
    <3> QED BY <3>1, <3>2, <3>3, <3>4, <3>5
  <2>4. SelectionsFollow'
    <3> SUFFICES ASSUME NEW w \in Workflows
                 PROVE  \/ w \in unsure'
                        \/ lanes'[w] = << >> /\ selected[w] = selections[w]
                        \/ lanes'[w] # << >> /\ Selects(lanes[w], w)'
      BY <1>1, <2>1 DEF SelectionsFollow
    <3>1. w \in unsure => w \in unsure'
      BY <2>1
    <3>2. CASE w = ch /\ Selects(<<lanes[w][1]>>, w)
      <4>1. c.op = "set_selection"
        BY <3>2, <1>c DEF Selects
      <4> QED BY <4>1, <3>2, <1>4, <2>1
    <3> QED BY <3>1, <3>2, <1>1, TakenSelects
  <2> QED BY <2>2, <2>3, <2>4 DEF HubsInv
<1>6. CASE HubApplies(ch) /\ c.op = "set_selection"
  <2>1. UNCHANGED <<hub, outbox, sent, doubtful, unsure>> /\ selected' = [selected EXCEPT ![c.of] = c.what]
    BY <1>2, <1>6 DEF HubApplies
  <2>2. \A g \in Clients : Numbered(g)' /\ SeenInOrder(g)' /\ LastSays(g)'
    BY <1>1, <2>1, SameOutboxes
  <2>3. MirrorFollows'
    <3> SUFFICES ASSUME NEW h \in Clients, NEW r \in Resources
                 PROVE  \/ Waits(h, r)' \/ Unseen(h, r)' \/ <<h, r>> \in doubtful
                        \/ mirror[h][r] = hub[h][r]
      BY <1>1, <2>1 DEF MirrorFollows
    <3>1. Waits(h, r) \/ Unseen(h, r) \/ <<h, r>> \in doubtful \/ mirror[h][r] = hub[h][r]
      BY <1>0 DEF MirrorFollows
    <3>2. Unseen(h, r) => Unseen(h, r)'
      BY <1>1, <2>1, SameOutboxes
    <3>3. Waits(h, r) => Waits(h, r)'
      BY <1>1, <1>c, <1>4, <1>6, StillWaits
    <3> QED BY <3>1, <3>2, <3>3
  <2>4. SelectionsFollow'
    <3> SUFFICES ASSUME NEW w \in Workflows
                 PROVE  \/ w \in unsure
                        \/ lanes'[w] = << >> /\ selected'[w] = selections[w]
                        \/ lanes'[w] # << >> /\ Selects(lanes[w], w)'
      BY <1>1, <2>1 DEF SelectionsFollow
    <3>1. DOMAIN selected = Workflows
      BY <1>0 DEF Tables
    <3>2. CASE w = ch /\ lanes'[w] = << >> /\ Selects(<<lanes[w][1]>>, w)
      <4>1. c.what = selections[w]
        BY <3>2, <1>c DEF Selects
      <4>2. selected'[w] = c.what
        BY <3>1, <3>2, <1>4, <1>6, <2>1
      <4> QED BY <4>1, <4>2, <3>2
    <3>3. w # ch => selected'[w] = selected[w]
      BY <3>1, <1>4, <1>6, <2>1
    <3> QED BY <3>2, <3>3, <1>1, TakenSelects
  <2> QED BY <2>2, <2>3, <2>4 DEF HubsInv
<1>7. CASE HubApplies(ch) /\ c.op # "set_selection"
  <2>1. Announce(HubOf(ch), c.of, c.what) /\ UNCHANGED <<selected, doubtful, unsure>>
    BY <1>2, <1>7 DEF HubApplies
  <2>2. PICK h0, r0, content : h0 \in Clients /\ h0 = HubOf(ch) /\ r0 = c.of /\ content = c.what
    BY <1>3
  <2>3. /\ \A g \in Clients : Numbered(g)' /\ SeenInOrder(g)' /\ LastSays(g)'
        /\ Unseen(h0, r0)'
        /\ \A g \in Clients, q \in Resources : Unseen(g, q) => Unseen(g, q)'
        /\ \A g \in Clients, q \in Resources : g # h0 \/ q # r0 => hub'[g][q] = hub[g][q]
    <3>1. Announce(h0, r0, content)
      BY <2>1, <2>2
    <3> QED BY <3>1, <1>1, <2>2, Announced
  <2>4. MirrorFollows'
    <3> SUFFICES ASSUME NEW h \in Clients, NEW r \in Resources
                 PROVE  \/ Waits(h, r)' \/ Unseen(h, r)' \/ <<h, r>> \in doubtful
                        \/ mirror[h][r] = hub'[h][r]
      BY <1>1, <2>1 DEF MirrorFollows
    <3>1. CASE h = h0 /\ r = r0
      BY <3>1, <2>3
    <3>2. CASE ~(h = h0 /\ r = r0)
      <4>1. Waits(h, r) \/ Unseen(h, r) \/ <<h, r>> \in doubtful \/ mirror[h][r] = hub[h][r]
        BY <1>0 DEF MirrorFollows
      <4>2. Waits(h, r) => Waits(h, r)'
        BY <1>1, <1>c, <2>2, <3>2, StillWaits
      <4> QED BY <4>1, <4>2, <3>2, <2>3
    <3> QED BY <3>1, <3>2
  <2>5. SelectionsFollow'
    <3> SUFFICES ASSUME NEW w \in Workflows
                 PROVE  \/ w \in unsure
                        \/ lanes'[w] = << >> /\ selected[w] = selections[w]
                        \/ lanes'[w] # << >> /\ Selects(lanes[w], w)'
      BY <1>1, <2>1 DEF SelectionsFollow
    <3>1. ~(w = ch /\ Selects(<<lanes[w][1]>>, w))
      BY <1>c, <1>7 DEF Selects
    <3> QED BY <3>1, <1>1, TakenSelects
  <2> QED BY <2>3, <2>4, <2>5 DEF HubsInv
<1> QED BY <1>5, <1>6, <1>7

LEMMA HubsAtEdit ==
  ASSUME LanesInv, HubsInv, OneSource, NEW h0 \in Clients, NEW r0 \in Locals, NEW content,
         HubEdits(h0, r0, content)
  PROVE  HubsInv'
<1>1. /\ Announce(h0, r0, content)
      /\ UNCHANGED <<selections, lanes, mirror, seen, selected, doubtful, unsure>>
  BY DEF HubEdits, queues, history
<1>2. /\ \A g \in Clients : Numbered(g)' /\ SeenInOrder(g)' /\ LastSays(g)'
      /\ Unseen(h0, r0)'
      /\ \A g \in Clients, q \in Resources : Unseen(g, q) => Unseen(g, q)'
      /\ \A g \in Clients, q \in Resources : g # h0 \/ q # r0 => hub'[g][q] = hub[g][q]
  BY <1>1, Announced
<1>3. MirrorFollows'
  <2> SUFFICES ASSUME NEW h \in Clients, NEW r \in Resources
               PROVE  \/ Waits(h, r)' \/ Unseen(h, r)' \/ <<h, r>> \in doubtful
                      \/ mirror[h][r] = hub'[h][r]
    BY <1>1 DEF MirrorFollows
  <2>1. Waits(h, r) \/ Unseen(h, r) \/ <<h, r>> \in doubtful \/ mirror[h][r] = hub[h][r]
    BY DEF HubsInv, MirrorFollows
  <2>2. Waits(h, r) => Waits(h, r)'
    BY <1>1 DEF Waits, HubOf
  <2> QED BY <2>1, <2>2, <1>2
<1>4. SelectionsFollow'
  BY <1>1, SameSelections
<1> QED BY <1>2, <1>3, <1>4 DEF HubsInv

-----------------------------------------------------------------------------
(* What the server stores of an outbox: its first n events.                *)
LEMMA GreatestNat ==
  ASSUME NEW n \in Nat, NEW S \in SUBSET (1 .. n), S # {}
  PROVE  Max(S) \in S /\ \A i \in S : i <= Max(S)
<1> DEFINE T == {n - i : i \in S}
<1>1. T \in SUBSET Nat /\ T # {}
  <2>1. \A i \in S : n - i \in Nat
    OBVIOUS
  <2>2. T \subseteq Nat
    BY <2>1
  <2>3. T # {}
    OBVIOUS
  <2> QED BY <2>2, <2>3
<1>2. PICK m \in T : \A k \in T : m <= k
  <2> HIDE DEF T
  <2> QED BY <1>1, LeastNat
<1>3. PICK x \in S : m = n - x
  BY <1>2
<1>4. \A i \in S : x >= i
  <2> TAKE i \in S
  <2>1. n - i \in T
    OBVIOUS
  <2>2. n - x <= n - i
    BY <2>1, <1>2, <1>3
  <2> QED BY <2>2
<1>5. \E y \in S : \A i \in S : y >= i
  BY <1>4
<1>6. Max(S) \in S /\ \A i \in S : Max(S) >= i
  BY <1>5 DEF Max
<1>7. \A i \in S : i \in Int
  OBVIOUS
<1> QED BY <1>6, <1>7

(* The mirror of a resource after events of its hub were stored, the last  *)
(* of them mirrored (k = n) or about something else.                       *)
LEMMA MirroredEvents ==
  ASSUME LanesInv, HubsInv, NEW h \in Clients, NEW r \in Resources,
         NEW n \in 1 .. Len(outbox[h]), NEW k \in Nat,
         k = n \/ (k = n - 1 /\ outbox[h][n].of # r),
         mirror' = MirrorEvents(h, Inserted(h, k)),
         \A i \in DOMAIN outbox[h] : n < i /\ outbox[h][i].of = r => outbox[h][i].id \in seen
  PROVE  \/ mirror'[h][r] = hub[h][r]
         \/ /\ mirror'[h][r] = mirror[h][r] /\ ~ Unseen(h, r)
            /\ \A i \in Inserted(h, k) : outbox[h][i].of # r
<1> DEFINE about == {i \in Inserted(h, k) : outbox[h][i].of = r}
           len == Len(outbox[h])
<1>0. len \in Nat /\ DOMAIN outbox[h] = 1 .. len /\ SeenInOrder(h) /\ LastSays(h)
  BY OutboxFacts
<1>1. mirror'[h][r] = IF about = {} THEN mirror[h][r] ELSE outbox[h][Max(about)].what
  BY DEF MirrorEvents, LanesInv, Tables
<1>2. \A i : i \in about <=> i \in 1 .. k /\ outbox[h][i].id \notin seen /\ outbox[h][i].of = r
  BY DEF Inserted
<1>3. n \in 1 .. len /\ k <= n
  BY <1>0
<1>4. ASSUME NEW i \in 1 .. len, outbox[h][i].of = r, outbox[h][i].id \notin seen
      PROVE  i \in about
  <2>1. ~(n < i)
    BY <1>0, <1>4
  <2>2. i \in 1 .. k
    BY <2>1, <1>0, <1>3, <1>4
  <2> QED BY <2>2, <1>2, <1>4
<1> HIDE DEF about, len
<1>5. CASE about = {}
  <2>1. ~ Unseen(h, r)
    BY <1>0, <1>4, <1>5 DEF Unseen
  <2>2. \A i \in Inserted(h, k) : outbox[h][i].of # r
    BY <1>5 DEF about
  <2> QED BY <1>1, <1>5, <2>1, <2>2
<1>6. CASE about # {}
  <2>1. about \in SUBSET (1 .. k)
    BY <1>2
  <2>2. Max(about) \in about /\ \A i \in about : i <= Max(about)
    BY <2>1, <1>6, GreatestNat
  <2>3. PICK m : m = Max(about)
    OBVIOUS
  <2>4. m \in 1 .. len /\ outbox[h][m].id \notin seen /\ outbox[h][m].of = r
    BY <2>2, <2>3, <1>0, <1>2, <1>3
  <2>5. ASSUME NEW j \in 1 .. len, m < j PROVE outbox[h][j].of # r
    <3> SUFFICES ASSUME outbox[h][j].of = r PROVE FALSE
      OBVIOUS
    <3>1. outbox[h][j].id \notin seen
      BY <2>4, <2>5, <1>0 DEF SeenInOrder
    <3>2. j <= m
      BY <3>1, <2>2, <2>3, <1>4
    <3> QED BY <3>2, <2>4, <2>5
  <2>6. LastOf(h, r, m)
    BY <2>4, <2>5, <1>0 DEF LastOf
  <2>7. outbox[h][m].what = hub[h][r]
    BY <2>4, <2>6, <1>0 DEF LastSays
  <2> QED BY <2>3, <2>7, <1>1, <1>6
<1> QED BY <1>5, <1>6

(* The ids of the first n events, and of no others, are seen now.          *)
LEMMA SeenNow ==
  ASSUME LanesInv, HubsInv, OneSource, NEW h \in Clients, NEW n \in 1 .. Len(outbox[h]),
         seen' = seen \cup IdsOf(h, n), NEW g \in Clients
  PROVE  /\ \A k \in Nat : k >= sent[g] => EventId(g, k) \notin seen'
         /\ \A i \in DOMAIN outbox[g] :
              outbox[g][i].id \in seen' <=> outbox[g][i].id \in seen \/ (g = h /\ i <= n)
<1> DEFINE len == Len(outbox[h])
           at(x, i) == sent[x] - Len(outbox[x]) + i - 1
<1>0. /\ len \in Nat /\ DOMAIN outbox[h] = 1 .. len /\ Numbered(h)
      /\ Len(outbox[g]) \in Nat /\ DOMAIN outbox[g] = 1 .. Len(outbox[g]) /\ Numbered(g) /\ SeenInOrder(g)
      /\ sent[h] \in Nat /\ sent[g] \in Nat /\ len <= sent[h] /\ Len(outbox[g]) <= sent[g]
  BY OutboxFacts
<1>1. \A i \in 1 .. len : outbox[h][i].id = EventId(h, at(h, i))
  BY <1>0 DEF Numbered
<1>2. \A i \in DOMAIN outbox[g] : outbox[g][i].id = EventId(g, at(g, i))
  BY <1>0 DEF Numbered
<1>3. n \in 1 .. len /\ \A i \in 1 .. n : i \in 1 .. len /\ at(h, i) < sent[h]
  BY <1>0
<1> HIDE DEF len, at
<1>4. \A k \in Nat : k >= sent[g] => EventId(g, k) \notin seen'
  <2> TAKE k \in Nat
  <2> HAVE k >= sent[g]
  <2>1. EventId(g, k) \notin seen
    BY <1>0 DEF SeenInOrder
  <2>2. ASSUME NEW i \in 1 .. n, EventId(g, k) = outbox[h][i].id PROVE FALSE
    <3>1. EventId(g, k) = EventId(h, at(h, i))
      BY <2>2, <1>1, <1>3
    <3>2. g = h /\ k = at(h, i)
      BY <3>1, IdsTellApart
    <3>3. at(h, i) < sent[h]
      BY <1>3
    <3> QED BY <3>2, <3>3, <1>0
  <2> QED BY <2>1, <2>2 DEF IdsOf
<1>5. ASSUME NEW i \in DOMAIN outbox[g]
      PROVE  outbox[g][i].id \in IdsOf(h, n) <=> g = h /\ i <= n
  <2>1. ASSUME g = h, i <= n PROVE outbox[g][i].id \in IdsOf(h, n)
    <3>1. i \in 1 .. n
      BY <2>1, <1>0, <1>3
    <3> QED BY <3>1, <2>1 DEF IdsOf
  <2>2. ASSUME outbox[g][i].id \in IdsOf(h, n) PROVE g = h /\ i <= n
    <3>1. PICK j \in 1 .. n : outbox[g][i].id = outbox[h][j].id
      BY <2>2 DEF IdsOf
    <3>2. EventId(g, at(g, i)) = EventId(h, at(h, j))
      BY <3>1, <1>1, <1>2, <1>3
    <3>3. g = h /\ at(g, i) = at(h, j)
      BY <3>2, IdsTellApart
    <3>4. i \in Nat /\ j \in Nat /\ at(h, i) = at(h, j)
      BY <3>3, <1>0, <1>3
    <3>5. i = j
      BY <3>4, <1>0 DEF at, len
    <3> QED BY <3>3, <3>5, <1>3
  <2> QED BY <2>1, <2>2
<1>6. \A i \in DOMAIN outbox[g] :
        outbox[g][i].id \in seen' <=> outbox[g][i].id \in seen \/ (g = h /\ i <= n)
  BY <1>5
<1> QED BY <1>4, <1>6

(* The outbox of a hub loses its first n events, or none.                  *)
LEMMA Shifted ==
  ASSUME LanesInv, HubsInv, NEW h \in Clients, NEW n \in 1 .. Len(outbox[h]),
         outbox' = [outbox EXCEPT ![h] = SubSeq(@, n + 1, Len(@))]
  PROVE  /\ IsList(outbox'[h]) /\ Len(outbox'[h]) = Len(outbox[h]) - n
         /\ DOMAIN outbox'[h] = 1 .. Len(outbox[h]) - n
         /\ \A i \in 1 .. Len(outbox[h]) - n : n + i \in DOMAIN outbox[h] /\ outbox'[h][i] = outbox[h][n + i]
         /\ \A i \in DOMAIN outbox[h] : n < i => i - n \in DOMAIN outbox'[h] /\ outbox'[h][i - n] = outbox[h][i]
         /\ \A g \in Clients : g # h => outbox'[g] = outbox[g]
<1> DEFINE s == outbox[h]  t == outbox'[h]  len == Len(s)
<1>0. len \in Nat /\ DOMAIN s = 1 .. len /\ IsList(s) /\ DOMAIN outbox = Clients
  BY OutboxFacts DEF Numbered
<1>1. t = SubSeq(s, n + 1, len) /\ \A g \in Clients : g # h => outbox'[g] = outbox[g]
  BY <1>0
<1> HIDE DEF s, t
<1>2. n \in 1 .. len /\ n + 1 \in 1 .. len + 1 /\ len \in 0 .. len
  BY <1>0 DEF s
<1>3. /\ IsList(t) /\ Len(t) = (IF n + 1 <= len THEN len - (n + 1) + 1 ELSE 0)
      /\ \A i \in 1 .. len - (n + 1) + 1 : t[i] = s[(n + 1) + i - 1]
  BY <1>0, <1>1, <1>2, ListPart
<1> HIDE DEF len
<1>4. Len(t) = len - n
  BY <1>0, <1>2, <1>3
<1>5. DOMAIN t = 1 .. len - n
  BY <1>3, <1>4, ListFacts
<1>6. \A i \in 1 .. len - n : n + i \in DOMAIN s /\ t[i] = s[n + i]
  <2> TAKE i \in 1 .. len - n
  <2>1. i \in 1 .. len - (n + 1) + 1 /\ (n + 1) + i - 1 = n + i /\ n + i \in 1 .. len
    BY <1>0, <1>2
  <2> QED BY <2>1, <1>0, <1>3
<1>7. \A i \in DOMAIN s : n < i => i - n \in DOMAIN t /\ t[i - n] = s[i]
  <2> TAKE i \in DOMAIN s
  <2> HAVE n < i
  <2>1. i - n \in 1 .. len - n /\ n + (i - n) = i
    BY <1>0, <1>2
  <2> QED BY <2>1, <1>5, <1>6
<1> QED BY <1>1, <1>3, <1>4, <1>5, <1>6, <1>7 DEF s, t, len

LEMMA HubsAtDelivery ==
  ASSUME LanesInv, HubsInv, OneSource, NEW h0 \in Clients, NEW n \in 1 .. Len(outbox[h0]),
         (\E gone \in BOOLEAN : Deliver(h0, n, gone)) \/ DeliverThenStop(h0, n)
  PROVE  HubsInv'
<1> DEFINE len == Len(outbox[h0])
<1>0. len \in Nat /\ DOMAIN outbox[h0] = 1 .. len
  BY OutboxFacts
<1>1. /\ seen' = seen \cup IdsOf(h0, n)
      /\ UNCHANGED <<selections, lanes, hub, selected, sent, unsure>>
      /\ outbox' = outbox \/ outbox' = [outbox EXCEPT ![h0] = SubSeq(@, n + 1, Len(@))]
  BY DEF Deliver, DeliverThenStop, atHubs
<1>2. PICK k \in Nat :
        /\ mirror' = MirrorEvents(h0, Inserted(h0, k))
        /\ \/ k = n /\ doubtful' = doubtful \ {<<h0, outbox[h0][i].of>> : i \in Inserted(h0, k)}
           \/ /\ k = n - 1 /\ outbox' = outbox
              /\ doubtful' = (doubtful \ {<<h0, outbox[h0][i].of>> : i \in Inserted(h0, k)})
                                 \cup {<<h0, outbox[h0][n].of>>}
  <2>1. n \in Nat /\ n - 1 \in Nat
    BY <1>0
  <2>2. CASE \E gone \in BOOLEAN : Deliver(h0, n, gone)
    BY <2>1, <2>2 DEF Deliver
  <2>3. CASE DeliverThenStop(h0, n)
    BY <2>1, <2>3 DEF DeliverThenStop, atHubs
  <2> QED BY <2>2, <2>3
<1>3. \A g \in Clients :
        /\ \A i \in Nat : i >= sent[g] => EventId(g, i) \notin seen'
        /\ \A i \in DOMAIN outbox[g] :
             outbox[g][i].id \in seen' <=> outbox[g][i].id \in seen \/ (g = h0 /\ i <= n)
  BY <1>1, SeenNow
<1>4. ASSUME NEW g \in Clients
      PROVE  Numbered(g)' /\ SeenInOrder(g)' /\ LastSays(g)'
  <2>0. /\ Numbered(g) /\ SeenInOrder(g) /\ LastSays(g)
        /\ Len(outbox[g]) \in Nat /\ DOMAIN outbox[g] = 1 .. Len(outbox[g])
        /\ sent[g] \in Nat /\ Len(outbox[g]) <= sent[g]
    BY OutboxFacts
  <2>1. \A i, j \in DOMAIN outbox[g] :
          i < j /\ outbox[g][j].id \in seen' => outbox[g][i].id \in seen'
    <3> TAKE i, j \in DOMAIN outbox[g]
    <3> HAVE i < j /\ outbox[g][j].id \in seen'
    <3>1. CASE outbox[g][j].id \in seen
      BY <3>1, <1>3, <2>0 DEF SeenInOrder
    <3>2. CASE g = h0 /\ j <= n
      <4>1. i <= n
        BY <3>2, <1>0, <2>0
      <4> QED BY <3>2, <4>1, <1>3
    <3> QED BY <3>1, <3>2, <1>3
  <2>2. CASE outbox'[g] = outbox[g]
    <3>1. sent'[g] = sent[g] /\ hub'[g] = hub[g]
      BY <1>1
    <3>2. Numbered(g)'
      BY <2>0, <2>2, <3>1 DEF Numbered, EventId
    <3>3. LastSays(g)'
      BY <2>0, <2>2, <3>1 DEF LastSays, LastOf
    <3>4. SeenInOrder(g)'
      BY <2>1, <2>2, <1>1, <1>3 DEF SeenInOrder, EventId
    <3> QED BY <3>2, <3>3, <3>4
  <2>3. CASE outbox'[g] # outbox[g]
    <3>1. outbox' = [outbox EXCEPT ![h0] = SubSeq(@, n + 1, Len(@))]
      BY <2>3, <1>1
    <3>2. /\ IsList(outbox'[h0]) /\ Len(outbox'[h0]) = len - n
          /\ DOMAIN outbox'[h0] = 1 .. len - n
          /\ \A i \in 1 .. len - n : n + i \in DOMAIN outbox[h0] /\ outbox'[h0][i] = outbox[h0][n + i]
          /\ \A i \in DOMAIN outbox[h0] :
               n < i => i - n \in DOMAIN outbox'[h0] /\ outbox'[h0][i - n] = outbox[h0][i]
          /\ \A x \in Clients : x # h0 => outbox'[x] = outbox[x]
      BY <3>1, Shifted
    <3>3. g = h0
      BY <2>3, <3>2
    <3> HIDE DEF len
    <3>4. Numbered(g)'
      <4>1. len - n <= sent'[h0]
        BY <2>0, <3>3, <1>0, <1>1 DEF len
      <4>2. ASSUME NEW i \in 1 .. len - n
            PROVE  outbox'[h0][i].id = EventId(h0, sent[h0] - (len - n) + i - 1)
        <5>1. outbox[h0][n + i].id = EventId(h0, sent[h0] - len + (n + i) - 1)
          BY <3>2, <3>3, <2>0 DEF Numbered, len
        <5>2. sent[h0] - len + (n + i) - 1 = sent[h0] - (len - n) + i - 1
          BY <2>0, <3>3, <1>0
        <5> QED BY <5>1, <5>2, <3>2
      <4> QED BY <4>1, <4>2, <3>2, <3>3, <1>1 DEF Numbered, EventId
    <3>5. SeenInOrder(g)'
      <4>1. ASSUME NEW i \in 1 .. len - n, NEW j \in 1 .. len - n, i < j, outbox'[h0][j].id \in seen'
            PROVE  outbox'[h0][i].id \in seen'
        <5>1. n + i < n + j
          BY <4>1, <1>0
        <5> QED BY <4>1, <5>1, <3>2, <3>3, <2>1
      <4> QED BY <4>1, <3>2, <3>3, <1>1, <1>3 DEF SeenInOrder, EventId
    <3>6. LastSays(g)'
      <4> SUFFICES ASSUME NEW q \in Resources, NEW i \in 1 .. len - n, LastOf(h0, q, i)'
                   PROVE  outbox'[h0][i].what = hub'[h0][q]
        BY <3>2, <3>3 DEF LastSays
      <4>1. outbox'[h0][i].of = q /\ \A j \in 1 .. len - n : i < j => outbox'[h0][j].of # q
        BY <3>2 DEF LastOf
      <4>2. n + i \in DOMAIN outbox[h0] /\ outbox'[h0][i] = outbox[h0][n + i]
        BY <3>2
      <4>3. ASSUME NEW j \in DOMAIN outbox[h0], n + i < j PROVE outbox[h0][j].of # q
        <5>1. n < j /\ i < j - n
          BY <4>3, <1>0 DEF len
        <5>2. j - n \in 1 .. len - n /\ outbox'[h0][j - n] = outbox[h0][j]
          BY <5>1, <3>2
        <5> QED BY <5>1, <5>2, <4>1
      <4>4. LastOf(h0, q, n + i)
        BY <4>1, <4>2, <4>3 DEF LastOf
      <4>5. outbox[h0][n + i].what = hub[h0][q]
        BY <4>2, <4>4, <2>0, <3>3 DEF LastSays
      <4> QED BY <4>2, <4>5, <1>1
    <3> QED BY <3>4, <3>5, <3>6
  <2> QED BY <2>2, <2>3
<1>5. ASSUME NEW g \in Clients, NEW q \in Resources, NEW i \in DOMAIN outbox[g],
             outbox[g][i].of = q, outbox[g][i].id \notin seen, g # h0 \/ n < i
      PROVE  Unseen(g, q)'
  <2>1. outbox[g][i].id \notin seen'
    <3>1. g = h0 => ~(i <= n)
      BY <1>0, <1>5
    <3> QED BY <3>1, <1>3, <1>5
  <2>2. CASE outbox'[g] = outbox[g]
    BY <2>1, <2>2, <1>5 DEF Unseen
  <2>3. CASE outbox'[g] # outbox[g]
    <3>1. outbox' = [outbox EXCEPT ![h0] = SubSeq(@, n + 1, Len(@))]
      BY <2>3, <1>1
    <3>2. /\ \A j \in DOMAIN outbox[h0] :
               n < j => j - n \in DOMAIN outbox'[h0] /\ outbox'[h0][j - n] = outbox[h0][j]
          /\ \A x \in Clients : x # h0 => outbox'[x] = outbox[x]
      BY <3>1, Shifted
    <3>3. PICK j : j = i - n
      OBVIOUS
    <3>4. g = h0 /\ j \in DOMAIN outbox'[h0] /\ outbox'[h0][j] = outbox[h0][i]
      BY <2>3, <3>2, <3>3, <1>5
    <3> QED BY <2>1, <3>4, <1>5 DEF Unseen
  <2> QED BY <2>2, <2>3
<1>6. MirrorFollows'
  <2> SUFFICES ASSUME NEW h \in Clients, NEW r \in Resources,
                      ~ Waits(h, r), ~ Unseen(h, r)', <<h, r>> \notin doubtful'
               PROVE  mirror'[h][r] = hub[h][r]
    <3>1. \A h, r : Waits(h, r)' = Waits(h, r)
      BY <1>1 DEF Waits, HubOf
    <3> QED BY <3>1, <1>1 DEF MirrorFollows
  <2>1. Unseen(h, r) \/ <<h, r>> \in doubtful \/ mirror[h][r] = hub[h][r]
    BY DEF HubsInv, MirrorFollows
  <2>2. CASE h # h0
    <3>1. ~ Unseen(h, r)
      BY <2>2, <1>5 DEF Unseen
    <3>2. <<h, r>> \notin doubtful
      BY <2>2, <1>2
    <3>3. mirror'[h][r] = mirror[h][r]
      BY <2>2, <1>2 DEF MirrorEvents, LanesInv, Tables
    <3> QED BY <2>1, <3>1, <3>2, <3>3
  <2>3. CASE h = h0
    <3>1. \A i \in DOMAIN outbox[h0] : n < i /\ outbox[h0][i].of = r => outbox[h0][i].id \in seen
      BY <2>3, <1>5
    <3>2. k = n \/ (k = n - 1 /\ outbox[h0][n].of # r)
      BY <2>3, <1>2
    <3>3. \/ mirror'[h0][r] = hub[h0][r]
          \/ /\ mirror'[h0][r] = mirror[h0][r] /\ ~ Unseen(h0, r)
             /\ \A i \in Inserted(h0, k) : outbox[h0][i].of # r
      BY <3>1, <3>2, <1>2, MirroredEvents
    <3>4. CASE /\ mirror'[h0][r] = mirror[h0][r] /\ ~ Unseen(h0, r)
               /\ \A i \in Inserted(h0, k) : outbox[h0][i].of # r
      <4>1. <<h0, r>> \notin doubtful
        BY <2>3, <3>4, <1>2
      <4> QED BY <2>1, <2>3, <3>4, <4>1
    <3> QED BY <2>3, <3>3, <3>4
  <2> QED BY <2>2, <2>3
<1>7. SelectionsFollow'
  BY <1>1, SameSelections
<1> QED BY <1>4, <1>6, <1>7 DEF HubsInv

LEMMA HubsStep ==
  ASSUME LanesInv, HubsInv, OneSource, [ResourcesNext]_resourceVars
  PROVE  HubsInv'
<1>1. CASE UNCHANGED resourceVars
  BY <1>1, HubsStutter DEF resourceVars, queues, atHubs, history
<1>2. CASE \E c \in CatalogCalls : CatalogCall(c)
  BY <1>2, HubsStutter DEF CatalogCall, queues, atHubs
<1>3. CASE \E r \in Roles : DropRole(r)
  BY <1>3, HubsStutter DEF DropRole, queues, atHubs, history
<1>4. CASE \E h \in Clients, c \in ResourceCommands : QueueResourceCommand(h, c) \/ QueueThenStop(h, c)
  BY <1>4, HubsAtCommand
<1>5. CASE \E w \in Workflows, kind \in {"tcp_tools", "resource_sets"} :
             \E sels \in Asked[kind] : PutSelections(w, kind, sels) \/ PutThenStop(w, kind, sels)
  <2>1. PICK w \in Workflows, kind \in {"tcp_tools", "resource_sets"} :
               \E sels \in Asked[kind] : PutSelections(w, kind, sels) \/ PutThenStop(w, kind, sels)
    BY <1>5
  <2>2. PICK sels \in Asked[kind] : PutSelections(w, kind, sels) \/ PutThenStop(w, kind, sels)
    BY <2>1
  <2>3. IsList(Replaced(w, kind, sels))
    BY ReplacedIsList
  <2>4. /\ \/ ApplySelections(w, Replaced(w, kind, sels), Replaced(w, kind, sels))
           \/ \E n \in 0 .. 2 : ApplyThenStop(w, Replaced(w, kind, sels), n)
        /\ UNCHANGED <<hub, selected, outbox, sent>>
    BY <2>2 DEF PutSelections, PutThenStop, ApplySelections, ApplyThenStop, atHubs
  <2> QED BY <2>3, <2>4, HubsAtSelection
<1>6. CASE \E w \in Workflows, t \in TemplateIds : AddTemplate(w, t)
  <2>1. PICK w \in Workflows, t \in TemplateIds : AddTemplate(w, t)
    BY <1>6
  <2>2. IsList(WithTemplate(w, t))
    BY <2>1, WithTemplateIsList DEF AddTemplate
  <2>3. /\ ApplySelections(w, WithTemplate(w, t), WithTemplate(w, t))
        /\ UNCHANGED <<hub, selected, outbox, sent>>
    BY <2>1 DEF AddTemplate, ApplySelections, atHubs
  <2> QED BY <2>2, <2>3, HubsAtSelection
<1>7. CASE \E ch \in LaneIds : HubApplies(ch) \/ HubRefuses(ch)
  BY <1>7, HubsAtTaking
<1>8. CASE \E h \in Clients, r \in Locals : \E content \in Content(r) : HubEdits(h, r, content)
  BY <1>8, HubsAtEdit
<1>9. CASE \E h \in Clients, gone \in BOOLEAN : \E n \in 1 .. Len(outbox[h]) : Deliver(h, n, gone)
  BY <1>9, HubsAtDelivery
<1>10. CASE \E h \in Clients : \E n \in 1 .. Len(outbox[h]) : DeliverThenStop(h, n)
  BY <1>10, HubsAtDelivery
<1> QED BY <1>1, <1>2, <1>3, <1>4, <1>5, <1>6, <1>7, <1>8, <1>9, <1>10 DEF ResourcesNext

(* HubsConverge: once nothing about a resource is under way and no refusal *)
(* or stop left it in doubt, the mirror shows what the hub has, and a hub  *)
(* has the selection the server stores for a workflow whose lane it dealt  *)
(* with.  The assumption is the one the schema does not enforce: with ids  *)
(* that two hubs share, the event of one passes for a duplicate.           *)
THEOREM HubsConvergeHolds ==
  ASSUME OneSource
  PROVE  ResourcesSpec => []HubsConverge
<1>1. ResourcesInit => LanesInv /\ HubsInv
  BY LanesInit, HubsInit
<1>2. LanesInv /\ HubsInv /\ [ResourcesNext]_resourceVars => (LanesInv /\ HubsInv)'
  BY LanesStep, HubsStep
<1>3. LanesInv /\ HubsInv => HubsConverge
  <2> SUFFICES ASSUME LanesInv, HubsInv PROVE HubsConverge
    OBVIOUS
  <2>1. ASSUME NEW h \in Clients, NEW r \in Resources, Quiet(h, r), <<h, r>> \notin doubtful
        PROVE  mirror[h][r] = hub[h][r]
    <3>1. ~ Waits(h, r)
      BY <2>1 DEF Quiet, Waits, ToSet
    <3>2. ~ Unseen(h, r)
      BY <2>1 DEF Quiet, Unseen, ToSet
    <3> QED BY <2>1, <3>1, <3>2 DEF HubsInv, MirrorFollows
  <2>2. \A w \in Workflows : lanes[w] = << >> /\ w \notin unsure => selected[w] = selections[w]
    BY DEF HubsInv, SelectionsFollow
  <2> QED BY <2>1, <2>2 DEF HubsConverge
<1> QED BY <1>1, <1>2, <1>3, PTL DEF ResourcesSpec
=============================================================================
