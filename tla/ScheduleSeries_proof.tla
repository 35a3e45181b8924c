------------------------ MODULE ScheduleSeries_proof ------------------------
(***************************************************************************)
(* Theorems about ScheduleSeries, for every set of series, workflows and   *)
(* schedules, any number of commands and events, with deletes and server   *)
(* stops.                                                                  *)
(***************************************************************************)
EXTENDS ScheduleSeries, FiniteSetTheorems, SequenceTheorems, TLAPS

SeriesStates == {"none", "active", "cancelled", "broken"}

SeriesTyped == series \in [Series -> [state : SeriesStates, spec : Specs \cup {0}]]

(* What CancelIsFinal says of one step. *)
CancelStays == \A s \in Series : series[s].state = "cancelled" => series[s]'.state = "cancelled"

(* A schedule is set on a series that is live or new, never on a cancelled *)
(* one: a cancelled series is left behind when its workflow is scheduled   *)
(* again.                                                                  *)
LEMMA NoCancelledTarget ==
  ASSUME NEW w, NEW s \in SeriesFor(w)
  PROVE  series[s].state # "cancelled"
<1>1. CASE HasLiveSeries(w)
  BY <1>1 DEF HasLiveSeries, SeriesFor
<1>2. CASE ~HasLiveSeries(w)
  <2>1. ~Known(s)
    BY <1>2 DEF SeriesFor, Fresh
  <2> QED BY <2>1 DEF Known, NoSeries
<1> QED BY <1>1, <1>2

(* Setting a schedule on a series that is not cancelled. *)
LEMMA ActivateKeeps ==
  ASSUME SeriesTyped, NEW s \in Series, NEW spec \in Specs, series[s].state # "cancelled",
         series' = SeriesSet(s, spec)
  PROVE  SeriesTyped' /\ CancelStays
BY DEF SeriesTyped, SeriesStates, CancelStays, SeriesSet

(* Moving a series to a state, when a cancelled one only to cancelled. *)
LEMMA StateMoves ==
  ASSUME SeriesTyped, NEW s, NEW state \in SeriesStates,
         s \in Series /\ series[s].state = "cancelled" => state = "cancelled",
         series' = SeriesMoved(s, state)
  PROVE  SeriesTyped' /\ CancelStays
<1>1. CASE s \in Series
  <2>1. /\ series'[s].state = state /\ series'[s].spec = series[s].spec
        /\ series' \in [Series -> [state : SeriesStates, spec : Specs \cup {0}]]
        /\ \A t \in Series : t # s => series'[t] = series[t]
    BY <1>1 DEF SeriesTyped, SeriesMoved
  <2> QED BY <1>1, <2>1 DEF SeriesTyped, CancelStays
<1>2. CASE s \notin Series
  <2>1. series' = series
    BY <1>2 DEF SeriesTyped, SeriesMoved
  <2> QED BY <2>1 DEF SeriesTyped, CancelStays
<1> QED BY <1>1, <1>2

(* Only the two schedule routes and the mirrored events write the series.  *)
LEMMA StepKeepsCancel == SeriesTyped /\ [Next]_vars => SeriesTyped' /\ CancelStays
<1> SUFFICES ASSUME SeriesTyped, [Next]_vars PROVE SeriesTyped' /\ CancelStays
  OBVIOUS
<1>a. ASSUME UNCHANGED series PROVE SeriesTyped' /\ CancelStays
  BY <1>a DEF SeriesTyped, CancelStays
<1>1. ASSUME NEW w \in Workflows, NEW s \in Series, NEW spec \in Specs, Schedule(w, s, spec)
      PROVE  SeriesTyped' /\ CancelStays
  BY <1>1, NoCancelledTarget, ActivateKeeps DEF Schedule
<1>2. ASSUME NEW w \in Workflows, NEW s \in Series, NEW spec \in Specs, ScheduleThenCrash(w, s, spec)
      PROVE  SeriesTyped' /\ CancelStays
  BY <1>2, <1>a, NoCancelledTarget, ActivateKeeps DEF ScheduleThenCrash
<1>3. ASSUME NEW w \in Workflows, Cancel(w) PROVE SeriesTyped' /\ CancelStays
  <2>1. series' = SeriesMoved(wf[w].series, "cancelled")
    BY <1>3 DEF Cancel
  <2>2. "cancelled" \in SeriesStates
    BY DEF SeriesStates
  <2> QED BY <2>1, <2>2, StateMoves
<1>4. ASSUME NEW w \in Workflows, CancelThenCrash(w) \/ Delete(w) \/ HubApply(w)
      PROVE  SeriesTyped' /\ CancelStays
  BY <1>4, <1>a DEF CancelThenCrash, Delete, HubApply
<1>5. ASSUME NEW s \in Series, HubBreaks(s) \/ \E w \in Clones : HubFires(s, w)
      PROVE  SeriesTyped' /\ CancelStays
  BY <1>5, <1>a DEF HubBreaks, HubFires
<1>6. ASSUME NEW w \in Workflows, HubArchives(w) \/ \E to \in {"idle", "busy"} : HubRuns(w, to)
      PROVE  SeriesTyped' /\ CancelStays
  BY <1>6, <1>a DEF HubRuns, HubArchives
<1>7. ASSUME NEW i \in DOMAIN outbox, HandleEvent(i) PROVE SeriesTyped' /\ CancelStays
  <2> DEFINE e == outbox[i]
  <2>1. UNCHANGED series \/ Mirror(i)
    BY <1>7 DEF HandleEvent
  <2>2. CASE Mirror(i)
    <3>1. \/ UNCHANGED series
          \/ series' = SeriesMoved(e.series, NextState(series[e.series].state, e.to))
      BY <2>2 DEF Mirror, MirrorArchived, MirrorChanged, MirrorMissed, MirrorStatus
    <3>2. NextState(series[e.series].state, e.to) \in SeriesStates
      BY DEF NextState, SeriesStates
    <3>3. series[e.series].state = "cancelled"
            => NextState(series[e.series].state, e.to) = "cancelled"
      BY DEF NextState
    <3> QED BY <1>a, <3>1, <3>2, <3>3, StateMoves
  <2> QED BY <1>a, <2>1, <2>2
<1>8. ASSUME NEW i \in DOMAIN outbox, RefuseEvent(i) \/ HandleEventThenCrash(i)
      PROVE  SeriesTyped' /\ CancelStays
  BY <1>8, <1>a DEF RefuseEvent, HandleEventThenCrash
<1>9. CASE UNCHANGED vars
  BY <1>9, <1>a DEF vars
<1> QED
  BY <1>1, <1>2, <1>3, <1>4, <1>5, <1>6, <1>7, <1>8, <1>9 DEF Next, Operator, Hub, Events

(* "A server cancel is never revived": no order of operator calls, late    *)
(* and repeated events, refusals and server stops brings a cancelled       *)
(* series back.                                                            *)
THEOREM CancelIsFinalHolds == Spec => CancelIsFinal
<1>1. Init => SeriesTyped
  BY DEF Init, SeriesTyped, SeriesStates, NoSeries
<1>2. SeriesTyped /\ [Next]_vars => SeriesTyped'
  BY StepKeepsCancel
<1>3. SeriesTyped /\ [Next]_vars => [CancelStays]_vars
  BY StepKeepsCancel
<1> QED BY <1>1, <1>2, <1>3, PTL DEF Spec, CancelIsFinal, CancelStays
-----------------------------------------------------------------------------
(* The announcements of the hub.                                           *)

Commanding == [type : {"set", "cancel", "delete"}, series : Series \cup {"none"}, spec : Specs \cup {0}]
Kinds == {"created", "changed", "missed", "archived", "status"}
Emitted ==
  {e \in [kind : Kinds, series : Series \cup {"none"}, w : Workflows \cup {"none"},
          prev : Workflows \cup {"none"},
          to : ScheduleStates \cup {"archived", "unarchived", "idle", "busy"}] :
     /\ e.kind = "changed" => e.to \in ScheduleStates
     /\ e.kind = "status" => e.to \in {"idle", "busy"}}

CommandsTyped ==
  /\ log \in [Workflows -> Seq(Commanding)]
  /\ \A w \in Workflows : \A n \in DOMAIN log[w] :
       log[w][n].type # "delete" => log[w][n].series \in Series
  /\ applied \in [Workflows -> Nat]
  /\ \A w \in Workflows : applied[w] <= Len(log[w])

HubTyped ==
  /\ hub \in [Series -> [state : {"none", "armed", "cancelled", "broken"}, spec : Specs \cup {0},
                         live : Workflows \cup {"none"}]]
  /\ mine \subseteq Workflows
  /\ outbox \in Seq(Emitted)

Typed ==
  /\ SeriesTyped
  /\ CommandsTyped
  /\ HubTyped
  /\ answered \in Nat /\ answered <= Len(outbox)

Row == [series : Series \cup {"none"}, sched : ScheduleStates,
        status : {"idle", "busy", "deleting"}, archived : BOOLEAN]

Rows ==
  /\ wf \in [Workflows -> Row \cup {NoRow}]
  /\ \A w \in Workflows : Exists(w) /\ wf[w].series # "none" => Known(wf[w].series)

(* Event i announces the instance w of s.                                  *)
Announces(i, s, w) == outbox[i].kind = "created" /\ outbox[i].series = s /\ outbox[i].w = w
Announced(s, w) == \E i \in DOMAIN outbox : Announces(i, s, w)

(* A clone is minted once, behind what it follows.                         *)
MintedOnce ==
  /\ \A i, j \in DOMAIN outbox :
       outbox[i].kind = "created" /\ outbox[j].kind = "created" /\ outbox[i].w = outbox[j].w => i = j
  /\ \A i \in DOMAIN outbox : outbox[i].kind = "created" =>
       /\ outbox[i].w \in Clones
       /\ \/ outbox[i].prev \in Roots
          \/ \E j \in DOMAIN outbox : j < i /\ outbox[j].kind = "created" /\ outbox[j].w = outbox[i].prev

(* What the hub has, it had from the start or minted; what it lost was     *)
(* deleted; and what it says of a series somebody asked for.               *)
Asked(s) == \E w \in Workflows : \E n \in DOMAIN log[w] : log[w][n].series = s
HubKnows ==
  /\ mine \subseteq Roots \cup Minted
  /\ \A s \in Series : hub[s].state # "none" =>
       /\ Asked(s)
       /\ hub[s].live \in Roots \cup Minted
       /\ hub[s].live \in mine \/ DeletedByNow(hub[s].live)
  /\ \A i \in DOMAIN outbox : outbox[i].kind \in {"created", "changed"} =>
       outbox[i].series \in Series /\ hub[outbox[i].series].state # "none"

(* Each event on a series follows the instance announced last before it,   *)
(* and the live instance is the one announced last of all.                 *)
InTurn(s) ==
  /\ \A i \in DOMAIN outbox : outbox[i].kind \in {"created", "changed"} /\ outbox[i].series = s =>
       \A k \in DOMAIN outbox : k < i /\ outbox[k].kind = "created" /\ outbox[k].series = s =>
         \E j \in DOMAIN outbox : k <= j /\ j < i /\ Announces(j, s, outbox[i].prev)
  /\ \A k \in DOMAIN outbox : outbox[k].kind = "created" /\ outbox[k].series = s =>
       \E j \in DOMAIN outbox : k <= j /\ Announces(j, s, hub[s].live)
  /\ \A i \in DOMAIN outbox : outbox[i].kind = "changed" => outbox[i].prev = outbox[i].w

(* The server has what was announced to it, in turn.                       *)
Received ==
  /\ \A w \in Workflows : Exists(w) => w \in Roots \cup Minted
  /\ \A i \in DOMAIN outbox :
       outbox[i].kind = "created" /\ Exists(outbox[i].w) => i <= answered + 1
  /\ \A i \in DOMAIN outbox : i <= answered /\ outbox[i].kind # "created" => i \in stored

(* A series has one instance that nobody announced.                        *)
OneFirst ==
  \A s \in Series : \A v, w \in Instances(s) : Announced(s, v) \/ Announced(s, w) \/ v = w

(* What was refused stays refused.                                         *)
RefusedForGood(s) ==
  \A i \in DOMAIN outbox : i <= answered /\ outbox[i].kind = "created" /\ outbox[i].series = s =>
    \/ Exists(outbox[i].w)
    \/ series[s].state = "cancelled"
    \/ outbox[i].prev \notin Instances(s)

(* An armed instance is the last of its series that the server knows.      *)
ArmedIsLast(s) ==
  \A w \in Instances(s) : wf[w].sched = "armed" =>
    \A k \in DOMAIN outbox :
      outbox[k].kind = "created" /\ outbox[k].series = s /\ Exists(outbox[k].w) /\ outbox[k].w # w =>
        \E j \in DOMAIN outbox : k < j /\ Announces(j, s, w)

InOrder == \A s \in Series : AnnouncedDeleted(s) \/ (InTurn(s) /\ RefusedForGood(s) /\ ArmedIsLast(s))

IInv == Typed /\ Rows /\ MintedOnce /\ HubKnows /\ Received /\ OneFirst /\ InOrder

-----------------------------------------------------------------------------
(* Types.                                                                  *)

(* A row with some of its schedule fields set. *)
LEMMA SchedSet ==
  ASSUME NEW row \in Row, NEW x \in ScheduleStates
  PROVE  ScheduleFields(row, [sched |-> x]) = [row EXCEPT !.sched = x]
BY DEF ScheduleFields, Row

LEMMA PointerSet ==
  ASSUME NEW row \in Row, NEW s \in Series, NEW x \in ScheduleStates
  PROVE  ScheduleFields(row, [series |-> s, sched |-> x])
           = [series |-> s, sched |-> x, status |-> row.status, archived |-> row.archived]
<1>1. DOMAIN row = {"series", "sched", "status", "archived"}
  BY DEF Row
<1>2. DOMAIN [series |-> s, sched |-> x] = {"series", "sched"}
  OBVIOUS
<1> QED BY <1>1, <1>2 DEF ScheduleFields

LEMMA ArchivedSet ==
  ASSUME NEW row \in Row, NEW x \in BOOLEAN
  PROVE  ScheduleFields(row, [archived |-> x]) = [row EXCEPT !.archived = x]
BY DEF ScheduleFields, Row

LEMMA ArmedRow ==
  ASSUME NEW s \in Series
  PROVE  /\ Armed(s) \in Row
         /\ Armed(s).series = s /\ Armed(s).sched = "armed"
<1>1. CreatedRow \in Row /\ "armed" \in ScheduleStates
  BY DEF CreatedRow, Row, ScheduleStates
<1>2. Armed(s) = [series |-> s, sched |-> "armed",
                  status |-> CreatedRow.status, archived |-> CreatedRow.archived]
  BY <1>1, PointerSet DEF Armed
<1> QED BY <1>1, <1>2 DEF Row

LEMMA FiredRow ==
  ASSUME NEW row \in Row
  PROVE  /\ Fired(row) \in Row
         /\ Fired(row).series = row.series
         /\ Fired(row).sched # "armed"
<1>1. "fired" \in ScheduleStates
  BY DEF ScheduleStates
<1>2. CASE row.sched \in {"armed", "none"}
  <2>1. Fired(row) = [row EXCEPT !.sched = "fired"]
    BY <1>1, <1>2, SchedSet DEF Fired
  <2> QED BY <1>1, <2>1 DEF Row
<1>3. CASE row.sched \notin {"armed", "none"}
  BY <1>3 DEF Fired
<1> QED BY <1>2, <1>3

LEMMA RowExists == NoRow \notin Row
BY DEF NoRow, Row

-----------------------------------------------------------------------------
(* How the log of commands and the hub move.                               *)

(* Commands are added behind the others, and applied.                      *)
LogGrows ==
  \A w \in Workflows :
    /\ applied[w] <= applied'[w]
    /\ Len(log[w]) <= Len(log'[w])
    /\ \A n \in DOMAIN log[w] : log'[w][n] = log[w][n]

(* Event i is new in this step.                                            *)
New(i) == i \in DOMAIN outbox' /\ i \notin DOMAIN outbox

(* The hub started series s anew with this step.                           *)
MayRestart(s) == hub[s].state = "none" \/ hub[s].live \notin mine

(* What the hub does to a series, and what it says of it.                  *)
HubMoves ==
  /\ HubTyped'
  /\ Len(outbox) <= Len(outbox')
  /\ \A i \in DOMAIN outbox : outbox'[i] = outbox[i]
  /\ \A w \in mine' : w \in mine \/ \E i : New(i) /\ outbox'[i].kind = "created" /\ outbox'[i].w = w
  /\ \A w \in mine : w \in mine' \/ DeletedByNow(w)'
  /\ \A s \in Series :
       /\ hub[s].state # "none" => hub'[s].state # "none"
       /\ hub'[s].state # "none" => hub[s].state # "none" \/ Asked(s)
       /\ \/ hub'[s].live = hub[s].live /\ (hub[s].state = "none" => hub'[s].state = "none")
          \/ MayRestart(s) /\ hub'[s].live \in mine /\ hub'[s].live \in mine'
          \/ /\ hub'[s].live \in mine'
             /\ \E i : /\ New(i) /\ outbox'[i].kind = "created"
                        /\ outbox'[i].series = s /\ outbox'[i].w = hub'[s].live
  /\ \A i : New(i) /\ outbox'[i].kind = "changed" =>
       /\ outbox'[i].prev = outbox'[i].w
       /\ outbox'[i].series \in Series
       /\ hub'[outbox'[i].series].state # "none"
       /\ outbox'[i].prev = hub[outbox'[i].series].live \/ MayRestart(outbox'[i].series)
  /\ \A i : New(i) /\ outbox'[i].kind = "created" =>
       /\ i = Len(outbox')
       /\ outbox'[i].w \in Clones \ Minted
       /\ outbox'[i].series \in Series
       /\ hub[outbox'[i].series].state # "none"
       /\ outbox'[i].prev = hub[outbox'[i].series].live
       /\ hub'[outbox'[i].series].live = outbox'[i].w

(* A command is queued. *)
LEMMA Queued ==
  ASSUME CommandsTyped, NEW w \in Workflows, NEW c \in Commanding,
         c.type # "delete" => c.series \in Series,
         Queue(w, c), UNCHANGED applied
  PROVE  CommandsTyped' /\ LogGrows
<1>1. log' = [log EXCEPT ![w] = Append(log[w], c)]
  BY DEF Queue
<1>2. log[w] \in Seq(Commanding)
  BY DEF CommandsTyped
<1>3. /\ Append(log[w], c) \in Seq(Commanding)
      /\ Len(Append(log[w], c)) = Len(log[w]) + 1
      /\ DOMAIN log[w] = 1 .. Len(log[w]) /\ Len(log[w]) \in Nat
      /\ DOMAIN Append(log[w], c) = 1 .. Len(log[w]) + 1
      /\ \A n \in 1 .. Len(log[w]) : Append(log[w], c)[n] = log[w][n]
      /\ Append(log[w], c)[Len(log[w]) + 1] = c
  BY <1>2, AppendProperties, LenProperties
<1>4. log' \in [Workflows -> Seq(Commanding)] /\ log'[w] = Append(log[w], c)
      /\ \A v \in Workflows : v # w => log'[v] = log[v]
  BY <1>1, <1>3 DEF CommandsTyped
<1>5. ASSUME NEW v \in Workflows
      PROVE  /\ applied'[v] = applied[v] /\ applied[v] \in Nat /\ applied[v] <= Len(log[v])
             /\ Len(log[v]) \in Nat
             /\ Len(log[v]) <= Len(log'[v]) /\ Len(log'[v]) \in Nat
             /\ \A n \in DOMAIN log[v] : log'[v][n] = log[v][n]
             /\ \A n \in DOMAIN log'[v] :
                  log'[v][n].type # "delete" => log'[v][n].series \in Series
  <2>1. CASE v = w
    BY <2>1, <1>3, <1>4 DEF CommandsTyped
  <2>2. CASE v # w
    <3>1. log[v] \in Seq(Commanding)
      BY DEF CommandsTyped
    <3> QED BY <2>2, <3>1, <1>4, LenProperties DEF CommandsTyped
  <2> QED BY <2>1, <2>2
<1>6. CommandsTyped'
  BY <1>4, <1>5 DEF CommandsTyped
<1> QED BY <1>5, <1>6 DEF LogGrows

(* No command is queued. *)
LEMMA NotQueued ==
  ASSUME CommandsTyped, UNCHANGED log,
         \/ UNCHANGED applied
         \/ \E w \in Workflows : applied[w] < Len(log[w]) /\ applied' = [applied EXCEPT ![w] = @ + 1]
  PROVE  CommandsTyped' /\ LogGrows
<1>0. \A w \in Workflows : Len(log[w]) \in Nat /\ applied[w] \in Nat
  BY LenProperties DEF CommandsTyped
<1>1. CASE UNCHANGED applied
  BY <1>0, <1>1 DEF CommandsTyped, LogGrows
<1>2. ASSUME NEW w \in Workflows, applied[w] < Len(log[w]), applied' = [applied EXCEPT ![w] = @ + 1]
      PROVE  CommandsTyped' /\ LogGrows
  BY <1>0, <1>2 DEF CommandsTyped, LogGrows
<1> QED BY <1>1, <1>2

(* The hub does nothing. *)
LEMMA HubStays ==
  ASSUME HubTyped, UNCHANGED <<hub, mine, outbox>>
  PROVE  HubMoves
<1>1. \A i : ~New(i)
  BY DEF New
<1>2. Len(outbox) \in Nat
  BY LenProperties DEF HubTyped
<1> QED BY <1>1, <1>2 DEF HubMoves, HubTyped

(* The hub adds one event, or several. *)
LEMMA OneMore ==
  ASSUME HubTyped, NEW e \in Emitted, outbox' = Append(outbox, e)
  PROVE  /\ outbox' \in Seq(Emitted)
         /\ Len(outbox) \in Nat /\ Len(outbox') = Len(outbox) + 1
         /\ \A i \in DOMAIN outbox : outbox'[i] = outbox[i]
         /\ \A i : New(i) => i = Len(outbox') /\ outbox'[i] = e
         /\ New(Len(outbox'))
<1>1. outbox \in Seq(Emitted)
  BY DEF HubTyped
<1>2. /\ outbox' \in Seq(Emitted) /\ Len(outbox) \in Nat /\ Len(outbox') = Len(outbox) + 1
      /\ DOMAIN outbox = 1 .. Len(outbox) /\ DOMAIN outbox' = 1 .. Len(outbox) + 1
      /\ \A i \in 1 .. Len(outbox) : outbox'[i] = outbox[i]
      /\ outbox'[Len(outbox) + 1] = e
  BY <1>1, AppendProperties, LenProperties
<1> QED BY <1>2 DEF New

LEMMA SomeMore ==
  ASSUME HubTyped, NEW more \in Seq(Emitted), outbox' = outbox \o more
  PROVE  /\ outbox' \in Seq(Emitted)
         /\ Len(outbox) \in Nat /\ Len(more) \in Nat /\ Len(outbox') = Len(outbox) + Len(more)
         /\ \A i \in DOMAIN outbox : outbox'[i] = outbox[i]
         /\ \A i : New(i) => \E k \in 1 .. Len(more) : i = Len(outbox) + k /\ outbox'[i] = more[k]
         /\ \A k \in 1 .. Len(more) : New(Len(outbox) + k) /\ outbox'[Len(outbox) + k] = more[k]
<1>1. outbox \in Seq(Emitted)
  BY DEF HubTyped
<1>2. /\ outbox' \in Seq(Emitted) /\ Len(outbox') = Len(outbox) + Len(more)
      /\ \A i \in 1 .. Len(outbox) + Len(more) :
           outbox'[i] = IF i <= Len(outbox) THEN outbox[i] ELSE more[i - Len(outbox)]
  BY <1>1, ConcatProperties
<1>3. /\ Len(outbox) \in Nat /\ Len(more) \in Nat
      /\ DOMAIN outbox = 1 .. Len(outbox) /\ DOMAIN outbox' = 1 .. Len(outbox')
  BY <1>1, <1>2, LenProperties
<1>4. \A i \in DOMAIN outbox : outbox'[i] = outbox[i]
  BY <1>2, <1>3
<1>5. ASSUME NEW i, New(i)
      PROVE  \E k \in 1 .. Len(more) : i = Len(outbox) + k /\ outbox'[i] = more[k]
  <2>1. i \in 1 .. Len(outbox) + Len(more) /\ i \notin 1 .. Len(outbox)
    BY <1>2, <1>3, <1>5 DEF New
  <2>2. i - Len(outbox) \in 1 .. Len(more) /\ i = Len(outbox) + (i - Len(outbox)) /\ ~(i <= Len(outbox))
    BY <2>1, <1>3
  <2> QED BY <2>1, <2>2, <1>2
<1>6. ASSUME NEW k \in 1 .. Len(more)
      PROVE  New(Len(outbox) + k) /\ outbox'[Len(outbox) + k] = more[k]
  <2>1. /\ Len(outbox) + k \in 1 .. Len(outbox) + Len(more) /\ ~(Len(outbox) + k <= Len(outbox))
        /\ (Len(outbox) + k) - Len(outbox) = k
    BY <1>3
  <2>2. outbox'[Len(outbox) + k] = more[(Len(outbox) + k) - Len(outbox)]
    BY <1>2, <2>1
  <2> QED BY <2>1, <2>2, <1>2, <1>3 DEF New
<1> QED BY <1>2, <1>3, <1>4, <1>5, <1>6

HubRow == [state : {"none", "armed", "cancelled", "broken"}, spec : Specs \cup {0},
           live : Workflows \cup {"none"}]

(* The hub changes a series and says so. *)
LEMMA HubSpeaks ==
  ASSUME HubTyped, NEW s \in Series, NEW r \in HubRow, NEW to \in ScheduleStates,
         r.state # "none",
         hub' = [hub EXCEPT ![s] = r],
         outbox' = Append(outbox, Changed(s, r.live, to)),
         mine' \subseteq mine, \A w \in mine : w \in mine' \/ DeletedByNow(w)',
         hub[s].state # "none" \/ Asked(s),
         \/ r.live = hub[s].live /\ hub[s].state # "none"
         \/ MayRestart(s) /\ r.live \in mine /\ r.live \in mine'
  PROVE  HubMoves
<1> DEFINE e == Changed(s, r.live, to)
<1>1. /\ e.kind = "changed" /\ e.series = s /\ e.w = r.live /\ e.prev = r.live
      /\ e \in Emitted
  BY DEF Changed, Emitted, Kinds, HubRow
<1> HIDE DEF e
<1>2. /\ outbox' \in Seq(Emitted)
      /\ Len(outbox) \in Nat /\ Len(outbox') = Len(outbox) + 1
      /\ \A i \in DOMAIN outbox : outbox'[i] = outbox[i]
      /\ \A i : New(i) => i = Len(outbox') /\ outbox'[i] = e
  BY <1>1, OneMore DEF e
<1>3. hub'[s] = r /\ \A t \in Series : t # s => hub'[t] = hub[t]
  BY DEF HubTyped
<1>4. HubTyped'
  BY <1>2 DEF HubTyped, HubRow
<1>5. ASSUME NEW t \in Series
      PROVE  /\ hub[t].state # "none" => hub'[t].state # "none"
             /\ hub'[t].state # "none" => hub[t].state # "none" \/ Asked(t)
             /\ \/ hub'[t].live = hub[t].live /\ (hub[t].state = "none" => hub'[t].state = "none")
                \/ MayRestart(t) /\ hub'[t].live \in mine /\ hub'[t].live \in mine'
  BY <1>3
<1>6. e.prev = hub[s].live \/ MayRestart(s)
  BY <1>1
<1>7. Len(outbox) <= Len(outbox')
  BY <1>2
<1> QED BY <1>1, <1>2, <1>3, <1>4, <1>5, <1>6, <1>7 DEF HubMoves

(* The hub reports on a workflow. *)
LEMMA HubReports ==
  ASSUME HubTyped, NEW more \in Seq(Emitted), outbox' = outbox \o more,
         \A k \in 1 .. Len(more) : more[k].kind \notin {"created", "changed"},
         UNCHANGED <<hub, mine>>
  PROVE  HubMoves
<1>1. /\ outbox' \in Seq(Emitted)
      /\ Len(outbox) \in Nat /\ Len(more) \in Nat /\ Len(outbox') = Len(outbox) + Len(more)
      /\ \A i \in DOMAIN outbox : outbox'[i] = outbox[i]
      /\ \A i : New(i) => \E k \in 1 .. Len(more) : i = Len(outbox) + k /\ outbox'[i] = more[k]
  BY SomeMore
<1>2. HubTyped'
  BY <1>1 DEF HubTyped
<1>3. Len(outbox) <= Len(outbox')
  BY <1>1
<1>4. \A i : New(i) => outbox'[i].kind \notin {"created", "changed"}
  BY <1>1
<1> QED BY <1>1, <1>2, <1>3, <1>4 DEF HubMoves

(* A command the hub applies. *)
LEMMA ApplyMoves ==
  ASSUME Typed, NEW w \in Workflows, HubApply(w)
  PROVE  HubMoves /\ LogGrows /\ CommandsTyped'
<1> USE DEF Typed
<1> DEFINE n == applied[w] + 1
           c == log[w][n]
<1>1. LogGrows /\ CommandsTyped'
  BY NotQueued DEF HubApply
<1>2. log[w] \in Seq(Commanding) /\ applied[w] \in Nat /\ Len(log[w]) \in Nat
  BY LenProperties DEF CommandsTyped
<1>3. n \in 1 .. Len(log[w]) /\ DOMAIN log[w] = 1 .. Len(log[w])
  BY <1>2, LenProperties DEF HubApply
<1>4. c \in Commanding /\ (c.type # "delete" => c.series \in Series /\ Asked(c.series))
  BY <1>2, <1>3, ElementOfSeq DEF CommandsTyped, Asked
<1>5. c.type \in {"set", "cancel", "delete"} /\ c.spec \in Specs \cup {0}
  BY <1>4 DEF Commanding
<1>6. /\ c.type = "set" => HubSets(w, c) /\ UNCHANGED mine
      /\ c.type = "cancel" => HubCancels(c) /\ UNCHANGED mine
      /\ c.type = "delete" => HubDeletes(w) /\ mine' = mine \ {w}
      /\ applied' = [applied EXCEPT ![w] = n] /\ UNCHANGED log
  BY DEF HubApply
<1> HIDE DEF c
<1>7. {"armed", "cancelled", "broken"} \subseteq ScheduleStates
  BY DEF ScheduleStates
<1>8. \A s \in Series : hub[s] \in HubRow
  BY DEF HubTyped, HubRow
<1>9. CASE c.type = "set"
  <2> DEFINE s == c.series
             inPlace == hub[s].state \in {"armed", "broken"} /\ hub[s].live \in mine
             starts == hub[s].state # "cancelled" /\ w \in mine /\ LiveOn(w) = {}
             live == IF inPlace THEN hub[s].live ELSE w
             r == [state |-> "armed", spec |-> c.spec, live |-> live]
  <2>1. s \in Series /\ Asked(s)
    BY <1>4, <1>9
  <2>2. CASE inPlace \/ starts
    <3>1. hub' = [hub EXCEPT ![s] = r] /\ outbox' = Append(outbox, Changed(s, r.live, "armed"))
          /\ UNCHANGED mine
      BY <1>6, <1>9, <2>2 DEF HubSets
    <3>2. r \in HubRow /\ r.state = "armed" /\ r.live = live
      BY <1>5, <1>8, <2>1 DEF HubRow
    <3>3. \/ r.live = hub[s].live /\ hub[s].state # "none"
          \/ MayRestart(s) /\ r.live \in mine /\ r.live \in mine'
      <4>1. CASE inPlace
        BY <4>1
      <4>2. CASE starts /\ ~inPlace
        <5>1. hub[s].state \in {"none", "armed", "cancelled", "broken"}
          BY <1>8, <2>1 DEF HubRow
        <5> QED BY <3>1, <4>2, <5>1 DEF MayRestart
      <4> QED BY <2>2, <4>1, <4>2
    <3> HIDE DEF s, inPlace, starts, live, r
    <3> QED BY <1>1, <1>7, <2>1, <3>1, <3>2, <3>3, HubSpeaks
  <2>3. CASE ~(inPlace \/ starts)
    BY <1>1, <1>6, <1>9, <2>3, HubStays DEF HubSets
  <2> QED BY <2>2, <2>3
<1>10. CASE c.type = "cancel"
  <2> DEFINE s == c.series
             r == [state |-> "cancelled", spec |-> hub[s].spec, live |-> hub[s].live]
  <2>1. s \in Series /\ Asked(s)
    BY <1>4, <1>10
  <2>2. CASE hub[s].state \in {"armed", "broken"}
    <3>1. hub[s] \in HubRow
      BY <1>8, <2>1
    <3>2. [hub[s] EXCEPT !.state = "cancelled"] = r /\ r \in HubRow
          /\ r.state = "cancelled" /\ r.live = hub[s].live
      BY <3>1 DEF HubRow
    <3>3. hub' = [hub EXCEPT ![s] = r] /\ outbox' = Append(outbox, Changed(s, r.live, "cancelled"))
          /\ UNCHANGED mine
      BY <1>6, <1>10, <2>2, <3>2 DEF HubCancels
    <3> HIDE DEF s, r
    <3> QED BY <1>1, <1>7, <2>1, <2>2, <3>2, <3>3, HubSpeaks
  <2>3. CASE ~(hub[s].state \in {"armed", "broken"})
    BY <1>1, <1>6, <1>10, <2>3, HubStays DEF HubCancels
  <2> QED BY <2>2, <2>3
<1>11. CASE c.type = "delete"
  <2>1. DeletedByNow(w)'
    <3>1. applied'[w] = n /\ n \in 1 .. applied'[w]
      BY <1>2, <1>3, <1>6 DEF CommandsTyped
    <3> QED BY <1>6, <1>11, <3>1 DEF DeletedByNow, c
  <2>2. mine' \subseteq mine /\ \A v \in mine : v \in mine' \/ DeletedByNow(v)'
    <3>1. \A v \in mine : v \in mine' \/ v = w
      BY <1>6, <1>11
    <3> QED BY <1>6, <1>11, <2>1, <3>1
  <2>3. CASE UNCHANGED <<hub, outbox>>
    <3>1. \A i : ~New(i)
      BY <2>3 DEF New
    <3>2. Len(outbox) \in Nat
      BY LenProperties DEF HubTyped
    <3>3. HubTyped'
      BY <2>2, <2>3 DEF HubTyped
    <3> QED BY <1>1, <2>2, <2>3, <3>1, <3>2, <3>3 DEF HubMoves
  <2>4. ASSUME NEW s \in LiveOn(w), hub' = [hub EXCEPT ![s].state = "broken"],
               outbox' = Append(outbox, Changed(s, w, "broken"))
        PROVE  HubMoves
    <3> DEFINE r == [state |-> "broken", spec |-> hub[s].spec, live |-> hub[s].live]
    <3>1. s \in Series /\ hub[s] \in HubRow /\ hub[s].live = w /\ hub[s].state = "armed"
      BY <1>8 DEF LiveOn
    <3>2. [hub[s] EXCEPT !.state = "broken"] = r /\ r \in HubRow /\ r.state = "broken"
          /\ r.live = hub[s].live
      BY <3>1 DEF HubRow
    <3>3. hub' = [hub EXCEPT ![s] = r] /\ outbox' = Append(outbox, Changed(s, r.live, "broken"))
      BY <2>4, <3>1, <3>2
    <3> HIDE DEF r
    <3> QED BY <1>7, <2>2, <3>1, <3>2, <3>3, HubSpeaks
  <2> QED BY <1>1, <1>6, <1>11, <2>3, <2>4 DEF HubDeletes
<1> QED BY <1>5, <1>9, <1>10, <1>11

(* What the hub says when the live instance fires, after a missed run or   *)
(* not.                                                                    *)
LEMMA FireEvents ==
  ASSUME Typed, NEW s \in Series, NEW w \in Clones, HubFires(s, w)
  PROVE  /\ outbox' \in Seq(Emitted)
         /\ Len(outbox) \in Nat /\ Len(outbox') \in Nat /\ Len(outbox) <= Len(outbox')
         /\ \A i \in DOMAIN outbox : outbox'[i] = outbox[i]
         /\ New(Len(outbox')) /\ outbox'[Len(outbox')] = Created(s, w, hub[s].live)
         /\ \A i : New(i) =>
              \/ i = Len(outbox') /\ outbox'[i] = Created(s, w, hub[s].live)
              \/ outbox'[i] = Missed(s, hub[s].live)
              \/ i = Len(outbox) + 2 /\ outbox'[i] = Changed(s, hub[s].live, "missed")
<1> USE DEF Typed
<1> DEFINE c == Created(s, w, hub[s].live)
           m == Missed(s, hub[s].live)
           d == Changed(s, hub[s].live, "missed")
<1>1. hub[s].live \in Workflows \cup {"none"} /\ w \in Workflows
  BY DEF HubFires, HubTyped, Workflows
<1>2. c \in Emitted /\ m \in Emitted /\ d \in Emitted
  BY <1>1 DEF Emitted, Kinds, ScheduleStates, Created, Missed, Changed
<1>3. \/ outbox' = outbox \o << >> \o <<c>>
      \/ outbox' = outbox \o <<m, d>> \o <<c>>
  BY DEF HubFires
<1> HIDE DEF c, m, d
<1>4. \E more \in Seq(Emitted) :
        /\ outbox' = outbox \o more
        /\ Len(more) \in Nat \ {0} /\ more[Len(more)] = c
        /\ \A k \in 1 .. Len(more) : k # Len(more) => more[k] = m \/ (k = 2 /\ more[k] = d)
  <2>0. outbox \in Seq(Emitted)
    BY DEF HubTyped
  <2>1. CASE outbox' = outbox \o << >> \o <<c>>
    <3>1. outbox' = outbox \o <<c>>
      BY <2>0, <2>1, ConcatEmptySeq
    <3> DEFINE one == <<c>>
    <3>2. one \in Seq(Emitted) /\ Len(one) = 1 /\ one[1] = c
      BY <1>2
    <3> HIDE DEF one
    <3>3. \A k \in 1 .. Len(one) : k = Len(one)
      BY <3>2
    <3>4. outbox' = outbox \o one /\ Len(one) \in Nat \ {0} /\ one[Len(one)] = c
      BY <3>1, <3>2 DEF one
    <3> QED BY <3>2, <3>3, <3>4
  <2>2. CASE outbox' = outbox \o <<m, d>> \o <<c>>
    <3>1. PICK more \in Seq(Emitted) :
            /\ outbox' = outbox \o more
            /\ Len(more) = 3 /\ more[1] = m /\ more[2] = d /\ more[3] = c
      <4>1. PICK two \in Seq(Emitted) : two = <<m, d>> /\ Len(two) = 2 /\ two[1] = m /\ two[2] = d
        <5>1. <<m, d>> \in Seq(Emitted) /\ Len(<<m, d>>) = 2 /\ <<m, d>>[1] = m /\ <<m, d>>[2] = d
          BY <1>2
        <5> QED BY <5>1, Zenon
      <4>2. PICK one \in Seq(Emitted) : one = <<c>> /\ Len(one) = 1 /\ one[1] = c
        <5>1. <<c>> \in Seq(Emitted) /\ Len(<<c>>) = 1 /\ <<c>>[1] = c
          BY <1>2
        <5> QED BY <5>1, Zenon
      <4>3. /\ two \o one \in Seq(Emitted) /\ Len(two \o one) = 3
            /\ \A i \in 1 .. 3 : (two \o one)[i] = IF i <= 2 THEN two[i] ELSE one[i - 2]
        BY <4>1, <4>2, ConcatProperties
      <4>4. (two \o one)[1] = m /\ (two \o one)[2] = d /\ (two \o one)[3] = c
        BY <4>1, <4>2, <4>3
      <4>5. outbox' = outbox \o two \o one
        BY <2>2, <4>1, <4>2, Zenon
      <4>6. outbox' = outbox \o (two \o one)
        <5>1. two \in Seq(Emitted) /\ one \in Seq(Emitted)
          OBVIOUS
        <5>2. (outbox \o two) \o one = outbox \o (two \o one)
          BY ONLY <2>0, <5>1, ConcatAssociative
        <5> QED BY <4>5, <5>2, Zenon
      <4> QED BY <4>3, <4>4, <4>6
    <3>2. Len(more) \in Nat \ {0} /\ more[Len(more)] = c
      BY <3>1
    <3>3. \A k \in 1 .. Len(more) : k # Len(more) => more[k] = m \/ (k = 2 /\ more[k] = d)
      <4>1. \A k \in 1 .. 3 : k # 3 => k = 1 \/ k = 2
        OBVIOUS
      <4> QED BY <3>1, <4>1
    <3> QED BY <3>1, <3>2, <3>3
  <2> QED BY <1>3, <2>1, <2>2
<1>5. PICK more \in Seq(Emitted) :
        /\ outbox' = outbox \o more
        /\ Len(more) \in Nat \ {0} /\ more[Len(more)] = c
        /\ \A k \in 1 .. Len(more) : k # Len(more) => more[k] = m \/ (k = 2 /\ more[k] = d)
  BY <1>4
<1>6. /\ outbox' \in Seq(Emitted)
      /\ Len(outbox) \in Nat /\ Len(outbox') = Len(outbox) + Len(more)
      /\ \A i \in DOMAIN outbox : outbox'[i] = outbox[i]
      /\ \A i : New(i) => \E k \in 1 .. Len(more) : i = Len(outbox) + k /\ outbox'[i] = more[k]
      /\ \A k \in 1 .. Len(more) : New(Len(outbox) + k) /\ outbox'[Len(outbox) + k] = more[k]
  BY <1>5, SomeMore
<1>7. New(Len(outbox')) /\ outbox'[Len(outbox')] = c
  BY <1>5, <1>6
<1>8. ASSUME NEW i, New(i)
      PROVE  \/ i = Len(outbox') /\ outbox'[i] = c
             \/ outbox'[i] = m
             \/ i = Len(outbox) + 2 /\ outbox'[i] = d
  <2>1. PICK k \in 1 .. Len(more) : i = Len(outbox) + k /\ outbox'[i] = more[k]
    BY <1>6, <1>8
  <2>2. CASE k = Len(more)
    BY <1>5, <1>6, <2>1, <2>2
  <2>3. CASE k # Len(more)
    BY <1>5, <2>1, <2>3
  <2> QED BY <2>2, <2>3
<1>9. Len(outbox') \in Nat /\ Len(outbox) <= Len(outbox')
  BY <1>5, <1>6
<1> QED BY <1>6, <1>7, <1>8, <1>9 DEF c, m, d

(* The live instance fires, after a missed run or not. *)
LEMMA FiresMoves ==
  ASSUME Typed, NEW s \in Series, NEW w \in Clones, HubFires(s, w)
  PROVE  HubMoves
<1> USE DEF Typed
<1> DEFINE c == Created(s, w, hub[s].live)
           m == Missed(s, hub[s].live)
           d == Changed(s, hub[s].live, "missed")
<1>1. /\ hub[s] \in HubRow /\ hub[s].live \in Workflows \cup {"none"}
      /\ w \in Workflows /\ w \in Clones \ Minted /\ hub[s].state = "armed"
  BY DEF HubFires, HubTyped, HubRow, Workflows
<1>2. /\ c \in Emitted /\ m \in Emitted /\ d \in Emitted
      /\ c.kind = "created" /\ c.series = s /\ c.w = w /\ c.prev = hub[s].live
      /\ m.kind = "missed"
      /\ d.kind = "changed" /\ d.series = s /\ d.w = hub[s].live /\ d.prev = hub[s].live
  BY <1>1 DEF Emitted, Kinds, ScheduleStates, Created, Missed, Changed
<1>3. /\ hub' = [hub EXCEPT ![s].live = w] /\ mine' = mine \cup {w}
  BY DEF HubFires
<1> HIDE DEF c, m, d
<1>4. /\ hub'[s].live = w /\ hub'[s].state = "armed"
      /\ \A t \in Series : t # s => hub'[t] = hub[t]
      /\ hub' \in [Series -> HubRow]
  BY <1>1, <1>3 DEF HubTyped, HubRow
<1>5. /\ outbox' \in Seq(Emitted)
      /\ Len(outbox) <= Len(outbox')
      /\ \A i \in DOMAIN outbox : outbox'[i] = outbox[i]
      /\ New(Len(outbox')) /\ outbox'[Len(outbox')] = c
      /\ \A i : New(i) => (i = Len(outbox') /\ outbox'[i] = c) \/ outbox'[i] = m \/ outbox'[i] = d
  BY FireEvents DEF c, m, d
<1>6. HubTyped'
  BY <1>1, <1>3, <1>4, <1>5 DEF HubTyped, HubRow
<1>7. \A v \in mine' : v \in mine \/ \E i : New(i) /\ outbox'[i].kind = "created" /\ outbox'[i].w = v
  BY <1>2, <1>3, <1>5
<1>8. \E i : New(i) /\ outbox'[i].kind = "created" /\ outbox'[i].series = s /\ outbox'[i].w = hub'[s].live
  BY <1>2, <1>4, <1>5
<1>9. ASSUME NEW t \in Series
       PROVE  /\ hub[t].state # "none" => hub'[t].state # "none"
              /\ hub'[t].state # "none" => hub[t].state # "none"
              /\ \/ hub'[t].live = hub[t].live /\ (hub[t].state = "none" => hub'[t].state = "none")
                 \/ /\ hub'[t].live \in mine'
                    /\ \E i : /\ New(i) /\ outbox'[i].kind = "created"
                              /\ outbox'[i].series = t /\ outbox'[i].w = hub'[t].live
  <2>1. CASE t = s
    BY <2>1, <1>1, <1>3, <1>4, <1>8
  <2>2. CASE t # s
    BY <2>2, <1>4
  <2> QED BY <2>1, <2>2
<1>10. ASSUME NEW i, New(i), outbox'[i].kind = "changed"
       PROVE  /\ outbox'[i].prev = outbox'[i].w
              /\ outbox'[i].series \in Series
              /\ hub'[outbox'[i].series].state # "none"
              /\ outbox'[i].prev = hub[outbox'[i].series].live
  <2>1. outbox'[i] = d
    BY <1>2, <1>5, <1>10
  <2> QED BY <1>2, <1>4, <2>1
<1>11. ASSUME NEW i, New(i), outbox'[i].kind = "created"
       PROVE  /\ i = Len(outbox')
              /\ outbox'[i].w \in Clones \ Minted
              /\ outbox'[i].series \in Series
              /\ hub[outbox'[i].series].state # "none"
              /\ outbox'[i].prev = hub[outbox'[i].series].live
              /\ hub'[outbox'[i].series].live = outbox'[i].w
  <2>1. i = Len(outbox') /\ outbox'[i] = c
    BY <1>2, <1>5, <1>11
  <2> QED BY <1>1, <1>2, <1>4, <2>1
<1>12. \A v \in mine : v \in mine'
  BY <1>3
<1> QED BY <1>5, <1>6, <1>7, <1>9, <1>10, <1>11, <1>12 DEF HubMoves

(* A series breaks. *)
LEMMA BreakMoves ==
  ASSUME Typed, NEW s \in Series, hub[s].state = "armed",
         hub' = [hub EXCEPT ![s].state = "broken"],
         outbox' = Append(outbox, Changed(s, hub[s].live, "broken")), UNCHANGED mine
  PROVE  HubMoves
<1> USE DEF Typed
<1> DEFINE r == [state |-> "broken", spec |-> hub[s].spec, live |-> hub[s].live]
<1>1. hub[s] \in HubRow /\ "broken" \in ScheduleStates
  BY DEF HubTyped, HubRow, ScheduleStates
<1>2. [hub[s] EXCEPT !.state = "broken"] = r /\ r \in HubRow /\ r.state = "broken"
      /\ r.live = hub[s].live
  BY <1>1 DEF HubRow
<1>3. hub' = [hub EXCEPT ![s] = r] /\ outbox' = Append(outbox, Changed(s, r.live, "broken"))
  BY <1>2
<1> HIDE DEF r
<1> QED BY <1>1, <1>2, <1>3, HubSpeaks

(* What it says when a workflow is archived, and perhaps taken back, or    *)
(* runs.                                                                   *)
LEMMA ReportEvents ==
  ASSUME Typed, NEW w \in Workflows,
         HubArchives(w) \/ \E to \in {"idle", "busy"} : HubRuns(w, to)
  PROVE  /\ UNCHANGED <<hub, mine>> /\ w \in mine
         /\ outbox' \in Seq(Emitted) /\ Len(outbox) <= Len(outbox')
         /\ \A i \in DOMAIN outbox : outbox'[i] = outbox[i]
         /\ \A i : New(i) => outbox'[i].kind \in {"archived", "status"} /\ outbox'[i].w = w
<1> USE DEF Typed
<1> DEFINE Said == /\ outbox' \in Seq(Emitted) /\ Len(outbox) <= Len(outbox')
                   /\ \A i \in DOMAIN outbox : outbox'[i] = outbox[i]
                   /\ \A i : New(i) => outbox'[i].kind \in {"archived", "status"} /\ outbox'[i].w = w
<1>0. outbox \in Seq(Emitted)
  BY DEF HubTyped
<1>1. \A to \in {"archived", "unarchived"} :
        /\ Archived(w, to) \in Emitted
        /\ Archived(w, to).kind = "archived" /\ Archived(w, to).w = w
  BY DEF Archived, Emitted, Kinds
<1>2. \A to \in {"idle", "busy"} : /\ Status(w, to) \in Emitted
        /\ Status(w, to).kind = "status" /\ Status(w, to).w = w
  BY DEF Status, Emitted, Kinds
<1>3. ASSUME NEW e \in Emitted, e.kind \in {"archived", "status"}, e.w = w, outbox' = Append(outbox, e)
      PROVE  Said
  <2>1. /\ outbox' \in Seq(Emitted)
        /\ Len(outbox) \in Nat /\ Len(outbox') = Len(outbox) + 1
        /\ \A i \in DOMAIN outbox : outbox'[i] = outbox[i]
        /\ \A i : New(i) => i = Len(outbox') /\ outbox'[i] = e
    BY <1>3, OneMore
  <2>2. Len(outbox) <= Len(outbox')
    BY <2>1
  <2> QED BY <1>3, <2>1, <2>2
<1>4. ASSUME NEW e \in Emitted, NEW f \in Emitted, e.kind = "archived", f.kind = "archived", e.w = w, f.w = w,
             outbox' = Append(outbox, e) \o <<f>>
      PROVE  Said
  <2>1. PICK one \in Seq(Emitted) : one = <<f>> /\ Len(one) = 1 /\ one[1] = f
    <3>1. <<f>> \in Seq(Emitted) /\ Len(<<f>>) = 1 /\ <<f>>[1] = f
      OBVIOUS
    <3> QED BY <3>1, Zenon
  <2>2. /\ Append(outbox, e) \in Seq(Emitted)
        /\ Len(outbox) \in Nat /\ Len(Append(outbox, e)) = Len(outbox) + 1
        /\ \A i \in 1 .. Len(outbox) : Append(outbox, e)[i] = outbox[i]
        /\ Append(outbox, e)[Len(outbox) + 1] = e
        /\ DOMAIN outbox = 1 .. Len(outbox)
    BY <1>0, AppendProperties, LenProperties
  <2>3. outbox' = Append(outbox, e) \o one
    BY <1>4, <2>1, Zenon
  <2>4. /\ outbox' \in Seq(Emitted) /\ Len(outbox') = Len(outbox) + 2
        /\ \A i \in 1 .. Len(outbox) + 2 :
             outbox'[i] = IF i <= Len(outbox) + 1 THEN Append(outbox, e)[i]
                          ELSE one[i - (Len(outbox) + 1)]
    BY <2>1, <2>2, <2>3, ConcatProperties
  <2>5. \A i \in DOMAIN outbox : outbox'[i] = outbox[i]
    BY <2>2, <2>4
  <2>6. DOMAIN outbox' = 1 .. Len(outbox) + 2
    BY <2>4, LenProperties
  <2>7. ASSUME NEW i, New(i) PROVE outbox'[i].kind = "archived" /\ outbox'[i].w = w
    <3>1. i = Len(outbox) + 1 \/ i = Len(outbox) + 2
      BY <2>2, <2>6, <2>7 DEF New
    <3>2. outbox'[Len(outbox) + 1] = e
      BY <2>2, <2>4
    <3>3. outbox'[Len(outbox) + 2] = f
      BY <2>1, <2>2, <2>4
    <3> QED BY <1>4, <3>1, <3>2, <3>3
  <2>8. Len(outbox) <= Len(outbox')
    BY <2>2, <2>4
  <2> QED BY <2>4, <2>5, <2>7, <2>8
<1>5. ASSUME HubArchives(w) PROVE Said
  <2>1. \E after \in {<< >>, <<Archived(w, "unarchived")>>} :
          outbox' = Append(outbox, Archived(w, "archived")) \o after
    BY <1>5 DEF HubArchives
  <2>2. CASE outbox' = Append(outbox, Archived(w, "archived")) \o << >>
    <3>1. Append(outbox, Archived(w, "archived")) \in Seq(Emitted)
      BY <1>0, <1>1, AppendProperties
    <3>2. outbox' = Append(outbox, Archived(w, "archived"))
      BY <2>2, <3>1, ConcatEmptySeq
    <3> QED BY <1>1, <1>3, <2>1, <3>2
  <2>3. CASE outbox' = Append(outbox, Archived(w, "archived")) \o <<Archived(w, "unarchived")>>
    BY <1>1, <1>4, <2>1, <2>3
  <2> QED BY <2>1, <2>2, <2>3
<1>6. ASSUME NEW to \in {"idle", "busy"}, HubRuns(w, to) PROVE Said
  BY <1>2, <1>3, <1>6 DEF HubRuns
<1>7. UNCHANGED <<hub, mine>> /\ w \in mine
  BY DEF HubArchives, HubRuns
<1>8. Said
  BY <1>5, <1>6
<1> QED BY <1>7, <1>8

LEMMA ReportMoves ==
  ASSUME Typed, NEW w \in Workflows,
         HubArchives(w) \/ \E to \in {"idle", "busy"} : HubRuns(w, to)
  PROVE  HubMoves
<1>1. /\ UNCHANGED <<hub, mine>>
      /\ outbox' \in Seq(Emitted) /\ Len(outbox) <= Len(outbox')
      /\ \A i \in DOMAIN outbox : outbox'[i] = outbox[i]
      /\ \A i : New(i) => outbox'[i].kind \notin {"created", "changed"}
  BY ReportEvents
<1>2. HubTyped'
  BY <1>1 DEF Typed, HubTyped
<1> QED BY <1>1, <1>2 DEF HubMoves

(* Every step moves the log and the hub this way. *)
LEMMA StepMoves ==
  ASSUME Typed, Rows, HubKnows, [Next]_vars
  PROVE  HubMoves /\ LogGrows /\ CommandsTyped'
<1> USE DEF Typed
<1>1. ASSUME NEW w \in Workflows, NEW c, c \in Commanding, c.type # "delete" => c.series \in Series,
             Queue(w, c), UNCHANGED hubSide
      PROVE  HubMoves /\ LogGrows /\ CommandsTyped'
  BY <1>1, Queued, HubStays DEF hubSide
<1>2. ASSUME NEW w \in Workflows, NEW s \in Series, NEW spec \in Specs,
             Schedule(w, s, spec) \/ ScheduleThenCrash(w, s, spec)
      PROVE  HubMoves /\ LogGrows /\ CommandsTyped'
  <2>1. SetSchedule(s, spec) \in Commanding /\ SetSchedule(s, spec).series = s
    BY DEF SetSchedule, Commanding
  <2>2. Queue(w, SetSchedule(s, spec)) /\ UNCHANGED hubSide
    BY <1>2 DEF Schedule, ScheduleThenCrash
  <2> QED BY <1>1, <2>1, <2>2
<1>3. ASSUME NEW w \in Workflows, Cancel(w) \/ CancelThenCrash(w)
      PROVE  HubMoves /\ LogGrows /\ CommandsTyped'
  <2>1. wf[w].series \in Series
    BY <1>3 DEF Cancel, CancelThenCrash, CanCancel, HasLiveSeries, Exists, Rows, Row
  <2>2. CancelSchedule(wf[w].series) \in Commanding /\ CancelSchedule(wf[w].series).series = wf[w].series
    BY <2>1 DEF CancelSchedule, Commanding
  <2>3. Queue(w, CancelSchedule(wf[w].series)) /\ UNCHANGED hubSide
    BY <1>3 DEF Cancel, CancelThenCrash
  <2> QED BY <1>1, <2>1, <2>2, <2>3
<1>4. ASSUME NEW w \in Workflows, Delete(w) PROVE HubMoves /\ LogGrows /\ CommandsTyped'
  <2>1. DeleteWorkflow \in Commanding /\ DeleteWorkflow.type = "delete"
    BY DEF DeleteWorkflow, Commanding
  <2>2. Queue(w, DeleteWorkflow) /\ UNCHANGED hubSide
    BY <1>4 DEF Delete
  <2> QED BY <1>1, <2>1, <2>2
<1>5. ASSUME NEW w \in Workflows, HubApply(w) PROVE HubMoves /\ LogGrows /\ CommandsTyped'
  BY <1>5, ApplyMoves
<1>6. ASSUME NEW s \in Series, NEW w \in Clones, HubFires(s, w)
      PROVE  HubMoves /\ LogGrows /\ CommandsTyped'
  <2>1. UNCHANGED <<log, applied>>
    BY <1>6 DEF HubFires
  <2> QED BY <1>6, <2>1, FiresMoves, NotQueued
<1>7. ASSUME NEW s \in Series, HubBreaks(s) PROVE HubMoves /\ LogGrows /\ CommandsTyped'
  BY <1>7, BreakMoves, NotQueued DEF HubBreaks
<1>8. ASSUME NEW w \in Workflows, HubArchives(w) \/ \E to \in {"idle", "busy"} : HubRuns(w, to)
      PROVE  HubMoves /\ LogGrows /\ CommandsTyped'
  <2>1. UNCHANGED <<log, applied>>
    BY <1>8 DEF HubArchives, HubRuns
  <2> QED BY <1>8, <2>1, ReportMoves, NotQueued
<1>9. ASSUME NEW i \in DOMAIN outbox, HandleEvent(i) \/ HandleEventThenCrash(i)
      PROVE  HubMoves /\ LogGrows /\ CommandsTyped'
  <2>1. UNCHANGED <<log, applied>> /\ UNCHANGED <<hub, mine, outbox>>
    BY <1>9 DEF HandleEvent, HandleEventThenCrash, hubSide
  <2> QED BY <2>1, HubStays, NotQueued
<1>10. ASSUME NEW i \in DOMAIN outbox, RefuseEvent(i)
       PROVE  HubMoves /\ LogGrows /\ CommandsTyped'
  <2>1. UNCHANGED <<log, applied>> /\ UNCHANGED mine
    BY <1>10 DEF RefuseEvent
  <2>2. outbox[i].series \in Series
    BY <1>10 DEF RefuseEvent, HubKnows
  <2>3. \/ UNCHANGED <<hub, outbox>>
        \/ /\ hub[outbox[i].series].state = "armed"
           /\ hub' = [hub EXCEPT ![outbox[i].series].state = "broken"]
           /\ outbox' = Append(outbox, Changed(outbox[i].series, hub[outbox[i].series].live, "broken"))
    BY <1>10 DEF RefuseEvent
  <2> QED BY <2>1, <2>2, <2>3, BreakMoves, HubStays, NotQueued
<1>11. CASE UNCHANGED vars
  BY <1>11, HubStays, NotQueued DEF vars
<1> QED
  BY <1>2, <1>3, <1>4, <1>5, <1>6, <1>7, <1>8, <1>9, <1>10, <1>11
  DEF Next, Operator, Hub, Events

(* The types are kept. *)
LEMMA StepTyped ==
  ASSUME Typed, Rows, HubKnows, [Next]_vars
  PROVE  Typed'
<1>1. HubMoves /\ CommandsTyped'
  BY StepMoves
<1>2. SeriesTyped'
  BY StepKeepsCancel DEF Typed
<1>3. Len(outbox) \in Nat /\ Len(outbox') \in Nat /\ Len(outbox) <= Len(outbox')
      /\ DOMAIN outbox = 1 .. Len(outbox) /\ answered \in Nat /\ answered <= Len(outbox)
  BY <1>1, LenProperties DEF Typed, HubTyped, HubMoves
<1>4. UNCHANGED answered \/ \E i \in DOMAIN outbox : answered' = i
  BY DEF Next, Operator, Hub, Events, vars, hubSide, Schedule, ScheduleThenCrash, Cancel,
         CancelThenCrash, Delete, HubApply, HubFires, HubBreaks, HubArchives, HubRuns,
         HandleEvent, HandleEventThenCrash, RefuseEvent, Answered
<1>5. answered' \in Nat /\ answered' <= Len(outbox')
  BY <1>3, <1>4
<1> QED BY <1>1, <1>2, <1>5 DEF Typed, HubMoves

-----------------------------------------------------------------------------
(* What stays true as the log and the outbox grow.                         *)

LEMMA Positions ==
  ASSUME Typed, HubMoves
  PROVE  /\ \A i \in DOMAIN outbox : i \in DOMAIN outbox' /\ i \in Nat /\ outbox'[i] = outbox[i]
         /\ \A i \in DOMAIN outbox' : i \in Nat /\ (i \in DOMAIN outbox \/ New(i))
         /\ \A i : New(i) => i \in DOMAIN outbox' /\ \A k \in DOMAIN outbox : k < i
<1>1. /\ Len(outbox) \in Nat /\ Len(outbox') \in Nat /\ Len(outbox) <= Len(outbox')
      /\ DOMAIN outbox = 1 .. Len(outbox) /\ DOMAIN outbox' = 1 .. Len(outbox')
  BY LenProperties DEF Typed, HubTyped, HubMoves
<1>2. \A i \in DOMAIN outbox : outbox'[i] = outbox[i]
  BY DEF HubMoves
<1> QED BY <1>1, <1>2 DEF New

LEMMA Lasting ==
  ASSUME Typed, HubMoves, LogGrows, CommandsTyped'
  PROVE  /\ \A s : Asked(s) => Asked(s)'
         /\ \A w \in Workflows : DeletedByNow(w) => DeletedByNow(w)'
         /\ \A s, w : Announced(s, w) => Announced(s, w)'
<1>1. \A w \in Workflows : /\ DOMAIN log[w] \subseteq DOMAIN log'[w]
                           /\ 1 .. applied[w] \subseteq DOMAIN log[w]
                           /\ 1 .. applied[w] \subseteq 1 .. applied'[w]
  <2> SUFFICES ASSUME NEW w \in Workflows
               PROVE  /\ DOMAIN log[w] \subseteq DOMAIN log'[w]
                      /\ 1 .. applied[w] \subseteq DOMAIN log[w]
                      /\ 1 .. applied[w] \subseteq 1 .. applied'[w]
    OBVIOUS
  <2>1. /\ log[w] \in Seq(Commanding) /\ log'[w] \in Seq(Commanding)
        /\ applied[w] \in Nat /\ applied'[w] \in Nat
        /\ applied[w] <= Len(log[w]) /\ Len(log[w]) <= Len(log'[w])
        /\ applied[w] <= applied'[w]
    BY DEF Typed, CommandsTyped, LogGrows
  <2>2. /\ DOMAIN log[w] = 1 .. Len(log[w]) /\ DOMAIN log'[w] = 1 .. Len(log'[w])
        /\ Len(log[w]) \in Nat /\ Len(log'[w]) \in Nat
    BY <2>1, LenProperties
  <2> QED BY <2>1, <2>2
<1>2. ASSUME NEW s, Asked(s) PROVE Asked(s)'
  <2>1. PICK w \in Workflows : \E n \in DOMAIN log[w] : log[w][n].series = s
    BY <1>2 DEF Asked
  <2>2. PICK n \in DOMAIN log[w] : log[w][n].series = s
    BY <2>1
  <2>3. n \in DOMAIN log'[w] /\ log'[w][n] = log[w][n]
    BY <1>1 DEF LogGrows
  <2> QED BY <2>2, <2>3 DEF Asked
<1>3. ASSUME NEW w \in Workflows, DeletedByNow(w) PROVE DeletedByNow(w)'
  <2>1. PICK n \in 1 .. applied[w] : log[w][n].type = "delete"
    BY <1>3 DEF DeletedByNow
  <2>2. n \in 1 .. applied'[w] /\ log'[w][n] = log[w][n]
    BY <1>1 DEF LogGrows
  <2> QED BY <2>1, <2>2 DEF DeletedByNow
<1>4. ASSUME NEW s, NEW w, Announced(s, w) PROVE Announced(s, w)'
  BY <1>4, Positions DEF Announced, Announces
<1> QED BY <1>2, <1>3, <1>4

LEMMA DeletedLasts ==
  ASSUME Typed, MintedOnce, HubMoves, LogGrows, CommandsTyped', NEW s \in Series, AnnouncedDeleted(s)
  PROVE  AnnouncedDeleted(s)'
<1>1. PICK i \in DOMAIN outbox :
        outbox[i].kind = "created" /\ outbox[i].series = s /\ DeletedByNow(outbox[i].w)
  BY DEF AnnouncedDeleted
<1>2. PICK w : w = outbox[i].w
  OBVIOUS
<1>3. w \in Workflows
  BY <1>1, <1>2 DEF MintedOnce, Workflows
<1>4. DeletedByNow(w)'
  BY <1>1, <1>2, <1>3, Lasting
<1>5. i \in DOMAIN outbox' /\ outbox'[i].kind = "created" /\ outbox'[i].series = s /\ outbox'[i].w = w
  BY <1>1, <1>2, Positions
<1> QED BY <1>4, <1>5 DEF AnnouncedDeleted, DeletedByNow

(* An announced instance that was deleted. *)
LEMMA DeletedAnnounced ==
  ASSUME NEW s, NEW w, Announced(s, w)', DeletedByNow(w)'
  PROVE  AnnouncedDeleted(s)'
BY DEF AnnouncedDeleted, Announced, Announces, DeletedByNow

LEMMA MintedOnceKept ==
  ASSUME Typed, MintedOnce, HubKnows, HubMoves
  PROVE  MintedOnce'
<1>0. ASSUME NEW i, New(i), outbox'[i].kind = "created"
      PROVE  /\ i = Len(outbox') /\ outbox'[i].w \in Clones \ Minted
             /\ outbox'[i].prev \in Roots \cup Minted
  BY <1>0 DEF HubMoves, HubKnows
<1>1. ASSUME NEW i \in DOMAIN outbox', NEW j \in DOMAIN outbox',
             outbox'[i].kind = "created", outbox'[j].kind = "created", outbox'[i].w = outbox'[j].w
      PROVE  i = j
  <2>1. CASE i \in DOMAIN outbox /\ j \in DOMAIN outbox
    BY <1>1, <2>1, Positions DEF MintedOnce
  <2>2. CASE New(i) /\ New(j)
    BY <1>0, <1>1, <2>2
  <2>3. CASE i \in DOMAIN outbox /\ New(j)
    BY <1>0, <1>1, <2>3, Positions DEF Minted
  <2>4. CASE j \in DOMAIN outbox /\ New(i)
    BY <1>0, <1>1, <2>4, Positions DEF Minted
  <2> QED BY <2>1, <2>2, <2>3, <2>4, Positions
<1>2. ASSUME NEW i \in DOMAIN outbox', outbox'[i].kind = "created"
      PROVE  /\ outbox'[i].w \in Clones
             /\ \/ outbox'[i].prev \in Roots
                \/ \E j \in DOMAIN outbox' :
                     j < i /\ outbox'[j].kind = "created" /\ outbox'[j].w = outbox'[i].prev
  <2>1. CASE i \in DOMAIN outbox
    BY <1>2, <2>1, Positions DEF MintedOnce
  <2>2. CASE New(i)
    BY <1>0, <1>2, <2>2, Positions DEF Minted
  <2> QED BY <2>1, <2>2, Positions
<1> QED BY <1>1, <1>2 DEF MintedOnce

LEMMA HubKnowsKept ==
  ASSUME Typed, MintedOnce, HubKnows, HubMoves, LogGrows, CommandsTyped'
  PROVE  HubKnows'
<1>1. \A w \in Minted : w \in Minted'
  BY Positions DEF Minted
<1>2. \A i : New(i) /\ outbox'[i].kind = "created" => outbox'[i].w \in Minted'
  BY Positions DEF Minted
<1>3. mine' \subseteq Roots \cup Minted'
  BY <1>1, <1>2 DEF HubKnows, HubMoves
<1>4. ASSUME NEW s \in Series, hub'[s].state # "none"
      PROVE  /\ Asked(s)'
             /\ hub'[s].live \in Roots \cup Minted'
             /\ hub'[s].live \in mine' \/ DeletedByNow(hub[s].live)'
  <2> PICK v : v = hub'[s].live
    OBVIOUS
  <2>1. Asked(s)'
    BY <1>4, Lasting DEF HubMoves, HubKnows
  <2>2. CASE hub'[s].live \in mine'
    BY <1>3, <2>1, <2>2
  <2>3. CASE v \notin mine'
    <3>1. v = hub[s].live /\ hub[s].state # "none"
      BY <1>4, <2>3 DEF HubMoves
    <3>2. v \in Roots \cup Minted /\ (v \in mine \/ DeletedByNow(v))
      BY <3>1 DEF HubKnows
    <3>3. v \in Workflows
      BY <3>2 DEF Minted, MintedOnce, Workflows
    <3>4. DeletedByNow(v)'
      <4>1. CASE v \in mine
        BY <2>3, <4>1 DEF HubMoves
      <4>2. CASE DeletedByNow(v)
        BY <3>3, <4>2, Lasting
      <4> QED BY <3>2, <4>1, <4>2
    <3> QED BY <1>1, <2>1, <3>2, <3>4 DEF DeletedByNow
  <2> QED BY <2>2, <2>3
<1>5. ASSUME NEW i \in DOMAIN outbox', outbox'[i].kind \in {"created", "changed"}
      PROVE  outbox'[i].series \in Series /\ hub'[outbox'[i].series].state # "none"
  <2>1. CASE i \in DOMAIN outbox
    BY <1>5, <2>1, Positions DEF HubKnows, HubMoves
  <2>2. CASE New(i)
    BY <1>5, <2>2 DEF HubMoves
  <2> QED BY <2>1, <2>2, Positions
<1> QED BY <1>3, <1>4, <1>5 DEF HubKnows

(* The hub announces in turn, unless an announced instance was deleted. *)
LEMMA InTurnKept ==
  ASSUME Typed, MintedOnce, HubKnows, HubMoves, LogGrows, CommandsTyped',
         NEW s \in Series, InTurn(s), ~AnnouncedDeleted(s)'
  PROVE  InTurn(s)'
<1>1. ASSUME NEW k \in DOMAIN outbox, outbox[k].kind = "created", outbox[k].series = s
      PROVE  ~MayRestart(s)
  <2>1. hub[s].state # "none"
    BY <1>1 DEF HubKnows
  <2>2. ASSUME hub[s].live \notin mine PROVE FALSE
    <3>1. DeletedByNow(hub[s].live)
      BY <2>1, <2>2 DEF HubKnows
    <3>2. AnnouncedDeleted(s)
      BY <1>1, <3>1 DEF InTurn, Announces, AnnouncedDeleted
    <3> QED BY <3>2, DeletedLasts
  <2> QED BY <2>1, <2>2 DEF MayRestart
<1>2. ASSUME NEW i, New(i), outbox'[i].kind = "created", outbox'[i].series = s
      PROVE  i \in DOMAIN outbox' /\ hub'[s].live = outbox'[i].w /\ \A k \in DOMAIN outbox' : k <= i
  <2>1. i = Len(outbox') /\ hub'[s].live = outbox'[i].w
    BY <1>2 DEF HubMoves
  <2>2. outbox' \in Seq(Emitted)
    BY DEF HubMoves, HubTyped
  <2>3. Len(outbox') \in Nat /\ DOMAIN outbox' = 1 .. Len(outbox')
    BY <2>2, LenProperties
  <2> QED BY <1>2, <2>1, <2>3 DEF New
<1>3. ASSUME NEW i \in DOMAIN outbox', outbox'[i].kind \in {"created", "changed"}, outbox'[i].series = s,
             NEW k \in DOMAIN outbox', k < i, outbox'[k].kind = "created", outbox'[k].series = s
      PROVE  \E j \in DOMAIN outbox' : k <= j /\ j < i /\ Announces(j, s, outbox[i].prev)'
  <2>1. k \in DOMAIN outbox
    <3>1. ASSUME New(k) PROVE FALSE
      <4>1. i <= k /\ i \in Nat /\ k \in Nat
        BY <1>2, <1>3, <3>1, Positions
      <4> QED BY <1>3, <4>1
    <3> QED BY <3>1, Positions
  <2>2. CASE i \in DOMAIN outbox
    <3>1. PICK j \in DOMAIN outbox : k <= j /\ j < i /\ Announces(j, s, outbox[i].prev)
      BY <1>3, <2>1, <2>2, Positions DEF InTurn
    <3> QED BY <2>2, <3>1, Positions DEF Announces
  <2>3. CASE New(i)
    <3>1. outbox'[i].prev = hub[s].live
      BY <1>1, <1>3, <2>1, <2>3, Positions DEF HubMoves
    <3>2. PICK j \in DOMAIN outbox : k <= j /\ Announces(j, s, hub[s].live)
      BY <1>3, <2>1, Positions DEF InTurn
    <3>3. j < i
      BY <2>3, Positions
    <3> QED BY <3>1, <3>2, <3>3, Positions DEF Announces
  <2> QED BY <2>2, <2>3, Positions
<1>4. ASSUME NEW k \in DOMAIN outbox', outbox'[k].kind = "created", outbox'[k].series = s
      PROVE  \E j \in DOMAIN outbox' : k <= j /\ Announces(j, s, hub[s].live)'
  <2>1. CASE New(k)
    BY <1>2, <1>4, <2>1, Positions DEF Announces
  <2>2. CASE k \in DOMAIN outbox
    <3>1. ~MayRestart(s)
      BY <1>1, <1>4, <2>2, Positions
    <3>2. CASE hub'[s].live = hub[s].live
      <4>1. PICK j \in DOMAIN outbox : k <= j /\ Announces(j, s, hub[s].live)
        BY <1>4, <2>2, Positions DEF InTurn
      <4> QED BY <3>2, <4>1, Positions DEF Announces
    <3>3. ASSUME NEW i, New(i), outbox'[i].kind = "created",
                 outbox'[i].series = s, outbox'[i].w = hub'[s].live
          PROVE  \E j \in DOMAIN outbox' : k <= j /\ Announces(j, s, hub[s].live)'
      BY <1>2, <1>4, <3>3 DEF Announces
    <3> QED BY <3>1, <3>2, <3>3 DEF HubMoves
  <2> QED BY <2>1, <2>2, Positions
<1>5. ASSUME NEW i \in DOMAIN outbox', outbox'[i].kind = "changed"
      PROVE  outbox'[i].prev = outbox'[i].w
  <2>1. CASE i \in DOMAIN outbox
    BY <1>5, <2>1, Positions DEF InTurn
  <2>2. CASE New(i)
    BY <1>5, <2>2 DEF HubMoves
  <2> QED BY <2>1, <2>2, Positions
<1> QED BY <1>3, <1>4, <1>5 DEF InTurn

-----------------------------------------------------------------------------
(* The rows of the server.                                                 *)

KnownStays == \A s \in Series : Known(s) => Known(s)'

(* What is known stays known. *)
LEMMA StepKnows ==
  ASSUME Typed, [Next]_vars
  PROVE  KnownStays
<1>1. CASE UNCHANGED series
  BY <1>1 DEF KnownStays, Known
<1>2. ASSUME NEW s \in Series, NEW spec, series' = SeriesSet(s, spec)
      PROVE  KnownStays /\ Known(s)'
  <2>1. /\ series'[s] = [state |-> "active", spec |-> spec]
        /\ \A t \in Series : t # s => series'[t] = series[t]
    BY <1>2 DEF SeriesSet, Typed, SeriesTyped
  <2> QED BY <2>1 DEF KnownStays, Known, NoSeries
<1>3. ASSUME NEW s, NEW state, state # "none", series' = SeriesMoved(s, state)
      PROVE  KnownStays
  <2>1. CASE s \in Series
    <3>1. series'[s].state = state /\ \A t \in Series : t # s => series'[t] = series[t]
      BY <1>3, <2>1 DEF SeriesMoved, Typed, SeriesTyped
    <3> QED BY <1>3, <3>1 DEF KnownStays, Known, NoSeries
  <2>2. CASE s \notin Series
    <3>1. \A t \in Series : series'[t] = series[t]
      BY <1>3, <2>2 DEF SeriesMoved, Typed, SeriesTyped
    <3> QED BY <3>1 DEF KnownStays, Known
  <2> QED BY <2>1, <2>2
<1>4. ASSUME NEW w \in Workflows, NEW s \in Series, NEW spec \in Specs,
             Schedule(w, s, spec) \/ ScheduleThenCrash(w, s, spec)
      PROVE  KnownStays
  BY <1>1, <1>2, <1>4 DEF Schedule, ScheduleThenCrash
<1>5. ASSUME NEW w \in Workflows, Cancel(w) PROVE KnownStays
  BY <1>3, <1>5 DEF Cancel
<1>6. ASSUME NEW i \in DOMAIN outbox, HandleEvent(i) PROVE KnownStays
  <2>1. \/ UNCHANGED series
        \/ series' = SeriesMoved(outbox[i].series, NextState(series[outbox[i].series].state, outbox[i].to))
    BY <1>6 DEF HandleEvent, Mirror, MirrorArchived, MirrorChanged, MirrorMissed, MirrorStatus
  <2>2. NextState(series[outbox[i].series].state, outbox[i].to) # "none"
    BY DEF NextState
  <2> QED BY <1>1, <1>3, <2>1, <2>2
<1>7. \/ UNCHANGED series
      \/ \E w \in Workflows, s \in Series, spec \in Specs :
           Schedule(w, s, spec) \/ ScheduleThenCrash(w, s, spec)
      \/ \E w \in Workflows : Cancel(w)
      \/ \E i \in DOMAIN outbox : HandleEvent(i)
  BY DEF Next, Operator, Hub, Events, vars, CancelThenCrash, Delete, HubApply, HubFires, HubBreaks,
         HubArchives, HubRuns, HandleEventThenCrash, RefuseEvent
<1> QED BY <1>1, <1>4, <1>5, <1>6, <1>7

(* A row is set. *)
LEMMA RowSet ==
  ASSUME Rows, KnownStays, NEW w \in Workflows, NEW r,
         r = NoRow \/ (r \in Row /\ (r.series # "none" => Known(r.series)')),
         wf' = [wf EXCEPT ![w] = r]
  PROVE  /\ Rows'
         /\ wf'[w] = r /\ \A v \in Workflows : v # w => wf'[v] = wf[v]
<1>1. /\ wf' \in [Workflows -> Row \cup {NoRow}]
      /\ wf'[w] = r /\ \A v \in Workflows : v # w => wf'[v] = wf[v]
  BY DEF Rows
<1>2. ASSUME NEW v \in Workflows
      PROVE  Exists(v)' /\ wf'[v].series # "none" => Known(wf[v].series)'
  <2>1. CASE v = w
    BY <1>1, <2>1 DEF Exists, Known
  <2>2. CASE v # w
    <3>1. wf'[v] = wf[v]
      BY <1>1, <2>2
    <3>2. wf[v] = NoRow \/ wf[v] \in Row
      BY DEF Rows
    <3>3. Exists(v)' /\ wf[v].series # "none" => wf[v].series \in Series /\ Known(wf[v].series)
      BY <3>1, <3>2 DEF Rows, Exists, Row
    <3>4. \A t \in Series : Known(t) => Known(t)'
      BY DEF KnownStays
    <3> QED BY <3>1, <3>2, <3>3, <3>4 DEF Known
  <2> QED BY <2>1, <2>2
<1> QED BY <1>1, <1>2 DEF Rows

LEMMA RowsStay ==
  ASSUME Rows, KnownStays, UNCHANGED wf
  PROVE  Rows'
BY DEF Rows, KnownStays, Known, Exists, Row

(* An announced instance is inserted behind the one that fired. *)
LEMMA RowsInserted ==
  ASSUME Typed, Rows, MintedOnce, KnownStays, NEW i \in DOMAIN outbox, outbox[i].kind = "created",
         outbox[i].series \in Series, Accepts(outbox[i]), ~Exists(outbox[i].w),
         wf' = InsertInstance(outbox[i])
  PROVE  /\ Rows'
         /\ outbox[i].w \in Clones /\ outbox[i].prev \in Instances(outbox[i].series)
         /\ outbox[i].prev # outbox[i].w
         /\ wf'[outbox[i].w] = Armed(outbox[i].series)
         /\ wf'[outbox[i].prev] = Fired(wf[outbox[i].prev])
         /\ \A v \in Workflows : v \notin {outbox[i].w, outbox[i].prev} => wf'[v] = wf[v]
<1> PICK x, p, s : x = outbox[i].w /\ p = outbox[i].prev /\ s = outbox[i].series
  OBVIOUS
<1>1. /\ x \in Clones /\ x \in Workflows /\ p \in Instances(s) /\ p \in Workflows
      /\ s \in Series /\ Known(s) /\ Exists(p) /\ wf[p].series = s /\ p # x
  BY DEF MintedOnce, Accepts, Instances, Workflows
<1>2. wf' = [wf EXCEPT ![x] = Armed(s), ![p] = Fired(@)]
  BY DEF InsertInstance
<1>3. /\ Armed(s) \in Row /\ Armed(s).series = s
      /\ Fired(wf[p]) \in Row /\ Fired(wf[p]).series = s
  BY <1>1, ArmedRow, FiredRow DEF Rows, Exists
<1>4. /\ wf' \in [Workflows -> Row \cup {NoRow}]
      /\ wf'[x] = Armed(s) /\ wf'[p] = Fired(wf[p])
      /\ \A v \in Workflows : v \notin {x, p} => wf'[v] = wf[v]
  <2>1. wf' = [wf EXCEPT ![x] = Armed(s), ![p] = Fired(wf[p])]
    BY <1>1, <1>2
  <2> QED BY <1>1, <1>3, <2>1 DEF Rows
<1>5. ASSUME NEW v \in Workflows
      PROVE  Exists(v)' /\ wf'[v].series # "none" => Known(wf[v].series)'
  <2>1. CASE v \in {x, p}
    BY <1>1, <1>3, <1>4, <2>1 DEF KnownStays, Known
  <2>2. CASE v \notin {x, p}
    <3>1. wf'[v] = wf[v]
      BY <1>4, <2>2
    <3>2. wf[v] = NoRow \/ wf[v] \in Row
      BY DEF Rows
    <3>3. Exists(v)' /\ wf[v].series # "none" => wf[v].series \in Series /\ Known(wf[v].series)
      BY <3>1, <3>2 DEF Rows, Exists, Row
    <3>4. \A t \in Series : Known(t) => Known(t)'
      BY DEF KnownStays
    <3> QED BY <3>1, <3>2, <3>3, <3>4 DEF Known
  <2> QED BY <2>1, <2>2
<1> QED BY <1>1, <1>4, <1>5 DEF Rows

-----------------------------------------------------------------------------
(* Most steps are calm: no row appears, changes its series or is armed, a  *)
(* row that goes was deleted, and what is answered was dealt with.         *)

Calm ==
  /\ \A w \in Workflows :
       /\ Exists(w)' => /\ Exists(w) /\ wf'[w].series = wf[w].series
                        /\ wf'[w].sched = "armed" => wf[w].sched = "armed"
       /\ Exists(w) => Exists(w)' \/ DeletedByNow(w)'
  /\ stored \subseteq stored' /\ answered <= answered'
  /\ \A i \in DOMAIN outbox' : i <= answered' =>
       \/ i <= answered
       \/ /\ i \in DOMAIN outbox /\ i = answered + 1
          /\ outbox[i].kind # "created" => i \in stored'
          /\ outbox[i].kind = "created" =>
               \/ Exists(outbox[i].w)'
               \/ series'[outbox[i].series].state = "cancelled"
               \/ outbox[i].prev \notin Instances(outbox[i].series)

(* Or a workflow gets a new series, ...                                    *)
Pointed ==
  \E w \in Workflows, s \in Series :
    /\ Fresh(s) /\ Exists(w)
    /\ wf'[w].series = s /\ wf'[w].sched = "none" /\ Exists(w)'
    /\ \A v \in Workflows : v # w => wf'[v] = wf[v]
    /\ UNCHANGED <<hub, mine, outbox, applied, answered, stored>>

(* ... the server gets event i, ...                                        *)
Got(i) ==
  /\ i \in DOMAIN outbox /\ i <= answered + 1
  /\ stored \subseteq stored'
  /\ answered' = answered \/ (i = answered + 1 /\ answered' = i)
  /\ UNCHANGED <<log, applied, hub, mine, outbox>>

(* ... which inserts an instance, ...                                      *)
Inserted ==
  \E i \in DOMAIN outbox :
    /\ Got(i)
    /\ outbox[i].kind = "created" /\ Accepts(outbox[i]) /\ ~Exists(outbox[i].w)
    /\ wf' = InsertInstance(outbox[i])
    /\ UNCHANGED series

(* ... or arms one.                                                        *)
Rearmed ==
  \E i \in DOMAIN outbox :
    /\ Got(i)
    /\ outbox[i].kind = "changed" /\ i \notin stored /\ i \in stored'
    /\ outbox[i].series \in Series /\ outbox[i].w \in Instances(outbox[i].series)
    /\ Exists(outbox[i].w)' /\ wf'[outbox[i].w].series = outbox[i].series
    /\ \A v \in Workflows : v # outbox[i].w => wf'[v] = wf[v]

LEMMA CalmWhenStill ==
  ASSUME UNCHANGED <<wf, stored, answered>>, Typed, HubMoves
  PROVE  Calm
BY DEF Calm, Exists, Typed

(* A row changes, but not its series, and it is not armed. *)
LEMMA CalmRow ==
  ASSUME Typed, Rows, NEW w \in Workflows, NEW r \in Row, Exists(w),
         wf'[w] = r, \A v \in Workflows : v # w => wf'[v] = wf[v],
         r.series = wf[w].series, r.sched = "armed" => wf[w].sched = "armed"
  PROVE  \A v \in Workflows :
           /\ Exists(v)' => /\ Exists(v) /\ wf'[v].series = wf[v].series
                            /\ wf'[v].sched = "armed" => wf[v].sched = "armed"
           /\ Exists(v) => Exists(v)'
<1> SUFFICES ASSUME NEW v \in Workflows
             PROVE  /\ Exists(v)' => /\ Exists(v) /\ wf'[v].series = wf[v].series
                                     /\ wf'[v].sched = "armed" => wf[v].sched = "armed"
                    /\ Exists(v) => Exists(v)'
  OBVIOUS
<1>1. CASE v = w
  BY <1>1, RowExists DEF Exists
<1>2. CASE v # w
  BY <1>2 DEF Exists
<1> QED BY <1>1, <1>2

(* An event is answered, and was dealt with. *)
LEMMA CalmAnswer ==
  ASSUME Typed, HubMoves, NEW n \in DOMAIN outbox, n <= answered + 1,
         answered' = answered \/ (n = answered + 1 /\ answered' = n),
         stored \subseteq stored',
         outbox[n].kind # "created" => n \in stored',
         outbox[n].kind = "created" =>
               \/ Exists(outbox[n].w)'
               \/ series'[outbox[n].series].state = "cancelled"
               \/ outbox[n].prev \notin Instances(outbox[n].series),
         \A v \in Workflows :
           /\ Exists(v)' => /\ Exists(v) /\ wf'[v].series = wf[v].series
                            /\ wf'[v].sched = "armed" => wf[v].sched = "armed"
           /\ Exists(v) => Exists(v)'
  PROVE  Calm
<1>1. ASSUME NEW i \in DOMAIN outbox', i <= answered'
      PROVE  i <= answered \/ (i = n /\ i = answered + 1)
  <2>1. i \in Nat /\ answered \in Nat
    BY Positions DEF Typed
  <2> QED BY <1>1, <2>1
<1>2. answered <= answered'
  BY DEF Typed
<1> QED BY <1>1, <1>2 DEF Calm

(* An event the server handles. *)
LEMMA HandledRows ==
  ASSUME Typed, Rows, MintedOnce, HubKnows, HubMoves, KnownStays,
         NEW i \in DOMAIN outbox, HandleEvent(i)
  PROVE  Rows' /\ (Calm \/ Inserted \/ Rearmed)
<1> PICK e : e = outbox[i]
  OBVIOUS
<1>1. /\ i <= answered + 1
      /\ stored' = stored \cup {i}
      /\ answered' = answered \/ (i = answered + 1 /\ answered' = i)
      /\ UNCHANGED <<log, applied, hub, mine, outbox>>
  BY DEF HandleEvent, Arrives, Answered
<1>2. Got(i) /\ stored \subseteq stored' /\ i \in stored'
  BY <1>1 DEF Got
<1>3. e \in Emitted
  BY ElementOfSeq, LenProperties DEF Typed, HubTyped
<1>4. ASSUME e.kind # "created", UNCHANGED wf PROVE Rows' /\ Calm
  BY <1>1, <1>2, <1>4, RowsStay, CalmAnswer DEF Exists
<1>5. ASSUME NEW w \in Workflows, NEW r \in Row, e.kind # "created", Exists(w), wf' = [wf EXCEPT ![w] = r],
             r.series = wf[w].series, r.sched = "armed" => wf[w].sched = "armed"
      PROVE  Rows' /\ Calm
  <2>1. r.series # "none" => Known(r.series)'
    <3>1. wf[w].series \in Series \cup {"none"} /\ (wf[w].series # "none" => Known(wf[w].series))
      BY <1>5 DEF Rows, Exists, Row
    <3>2. \A t \in Series : Known(t) => Known(t)'
      BY DEF KnownStays
    <3> QED BY <1>5, <3>1, <3>2 DEF Known
  <2>2. Rows' /\ wf'[w] = r /\ \A v \in Workflows : v # w => wf'[v] = wf[v]
    BY <1>5, <2>1, RowSet
  <2>3. \A v \in Workflows :
           /\ Exists(v)' => /\ Exists(v) /\ wf'[v].series = wf[v].series
                            /\ wf'[v].sched = "armed" => wf[v].sched = "armed"
           /\ Exists(v) => Exists(v)'
    BY <1>5, <2>2, CalmRow
  <2> QED BY <1>1, <1>2, <1>5, <2>2, <2>3, CalmAnswer
<1>6. CASE e.kind = "created"
  <2>1. Accepts(e) /\ wf' = InsertInstance(e) /\ UNCHANGED series
    BY <1>6 DEF HandleEvent
  <2>2. CASE Exists(e.w)
    <3>1. UNCHANGED wf
      BY <2>1, <2>2 DEF InsertInstance
    <3>2. Exists(e.w)'
      BY <2>2, <3>1 DEF Exists
    <3> QED BY <1>1, <1>2, <1>6, <3>1, <3>2, RowsStay, CalmAnswer DEF Exists
  <2>3. CASE ~Exists(e.w)
    <3>1. e.series \in Series
      BY <1>6 DEF HubKnows
    <3>2. Rows'
      BY <1>6, <2>1, <2>3, <3>1, RowsInserted
    <3> QED BY <1>2, <1>6, <2>1, <2>3, <3>2 DEF Inserted
  <2> QED BY <2>2, <2>3
<1>7. CASE e.kind # "created" /\ i \in stored
  BY <1>4, <1>7 DEF HandleEvent
<1>8. CASE e.kind # "created" /\ i \notin stored
  <2>1. Mirror(i)
    BY <1>8 DEF HandleEvent
  <2>2. CASE e.kind = "archived" /\ MirrorArchived(e)
    <3>1. CASE UNCHANGED wf
      BY <1>4, <2>2, <3>1
    <3>2. CASE Exists(e.w) /\ wf' = [wf EXCEPT ![e.w] = ScheduleFields(@, [archived |-> e.to = "archived"])]
      <4>1. CASE e.w \in Workflows
        <5>1. wf[e.w] \in Row
          BY <3>2, <4>1 DEF Rows, Exists
        <5>2. PICK r : r = [wf[e.w] EXCEPT !.archived = (e.to = "archived")]
          OBVIOUS
        <5>3. ScheduleFields(wf[e.w], [archived |-> e.to = "archived"]) = r
          BY <5>1, <5>2, ArchivedSet
        <5>4. r \in Row /\ r.series = wf[e.w].series /\ r.sched = wf[e.w].sched
          BY <5>1, <5>2 DEF Row
        <5>5. wf' = [wf EXCEPT ![e.w] = r]
          BY <3>2, <5>3
        <5>6. e.kind # "created" /\ Exists(e.w) /\ (r.sched = "armed" => wf[e.w].sched = "armed")
          BY <2>2, <3>2, <5>4
        <5> QED BY <1>5, <4>1, <5>4, <5>5, <5>6
      <4>2. CASE e.w \notin Workflows
        <5>1. UNCHANGED wf
          BY <3>2, <4>2 DEF Rows
        <5> QED BY <1>4, <2>2, <5>1
      <4> QED BY <4>1, <4>2
    <3> QED BY <2>2, <3>1, <3>2 DEF MirrorArchived
  <2>3. CASE e.kind = "status" /\ MirrorStatus(e)
    <3>1. CASE UNCHANGED wf
      BY <1>4, <2>3, <3>1
    <3>2. CASE Exists(e.w) /\ wf' = [wf EXCEPT ![e.w].status = e.to]
      <4>1. CASE e.w \in Workflows
        <5>1. wf[e.w] \in Row /\ e.to \in {"idle", "busy"}
          BY <1>3, <2>3, <3>2, <4>1 DEF Rows, Exists, Emitted
        <5>2. PICK r : r = [wf[e.w] EXCEPT !.status = e.to]
          OBVIOUS
        <5>3. r \in Row /\ r.series = wf[e.w].series /\ r.sched = wf[e.w].sched
          BY <5>1, <5>2 DEF Row
        <5>4. wf' = [wf EXCEPT ![e.w] = r]
          BY <3>2, <5>2
        <5> QED BY <1>5, <2>3, <3>2, <4>1, <5>3, <5>4
      <4>2. CASE e.w \notin Workflows
        <5>1. UNCHANGED wf
          BY <3>2, <4>2 DEF Rows
        <5> QED BY <1>4, <2>3, <5>1
      <4> QED BY <4>1, <4>2
    <3> QED BY <2>3, <3>1, <3>2 DEF MirrorStatus
  <2>4. CASE e.kind = "missed" /\ MirrorMissed(i)
    BY <1>4, <2>4 DEF MirrorMissed
  <2>5. CASE e.kind = "changed" /\ MirrorChanged(e)
    <3>1. CASE UNCHANGED wf
      BY <1>4, <2>5, <3>1
    <3>2. CASE e.w \in Instances(e.series) /\ wf' = [wf EXCEPT ![e.w] = ScheduleFields(@, [sched |-> e.to])]
      <4>1. /\ e.w \in Workflows /\ Exists(e.w) /\ wf[e.w].series = e.series /\ wf[e.w] \in Row
            /\ e.series \in Series /\ e.to \in ScheduleStates
        BY <1>3, <2>5, <3>2 DEF Instances, Rows, Exists, HubKnows, Emitted
      <4>2. PICK r : r = [wf[e.w] EXCEPT !.sched = e.to]
        OBVIOUS
      <4>3. ScheduleFields(wf[e.w], [sched |-> e.to]) = r
        BY <4>1, <4>2, SchedSet
      <4>4. r \in Row /\ r.series = wf[e.w].series
        BY <4>1, <4>2 DEF Row
      <4>5. wf' = [wf EXCEPT ![e.w] = r]
        BY <3>2, <4>3
      <4>6. Known(e.series)'
        <5>1. Known(e.series)
          BY <4>1, IdAssumption DEF Rows
        <5> QED BY <4>1, <5>1 DEF KnownStays
      <4>7. Rows' /\ wf'[e.w] = r /\ \A v \in Workflows : v # e.w => wf'[v] = wf[v]
        <5>1. r.series # "none" => Known(r.series)'
          BY <4>1, <4>4, <4>6 DEF Known
        <5> QED BY <4>1, <4>4, <4>5, <5>1, RowSet
      <4>8. Exists(e.w)' /\ wf'[e.w].series = e.series
        BY <4>1, <4>4, <4>7, RowExists DEF Exists
      <4>9. Rearmed
        <5>1. Exists(outbox[i].w)' /\ wf'[outbox[i].w].series = outbox[i].series
          BY <1>1, <4>8 DEF Exists
        <5> QED BY <1>2, <1>8, <2>5, <3>2, <4>1, <4>7, <5>1 DEF Rearmed
      <4> QED BY <4>7, <4>9
    <3> QED BY <2>5, <3>1, <3>2 DEF MirrorChanged
  <2> QED BY <2>1, <2>2, <2>3, <2>4, <2>5 DEF Mirror
<1> QED BY <1>6, <1>7, <1>8

(* Every step keeps the rows, and is calm or one of the three. *)
LEMMA StepRows ==
  ASSUME Typed, Rows, MintedOnce, HubKnows, HubMoves, KnownStays, [Next]_vars
  PROVE  Rows' /\ (Calm \/ Pointed \/ Inserted \/ Rearmed)
<1>1. CASE UNCHANGED <<wf, stored, answered>>
  BY <1>1, RowsStay, CalmWhenStill
<1>2. ASSUME NEW w \in Workflows, NEW s \in Series, NEW spec \in Specs,
             Schedule(w, s, spec) \/ ScheduleThenCrash(w, s, spec)
      PROVE  Rows' /\ (Calm \/ Pointed)
  <2>1. CASE UNCHANGED wf
    <3>1. UNCHANGED <<stored, answered>>
      BY <1>2 DEF Schedule, ScheduleThenCrash, hubSide
    <3> QED BY <2>1, <3>1, RowsStay, CalmWhenStill
  <2>2. CASE Schedule(w, s, spec) /\ ~HasLiveSeries(w)
    <3>1. Exists(w) /\ Fresh(s) /\ series' = SeriesSet(s, spec)
          /\ UNCHANGED <<hub, mine, outbox, applied, answered, stored>>
      BY <2>2 DEF Schedule, CanSchedule, SeriesFor, hubSide
    <3>2. wf[w] \in Row /\ "none" \in ScheduleStates
      BY <3>1 DEF Exists, Rows, ScheduleStates
    <3>3. PICK r : r = [series |-> s, sched |-> "none", status |-> wf[w].status, archived |-> wf[w].archived]
      OBVIOUS
    <3>4. r \in Row /\ r.series = s /\ r.sched = "none"
      BY <3>2, <3>3 DEF Row
    <3>5. wf' = [wf EXCEPT ![w] = r]
      BY <2>2, <3>2, <3>3, PointerSet DEF Schedule
    <3>6. Known(s)'
      BY <3>1 DEF SeriesSet, Known, NoSeries, Typed, SeriesTyped
    <3>7. Rows' /\ wf'[w] = r /\ \A v \in Workflows : v # w => wf'[v] = wf[v]
      <4>1. r.series # "none" => Known(r.series)'
        BY <3>4, <3>6 DEF Known
      <4> QED BY <3>4, <3>5, <4>1, RowSet
    <3>8. Exists(w)'
      BY <3>4, <3>7, RowExists DEF Exists
    <3> QED BY <3>1, <3>4, <3>7, <3>8 DEF Pointed
  <2> QED BY <1>2, <2>1, <2>2 DEF Schedule, ScheduleThenCrash
<1>3. ASSUME NEW w \in Workflows, Delete(w) PROVE Rows' /\ Calm
  <2>1. Exists(w) /\ UNCHANGED <<outbox, answered, stored>> /\ wf' = [wf EXCEPT ![w].status = "deleting"]
    BY <1>3 DEF Delete, hubSide
  <2>2. wf[w] \in Row
    BY <2>1 DEF Exists, Rows
  <2>3. PICK r : r = [wf[w] EXCEPT !.status = "deleting"]
    OBVIOUS
  <2>4. r \in Row /\ r.series = wf[w].series /\ r.sched = wf[w].sched
    BY <2>2, <2>3 DEF Row
  <2>5. wf' = [wf EXCEPT ![w] = r]
    BY <2>1, <2>3
  <2>6. r.series # "none" => Known(r.series)'
    <3>1. wf[w].series \in Series \cup {"none"} /\ (wf[w].series # "none" => Known(wf[w].series))
      BY <2>1, <2>2 DEF Rows, Row
    <3>2. \A t \in Series : Known(t) => Known(t)'
      BY DEF KnownStays
    <3> QED BY <2>4, <3>1, <3>2 DEF Known
  <2>7. Rows' /\ wf'[w] = r /\ \A v \in Workflows : v # w => wf'[v] = wf[v]
    BY <2>4, <2>5, <2>6, RowSet
  <2>8. \A v \in Workflows :
           /\ Exists(v)' => /\ Exists(v) /\ wf'[v].series = wf[v].series
                            /\ wf'[v].sched = "armed" => wf[v].sched = "armed"
           /\ Exists(v) => Exists(v)'
    BY <2>1, <2>4, <2>7, CalmRow
  <2> QED BY <2>1, <2>7, <2>8 DEF Calm, Typed
<1>4. ASSUME NEW w \in Workflows, HubApply(w) PROVE Rows' /\ Calm
  <2>0. UNCHANGED <<answered, stored, log>>
    BY <1>4 DEF HubApply
  <2>1. CASE UNCHANGED wf
    BY <1>1, <2>0, <2>1, RowsStay, CalmWhenStill
  <2>2. CASE log[w][applied[w] + 1].type = "delete" /\ wf' = [wf EXCEPT ![w] = NoRow]
    <3>1. Rows' /\ wf'[w] = NoRow /\ \A v \in Workflows : v # w => wf'[v] = wf[v]
      BY <2>2, RowSet
    <3>2. DeletedByNow(w)'
      <4>1. applied'[w] = applied[w] + 1 /\ applied[w] \in Nat
        BY <1>4 DEF HubApply, Typed, CommandsTyped
      <4>2. applied[w] + 1 \in 1 .. applied'[w]
        BY <4>1
      <4> QED BY <2>0, <2>2, <4>2 DEF DeletedByNow
    <3>3. \A v \in Workflows :
           /\ Exists(v)' => /\ Exists(v) /\ wf'[v].series = wf[v].series
                            /\ wf'[v].sched = "armed" => wf[v].sched = "armed"
           /\ Exists(v) => Exists(v)' \/ DeletedByNow(v)'
      <4> SUFFICES ASSUME NEW v \in Workflows
                   PROVE  /\ Exists(v)' => /\ Exists(v) /\ wf'[v].series = wf[v].series
                                           /\ wf'[v].sched = "armed" => wf[v].sched = "armed"
                          /\ Exists(v) => Exists(v)' \/ DeletedByNow(v)'
        OBVIOUS
      <4>1. CASE v = w
        BY <3>1, <3>2, <4>1 DEF Exists
      <4>2. CASE v # w
        BY <3>1, <4>2 DEF Exists
      <4> QED BY <4>1, <4>2
    <3> QED BY <2>0, <3>1, <3>3 DEF Calm, Typed
  <2>3. log[w][applied[w] + 1].type \in {"set", "cancel", "delete"}
    <3>1. log[w] \in Seq(Commanding) /\ applied[w] \in Nat /\ Len(log[w]) \in Nat /\ applied[w] < Len(log[w])
      BY <1>4, LenProperties DEF Typed, CommandsTyped, HubApply
    <3>2. applied[w] + 1 \in 1 .. Len(log[w])
      BY <3>1
    <3>3. log[w][applied[w] + 1] \in Commanding
      BY <3>1, <3>2, ElementOfSeq
    <3> QED BY <3>3 DEF Commanding
  <2> QED BY <1>4, <2>1, <2>2, <2>3 DEF HubApply
<1>5. ASSUME NEW i \in DOMAIN outbox, HandleEvent(i) PROVE Rows' /\ (Calm \/ Inserted \/ Rearmed)
  BY <1>5, HandledRows
<1>6. ASSUME NEW i \in DOMAIN outbox, RefuseEvent(i) PROVE Rows' /\ Calm
  <2>1. /\ UNCHANGED <<wf, series, stored>> /\ i <= answered + 1
        /\ outbox[i].kind = "created" /\ ~Accepts(outbox[i])
        /\ answered' = answered \/ (i = answered + 1 /\ answered' = i)
    BY <1>6 DEF RefuseEvent, Arrives, Answered
  <2>2. \/ Exists(outbox[i].w)'
        \/ series'[outbox[i].series].state = "cancelled"
        \/ outbox[i].prev \notin Instances(outbox[i].series)
    <3>1. outbox[i].series \in Series
      BY <2>1 DEF HubKnows
    <3>2. ~Known(outbox[i].series) => Instances(outbox[i].series) = {}
      BY <3>1, IdAssumption DEF Rows, Instances
    <3>3. PICK e : e = outbox[i]
      OBVIOUS
    <3>4. \/ ~Known(e.series) \/ series[e.series].state = "cancelled" \/ Exists(e.w)
          \/ e.prev \notin Instances(e.series)
      BY <2>1, <3>3 DEF Accepts
    <3>5. Exists(e.w) => Exists(e.w)'
      BY <2>1 DEF Exists
    <3>6. outbox'[i] = outbox[i]
      BY Positions
    <3>7. Exists(e.w) => Exists(outbox[i].w)'
      BY <3>3, <3>5, <3>6 DEF Exists
    <3> QED BY <2>1, <3>2, <3>3, <3>4, <3>7
  <2> QED BY <2>1, <2>2, RowsStay, CalmAnswer DEF Exists
<1>7. ASSUME NEW i \in DOMAIN outbox, HandleEventThenCrash(i) PROVE Rows' /\ (Calm \/ Inserted)
  <2>1. UNCHANGED <<series, answered, log, applied, hub, mine, outbox>> /\ i <= answered + 1
    BY <1>7 DEF HandleEventThenCrash, hubSide, Arrives
  <2>2. CASE outbox[i].kind = "created" /\ ~Exists(outbox[i].w)
    <3>1. Accepts(outbox[i]) /\ wf' = InsertInstance(outbox[i]) /\ UNCHANGED stored
      BY <1>7, <2>2 DEF HandleEventThenCrash
    <3>2. outbox[i].series \in Series
      BY <2>2 DEF HubKnows
    <3>3. Rows'
      BY <2>2, <3>1, <3>2, RowsInserted
    <3> QED BY <2>1, <2>2, <3>1, <3>3 DEF Inserted, Got
  <2>3. CASE ~(outbox[i].kind = "created" /\ ~Exists(outbox[i].w))
    <3>1. UNCHANGED wf /\ stored \subseteq stored'
      BY <1>7, <2>3 DEF HandleEventThenCrash, InsertInstance
    <3> QED BY <2>1, <3>1, RowsStay DEF Calm, Exists, Typed
  <2> QED BY <2>2, <2>3
<1> QED
  BY <1>1, <1>2, <1>3, <1>4, <1>5, <1>6, <1>7
  DEF Next, Operator, Hub, Events, vars, hubSide, Cancel, CancelThenCrash, HubFires, HubBreaks,
      HubArchives, HubRuns

-----------------------------------------------------------------------------
(* Calm steps and the three others keep the order of the series.           *)

LEMMA CalmKeeps ==
  ASSUME Typed, CommandsTyped', answered' \in Nat, MintedOnce, MintedOnce', HubKnows, HubKnows',
         HubMoves, LogGrows, CancelStays,
         Received, OneFirst, InOrder, Calm
  PROVE  Received' /\ OneFirst' /\ InOrder'
<1>1. ASSUME NEW i, New(i), outbox'[i].kind = "created"
      PROVE  ~Exists(outbox'[i].w) /\ outbox'[i].w \in Workflows
  BY <1>1, IdAssumption DEF HubMoves, Received, Workflows
<1>2. \A s \in Series : \A w \in Instances(s)' : w \in Instances(s) /\ (wf'[w].sched = "armed" => wf[w].sched = "armed")
  BY DEF Calm, Instances
<1>3. ASSUME NEW i \in DOMAIN outbox', i <= answered
      PROVE  i \in DOMAIN outbox
  <2>1. i \in Nat /\ i \in 1 .. Len(outbox') /\ answered \in Nat /\ answered <= Len(outbox)
    BY LenProperties DEF Typed, HubMoves, HubTyped
  <2> QED BY <1>3, <2>1, LenProperties DEF Typed, HubTyped
<1>4. Received'
  <2>1. ASSUME NEW w \in Workflows, Exists(w)' PROVE w \in Roots \cup Minted'
    <3>1. Exists(w)
      BY <2>1 DEF Calm
    <3> QED BY <3>1, Positions DEF Received, Minted
  <2>2. ASSUME NEW i \in DOMAIN outbox', outbox'[i].kind = "created", Exists(outbox[i].w)'
        PROVE  i <= answered' + 1
    <3>1. PICK w : w = outbox'[i].w
      OBVIOUS
    <3>2. w \in Workflows /\ Exists(w)'
      BY <2>2, <3>1 DEF MintedOnce, Workflows, Exists
    <3>3. Exists(w)
      BY <3>2 DEF Calm
    <3>4. i \in DOMAIN outbox
      BY <1>1, <2>2, <3>1, <3>3, Positions
    <3>5. i <= answered + 1
      BY <2>2, <3>1, <3>3, <3>4, Positions DEF Received
    <3>6. i \in Nat /\ answered \in Nat /\ answered' \in Nat /\ answered <= answered'
      BY <3>4, Positions DEF Calm, Typed
    <3> QED BY <3>5, <3>6
  <2>3. ASSUME NEW i \in DOMAIN outbox', i <= answered', outbox'[i].kind # "created"
        PROVE  i \in stored'
    <3>1. CASE i <= answered
      BY <1>3, <2>3, <3>1, Positions DEF Received, Calm
    <3>2. CASE ~(i <= answered)
      BY <2>3, <3>2, Positions DEF Calm
    <3> QED BY <3>1, <3>2
  <2> QED BY <2>1, <2>2, <2>3 DEF Received
<1>5. OneFirst'
  <2> SUFFICES ASSUME NEW s \in Series, NEW v \in Instances(s)', NEW w \in Instances(s)'
               PROVE  Announced(s, v)' \/ Announced(s, w)' \/ v = w
    BY DEF OneFirst
  <2> QED BY <1>2, Lasting DEF OneFirst
<1>6. ASSUME NEW s \in Series, ~AnnouncedDeleted(s)'
      PROVE  (InTurn(s) /\ RefusedForGood(s) /\ ArmedIsLast(s))'
  <2>1. InTurn(s) /\ RefusedForGood(s) /\ ArmedIsLast(s)
    BY <1>6, DeletedLasts DEF InOrder
  <2>2. InTurn(s)'
    BY <1>6, <2>1, InTurnKept
  <2>3. ASSUME NEW i \in DOMAIN outbox', i <= answered',
               outbox'[i].kind = "created", outbox'[i].series = s
        PROVE  \/ Exists(outbox[i].w)'
               \/ series'[s].state = "cancelled"
               \/ outbox'[i].prev \notin Instances(s)'
    <3>1. PICK w, p : w = outbox'[i].w /\ p = outbox'[i].prev
      OBVIOUS
    <3>2. w \in Workflows
      BY <2>3, <3>1 DEF MintedOnce, Workflows
    <3>3. CASE i <= answered
      <4>1. i \in DOMAIN outbox /\ outbox[i] = outbox'[i]
        BY <1>3, <3>3, Positions
      <4>2. Exists(w) \/ series[s].state = "cancelled" \/ p \notin Instances(s)
        BY <2>1, <2>3, <3>1, <3>3, <4>1 DEF RefusedForGood
      <4>3. ASSUME Exists(w) PROVE Exists(w)'
        <5>1. ASSUME DeletedByNow(w)' PROVE FALSE
          <6>1. Announced(s, w)'
            BY <2>3, <3>1 DEF Announced, Announces
          <6> QED BY <1>6, <5>1, <6>1, DeletedAnnounced
        <5> QED BY <3>2, <4>3, <5>1 DEF Calm
      <4>4. series[s].state = "cancelled" => series'[s].state = "cancelled"
        BY DEF CancelStays
      <4> QED BY <1>2, <3>1, <4>2, <4>3, <4>4 DEF Exists
    <3>4. CASE ~(i <= answered)
      <4>1. i \in DOMAIN outbox /\ outbox[i] = outbox'[i]
        BY <2>3, <3>4, Positions DEF Calm
      <4>2. \/ Exists(outbox[i].w)'
            \/ series'[s].state = "cancelled"
            \/ outbox[i].prev \notin Instances(s)
        BY <2>3, <3>4, <4>1 DEF Calm
      <4> QED BY <1>2, <4>1, <4>2
    <3> QED BY <3>3, <3>4
  <2>4. ASSUME NEW w \in Instances(s)', wf'[w].sched = "armed",
               NEW k \in DOMAIN outbox',
               outbox'[k].kind = "created", outbox'[k].series = s, Exists(outbox[k].w)', outbox'[k].w # w
        PROVE  \E j \in DOMAIN outbox' : k < j /\ Announces(j, s, w)'
    <3>1. w \in Instances(s) /\ wf[w].sched = "armed"
      BY <1>2, <2>4
    <3>2. PICK v : v = outbox'[k].w
      OBVIOUS
    <3>3. v \in Workflows /\ Exists(v)'
      BY <2>4, <3>2 DEF MintedOnce, Workflows, Exists
    <3>4. Exists(v)
      BY <3>3 DEF Calm
    <3>5. k \in DOMAIN outbox /\ outbox[k] = outbox'[k]
      BY <1>1, <2>4, <3>2, <3>4, Positions
    <3>6. PICK j \in DOMAIN outbox : k < j /\ Announces(j, s, w)
      BY <2>1, <2>4, <3>1, <3>2, <3>4, <3>5 DEF ArmedIsLast
    <3> QED BY <3>6, Positions DEF Announces
  <2> QED BY <2>2, <2>3, <2>4 DEF RefusedForGood, ArmedIsLast
<1> QED BY <1>4, <1>5, <1>6 DEF InOrder

LEMMA PointedKeeps ==
  ASSUME Typed, Rows, MintedOnce, HubKnows, HubMoves, LogGrows, CommandsTyped', CancelStays,
         Received, OneFirst, InOrder, Pointed
  PROVE  Received' /\ OneFirst' /\ InOrder'
<1>1. PICK x \in Workflows, new \in Series :
        /\ Fresh(new) /\ Exists(x)
        /\ wf'[x].series = new /\ wf'[x].sched = "none" /\ Exists(x)'
        /\ \A v \in Workflows : v # x => wf'[v] = wf[v]
        /\ UNCHANGED <<hub, mine, outbox, applied, answered, stored>>
  BY DEF Pointed
<1>2. \A v \in Workflows : Exists(v)' <=> Exists(v)
  BY <1>1 DEF Exists
<1>3. Instances(new)' \subseteq {x}
  <2>1. Instances(new) = {}
    BY <1>1, IdAssumption DEF Fresh, Rows, Instances
  <2> QED BY <1>1, <2>1 DEF Instances, Exists
<1>4. \A s \in Series : s # new =>
        \A w \in Instances(s)' : w \in Instances(s) /\ wf'[w] = wf[w]
  BY <1>1, <1>2 DEF Instances
<1>5. \A k \in DOMAIN outbox : outbox[k].kind = "created" => outbox[k].series # new
  <2>1. ~Asked(new)
    <3> SUFFICES ASSUME NEW w \in Workflows, NEW n \in DOMAIN log[w], log[w][n].series = new
                 PROVE  FALSE
      BY DEF Asked
    <3>1. <<w, n>> \in Commands
      BY DEF Commands
    <3>2. log[<<w, n>>[1]][<<w, n>>[2]].series # new
      BY <1>1, <3>1 DEF Fresh
    <3> QED BY <3>2
  <2>2. hub[new].state = "none"
    BY <2>1 DEF HubKnows
  <2> QED BY <2>2 DEF HubKnows
<1>6. Received'
  <2>1. ASSUME NEW w \in Workflows, Exists(w)' PROVE w \in Roots \cup Minted'
    BY <1>1, <1>2, <2>1 DEF Received, Minted
  <2>2. ASSUME NEW i \in DOMAIN outbox', outbox'[i].kind = "created", Exists(outbox[i].w)'
        PROVE  i <= answered' + 1
    <3>1. outbox' = outbox /\ outbox[i].w \in Workflows
      BY <1>1, <2>2 DEF MintedOnce, Workflows
    <3>2. Exists(outbox[i].w)
      BY <1>2, <2>2, <3>1 DEF Exists
    <3> QED BY <1>1, <2>2, <3>1, <3>2 DEF Received
  <2> QED BY <1>1, <2>1, <2>2 DEF Received
<1>7. OneFirst'
  <2> SUFFICES ASSUME NEW s \in Series, NEW v \in Instances(s)', NEW w \in Instances(s)'
               PROVE  Announced(s, v)' \/ Announced(s, w)' \/ v = w
    BY DEF OneFirst
  <2> QED BY <1>3, <1>4, Lasting DEF OneFirst
<1>8. ASSUME NEW s \in Series, ~AnnouncedDeleted(s)'
      PROVE  (InTurn(s) /\ RefusedForGood(s) /\ ArmedIsLast(s))'
  <2>1. InTurn(s) /\ RefusedForGood(s) /\ ArmedIsLast(s)
    BY <1>8, DeletedLasts DEF InOrder
  <2>2. InTurn(s)'
    BY <1>8, <2>1, InTurnKept
  <2>3. CASE s = new
    BY <1>1, <1>5, <2>2, <2>3 DEF RefusedForGood, ArmedIsLast
  <2>4. CASE s # new
    <3>1. ASSUME NEW i \in DOMAIN outbox, i <= answered, outbox[i].kind = "created", outbox[i].series = s
          PROVE  \/ Exists(outbox[i].w)'
                 \/ series'[s].state = "cancelled"
                 \/ outbox[i].prev \notin Instances(s)'
      <4>1. PICK w : w = outbox[i].w
        OBVIOUS
      <4>2. w \in Workflows
        BY <3>1, <4>1 DEF MintedOnce, Workflows
      <4>3. Exists(w) \/ series[s].state = "cancelled" \/ outbox[i].prev \notin Instances(s)
        BY <2>1, <3>1, <4>1 DEF RefusedForGood
      <4>4. Exists(w) => Exists(outbox[i].w)'
        BY <1>1, <1>2, <4>1, <4>2 DEF Exists
      <4> QED BY <1>4, <2>4, <4>3, <4>4 DEF CancelStays
    <3>2. ASSUME NEW w \in Instances(s)', wf'[w].sched = "armed",
                 NEW k \in DOMAIN outbox,
                 outbox[k].kind = "created", outbox[k].series = s, Exists(outbox[k].w)', outbox[k].w # w
          PROVE  \E j \in DOMAIN outbox : k < j /\ Announces(j, s, w)
      <4>1. w \in Instances(s) /\ wf[w].sched = "armed"
        BY <1>4, <2>4, <3>2
      <4>2. outbox[k].w \in Workflows
        BY <3>2 DEF MintedOnce, Workflows
      <4>3. Exists(outbox[k].w)
        BY <1>1, <1>2, <3>2, <4>2 DEF Exists
      <4> QED BY <2>1, <3>2, <4>1, <4>3 DEF ArmedIsLast
    <3>3. RefusedForGood(s)'
      BY <1>1, <3>1 DEF RefusedForGood
    <3>4. ArmedIsLast(s)'
      BY <1>1, <3>2 DEF ArmedIsLast, Announces
    <3> QED BY <2>2, <3>3, <3>4
  <2> QED BY <2>3, <2>4
<1> QED BY <1>6, <1>7, <1>8 DEF InOrder

(* Event i arrives; the outbox stays as it is. *)
LEMMA GotKnows ==
  ASSUME Typed, Received, NEW i, Got(i)
  PROVE  /\ i \in DOMAIN outbox /\ i \in Nat /\ i <= answered + 1
         /\ answered \in Nat /\ answered' \in Nat /\ answered <= answered'
         /\ \A k \in DOMAIN outbox : k <= answered' => k <= answered \/ k = i
         /\ \A k \in DOMAIN outbox : k <= answered + 1 => k <= answered' + 1
         /\ i \notin stored /\ outbox[i].kind # "created" => i = answered + 1
         /\ UNCHANGED outbox /\ stored \subseteq stored'
<1>1. Len(outbox) \in Nat /\ DOMAIN outbox = 1 .. Len(outbox)
  BY LenProperties DEF Typed, HubTyped
<1>2. answered \in Nat /\ answered' \in Nat /\ answered <= answered' /\ i \in Nat
  BY <1>1 DEF Got, Typed
<1>3. \A k \in DOMAIN outbox : k <= answered' => k <= answered \/ k = i
  BY <1>1, <1>2 DEF Got
<1>4. \A k \in DOMAIN outbox : k <= answered + 1 => k <= answered' + 1
  BY <1>1, <1>2
<1>5. i \notin stored /\ outbox[i].kind # "created" => i = answered + 1
  <2>1. i \notin stored /\ outbox[i].kind # "created" => ~(i <= answered)
    BY DEF Got, Received
  <2> QED BY <1>2, <2>1 DEF Got
<1> QED BY <1>2, <1>3, <1>4, <1>5 DEF Got

(* The events of a series that precede event i, and what is armed of it.   *)
LEMMA BeforeEvent ==
  ASSUME Typed, MintedOnce, Received, NEW s \in Series, InTurn(s), ArmedIsLast(s),
         NEW i \in DOMAIN outbox, i = answered + 1,
         outbox[i].kind \in {"created", "changed"}, outbox[i].series = s,
         NEW k \in DOMAIN outbox, k # i, outbox[k].kind = "created", outbox[k].series = s,
         Exists(outbox[k].w)
  PROVE  /\ k < i
         /\ \E j \in DOMAIN outbox : k <= j /\ j < i /\ Announces(j, s, outbox[i].prev)
<1>1. k <= answered + 1 /\ k \in Nat /\ i \in Nat
  BY LenProperties DEF Received, Typed, HubTyped
<1>2. k < i
  BY <1>1
<1> QED BY <1>2 DEF InTurn

LEMMA InsertedKeeps ==
  ASSUME Typed, Rows, MintedOnce, HubKnows, KnownStays, HubMoves, LogGrows, CommandsTyped', CancelStays,
         Received, OneFirst, InOrder, Inserted
  PROVE  Received' /\ OneFirst' /\ InOrder'
<1>1. PICK i \in DOMAIN outbox :
        /\ Got(i)
        /\ outbox[i].kind = "created" /\ Accepts(outbox[i]) /\ ~Exists(outbox[i].w)
        /\ wf' = InsertInstance(outbox[i])
        /\ UNCHANGED series
  BY DEF Inserted
<1> PICK x, p, t : x = outbox[i].w /\ p = outbox[i].prev /\ t = outbox[i].series
  OBVIOUS
<1>2. /\ i \in Nat /\ i <= answered + 1
      /\ answered \in Nat /\ answered' \in Nat /\ answered <= answered'
      /\ \A k \in DOMAIN outbox : k <= answered' => k <= answered \/ k = i
      /\ \A k \in DOMAIN outbox : k <= answered + 1 => k <= answered' + 1
      /\ UNCHANGED outbox /\ stored \subseteq stored'
  BY <1>1, GotKnows
<1>3. /\ t \in Series
      /\ x \in Clones /\ x \in Workflows /\ p \in Instances(t) /\ p \in Workflows /\ p # x
      /\ wf'[x] = Armed(t) /\ wf'[p] = Fired(wf[p])
      /\ \A v \in Workflows : v \notin {x, p} => wf'[v] = wf[v]
      /\ wf[p] \in Row /\ wf[p].series = t /\ Exists(p)
  <2>1. t \in Series
    BY <1>1 DEF HubKnows
  <2> QED BY <1>1, <2>1, RowsInserted DEF Workflows, Instances, Rows, Exists
<1>4. /\ Exists(x)' /\ wf'[x].series = t
      /\ Exists(p)' /\ wf'[p].series = t /\ wf'[p].sched # "armed"
  BY <1>3, ArmedRow, FiredRow, RowExists DEF Exists
<1>5. \A v \in Workflows : v # x => (Exists(v)' <=> Exists(v))
  BY <1>3, <1>4 DEF Exists
<1>6. \A s \in Series : \A w \in Instances(s)' :
        \/ w = x /\ s = t
        \/ w # x /\ w \in Instances(s) /\ (wf'[w].sched = "armed" => w # p /\ wf[w].sched = "armed")
  <2> SUFFICES ASSUME NEW s \in Series, NEW w \in Instances(s)'
               PROVE  \/ w = x /\ s = t
                      \/ w # x /\ w \in Instances(s) /\ (wf'[w].sched = "armed" => w # p /\ wf[w].sched = "armed")
    OBVIOUS
  <2>1. CASE w = x
    BY <1>4, <2>1 DEF Instances
  <2>2. CASE w = p
    BY <1>3, <1>4, <2>2 DEF Instances
  <2>3. CASE w \notin {x, p}
    BY <1>3, <1>5, <2>3 DEF Instances
  <2> QED BY <2>1, <2>2, <2>3
<1>7. \A k \in DOMAIN outbox : outbox[k].kind = "created" /\ outbox[k].w = x => k = i
  BY <1>1 DEF MintedOnce
<1>8. Received'
  <2>1. ASSUME NEW w \in Workflows, Exists(w)' PROVE w \in Roots \cup Minted
    BY <1>1, <1>5, <2>1 DEF Received, Minted
  <2>2. ASSUME NEW k \in DOMAIN outbox, outbox[k].kind = "created", Exists(outbox[k].w)'
        PROVE  k <= answered' + 1
    <3>1. PICK w : w = outbox[k].w
      OBVIOUS
    <3>2. w \in Workflows /\ Exists(w)'
      BY <1>2, <2>2, <3>1 DEF MintedOnce, Workflows, Exists
    <3>3. CASE w = x
      BY <1>2, <1>7, <2>2, <3>1, <3>3
    <3>4. CASE w # x
      BY <1>2, <1>5, <2>2, <3>1, <3>2, <3>4 DEF Received
    <3> QED BY <3>3, <3>4
  <2>3. ASSUME NEW k \in DOMAIN outbox, k <= answered', outbox[k].kind # "created"
        PROVE  k \in stored'
    BY <1>1, <1>2, <2>3 DEF Received
  <2>4. Minted' = Minted
    BY <1>2 DEF Minted
  <2> QED BY <1>2, <2>1, <2>2, <2>3, <2>4 DEF Received
<1>9. OneFirst'
  <2> SUFFICES ASSUME NEW s \in Series, NEW v \in Instances(s)', NEW w \in Instances(s)'
               PROVE  Announced(s, v)' \/ Announced(s, w)' \/ v = w
    BY DEF OneFirst
  <2>1. Announced(t, x)
    BY <1>1 DEF Announced, Announces
  <2> QED BY <1>6, <2>1, Lasting DEF OneFirst
<1>10. ASSUME NEW s \in Series, ~AnnouncedDeleted(s)'
       PROVE  (InTurn(s) /\ RefusedForGood(s) /\ ArmedIsLast(s))'
  <2>1. InTurn(s) /\ RefusedForGood(s) /\ ArmedIsLast(s)
    BY <1>10, DeletedLasts DEF InOrder
  <2>2. InTurn(s)'
    BY <1>10, <2>1, InTurnKept
  <2>3. s = t => i = answered + 1
    <3>1. ASSUME s = t, i <= answered PROVE FALSE
      BY <1>1, <1>3, <2>1, <3>1 DEF RefusedForGood, Accepts
    <3> QED BY <1>2, <3>1
  <2>4. ASSUME NEW n \in DOMAIN outbox, n <= answered', outbox[n].kind = "created", outbox[n].series = s
        PROVE  \/ Exists(outbox[n].w)'
               \/ series'[s].state = "cancelled"
               \/ outbox[n].prev \notin Instances(s)'
    <3>1. PICK w : w = outbox[n].w
      OBVIOUS
    <3>2. w \in Workflows
      BY <2>4, <3>1 DEF MintedOnce, Workflows
    <3>3. CASE n = i
      BY <1>2, <1>4, <3>3 DEF Exists
    <3>4. CASE n # i
      <4>1. n <= answered
        BY <1>2, <2>4, <3>4
      <4>2. Exists(w) \/ series[s].state = "cancelled" \/ outbox[n].prev \notin Instances(s)
        BY <2>1, <2>4, <3>1, <4>1 DEF RefusedForGood
      <4>3. CASE Exists(w)
        <5>1. w # x
          BY <1>1, <4>3
        <5>2. Exists(w)'
          BY <1>5, <3>2, <4>3, <5>1
        <5> QED BY <1>2, <3>1, <5>2 DEF Exists
      <4>4. CASE series[s].state = "cancelled"
        BY <4>4 DEF CancelStays
      <4>5. CASE outbox[n].prev \notin Instances(s)
        <5>1. ASSUME outbox[n].prev = x, s = t PROVE FALSE
          <6>1. PICK j \in DOMAIN outbox : j < n /\ outbox[j].kind = "created" /\ outbox[j].w = x
            BY <1>3, <2>4, <5>1, IdAssumption DEF MintedOnce
          <6>2. j = i
            BY <1>7, <6>1
          <6>3. n \in Nat /\ n <= answered /\ i < n /\ i = answered + 1
            BY <2>3, <4>1, <5>1, <6>1, <6>2, Positions
          <6> QED BY <1>2, <6>3
        <5> QED BY <1>2, <1>6, <4>5, <5>1
      <4> QED BY <4>2, <4>3, <4>4, <4>5
    <3> QED BY <3>3, <3>4
  <2>5. ASSUME NEW w \in Instances(s)', wf'[w].sched = "armed",
               NEW k \in DOMAIN outbox,
               outbox[k].kind = "created", outbox[k].series = s, Exists(outbox[k].w)', outbox[k].w # w
        PROVE  \E j \in DOMAIN outbox : k < j /\ Announces(j, s, w)
    <3>1. PICK v : v = outbox[k].w
      OBVIOUS
    <3>2. v \in Workflows /\ Exists(v)' /\ v # w
      BY <1>2, <2>5, <3>1 DEF MintedOnce, Workflows, Exists
    <3>3. CASE w = x
      <4>1. s = t /\ i = answered + 1
        BY <1>6, <2>3, <2>5, <3>3
      <4>2. Exists(v) /\ k # i
        BY <1>5, <3>1, <3>2, <3>3
      <4>3. k < i
        BY <1>1, <2>1, <2>5, <3>1, <4>1, <4>2, BeforeEvent
      <4> QED BY <1>1, <3>3, <4>1, <4>3 DEF Announces
    <3>4. CASE w # x
      <4>1. w \in Instances(s) /\ w # p /\ wf[w].sched = "armed"
        BY <1>6, <2>5, <3>4
      <4>2. CASE v # x
        BY <1>5, <2>1, <2>5, <3>1, <3>2, <4>1, <4>2 DEF ArmedIsLast
      <4>3. CASE v = x
        <5>1. k = i /\ s = t /\ i = answered + 1
          BY <1>7, <2>3, <2>5, <3>1, <4>3
        <5>2. Announced(s, w)
          <6>1. Announced(s, w) \/ Announced(s, p)
            BY <1>3, <4>1, <5>1 DEF OneFirst
          <6>2. ASSUME NEW n \in DOMAIN outbox, Announces(n, s, p) PROVE Announced(s, w)
            BY <1>3, <2>1, <4>1, <6>2 DEF ArmedIsLast, Announces, Announced
          <6> QED BY <6>1, <6>2 DEF Announced
        <5>3. PICK n \in DOMAIN outbox : Announces(n, s, w)
          BY <5>2 DEF Announced
        <5>4. n # i /\ Exists(outbox[n].w)
          BY <3>4, <4>1, <5>3 DEF Announces, Instances
        <5>5. PICK j \in DOMAIN outbox : n <= j /\ j < i /\ Announces(j, s, p)
          BY <1>1, <2>1, <5>1, <5>3, <5>4, BeforeEvent DEF Announces
        <5>6. PICK m \in DOMAIN outbox : j < m /\ Announces(m, s, w)
          BY <1>3, <2>1, <4>1, <5>5 DEF ArmedIsLast, Announces
        <5>7. m = n
          BY <5>3, <5>6 DEF MintedOnce, Announces
        <5>8. n \in Nat /\ j \in Nat
          BY Positions
        <5> QED BY <5>5, <5>6, <5>7, <5>8
      <4> QED BY <4>2, <4>3
    <3> QED BY <3>3, <3>4
  <2>6. RefusedForGood(s)'
    BY <1>2, <2>4 DEF RefusedForGood
  <2>7. ArmedIsLast(s)'
    BY <1>2, <2>5 DEF ArmedIsLast, Announces
  <2> QED BY <2>2, <2>6, <2>7
<1> QED BY <1>8, <1>9, <1>10 DEF InOrder

LEMMA RearmedKeeps ==
  ASSUME Typed, Rows, MintedOnce, HubKnows, HubMoves, LogGrows, CommandsTyped', CancelStays,
         Received, OneFirst, InOrder, Rearmed
  PROVE  Received' /\ OneFirst' /\ InOrder'
<1>1. PICK i \in DOMAIN outbox :
        /\ Got(i)
        /\ outbox[i].kind = "changed" /\ i \notin stored /\ i \in stored'
        /\ outbox[i].series \in Series /\ outbox[i].w \in Instances(outbox[i].series)
        /\ Exists(outbox[i].w)' /\ wf'[outbox[i].w].series = outbox[i].series
        /\ \A v \in Workflows : v # outbox[i].w => wf'[v] = wf[v]
  BY DEF Rearmed
<1> PICK x, t : x = outbox[i].w /\ t = outbox[i].series
  OBVIOUS
<1>2. /\ i \in Nat /\ i = answered + 1
      /\ answered \in Nat /\ answered' \in Nat /\ answered <= answered'
      /\ \A k \in DOMAIN outbox : k <= answered' => k <= answered \/ k = i
      /\ \A k \in DOMAIN outbox : k <= answered + 1 => k <= answered' + 1
      /\ UNCHANGED outbox /\ stored \subseteq stored'
  <2>1. outbox[i].kind # "created"
    BY <1>1
  <2> QED BY <1>1, <2>1, GotKnows
<1>3. /\ t \in Series /\ x \in Workflows /\ x \in Instances(t) /\ Exists(x) /\ wf[x].series = t
      /\ Exists(x)' /\ wf'[x].series = t
      /\ \A v \in Workflows : v # x => wf'[v] = wf[v]
  BY <1>1, <1>2 DEF Instances, Exists
<1>4. \A v \in Workflows : Exists(v)' <=> Exists(v)
  BY <1>3 DEF Exists
<1>5. \A s \in Series : \A w \in Instances(s)' :
        w \in Instances(s) /\ (w # x => wf'[w] = wf[w]) /\ (w = x => s = t)
  BY <1>3, <1>4 DEF Instances
<1>6. Received'
  <2>1. Minted' = Minted
    BY <1>2 DEF Minted
  <2>2. ASSUME NEW k \in DOMAIN outbox, outbox[k].kind = "created", Exists(outbox[k].w)'
        PROVE  k <= answered' + 1
    <3>1. PICK w : w = outbox[k].w
      OBVIOUS
    <3>2. w \in Workflows /\ Exists(w)'
      BY <1>2, <2>2, <3>1 DEF MintedOnce, Workflows, Exists
    <3> QED BY <1>2, <1>4, <2>2, <3>1, <3>2 DEF Received
  <2>3. ASSUME NEW k \in DOMAIN outbox, k <= answered', outbox[k].kind # "created"
        PROVE  k \in stored'
    BY <1>1, <1>2, <2>3 DEF Received
  <2> QED BY <1>2, <1>4, <2>1, <2>2, <2>3 DEF Received
<1>7. OneFirst'
  <2> SUFFICES ASSUME NEW s \in Series, NEW v \in Instances(s)', NEW w \in Instances(s)'
               PROVE  Announced(s, v)' \/ Announced(s, w)' \/ v = w
    BY DEF OneFirst
  <2> QED BY <1>5, Lasting DEF OneFirst
<1>8. ASSUME NEW s \in Series, ~AnnouncedDeleted(s)'
      PROVE  (InTurn(s) /\ RefusedForGood(s) /\ ArmedIsLast(s))'
  <2>1. InTurn(s) /\ RefusedForGood(s) /\ ArmedIsLast(s)
    BY <1>8, DeletedLasts DEF InOrder
  <2>2. InTurn(s)'
    BY <1>8, <2>1, InTurnKept
  <2>3. ASSUME NEW n \in DOMAIN outbox, n <= answered', outbox[n].kind = "created", outbox[n].series = s
        PROVE  \/ Exists(outbox[n].w)'
               \/ series'[s].state = "cancelled"
               \/ outbox[n].prev \notin Instances(s)'
    <3>1. PICK w : w = outbox[n].w
      OBVIOUS
    <3>2. w \in Workflows
      BY <2>3, <3>1 DEF MintedOnce, Workflows
    <3>3. n <= answered
      BY <1>1, <1>2, <2>3
    <3>4. Exists(w) \/ series[s].state = "cancelled" \/ outbox[n].prev \notin Instances(s)
      BY <2>1, <2>3, <3>1, <3>3 DEF RefusedForGood
    <3>5. Exists(w) => Exists(outbox[n].w)'
      BY <1>2, <1>4, <3>1, <3>2 DEF Exists
    <3> QED BY <1>5, <3>4, <3>5 DEF CancelStays
  <2>4. ASSUME NEW w \in Instances(s)', wf'[w].sched = "armed",
               NEW k \in DOMAIN outbox,
               outbox[k].kind = "created", outbox[k].series = s, Exists(outbox[k].w)', outbox[k].w # w
        PROVE  \E j \in DOMAIN outbox : k < j /\ Announces(j, s, w)
    <3>1. PICK v : v = outbox[k].w
      OBVIOUS
    <3>2. v \in Workflows /\ Exists(v) /\ v # w
      BY <1>2, <1>4, <2>4, <3>1 DEF MintedOnce, Workflows, Exists
    <3>3. CASE w = x
      <4>1. s = t /\ k # i /\ outbox[i].prev = x
        BY <1>1, <1>5, <2>1, <2>4, <3>3 DEF InTurn
      <4>2. PICK j \in DOMAIN outbox : k <= j /\ j < i /\ Announces(j, s, x)
        BY <1>1, <1>2, <2>1, <2>4, <3>1, <3>2, <4>1, BeforeEvent
      <4>3. k # j
        BY <3>1, <3>2, <3>3, <4>2 DEF Announces
      <4>4. k \in Nat /\ j \in Nat
        BY Positions
      <4>5. k < j
        BY <4>2, <4>3, <4>4
      <4> QED BY <3>3, <4>2, <4>5
    <3>4. CASE w # x
      BY <1>5, <2>1, <2>4, <3>1, <3>2, <3>4 DEF ArmedIsLast
    <3> QED BY <3>3, <3>4
  <2>5. RefusedForGood(s)'
    BY <1>2, <2>3 DEF RefusedForGood
  <2>6. ArmedIsLast(s)'
    BY <1>2, <2>4 DEF ArmedIsLast, Announces
  <2> QED BY <2>2, <2>5, <2>6
<1> QED BY <1>6, <1>7, <1>8 DEF InOrder

-----------------------------------------------------------------------------
(* The invariant is inductive: whatever the operators, the hub, the        *)
(* deliveries and the stops of the server do, and in whatever order.       *)
THEOREM Invariance == Spec => []IInv
<1>1. Init => IInv
  <2> SUFFICES ASSUME Init PROVE IInv
    OBVIOUS
  <2>1. /\ outbox = << >> /\ DOMAIN outbox = {} /\ Len(outbox) = 0
        /\ answered = 0 /\ mine = Roots
    BY DEF Init
  <2>2. Typed
    <3>1. SeriesTyped
      BY DEF Init, SeriesTyped, SeriesStates, NoSeries
    <3>2. CommandsTyped
      <4>1. /\ \A w \in Workflows : log[w] = << >> /\ applied[w] = 0
            /\ DOMAIN log = Workflows /\ log \in [Workflows -> Seq(Commanding)]
            /\ applied \in [Workflows -> Nat]
        BY DEF Init
      <4>2. Len(<< >>) = 0 /\ DOMAIN << >> = {}
        OBVIOUS
      <4> QED BY <4>1, <4>2 DEF CommandsTyped
    <3>3. HubTyped
      BY <2>1 DEF Init, HubTyped, Workflows
    <3> QED BY <2>1, <3>1, <3>2, <3>3 DEF Typed
  <2>3. Rows
    <3>1. CreatedRow \in Row /\ CreatedRow.series = "none" /\ NoRow.series = "none"
      BY DEF CreatedRow, Row, ScheduleStates, NoRow
    <3>2. \A w \in Workflows : wf[w] \in {CreatedRow, NoRow}
      BY DEF Init
    <3>3. wf \in [Workflows -> Row \cup {NoRow}]
      BY <3>1 DEF Init
    <3> QED BY <3>1, <3>2, <3>3 DEF Rows
  <2>4. MintedOnce
    BY <2>1 DEF MintedOnce
  <2>5. HubKnows
    BY <2>1 DEF HubKnows, Init
  <2>6. Received
    BY <2>1 DEF Received, Init, Exists, Workflows
  <2>7. OneFirst
    <3>1. \A s \in Series : Instances(s) = {}
      BY IdAssumption DEF Init, Instances, CreatedRow, NoRow, Exists
    <3> QED BY <3>1 DEF OneFirst
  <2>8. InOrder
    BY <2>1 DEF InOrder, InTurn, RefusedForGood, ArmedIsLast
  <2> QED BY <2>2, <2>3, <2>4, <2>5, <2>6, <2>7, <2>8 DEF IInv
<1>2. IInv /\ [Next]_vars => IInv'
  <2> SUFFICES ASSUME IInv, [Next]_vars PROVE IInv'
    OBVIOUS
  <2>1. Typed /\ Rows /\ MintedOnce /\ HubKnows /\ Received /\ OneFirst /\ InOrder
    BY DEF IInv
  <2>2. HubMoves /\ LogGrows /\ CommandsTyped'
    BY <2>1, StepMoves
  <2>3. Typed' /\ answered' \in Nat
    BY <2>1, StepTyped DEF Typed
  <2>4. CancelStays
    BY <2>1, StepKeepsCancel DEF Typed
  <2>5. KnownStays
    BY <2>1, StepKnows
  <2>6. MintedOnce' /\ HubKnows'
    BY <2>1, <2>2, MintedOnceKept, HubKnowsKept
  <2>7. Rows' /\ (Calm \/ Pointed \/ Inserted \/ Rearmed)
    BY <2>1, <2>2, <2>5, StepRows
  <2>8. Received' /\ OneFirst' /\ InOrder'
    BY <2>1, <2>2, <2>3, <2>4, <2>5, <2>6, <2>7, CalmKeeps, PointedKeeps, InsertedKeeps, RearmedKeeps
  <2> QED BY <2>3, <2>6, <2>7, <2>8 DEF IInv
<1> QED BY <1>1, <1>2, PTL DEF Spec

(* A series never shows two armed instances, however late, lost, repeated  *)
(* or refused the announcements of the hub, unless an announced instance   *)
(* was deleted.                                                            *)
THEOREM OneArmedHolds == Spec => []OneArmed
<1>1. IInv => OneArmed
  <2> SUFFICES ASSUME IInv, NEW s \in Series, ~AnnouncedDeleted(s)
               PROVE  Cardinality({w \in Instances(s) : wf[w].sched = "armed"}) <= 1
    BY DEF OneArmed
  <2> DEFINE A == {w \in Instances(s) : wf[w].sched = "armed"}
  <2>1. MintedOnce /\ Received /\ OneFirst /\ ArmedIsLast(s) /\ Typed
    BY DEF IInv, InOrder
  <2>2. \A w \in A : w \in Instances(s) /\ Exists(w) /\ wf[w].sched = "armed"
    BY DEF Instances
  <2>3. ASSUME NEW v \in A, NEW w \in A, v # w, Announced(s, v) PROVE FALSE
    <3>1. PICK k \in DOMAIN outbox : Announces(k, s, v)
      BY <2>3 DEF Announced
    <3>2. PICK j \in DOMAIN outbox : k < j /\ Announces(j, s, w)
      BY <2>1, <2>2, <2>3, <3>1 DEF ArmedIsLast, Announces
    <3>3. PICK m \in DOMAIN outbox : j < m /\ Announces(m, s, v)
      BY <2>1, <2>2, <2>3, <3>2 DEF ArmedIsLast, Announces
    <3>4. m = k
      BY <2>1, <3>1, <3>3 DEF MintedOnce, Announces
    <3>5. k \in Nat /\ j \in Nat
      BY <2>1, LenProperties DEF Typed, HubTyped
    <3> QED BY <3>2, <3>3, <3>4, <3>5
  <2>4. \A v, w \in A : v = w
    BY <2>1, <2>2, <2>3 DEF OneFirst
  <2> HIDE DEF A
  <2>5. CASE A = {}
    <3>1. Cardinality(A) = 0
      BY <2>5, FS_EmptySet
    <3> QED BY <3>1 DEF A
  <2>6. CASE A # {}
    <3>1. PICK w : A = {w}
      BY <2>4, <2>6
    <3>2. Cardinality(A) = 1
      BY <3>1, FS_Singleton
    <3> QED BY <3>2 DEF A
  <2> QED BY <2>5, <2>6
<1> QED BY <1>1, Invariance, PTL

-----------------------------------------------------------------------------
(* Agreement of server and hub, while the server never stopped between two *)
(* writes.                                                                 *)

(* Commands on a series, and deletes.                                      *)
OneDoor(s) == \A v, w \in Doors(s) : v = w
Command(w, n, type, s) == n \in DOMAIN log[w] /\ log[w][n].type = type /\ log[w][n].series = s
Deletes(w) == {d \in DOMAIN log[w] : log[w][d].type = "delete"}

(* What was asked for is known; a cancel is the last command of its series *)
(* on its channel; the last set says what the series shows.                *)
AskedKnown == \A s \in Series : Asked(s) => Known(s)
CancelSeen ==
  \A w \in Workflows : \A n \in DOMAIN log[w] :
    log[w][n].type = "cancel" => series[log[w][n].series].state = "cancelled"
CancelSent ==
  \A s \in Series : series[s].state = "cancelled" =>
    \E w \in Workflows : \E n \in DOMAIN log[w] : Command(w, n, "cancel", s)
CancelLast ==
  \A w \in Workflows : \A n, m \in DOMAIN log[w] :
    n < m /\ log[w][n].type = "cancel" => log[w][m].series # log[w][n].series
SpecLast ==
  \A s \in Series : OneDoor(s) =>
    \A w \in Workflows : \A n \in DOMAIN log[w] :
      Command(w, n, "set", s) /\ (\A m \in DOMAIN log[w] : Command(w, m, "set", s) => m <= n)
        => log[w][n].spec = series[s].spec
FewDoors == \A s \in Series : IsFiniteSet(Doors(s))
Unnamed ==
  \A w \in Workflows : \A n \in DOMAIN log[w] : log[w][n].type = "delete" => log[w][n].series = "none"
CommandsTell ==
  AskedKnown /\ CancelSeen /\ CancelSent /\ CancelLast /\ SpecLast /\ FewDoors /\ Unnamed

(* A row that is gone or works again was deleted at the hub; its pointer   *)
(* is then the announced one, or one set behind every delete.              *)
Returned ==
  \A w \in Workflows :
    Deletes(w) # {} /\ (~Exists(w) \/ wf[w].status # "deleting") => DeletedByNow(w)
PointerBehind ==
  \A w \in Workflows :
    Exists(w) /\ wf[w].status # "deleting" /\ wf[w].series # "none" /\ ~Announced(wf[w].series, w)
      => \A n \in DOMAIN log[w], d \in Deletes(w) : log[w][n].series = wf[w].series => d < n
SetsBehind ==
  \A w \in Workflows, s \in Series : \A d \in Deletes(w), m \in DOMAIN log[w] :
    d < m /\ Command(w, m, "set", s)
      => AnnouncedDeleted(s) \/ \A n \in DOMAIN log[w] : n < d => log[w][n].series # s
Addressed == \A w \in Workflows : DOMAIN log[w] # {} => w \in Roots \cup Minted
Lost == \A w \in Workflows : DeletedByNow(w) => w \notin mine
DeletesTell == Returned /\ PointerBehind /\ SetsBehind /\ Addressed /\ Lost

(* The hub has a series since a set it applied before any delete of that   *)
(* channel, runs it on a workflow it was commanded for or announced, and   *)
(* cancelled it on a command, for good if there is one channel.            *)
Begun ==
  \A s \in Series : hub[s].state # "none" =>
    \E w \in Workflows : \E n \in DOMAIN log[w] :
      n <= applied[w] /\ Command(w, n, "set", s) /\ \A d \in Deletes(w) : n < d
LiveOurs ==
  \A s \in Series : hub[s].state # "none" => hub[s].live \in Doors(s) \/ Announced(s, hub[s].live)
CancelApplied ==
  \A s \in Series : hub[s].state = "cancelled" =>
    \E w \in Workflows : \E n \in DOMAIN log[w] : n <= applied[w] /\ Command(w, n, "cancel", s)
CancelDone ==
  \A s \in Series : OneDoor(s) =>
    \A w \in Workflows : \A n \in DOMAIN log[w] :
      n <= applied[w] /\ Command(w, n, "cancel", s) => hub[s].state \in {"none", "cancelled"}
HubTells == Begun /\ LiveOurs /\ CancelApplied /\ CancelDone

(* The last event on a series says what the hub makes of it; events on     *)
(* runs and on the archive are of what the hub has.                        *)
Says(i, s) == i \in DOMAIN outbox /\ outbox[i].kind = "changed" /\ outbox[i].series = s
Means(to) == IF to \in {"cancelled", "broken"} THEN to ELSE "armed"
LastWord ==
  \A s \in Series : hub[s].state # "none" =>
    \E i : Says(i, s) /\ Means(outbox[i].to) = hub[s].state /\ \A j : Says(j, s) => j <= i
CancelSaid == \A i, s : Says(i, s) /\ outbox[i].to = "cancelled" => hub[s].state = "cancelled"
MissedOurs ==
  \A i \in DOMAIN outbox : outbox[i].kind = "missed" =>
    outbox[i].series \in Series /\ hub[outbox[i].series].state # "none"
ArchivedOurs ==
  \A i \in DOMAIN outbox : outbox[i].kind = "archived" =>
    \/ outbox[i].w \in Roots
    \/ \E j \in DOMAIN outbox : j < i /\ outbox[j].kind = "created" /\ outbox[j].w = outbox[i].w
StoredInTurn == \A i \in stored : i \in DOMAIN outbox /\ i <= answered + 1
EventsTell == LastWord /\ CancelSaid /\ MissedOurs /\ ArchivedOurs /\ StoredInTurn

(* When no command and no event on a series is on its way, both agree on   *)
(* it; what was heard of the archive is shown, and missed runs are noted.  *)
Settled(s) == \A w \in Workflows : \A n \in DOMAIN log[w] : log[w][n].series = s => n <= applied[w]
Heard(s) == \A i : Says(i, s) => i \in stored
Plain(s) == OneDoor(s) /\ ~AnnouncedDeleted(s) /\ hub[s].state # "none" /\ Settled(s)
StateAgrees == \A s \in Series : Plain(s) /\ Heard(s) => series[s].state = StateOf(hub[s].state)
SpecAgrees == \A s \in Series : Plain(s) /\ hub[s].state = "armed" => series[s].spec = hub[s].spec
HeardOf(w) == {i \in stored : i \in DOMAIN outbox /\ outbox[i].kind = "archived" /\ outbox[i].w = w}
ArchiveKept ==
  \A w \in Workflows : Exists(w) /\ ~CameBack(w) /\ HeardOf(w) # {} =>
    \E i \in HeardOf(w) : /\ \A j \in HeardOf(w) : j <= i
                          /\ wf[w].archived = (outbox[i].to = "archived")
Noticed == notices = {i \in stored : outbox[i].kind = "missed"}
Agreed == StateAgrees /\ SpecAgrees /\ ArchiveKept /\ Noticed

Tidy == CommandsTell /\ DeletesTell /\ HubTells /\ EventsTell /\ Agreed

-----------------------------------------------------------------------------
(* What the hub says with a step.                                          *)

Speaks(i, kind) == New(i) /\ outbox'[i].kind = kind
HubSaid ==
  /\ \A s \in Series : hub'[s].state = hub[s].state \/ \E i : Speaks(i, "changed") /\ outbox'[i].series = s
  /\ \A i : Speaks(i, "changed") => Means(outbox'[i].to) = hub'[outbox'[i].series].state
  /\ \A i, j : Speaks(i, "changed") /\ Speaks(j, "changed") => i = j
  /\ \A i : Speaks(i, "missed") =>
       outbox'[i].series \in Series /\ hub[outbox'[i].series].state # "none"
  /\ \A i : Speaks(i, "archived") => outbox'[i].w \in mine

(* No command is applied: nothing starts, is set or cancelled.             *)
HubSteady ==
  \A s \in Series :
    /\ hub'[s].spec = hub[s].spec
    /\ hub'[s].state = hub[s].state \/ (hub[s].state = "armed" /\ hub'[s].state = "broken")
    /\ hub'[s].live = hub[s].live \/ Announced(s, hub[s].live)'

LEMMA SaysNothing ==
  ASSUME UNCHANGED <<hub, outbox>>
  PROVE  HubSaid /\ HubSteady
BY DEF HubSaid, HubSteady, Speaks, New

(* The hub changes a series and says so.                                   *)
LEMMA SaysOne ==
  ASSUME Typed, NEW s \in Series, NEW r \in HubRow, NEW live, NEW to,
         to \in {"armed", "cancelled", "broken"}, r.state = to,
         hub' = [hub EXCEPT ![s] = r],
         Changed(s, live, to) \in Emitted,
         outbox' = Append(outbox, Changed(s, live, to))
  PROVE  HubSaid
<1> DEFINE e == Changed(s, live, to)
<1>1. e.kind = "changed" /\ e.series = s /\ e.to = to /\ e \in Emitted
  BY DEF Changed
<1> HIDE DEF e
<1>2. /\ \A i : New(i) => i = Len(outbox') /\ outbox'[i] = e
      /\ New(Len(outbox'))
  BY <1>1, OneMore DEF e, Typed
<1>3. hub'[s] = r /\ \A t \in Series : t # s => hub'[t] = hub[t]
  BY DEF Typed, HubTyped
<1>4. Means(to) = to
  BY DEF Means
<1> QED BY <1>1, <1>2, <1>3, <1>4 DEF HubSaid, Speaks

(* A series breaks: at the hub itself, with a delete, or when the hub      *)
(* reads that an announcement was refused.                                 *)
LEMMA SaysBroken ==
  ASSUME Typed, NEW s \in Series, hub[s].state = "armed",
         hub' = [hub EXCEPT ![s].state = "broken"],
         outbox' = Append(outbox, Changed(s, hub[s].live, "broken"))
  PROVE  HubSaid /\ HubSteady
<1> DEFINE r == [state |-> "broken", spec |-> hub[s].spec, live |-> hub[s].live]
<1>1. hub[s] \in HubRow /\ "broken" \in ScheduleStates
  BY DEF Typed, HubTyped, HubRow, ScheduleStates
<1>2. [hub[s] EXCEPT !.state = "broken"] = r /\ r \in HubRow /\ r.state = "broken"
      /\ r.live = hub[s].live /\ r.spec = hub[s].spec
  BY <1>1 DEF HubRow
<1>3. hub' = [hub EXCEPT ![s] = r]
  BY <1>2
<1>4. Changed(s, hub[s].live, "broken") \in Emitted
  BY <1>1 DEF Changed, Emitted, Kinds, HubRow
<1> HIDE DEF r
<1>5. HubSaid
  BY <1>2, <1>3, <1>4, SaysOne
<1>6. hub'[s] = r /\ \A t \in Series : t # s => hub'[t] = hub[t]
  BY <1>3 DEF Typed, HubTyped
<1>7. HubSteady
  BY <1>2, <1>6 DEF HubSteady
<1> QED BY <1>5, <1>7

LEMMA FiresSays ==
  ASSUME Typed, NEW s \in Series, NEW w \in Clones, HubFires(s, w)
  PROVE  HubSaid /\ HubSteady
<1> DEFINE c == Created(s, w, hub[s].live)
           m == Missed(s, hub[s].live)
           d == Changed(s, hub[s].live, "missed")
<1>1. /\ c.kind = "created" /\ c.series = s /\ c.w = w
      /\ m.kind = "missed" /\ m.series = s
      /\ d.kind = "changed" /\ d.series = s /\ Means(d.to) = "armed"
  BY DEF Created, Missed, Changed, Means
<1>2. hub[s].state = "armed" /\ hub' = [hub EXCEPT ![s].live = w]
  BY DEF HubFires
<1> HIDE DEF c, m, d
<1>3. /\ New(Len(outbox')) /\ outbox'[Len(outbox')] = c
      /\ \A i : New(i) => \/ i = Len(outbox') /\ outbox'[i] = c
                          \/ outbox'[i] = m
                          \/ i = Len(outbox) + 2 /\ outbox'[i] = d
  BY FireEvents DEF c, m, d
<1>4. /\ hub'[s].live = w /\ hub'[s].state = "armed" /\ hub'[s].spec = hub[s].spec
      /\ \A t \in Series : t # s => hub'[t] = hub[t]
  BY <1>2 DEF Typed, HubTyped
<1>5. /\ \A i : Speaks(i, "changed") => i = Len(outbox) + 2 /\ outbox'[i] = d
      /\ \A i : Speaks(i, "missed") => outbox'[i] = m
      /\ \A i : ~Speaks(i, "archived")
  BY <1>1, <1>3 DEF Speaks
<1>6. HubSaid
  BY <1>1, <1>2, <1>4, <1>5 DEF HubSaid
<1>7. Announced(s, hub[s].live)'
  BY <1>1, <1>3, <1>4 DEF Announced, Announces, New
<1>8. HubSteady
  BY <1>2, <1>4, <1>7 DEF HubSteady
<1> QED BY <1>6, <1>8

LEMMA ReportSays ==
  ASSUME Typed, NEW w \in Workflows,
         HubArchives(w) \/ \E to \in {"idle", "busy"} : HubRuns(w, to)
  PROVE  HubSaid /\ HubSteady
<1>1. /\ UNCHANGED <<hub, mine>> /\ w \in mine
      /\ \A i : New(i) => outbox'[i].kind \in {"archived", "status"} /\ outbox'[i].w = w
  BY ReportEvents
<1> QED BY <1>1 DEF HubSaid, HubSteady, Speaks

-----------------------------------------------------------------------------
(* A step of the hub, with the command it applies or without.              *)

LEMMA CameBackLasts ==
  ASSUME Typed, MintedOnce, HubKnows, HubMoves, LogGrows, CommandsTyped', NEW w, CameBack(w)
  PROVE  CameBack(w)'
<1>1. PICK i \in DOMAIN outbox :
        outbox[i].kind = "created" /\ outbox[i].w = w /\ AnnouncedDeleted(outbox[i].series)
  BY DEF CameBack, EventsOn
<1>2. PICK s \in Series : s = outbox[i].series
  BY <1>1 DEF HubKnows
<1>3. AnnouncedDeleted(s)'
  BY <1>1, <1>2, DeletedLasts
<1>4. i \in DOMAIN outbox' /\ outbox'[i] = outbox[i]
  BY Positions
<1> QED BY <1>1, <1>2, <1>3, <1>4 DEF CameBack, EventsOn

(* The outbox still tells what the hub has.                                *)
LEMMA HubTellsOn ==
  ASSUME Typed, HubKnows, HubMoves, HubSaid, EventsTell,
         stored' = stored, answered <= answered', answered \in Nat, answered' \in Nat,
         \A s \in Series : hub[s].state = "cancelled" => hub'[s].state = "cancelled"
  PROVE  EventsTell'
<1>1. \A i \in DOMAIN outbox : i \in DOMAIN outbox' /\ i \in Nat /\ outbox'[i] = outbox[i]
  BY Positions
<1>2. \A i \in DOMAIN outbox' : i \in Nat /\ (i \in DOMAIN outbox \/ New(i))
  BY Positions
<1>3. \A i : New(i) => i \in DOMAIN outbox' /\ \A k \in DOMAIN outbox : k < i
  BY Positions
<1>4. LastWord'
  <2> SUFFICES ASSUME NEW s \in Series, hub'[s].state # "none"
               PROVE  \E i : Says(i, s)' /\ Means(outbox'[i].to) = hub'[s].state
                             /\ \A j : Says(j, s)' => j <= i
    BY DEF LastWord, Means
  <2>1. CASE \E i : Speaks(i, "changed") /\ outbox'[i].series = s
    <3>1. PICK i : Speaks(i, "changed") /\ outbox'[i].series = s
      BY <2>1
    <3>2. Says(i, s)' /\ Means(outbox'[i].to) = hub'[s].state
      BY <3>1, <1>3 DEF Says, Speaks, HubSaid
    <3>3. ASSUME NEW j, Says(j, s)' PROVE j <= i
      <4>1. CASE New(j)
        <5>1. j = i
          BY <3>1, <3>3, <4>1 DEF HubSaid, Speaks, Says
        <5> QED BY <5>1, <3>2, <1>2 DEF Says
      <4>2. CASE j \in DOMAIN outbox
        <5>1. i \in Nat /\ j \in Nat /\ j < i
          BY <1>1, <1>2, <1>3, <3>1, <4>2 DEF Speaks
        <5> QED BY <5>1
      <4> QED BY <3>3, <4>1, <4>2, <1>2 DEF Says
    <3> QED BY <3>2, <3>3
  <2>2. CASE ~\E i : Speaks(i, "changed") /\ outbox'[i].series = s
    <3>1. hub'[s].state = hub[s].state
      BY <2>2 DEF HubSaid
    <3>2. PICK i : Says(i, s) /\ Means(outbox[i].to) = hub[s].state /\ \A j : Says(j, s) => j <= i
      BY <3>1 DEF EventsTell, LastWord
    <3>3. \A j : Says(j, s)' <=> Says(j, s)
      BY <2>2, <1>1, <1>2 DEF Says, Speaks
    <3>4. outbox'[i] = outbox[i]
      BY <3>2, <1>1 DEF Says
    <3> QED BY <3>1, <3>2, <3>3, <3>4
  <2> QED BY <2>1, <2>2
<1>5. CancelSaid'
  <2> SUFFICES ASSUME NEW i, NEW s, Says(i, s)', outbox'[i].to = "cancelled"
               PROVE  hub'[s].state = "cancelled"
    BY DEF CancelSaid
  <2>1. CASE i \in DOMAIN outbox
    <3>1. Says(i, s) /\ outbox[i].to = "cancelled"
      BY <2>1, <1>1 DEF Says
    <3>2. s \in Series
      BY <3>1 DEF HubKnows, Says
    <3> QED BY <3>1, <3>2 DEF EventsTell, CancelSaid
  <2>2. CASE New(i)
    <3>1. Means(outbox'[i].to) = hub'[s].state
      BY <2>2 DEF HubSaid, Speaks, Says
    <3> QED BY <3>1 DEF Means
  <2> QED BY <2>1, <2>2, <1>2 DEF Says
<1>6. MissedOurs'
  <2> SUFFICES ASSUME NEW i \in DOMAIN outbox', outbox'[i].kind = "missed"
               PROVE  outbox'[i].series \in Series /\ hub'[outbox'[i].series].state # "none"
    BY DEF MissedOurs
  <2>1. outbox'[i].series \in Series /\ hub[outbox'[i].series].state # "none"
    <3>1. CASE i \in DOMAIN outbox
      BY <3>1, <1>1 DEF EventsTell, MissedOurs
    <3>2. CASE New(i)
      BY <3>2 DEF HubSaid, Speaks
    <3> QED BY <3>1, <3>2, <1>2
  <2> QED BY <2>1 DEF HubMoves
<1>7. ArchivedOurs'
  <2> SUFFICES ASSUME NEW i \in DOMAIN outbox', outbox'[i].kind = "archived", outbox'[i].w \notin Roots
               PROVE  \E j \in DOMAIN outbox' : j < i /\ outbox'[j].kind = "created" /\ outbox'[j].w = outbox'[i].w
    BY DEF ArchivedOurs
  <2>1. \E j \in DOMAIN outbox : j < i /\ outbox[j].kind = "created" /\ outbox[j].w = outbox'[i].w
    <3>1. CASE i \in DOMAIN outbox
      BY <3>1, <1>1 DEF EventsTell, ArchivedOurs
    <3>2. CASE New(i)
      <4>1. outbox'[i].w \in Minted
        BY <3>2 DEF HubSaid, Speaks, HubKnows
      <4> QED BY <3>2, <4>1, <1>3 DEF Minted
    <3> QED BY <3>1, <3>2, <1>2
  <2> QED BY <2>1, <1>1
<1>8. StoredInTurn'
  <2> SUFFICES ASSUME NEW i \in stored PROVE i \in DOMAIN outbox' /\ i <= answered' + 1
    BY DEF StoredInTurn
  <2>1. i \in DOMAIN outbox /\ i <= answered + 1
    BY DEF EventsTell, StoredInTurn
  <2>2. i \in Nat /\ i \in DOMAIN outbox'
    BY <2>1, <1>1
  <2> QED BY <2>1, <2>2
<1> QED BY <1>4, <1>5, <1>6, <1>7, <1>8 DEF EventsTell

(* No row is written; one may go.                                          *)
LEMMA RowsAgreeOn ==
  ASSUME Typed, MintedOnce, HubKnows, HubMoves, LogGrows, CommandsTyped', EventsTell, Agreed,
         UNCHANGED <<stored, notices>>,
         \A w \in Workflows : Exists(w)' => wf'[w] = wf[w]
  PROVE  ArchiveKept' /\ Noticed'
<1>1. \A i \in stored : i \in DOMAIN outbox /\ i \in DOMAIN outbox' /\ outbox'[i] = outbox[i]
  BY Positions DEF EventsTell, StoredInTurn
<1>2. \A w : HeardOf(w)' = HeardOf(w)
  BY <1>1 DEF HeardOf
<1>3. ArchiveKept'
  <2> SUFFICES ASSUME NEW w \in Workflows, Exists(w)', ~CameBack(w)', HeardOf(w)' # {}
               PROVE  \E i \in HeardOf(w) : /\ \A j \in HeardOf(w) : j <= i
                                            /\ wf'[w].archived = (outbox'[i].to = "archived")
    BY <1>2 DEF ArchiveKept
  <2>1. Exists(w) /\ wf'[w] = wf[w] /\ ~CameBack(w) /\ HeardOf(w) # {}
    BY <1>2, CameBackLasts DEF Exists
  <2>2. PICK i \in HeardOf(w) : /\ \A j \in HeardOf(w) : j <= i
                                /\ wf[w].archived = (outbox[i].to = "archived")
    BY <2>1 DEF Agreed, ArchiveKept
  <2>3. outbox'[i] = outbox[i]
    BY <1>1 DEF HeardOf
  <2> QED BY <2>1, <2>2, <2>3
<1>4. Noticed'
  <2>1. notices = {i \in stored : outbox[i].kind = "missed"}
    BY DEF Agreed, Noticed
  <2> QED BY <1>1, <2>1 DEF Noticed
<1> QED BY <1>3, <1>4

(* Nothing new is said of a series that is heard.                          *)
LEMMA HeardStill ==
  ASSUME Typed, HubMoves, HubSaid, StoredInTurn, UNCHANGED stored,
         NEW s \in Series, Heard(s)'
  PROVE  /\ Heard(s) /\ hub'[s].state = hub[s].state
         /\ ~\E i : Speaks(i, "changed") /\ outbox'[i].series = s
<1>1. \A i \in DOMAIN outbox : i \in DOMAIN outbox' /\ outbox'[i] = outbox[i]
  BY Positions
<1>2. Heard(s)
  BY <1>1 DEF Heard, Says
<1>3. ~\E i : Speaks(i, "changed") /\ outbox'[i].series = s
  BY DEF Heard, Says, Speaks, New, StoredInTurn
<1> QED BY <1>2, <1>3 DEF HubSaid

(* The hub acts by itself, or reads a refusal.                             *)
LEMMA HubActsTidy ==
  ASSUME Typed, MintedOnce, HubKnows, Tidy, HubMoves, LogGrows, CommandsTyped', HubSaid, HubSteady,
         UNCHANGED <<series, wf, log, applied, stored, notices>>,
         answered' \in Nat, answered <= answered'
  PROVE  Tidy'
<1> USE DEF Tidy
<1>1. \A w : DeletedByNow(w)' <=> DeletedByNow(w)
  BY DEF DeletedByNow
<1>2. \A s \in Series : Asked(s)' = Asked(s) /\ Doors(s)' = Doors(s) /\ OneDoor(s)' = OneDoor(s)
  BY DEF Asked, Doors, OneDoor
<1>3. \A s \in Series : AnnouncedDeleted(s) => AnnouncedDeleted(s)'
  BY DeletedLasts
<1>4. \A s, w : Announced(s, w) => Announced(s, w)'
  BY Lasting
<1>5. /\ \A w, n, type, s : Command(w, n, type, s)' <=> Command(w, n, type, s)
      /\ \A w : Deletes(w)' = Deletes(w)
  BY DEF Command, Deletes
<1>6. CommandsTell'
  BY <1>2, <1>5
     DEF CommandsTell, AskedKnown, Known, CancelSeen, CancelSent, CancelLast, SpecLast, FewDoors, Unnamed
<1>7. DeletesTell'
  <2>1. Returned'
    BY <1>1, <1>5 DEF DeletesTell, Returned, Exists
  <2>2. PointerBehind'
    BY <1>4, <1>5 DEF DeletesTell, PointerBehind, Exists
  <2>3. SetsBehind'
    BY <1>3, <1>5 DEF DeletesTell, SetsBehind
  <2>4. Minted \subseteq Minted'
    BY Positions DEF Minted
  <2>5. Addressed'
    BY <2>4 DEF DeletesTell, Addressed
  <2>6. ASSUME NEW w \in Workflows, DeletedByNow(w), w \in mine' PROVE FALSE
    <3>1. DOMAIN log[w] # {}
      <4>1. PICK n \in 1 .. applied[w] : log[w][n].type = "delete"
        BY <2>6 DEF DeletedByNow
      <4>2. applied[w] \in Nat /\ applied[w] <= Len(log[w]) /\ log[w] \in Seq(Commanding)
        BY DEF Typed, CommandsTyped
      <4>3. n \in DOMAIN log[w]
        BY <4>1, <4>2
      <4> QED BY <4>3
    <3>2. w \in Roots \cup Minted
      BY <3>1 DEF DeletesTell, Addressed
    <3>3. w \notin mine
      BY <2>6 DEF DeletesTell, Lost
    <3>4. w \in Clones \ Minted
      BY <2>6, <3>3 DEF HubMoves
    <3> QED BY <3>2, <3>4, IdAssumption
  <2>7. Lost'
    BY <1>1, <2>6 DEF Lost
  <2> QED BY <2>1, <2>2, <2>3, <2>5, <2>7 DEF DeletesTell
<1>8. \A s \in Series :
        /\ hub'[s].spec = hub[s].spec
        /\ hub'[s].state = hub[s].state \/ (hub[s].state = "armed" /\ hub'[s].state = "broken")
        /\ hub'[s].live = hub[s].live \/ Announced(s, hub[s].live)'
  BY DEF HubSteady
<1>9. HubTells'
  <2>1. Begun'
    BY <1>5, <1>8 DEF HubTells, Begun
  <2>2. LiveOurs'
    BY <1>2, <1>4, <1>8 DEF HubTells, LiveOurs
  <2>3. CancelApplied'
    BY <1>5, <1>8 DEF HubTells, CancelApplied
  <2>4. CancelDone'
    BY <1>2, <1>5, <1>8 DEF HubTells, CancelDone
  <2> QED BY <2>1, <2>2, <2>3, <2>4 DEF HubTells
<1>10. EventsTell'
  BY <1>8, HubTellsOn DEF Typed
<1>11. ArchiveKept' /\ Noticed'
  BY RowsAgreeOn
<1>12. \A s \in Series : Settled(s)' = Settled(s)
  BY DEF Settled
<1>13. ASSUME NEW s \in Series, Plain(s)' PROVE Plain(s)
  BY <1>2, <1>3, <1>8, <1>12, <1>13 DEF Plain
<1>14. StateAgrees'
  <2> SUFFICES ASSUME NEW s \in Series, Plain(s)', Heard(s)'
               PROVE  series[s].state = StateOf(hub'[s].state)
    BY DEF StateAgrees, StateOf
  <2>1. Heard(s) /\ hub'[s].state = hub[s].state
    BY HeardStill DEF EventsTell
  <2> QED BY <1>13, <2>1 DEF Agreed, StateAgrees
<1>15. SpecAgrees'
  BY <1>8, <1>13 DEF Agreed, SpecAgrees
<1> QED BY <1>6, <1>7, <1>9, <1>10, <1>11, <1>14, <1>15 DEF Agreed

-----------------------------------------------------------------------------
(* The hub applies the command at position p on the channel of w.          *)

Said(s) == \E i : Speaks(i, "changed") /\ outbox'[i].series = s

Took(w, p) ==
  /\ p \in DOMAIN log[w] /\ p = applied[w] + 1
  /\ \A v \in Workflows : \A n \in DOMAIN log[v] :
       n <= applied'[v] <=> n <= applied[v] \/ (v = w /\ n = p)
  /\ UNCHANGED <<series, log, answered, stored, notices>>
  /\ \A v \in Workflows : Exists(v)' => wf'[v] = wf[v]
  /\ \A v \in Workflows : Exists(v) => Exists(v)' \/ (v = w /\ log[w][p].type = "delete")
  /\ mine' = IF log[w][p].type = "delete" THEN mine \ {w} ELSE mine

(* What becomes of each series; a set is taken and said, unless the        *)
(* live instance is gone, and a cancel, unless there is nothing to cancel. *)
HubTook(w, c) ==
  /\ \A s \in Series :
       \/ hub'[s] = hub[s]
       \/ /\ c.type = "set" /\ c.series = s
          /\ hub[s].state # "cancelled" /\ hub'[s].state = "armed" /\ hub'[s].spec = c.spec
          /\ \/ hub[s].state # "none" /\ hub'[s].live = hub[s].live
             \/ w \in mine /\ hub'[s].live = w
       \/ /\ c.type = "cancel" /\ c.series = s
          /\ hub[s].state # "none" /\ hub'[s].state = "cancelled"
          /\ hub'[s].spec = hub[s].spec /\ hub'[s].live = hub[s].live
       \/ /\ hub[s].state = "armed" /\ hub'[s].state = "broken"
          /\ hub'[s].spec = hub[s].spec /\ hub'[s].live = hub[s].live
  /\ c.type = "set" =>
       \/ Said(c.series) /\ hub'[c.series].spec = c.spec
       \/ hub[c.series].state \in {"armed", "broken"} => hub[c.series].live \notin mine
  /\ c.type = "cancel" =>
       /\ hub'[c.series].state \in {"none", "cancelled"}
       /\ Said(c.series) \/ hub[c.series].state \in {"none", "cancelled"}

LEMMA ApplyTook ==
  ASSUME Typed, Rows, NEW w \in Workflows, HubApply(w), NEW p, p = applied[w] + 1
  PROVE  Took(w, p)
<1> USE DEF Typed
<1>1. log[w] \in Seq(Commanding) /\ applied[w] \in Nat /\ Len(log[w]) \in Nat
  BY LenProperties DEF CommandsTyped
<1>2. p \in 1 .. Len(log[w]) /\ DOMAIN log[w] = 1 .. Len(log[w])
  BY <1>1, LenProperties DEF HubApply
<1>3. applied'[w] = p /\ \A v \in Workflows : v # w => applied'[v] = applied[v]
  BY DEF HubApply, CommandsTyped
<1>4. \A v \in Workflows : \A n \in DOMAIN log[v] :
        n <= applied'[v] <=> n <= applied[v] \/ (v = w /\ n = p)
  <2> SUFFICES ASSUME NEW v \in Workflows, NEW n \in DOMAIN log[v]
               PROVE  n <= applied'[v] <=> n <= applied[v] \/ (v = w /\ n = p)
    OBVIOUS
  <2>1. CASE v = w
    <3>1. PICK a \in Nat : a = applied[w]
      BY <1>1
    <3>2. n \in Nat /\ p = a + 1
      BY <1>2, <2>1, <3>1
    <3>3. n <= p <=> n <= a \/ n = p
      BY <3>2
    <3> QED BY <1>3, <2>1, <3>1, <3>3
  <2>2. CASE v # w
    BY <1>3, <2>2
  <2> QED BY <2>1, <2>2
<1>5. UNCHANGED <<series, log, answered, stored, notices>>
  BY DEF HubApply
<1>6. log[w][p].type \in {"set", "cancel", "delete"}
  <2>1. log[w][p] \in Commanding
    BY <1>1, <1>2, ElementOfSeq
  <2> QED BY <2>1 DEF Commanding
<1>7. /\ log[w][p].type # "delete" => UNCHANGED <<wf, mine>>
      /\ log[w][p].type = "delete" => mine' = mine \ {w} /\ wf' = [wf EXCEPT ![w] = NoRow]
  BY <1>6 DEF HubApply
<1>8. /\ \A v \in Workflows : Exists(v)' => wf'[v] = wf[v]
      /\ \A v \in Workflows : Exists(v) => Exists(v)' \/ (v = w /\ log[w][p].type = "delete")
  <2>1. CASE log[w][p].type # "delete"
    BY <1>7, <2>1 DEF Exists
  <2>2. CASE log[w][p].type = "delete"
    <3>1. wf' = [wf EXCEPT ![w] = NoRow]
      BY <1>7, <2>2
    <3>2. wf'[w] = NoRow /\ \A v \in Workflows : v # w => wf'[v] = wf[v]
      BY <3>1 DEF Rows
    <3> QED BY <3>2, <2>2 DEF Exists
  <2> QED BY <2>1, <2>2
<1> QED BY <1>2, <1>4, <1>5, <1>7, <1>8 DEF Took

LEMMA ApplySays ==
  ASSUME Typed, NEW w \in Workflows, HubApply(w), NEW p, p = applied[w] + 1
  PROVE  HubSaid /\ HubTook(w, log[w][p])
<1> USE DEF Typed
<1> DEFINE c == log[w][p]
<1>1. log[w] \in Seq(Commanding) /\ applied[w] \in Nat /\ Len(log[w]) \in Nat
  BY LenProperties DEF CommandsTyped
<1>2. p \in 1 .. Len(log[w]) /\ DOMAIN log[w] = 1 .. Len(log[w])
  BY <1>1, LenProperties DEF HubApply
<1>3. c \in Commanding /\ (c.type # "delete" => c.series \in Series)
  BY <1>1, <1>2, ElementOfSeq DEF CommandsTyped
<1>4. c.type \in {"set", "cancel", "delete"} /\ c.spec \in Specs \cup {0}
  BY <1>3 DEF Commanding
<1>5. /\ c.type = "set" => HubSets(w, c)
      /\ c.type = "cancel" => HubCancels(c)
      /\ c.type = "delete" => HubDeletes(w)
  BY DEF HubApply
<1> HIDE DEF c
<1>6. {"armed", "cancelled", "broken"} \subseteq ScheduleStates
  BY DEF ScheduleStates
<1>7. \A s \in Series : /\ hub[s] \in HubRow
                        /\ hub[s].state \in {"none", "armed", "cancelled", "broken"}
                        /\ hub[s].live \in Workflows \cup {"none"}
  BY DEF HubTyped, HubRow
<1>8. ASSUME UNCHANGED <<hub, outbox>>,
             c.type = "set" =>
               (hub[c.series].state \in {"armed", "broken"} => hub[c.series].live \notin mine),
             c.type = "cancel" => hub[c.series].state \in {"none", "cancelled"}
      PROVE  HubSaid /\ HubTook(w, c)
  BY <1>8, SaysNothing DEF HubTook
<1>9. CASE c.type = "set"
  <2> DEFINE s == c.series
             inPlace == hub[s].state \in {"armed", "broken"} /\ hub[s].live \in mine
             starts == hub[s].state # "cancelled" /\ w \in mine /\ LiveOn(w) = {}
             live == IF inPlace THEN hub[s].live ELSE w
             r == [state |-> "armed", spec |-> c.spec, live |-> live]
  <2>1. s \in Series
    BY <1>3, <1>9
  <2>2. CASE inPlace \/ starts
    <3>1. hub' = [hub EXCEPT ![s] = r] /\ outbox' = Append(outbox, Changed(s, live, "armed"))
      BY <1>5, <1>9, <2>2 DEF HubSets
    <3>2. r \in HubRow /\ r.state = "armed" /\ r.live = live /\ r.spec = c.spec
      BY <1>4, <1>7, <2>1 DEF HubRow
    <3>3. /\ hub[s].state # "cancelled"
          /\ \/ hub[s].state # "none" /\ live = hub[s].live
             \/ w \in mine /\ live = w
      BY <2>2
    <3>4. Changed(s, live, "armed") \in Emitted
      <4>1. live \in Workflows \cup {"none"}
        BY <1>7, <2>1
      <4> HIDE DEF live, s
      <4> QED BY <1>6, <2>1, <4>1 DEF Changed, Emitted, Kinds
    <3> HIDE DEF s, inPlace, starts, live, r
    <3>5. HubSaid
      BY <2>1, <3>1, <3>2, <3>4, SaysOne
    <3>6. hub'[s] = r /\ \A t \in Series : t # s => hub'[t] = hub[t]
      BY <2>1, <3>1 DEF HubTyped
    <3>7. Said(s)
      <4> DEFINE e == Changed(s, live, "armed")
      <4>1. e.kind = "changed" /\ e.series = s
        BY DEF Changed
      <4> HIDE DEF e
      <4>2. New(Len(outbox')) /\ outbox'[Len(outbox')] = e
        BY <3>1, <3>4, OneMore DEF e
      <4> QED BY <4>1, <4>2 DEF Said, Speaks
    <3>8. HubTook(w, c)
      <4>1. s = c.series
        BY DEF s
      <4> QED BY <1>9, <2>1, <3>2, <3>3, <3>6, <3>7, <4>1 DEF HubTook
    <3> QED BY <3>5, <3>8 DEF c
  <2>3. CASE ~(inPlace \/ starts)
    <3>1. UNCHANGED <<hub, outbox>>
      BY <1>5, <1>9, <2>3 DEF HubSets
    <3> QED BY <1>8, <1>9, <2>3, <3>1 DEF c
  <2> QED BY <2>2, <2>3
<1>10. CASE c.type = "cancel"
  <2> DEFINE s == c.series
             r == [state |-> "cancelled", spec |-> hub[s].spec, live |-> hub[s].live]
  <2>1. s \in Series
    BY <1>3, <1>10
  <2>2. CASE hub[s].state \in {"armed", "broken"}
    <3>1. hub[s] \in HubRow
      BY <1>7, <2>1
    <3>2. [hub[s] EXCEPT !.state = "cancelled"] = r /\ r \in HubRow
          /\ r.state = "cancelled" /\ r.live = hub[s].live /\ r.spec = hub[s].spec
      BY <3>1 DEF HubRow
    <3>3. hub' = [hub EXCEPT ![s] = r] /\ outbox' = Append(outbox, Changed(s, hub[s].live, "cancelled"))
      BY <1>5, <1>10, <2>2, <3>2 DEF HubCancels
    <3>4. Changed(s, hub[s].live, "cancelled") \in Emitted
      <4>1. hub[s].live \in Workflows \cup {"none"}
        BY <1>7, <2>1
      <4> HIDE DEF s
      <4> QED BY <1>6, <2>1, <4>1 DEF Changed, Emitted, Kinds
    <3> HIDE DEF s, r
    <3>5. HubSaid
      BY <2>1, <3>2, <3>3, <3>4, SaysOne
    <3>6. hub'[s] = r /\ \A t \in Series : t # s => hub'[t] = hub[t]
      BY <2>1, <3>3 DEF HubTyped
    <3>7. Said(s)
      <4> DEFINE e == Changed(s, hub[s].live, "cancelled")
      <4>1. e.kind = "changed" /\ e.series = s
        BY DEF Changed
      <4> HIDE DEF e
      <4>2. New(Len(outbox')) /\ outbox'[Len(outbox')] = e
        BY <3>3, <3>4, OneMore DEF e
      <4> QED BY <4>1, <4>2 DEF Said, Speaks
    <3>8. HubTook(w, c)
      <4>1. s = c.series
        BY DEF s
      <4> QED BY <1>10, <2>1, <2>2, <3>2, <3>6, <3>7, <4>1 DEF HubTook
    <3> QED BY <3>5, <3>8 DEF c
  <2>3. CASE ~(hub[s].state \in {"armed", "broken"})
    <3>1. UNCHANGED <<hub, outbox>>
      BY <1>5, <1>10, <2>3 DEF HubCancels
    <3>2. hub[s].state \in {"none", "cancelled"}
      BY <1>7, <2>1, <2>3
    <3> QED BY <1>8, <1>10, <3>1, <3>2 DEF c
  <2> QED BY <2>2, <2>3
<1>11. CASE c.type = "delete"
  <2>1. CASE UNCHANGED <<hub, outbox>>
    BY <1>8, <1>11, <2>1 DEF c
  <2>2. ASSUME NEW s \in LiveOn(w), hub' = [hub EXCEPT ![s].state = "broken"],
               outbox' = Append(outbox, Changed(s, w, "broken"))
        PROVE  HubSaid /\ HubTook(w, c)
    <3>1. s \in Series /\ hub[s].live = w /\ hub[s].state = "armed" /\ hub[s] \in HubRow
      BY <1>7 DEF LiveOn
    <3>2. HubSaid
      BY <2>2, <3>1, SaysBroken
    <3>3. /\ hub'[s].state = "broken" /\ hub'[s].spec = hub[s].spec /\ hub'[s].live = hub[s].live
          /\ \A t \in Series : t # s => hub'[t] = hub[t]
      <4>1. hub'[s] = [hub[s] EXCEPT !.state = "broken"] /\ \A t \in Series : t # s => hub'[t] = hub[t]
        BY <2>2, <3>1 DEF HubTyped
      <4> QED BY <3>1, <4>1 DEF HubRow
    <3> QED BY <1>11, <3>1, <3>2, <3>3 DEF HubTook
  <2> QED BY <1>5, <1>11, <2>1, <2>2 DEF HubDeletes, c
<1> QED BY <1>4, <1>9, <1>10, <1>11

(* The positions up to a.                                                  *)
LEMMA UpTo ==
  ASSUME NEW S, NEW l \in Seq(S), NEW a \in Nat, a <= Len(l)
  PROVE  \A n : n \in 1 .. a <=> n \in DOMAIN l /\ n <= a
<1>1. DOMAIN l = 1 .. Len(l) /\ Len(l) \in Nat
  BY LenProperties
<1> QED BY <1>1

(* The deletes among the commands the hub has applied.                     *)
LEMMA AppliedAre ==
  ASSUME CommandsTyped, NEW w \in Workflows
  PROVE  DeletedByNow(w) <=> \E n \in DOMAIN log[w] : n <= applied[w] /\ log[w][n].type = "delete"
<1>1. log[w] \in Seq(Commanding) /\ applied[w] \in Nat /\ applied[w] <= Len(log[w])
  BY DEF CommandsTyped
<1>2. \A n : n \in 1 .. applied[w] <=> n \in DOMAIN log[w] /\ n <= applied[w]
  BY <1>1, UpTo
<1> QED BY <1>2 DEF DeletedByNow

(* The live instance of a series with one channel is only gone before a    *)
(* set when an announced one was deleted.                                  *)
LEMMA LiveReached ==
  ASSUME Typed, HubKnows, Tidy, NEW w \in Workflows, NEW s \in Series,
         OneDoor(s), ~AnnouncedDeleted(s),
         NEW p \in DOMAIN log[w], Command(w, p, "set", s), p = applied[w] + 1,
         hub[s].state # "none", hub[s].live \notin mine
  PROVE  FALSE
<1> USE DEF Tidy
<1>1. PICK live : live = hub[s].live
  OBVIOUS
<1>2. DeletedByNow(live)
  BY <1>1 DEF HubKnows
<1>3. ~Announced(s, live)
  BY <1>2 DEF Announced, Announces, AnnouncedDeleted
<1>4. w \in Doors(s)
  BY DEF Doors, Command
<1>5. live = w
  BY <1>1, <1>3, <1>4 DEF HubTells, LiveOurs, OneDoor
<1>6. PICK d \in DOMAIN log[w] : d <= applied[w] /\ log[w][d].type = "delete"
  BY <1>2, <1>5, AppliedAre DEF Typed
<1>7. d \in Nat /\ applied[w] \in Nat /\ d < p
  <2>1. log[w] \in Seq(Commanding) /\ applied[w] \in Nat
    BY DEF Typed, CommandsTyped
  <2> QED BY <1>6, <2>1, LenProperties
<1>8. \A n \in DOMAIN log[w] : n < d => log[w][n].series # s
  BY <1>6, <1>7 DEF DeletesTell, SetsBehind, Deletes
<1>9. PICK v \in Workflows : \E n \in DOMAIN log[v] :
        n <= applied[v] /\ Command(v, n, "set", s) /\ \A e \in Deletes(v) : n < e
  BY DEF HubTells, Begun
<1>10. v = w
  BY <1>4, <1>9 DEF OneDoor, Doors, Command
<1> QED BY <1>6, <1>8, <1>9, <1>10 DEF Deletes, Command

(* The hub applies a command.                                              *)
LEMMA TookTidy ==
  ASSUME Typed, MintedOnce, HubKnows, Tidy, HubMoves, LogGrows, CommandsTyped', HubSaid,
         NEW w \in Workflows, NEW p, Took(w, p), HubTook(w, log[w][p])
  PROVE  Tidy'
<1> USE DEF Tidy
<1> PICK c : c = log[w][p]
  OBVIOUS
<1>1. /\ p \in DOMAIN log[w] /\ p \in Nat /\ p = applied[w] + 1 /\ applied[w] \in Nat
      /\ \A n \in DOMAIN log[w] : n <= applied[w] => n < p
      /\ \A v \in Workflows : \A n \in DOMAIN log[v] :
           n <= applied'[v] <=> n <= applied[v] \/ (v = w /\ n = p)
      /\ UNCHANGED <<series, log, answered, stored, notices>>
  <2>1. log[w] \in Seq(Commanding) /\ applied[w] \in Nat
    BY DEF Typed, CommandsTyped
  <2>2. \A n \in DOMAIN log[w] : n \in Nat
    BY <2>1, LenProperties
  <2> QED BY <2>1, <2>2 DEF Took
<1>2. /\ c.type \in {"set", "cancel", "delete"}
      /\ c.type = "delete" => \A s \in Series : c.series # s
  <2>1. log[w] \in Seq(Commanding)
    BY DEF Typed, CommandsTyped
  <2>2. c \in Commanding
    BY <1>1, <2>1, ElementOfSeq, LenProperties
  <2>3. c.type = "delete" => \A s \in Series : c.series # s
    BY <1>1, IdAssumption DEF CommandsTell, Unnamed
  <2> QED BY <2>2, <2>3 DEF Commanding
<1>3. \A v \in Workflows : DeletedByNow(v)' <=> DeletedByNow(v) \/ (v = w /\ c.type = "delete")
  <2> SUFFICES ASSUME NEW v \in Workflows
               PROVE  DeletedByNow(v)' <=> DeletedByNow(v) \/ (v = w /\ c.type = "delete")
    OBVIOUS
  <2>1. DeletedByNow(v) <=> \E n \in DOMAIN log[v] : n <= applied[v] /\ log[v][n].type = "delete"
    BY AppliedAre DEF Typed
  <2>2. DeletedByNow(v)' <=> \E n \in DOMAIN log[v] : n <= applied'[v] /\ log[v][n].type = "delete"
    <3>1. log[v] \in Seq(Commanding) /\ applied'[v] \in Nat /\ applied'[v] <= Len(log[v])
      BY <1>1 DEF CommandsTyped
    <3>2. \A n : n \in 1 .. applied'[v] <=> n \in DOMAIN log[v] /\ n <= applied'[v]
      BY <3>1, UpTo
    <3> QED BY <1>1, <3>2 DEF DeletedByNow
  <2> QED BY <1>1, <2>1, <2>2
<1>4. \A s \in Series : Asked(s)' = Asked(s) /\ Doors(s)' = Doors(s) /\ OneDoor(s)' = OneDoor(s)
  BY <1>1 DEF Asked, Doors, OneDoor
<1>5. \A s \in Series : AnnouncedDeleted(s) => AnnouncedDeleted(s)'
  BY DeletedLasts
<1>6. \A s, v : Announced(s, v) => Announced(s, v)'
  BY Lasting
<1>7. /\ \A v, n, type, s : Command(v, n, type, s)' <=> Command(v, n, type, s)
      /\ \A v : Deletes(v)' = Deletes(v)
  BY <1>1 DEF Command, Deletes
<1>8. \A s \in Series :
       \/ hub'[s] = hub[s]
       \/ /\ Command(w, p, "set", s)
          /\ hub[s].state # "cancelled" /\ hub'[s].state = "armed" /\ hub'[s].spec = c.spec
          /\ \/ hub[s].state # "none" /\ hub'[s].live = hub[s].live
             \/ w \in mine /\ hub'[s].live = w
       \/ /\ Command(w, p, "cancel", s)
          /\ hub[s].state # "none" /\ hub'[s].state = "cancelled"
          /\ hub'[s].spec = hub[s].spec /\ hub'[s].live = hub[s].live
       \/ /\ hub[s].state = "armed" /\ hub'[s].state = "broken"
          /\ hub'[s].spec = hub[s].spec /\ hub'[s].live = hub[s].live
  BY <1>1 DEF HubTook, Command
<1>9. CommandsTell'
  BY <1>1, <1>4, <1>7
     DEF CommandsTell, AskedKnown, Known, CancelSeen, CancelSent, CancelLast, SpecLast, FewDoors, Unnamed
<1>10. DeletesTell'
  <2>1. Returned'
    <3> SUFFICES ASSUME NEW v \in Workflows, Deletes(v) # {}, ~Exists(v)' \/ wf'[v].status # "deleting"
                 PROVE  DeletedByNow(v)'
      BY <1>7 DEF Returned
    <3>1. CASE Exists(v)'
      BY <3>1, <1>3 DEF Took, DeletesTell, Returned, Exists
    <3>2. CASE ~Exists(v)'
      BY <3>2, <1>3 DEF Took, DeletesTell, Returned
    <3> QED BY <3>1, <3>2
  <2>2. PointerBehind'
    <3>1. \A v \in Workflows : Exists(v)' => wf'[v] = wf[v] /\ Exists(v)
      BY DEF Took, Exists
    <3> QED BY <1>1, <1>6, <1>7, <3>1 DEF DeletesTell, PointerBehind
  <2>3. SetsBehind'
    BY <1>1, <1>5, <1>7 DEF DeletesTell, SetsBehind
  <2>4. Minted \subseteq Minted'
    BY Positions DEF Minted
  <2>5. Addressed'
    BY <1>1, <2>4 DEF DeletesTell, Addressed
  <2>6. Lost'
    BY <1>3 DEF DeletesTell, Lost, Took
  <2> QED BY <2>1, <2>2, <2>3, <2>5, <2>6 DEF DeletesTell
<1>11. HubTells'
  <2>1. Begun'
    <3> SUFFICES ASSUME NEW s \in Series, hub'[s].state # "none"
                 PROVE  \E v \in Workflows : \E n \in DOMAIN log[v] :
                          n <= applied'[v] /\ Command(v, n, "set", s) /\ \A d \in Deletes(v) : n < d
      BY <1>1, <1>7 DEF Begun
    <3>1. CASE hub[s].state # "none"
      BY <1>1, <3>1 DEF HubTells, Begun
    <3>2. CASE hub[s].state = "none"
      <4>1. Command(w, p, "set", s) /\ w \in mine
        BY <1>8, <3>2
      <4>2. ASSUME NEW d \in Deletes(w) PROVE p < d
        <5>1. d \in DOMAIN log[w] /\ log[w][d].type = "delete" /\ d # p
          BY <4>1 DEF Deletes, Command
        <5>2. d \in Nat
          BY <5>1, LenProperties DEF Typed, CommandsTyped
        <5>3. d <= applied[w] => DeletedByNow(w)
          BY <5>1, AppliedAre DEF Typed
        <5>4. ~DeletedByNow(w)
          BY <4>1 DEF DeletesTell, Lost
        <5> QED BY <1>1, <5>1, <5>2, <5>3, <5>4
      <4> QED BY <1>1, <4>1, <4>2
    <3> QED BY <3>1, <3>2
  <2>2. LiveOurs'
    <3> SUFFICES ASSUME NEW s \in Series, hub'[s].state # "none"
                 PROVE  hub'[s].live \in Doors(s) \/ Announced(s, hub[s].live)'
      BY <1>4 DEF LiveOurs
    <3>1. CASE hub[s].state # "none" /\ hub'[s].live = hub[s].live
      <4>1. PICK x : x = hub[s].live
        OBVIOUS
      <4>2. x \in Doors(s) \/ Announced(s, x)'
        BY <1>6, <3>1, <4>1 DEF HubTells, LiveOurs
      <4>3. Announced(s, x)' => Announced(s, hub[s].live)'
        BY <3>1, <4>1 DEF Announced, Announces
      <4> QED BY <3>1, <4>1, <4>2, <4>3
    <3>2. CASE Command(w, p, "set", s) /\ hub'[s].live = w
      BY <3>2 DEF Command, Doors
    <3> QED BY <1>8, <3>1, <3>2
  <2>3. CancelApplied'
    <3> SUFFICES ASSUME NEW s \in Series, hub'[s].state = "cancelled"
                 PROVE  \E v \in Workflows : \E n \in DOMAIN log[v] :
                          n <= applied'[v] /\ Command(v, n, "cancel", s)
      BY <1>1, <1>7 DEF CancelApplied
    <3>1. CASE hub[s].state = "cancelled"
      BY <1>1, <3>1 DEF HubTells, CancelApplied
    <3>2. CASE hub[s].state # "cancelled"
      BY <1>1, <1>8, <3>2
    <3> QED BY <3>1, <3>2
  <2>4. CancelDone'
    <3> SUFFICES ASSUME NEW s \in Series, OneDoor(s), NEW v \in Workflows, NEW n \in DOMAIN log[v],
                        n <= applied'[v], Command(v, n, "cancel", s)
                 PROVE  hub'[s].state \in {"none", "cancelled"}
      BY <1>1, <1>4, <1>7 DEF CancelDone
    <3>1. CASE v = w /\ n = p
      BY <3>1, <1>2 DEF HubTook, Command
    <3>2. CASE n <= applied[v]
      <4>1. hub[s].state \in {"none", "cancelled"}
        BY <3>2 DEF HubTells, CancelDone
      <4>2. ASSUME Command(w, p, "set", s) PROVE FALSE
        <5>1. v = w
          BY <4>2, <1>1 DEF OneDoor, Doors, Command
        <5>2. n < p
          BY <1>1, <3>2, <5>1
        <5> QED BY <1>1, <4>2, <5>1, <5>2 DEF CommandsTell, CancelLast, Command
      <4> QED BY <1>8, <4>1, <4>2
    <3> QED BY <1>1, <3>1, <3>2
  <2> QED BY <2>1, <2>2, <2>3, <2>4 DEF HubTells
<1>12. EventsTell'
  <2>1. \A s \in Series : hub[s].state = "cancelled" => hub'[s].state = "cancelled"
    BY <1>8
  <2>2. answered \in Nat /\ answered' = answered
    BY <1>1 DEF Typed
  <2> QED BY <1>1, <2>1, <2>2, HubTellsOn
<1>13. ArchiveKept' /\ Noticed'
  BY <1>1, RowsAgreeOn DEF Took
<1>14. ASSUME NEW s \in Series, Plain(s)', hub[s].state # "none", c.series # s
       PROVE  Plain(s)
  <2>1. Settled(s)
    BY <1>1, <1>14 DEF Plain, Settled
  <2> QED BY <1>4, <1>5, <1>14, <2>1 DEF Plain
<1>15. ASSUME NEW s \in Series, Plain(s)', c.series = s, ~Said(s)
       PROVE  hub[s].state \in {"none", "cancelled"}
  <2>1. OneDoor(s) /\ ~AnnouncedDeleted(s)
    BY <1>4, <1>5, <1>15 DEF Plain
  <2>2. CASE c.type = "set"
    <3>1. Command(w, p, "set", s)
      BY <1>1, <1>15, <2>2 DEF Command
    <3>2. hub[s].state \in {"armed", "broken"} => hub[s].live \notin mine
      BY <1>15, <2>2 DEF HubTook
    <3>3. hub[s].state \in {"none", "armed", "cancelled", "broken"}
      BY DEF Typed, HubTyped
    <3> QED BY <1>1, <2>1, <3>1, <3>2, <3>3, LiveReached
  <2>3. CASE c.type = "cancel"
    BY <1>15, <2>3 DEF HubTook
  <2> QED BY <1>2, <1>15, <2>2, <2>3
<1>16. StateAgrees'
  <2> SUFFICES ASSUME NEW s \in Series, Plain(s)', Heard(s)'
               PROVE  series[s].state = StateOf(hub'[s].state)
    BY <1>1 DEF StateAgrees, StateOf
  <2>1. Heard(s) /\ hub'[s].state = hub[s].state /\ ~Said(s)
    BY <1>1, HeardStill DEF EventsTell, Said
  <2>2. hub[s].state # "none"
    BY <2>1 DEF Plain
  <2>3. CASE c.series # s
    BY <1>14, <2>1, <2>2, <2>3 DEF Agreed, StateAgrees
  <2>4. CASE c.series = s
    <3>1. hub[s].state = "cancelled"
      BY <1>15, <2>1, <2>2, <2>4
    <3>2. series[s].state = "cancelled"
      BY <3>1 DEF HubTells, CancelApplied, CommandsTell, CancelSeen, Command
    <3> QED BY <2>1, <3>1, <3>2 DEF StateOf
  <2> QED BY <2>3, <2>4
<1>17. SpecAgrees'
  <2> SUFFICES ASSUME NEW s \in Series, Plain(s)', hub'[s].state = "armed"
               PROVE  series[s].spec = hub'[s].spec
    BY <1>1 DEF SpecAgrees
  <2>1. CASE c.series # s
    <3>1. hub'[s] = hub[s]
      BY <1>1, <1>8, <2>1 DEF Command
    <3>2. Plain(s)
      BY <1>14, <2>1, <3>1
    <3> QED BY <3>1, <3>2 DEF Agreed, SpecAgrees
  <2>2. CASE c.series = s
    <3>1. c.type = "set"
      BY <1>2, <2>2 DEF HubTook
    <3>2. Command(w, p, "set", s) /\ OneDoor(s)
      BY <1>1, <1>4, <2>2, <3>1 DEF Command, Plain
    <3>3. CASE hub'[s].spec = c.spec
      <4>1. ASSUME NEW m \in DOMAIN log[w], Command(w, m, "set", s) PROVE m <= p
        <5>1. m <= applied'[w]
          BY <1>1, <4>1 DEF Plain, Settled, Command
        <5>2. m \in Nat
          BY LenProperties DEF Typed, CommandsTyped
        <5> QED BY <1>1, <5>1, <5>2
      <4> QED BY <1>1, <3>2, <3>3, <4>1 DEF CommandsTell, SpecLast
    <3>4. CASE hub'[s].spec # c.spec
      <4>1. hub'[s] = hub[s]
        BY <1>1, <1>8, <3>2, <3>4 DEF Command
      <4>2. hub[s].live \notin mine
        BY <2>2, <3>1, <3>4, <4>1 DEF HubTook
      <4> QED BY <1>1, <1>5, <3>2, <4>1, <4>2, LiveReached DEF Plain
    <3> QED BY <3>3, <3>4
  <2> QED BY <2>1, <2>2
<1> QED BY <1>9, <1>10, <1>11, <1>12, <1>13, <1>16, <1>17 DEF Agreed

-----------------------------------------------------------------------------
(* An operator queues command c at position p on the channel of w: sets a  *)
(* live series or points the workflow at a new one, cancels, or deletes.   *)

Queues(w, p, c) ==
  /\ p \in Nat /\ p \notin DOMAIN log[w] /\ applied[w] < p /\ log'[w][p] = c
  /\ \A n \in DOMAIN log[w] : n \in Nat /\ n < p
  /\ \A v \in Workflows :
       /\ \A n : n \in DOMAIN log'[v] <=> n \in DOMAIN log[v] \/ (v = w /\ n = p)
       /\ \A n \in DOMAIN log[v] : log'[v][n] = log[v][n]
  /\ UNCHANGED <<hubSide, stored, notices>>

Writes(w, c) ==
  /\ Exists(w)
  /\ \A s \in Series : c.series # s => series'[s] = series[s]
  /\ \A v \in Workflows :
       /\ Exists(v)' <=> Exists(v)
       /\ wf'[v].archived = wf[v].archived
       /\ wf'[v].series = wf[v].series \/ (v = w /\ Fresh(wf'[v].series))
       /\ wf'[v].status = wf[v].status \/ (v = w /\ c.type = "delete")
  /\ c.type = "delete" => c.series = "none" /\ wf'[w].status = "deleting"
  /\ c.type # "delete" =>
       /\ c.series \in Series /\ c.series = wf'[w].series
       /\ Known(c.series)'
       /\ series[c.series].state # "cancelled"
  /\ c.type = "set" =>
       /\ wf[w].status # "deleting"
       /\ series'[c.series].state # "cancelled" /\ series'[c.series].spec = c.spec
  /\ c.type = "cancel" =>
       /\ series'[c.series].state = "cancelled"
       /\ series'[c.series].spec = series[c.series].spec
  /\ c.type \in {"set", "cancel", "delete"}

LEMMA QueuesAt ==
  ASSUME CommandsTyped, NEW w \in Workflows, NEW c, Queue(w, c),
         UNCHANGED <<hubSide, stored, notices>>
  PROVE  \E p : Queues(w, p, c)
<1>1. log' = [log EXCEPT ![w] = Append(log[w], c)]
  BY DEF Queue
<1>2. log[w] \in Seq(Commanding) /\ applied[w] \in Nat /\ applied[w] <= Len(log[w])
  BY DEF CommandsTyped
<1>3. log'[w] = Append(log[w], c) /\ \A v \in Workflows : v # w => log'[v] = log[v]
  BY <1>1 DEF CommandsTyped
<1>4. PICK p \in Nat : p = Len(log[w]) + 1
  BY <1>2, LenProperties
<1>5. /\ DOMAIN log[w] = 1 .. Len(log[w]) /\ Len(log[w]) \in Nat
      /\ DOMAIN Append(log[w], c) = 1 .. p
      /\ Append(log[w], c)[p] = c
      /\ \A n \in DOMAIN log[w] : Append(log[w], c)[n] = log[w][n]
  BY <1>2, <1>4, LenProperties
<1>6. /\ \A n : n \in DOMAIN Append(log[w], c) <=> n \in DOMAIN log[w] \/ n = p
      /\ p \notin DOMAIN log[w] /\ applied[w] < p
      /\ \A n \in DOMAIN log[w] : n \in Nat /\ n < p
  BY <1>2, <1>4, <1>5
<1> QED BY <1>3, <1>5, <1>6 DEF Queues

LEMMA ScheduleAsks ==
  ASSUME Typed, Rows, NEW w \in Workflows, NEW s \in Series, NEW spec \in Specs, Schedule(w, s, spec)
  PROVE  \E p, c : Queues(w, p, c) /\ Writes(w, c)
<1>1. PICK c : c = SetSchedule(s, spec)
  OBVIOUS
<1>2. c.type = "set" /\ c.series = s /\ c.spec = spec
  BY <1>1 DEF SetSchedule
<1>3. \E p : Queues(w, p, c)
  BY <1>1, QueuesAt DEF Schedule, Typed
<1>4. series[s].state # "cancelled"
  BY NoCancelledTarget DEF Schedule
<1>5. /\ series'[s] = [state |-> "active", spec |-> spec]
      /\ \A t \in Series : t # s => series'[t] = series[t]
  BY DEF Schedule, SeriesSet, Typed, SeriesTyped
<1>6. series'[s].state = "active" /\ series'[s].spec = spec /\ Known(s)'
  BY <1>5 DEF Known, NoSeries
<1>7. Exists(w) /\ wf[w].status = "idle"
  BY DEF Schedule, CanSchedule
<1>8. wf[w] \in Row /\ "none" \in ScheduleStates
  BY <1>7 DEF Rows, Exists, ScheduleStates
<1>9. CASE HasLiveSeries(w)
  <2>1. wf' = wf /\ wf[w].series = s
    BY <1>9 DEF Schedule, SeriesFor
  <2> QED BY <1>2, <1>3, <1>4, <1>5, <1>6, <1>7, <2>1 DEF Writes, Exists
<1>10. CASE ~HasLiveSeries(w)
  <2> DEFINE r == [series |-> s, sched |-> "none", status |-> wf[w].status, archived |-> wf[w].archived]
  <2>1. Fresh(s)
    BY <1>10 DEF Schedule, SeriesFor
  <2>2. wf' = [wf EXCEPT ![w] = r]
    <3>1. ScheduleFields(wf[w], [series |-> s, sched |-> "none"]) = r
      BY <1>8, PointerSet
    <3> QED BY <1>10, <3>1 DEF Schedule
  <2>3. r \in Row /\ r.series = s /\ r.status = wf[w].status /\ r.archived = wf[w].archived
    BY <1>8 DEF Row
  <2> HIDE DEF r
  <2>4. wf'[w] = r /\ \A v \in Workflows : v # w => wf'[v] = wf[v]
    BY <2>2 DEF Rows
  <2>5. Exists(w)'
    BY <2>3, <2>4, RowExists DEF Exists
  <2> QED BY <1>2, <1>3, <1>4, <1>5, <1>6, <1>7, <2>1, <2>3, <2>4, <2>5 DEF Writes, Exists
<1> QED BY <1>9, <1>10

LEMMA CancelAsks ==
  ASSUME Typed, Rows, NEW w \in Workflows, Cancel(w)
  PROVE  \E p, c : Queues(w, p, c) /\ Writes(w, c)
<1>1. PICK s : s = wf[w].series
  OBVIOUS
<1>2. PICK c : c = CancelSchedule(s)
  OBVIOUS
<1>3. c.type = "cancel" /\ c.series = s
  BY <1>2 DEF CancelSchedule
<1>4. \E p : Queues(w, p, c)
  BY <1>1, <1>2, QueuesAt DEF Cancel, Typed
<1>5. Exists(w) /\ s # "none" /\ series[s].state # "cancelled"
  BY <1>1 DEF Cancel, CanCancel, HasLiveSeries
<1>6. wf[w] \in Row
  BY <1>5 DEF Rows, Exists
<1>7. s \in Series
  BY <1>1, <1>5, <1>6 DEF Row
<1>8. series' = [series EXCEPT ![s].state = "cancelled"]
  BY <1>1 DEF Cancel, SeriesMoved
<1>9. series'[s].state = "cancelled" /\ series'[s].spec = series[s].spec
  BY <1>7, <1>8 DEF Typed, SeriesTyped
<1>10. \A t \in Series : t # s => series'[t] = series[t]
  BY <1>7, <1>8 DEF Typed, SeriesTyped
<1>11. Known(s)'
  BY <1>9 DEF Known, NoSeries
<1>12. wf' = wf
  BY DEF Cancel
<1> QED BY <1>1, <1>3, <1>4, <1>5, <1>7, <1>9, <1>10, <1>11, <1>12 DEF Writes, Exists

LEMMA DeleteAsks ==
  ASSUME Typed, Rows, NEW w \in Workflows, Delete(w)
  PROVE  \E p, c : Queues(w, p, c) /\ Writes(w, c)
<1>1. PICK c : c = DeleteWorkflow
  OBVIOUS
<1>2. c.type = "delete" /\ c.series = "none"
  BY <1>1 DEF DeleteWorkflow
<1>3. \E p : Queues(w, p, c)
  BY <1>1, QueuesAt DEF Delete, Typed
<1>4. Exists(w) /\ wf[w] \in Row
  BY DEF Delete, Rows, Exists
<1>5. wf' = [wf EXCEPT ![w].status = "deleting"]
  BY DEF Delete
<1>6. /\ wf'[w] = [wf[w] EXCEPT !.status = "deleting"]
      /\ \A v \in Workflows : v # w => wf'[v] = wf[v]
  BY <1>5 DEF Rows
<1>7. /\ wf'[w] \in Row /\ wf'[w].status = "deleting"
      /\ wf'[w].series = wf[w].series /\ wf'[w].archived = wf[w].archived
  BY <1>4, <1>6 DEF Row
<1>8. Exists(w)'
  BY <1>7, RowExists DEF Exists
<1> QED BY <1>2, <1>3, <1>4, <1>6, <1>7, <1>8 DEF Writes, Exists, Delete

(* An id some command has is not fresh.                                    *)
LEMMA NotFresh ==
  ASSUME NEW v \in Workflows, NEW n \in DOMAIN log[v]
  PROVE  ~Fresh(log[v][n].series)
<1>1. <<v, n>> \in Commands
  BY DEF Commands
<1> QED BY <1>1 DEF Fresh

(* An operator queues a command.                                           *)
LEMMA AsksTidy ==
  ASSUME Typed, Rows, MintedOnce, HubKnows, Received, Tidy, CommandsTyped, KnownStays, CancelStays,
         NEW w \in Workflows, NEW p, NEW c, Queues(w, p, c), Writes(w, c)
  PROVE  Tidy'
<1> USE DEF Tidy
<1>1. /\ p \in Nat /\ p \notin DOMAIN log[w] /\ applied[w] < p /\ applied[w] \in Nat
      /\ p \in DOMAIN log'[w] /\ log'[w][p] = c
      /\ \A n \in DOMAIN log[w] : n \in Nat /\ n < p
      /\ \A v \in Workflows : \A n :
           n \in DOMAIN log'[v] <=> n \in DOMAIN log[v] \/ (v = w /\ n = p)
      /\ \A v \in Workflows : \A n \in DOMAIN log[v] : log'[v][n] = log[v][n]
      /\ UNCHANGED <<applied, hub, mine, outbox, answered, stored, notices>>
  BY DEF Queues, hubSide, CommandsTyped
<1>2. \A v \in Workflows : DeletedByNow(v)' <=> DeletedByNow(v)
  <2> SUFFICES ASSUME NEW v \in Workflows PROVE DeletedByNow(v)' <=> DeletedByNow(v)
    OBVIOUS
  <2>1. \A n : n \in 1 .. applied[v] => n \in DOMAIN log[v]
    <3>1. log[v] \in Seq(Commanding) /\ applied[v] \in Nat /\ applied[v] <= Len(log[v])
      BY DEF CommandsTyped
    <3> QED BY <3>1, UpTo
  <2>2. \A n : n \in 1 .. applied[v] => log'[v][n] = log[v][n]
    BY <1>1, <2>1
  <2> QED BY <1>1, <2>2 DEF DeletedByNow
<1>3. \A s \in Series : AnnouncedDeleted(s)' <=> AnnouncedDeleted(s)
  BY <1>1, <1>2 DEF AnnouncedDeleted, MintedOnce, Workflows
<1>4. \A s, v : Announced(s, v)' <=> Announced(s, v)
  BY <1>1 DEF Announced, Announces
<1>5. \A v \in Workflows : \A n, type, s :
        Command(v, n, type, s)' <=> \/ Command(v, n, type, s)
                                    \/ v = w /\ n = p /\ c.type = type /\ c.series = s
  BY <1>1 DEF Command
<1>6. \A v \in Workflows : \A d :
        d \in Deletes(v)' <=> d \in Deletes(v) \/ (v = w /\ d = p /\ c.type = "delete")
  BY <1>1 DEF Deletes
<1>7. \A s \in Series : Doors(s)' = IF c.series = s THEN Doors(s) \cup {w} ELSE Doors(s)
  BY <1>1 DEF Doors
<1>8. \A s \in Series : OneDoor(s)' => OneDoor(s)
  BY <1>7 DEF OneDoor
<1>9. /\ c.type \in {"set", "cancel", "delete"}
      /\ c.type = "delete" => \A s \in Series : c.series # s
      /\ c.type # "delete" => c.series \in Series
  BY IdAssumption DEF Writes
<1>10. \A v \in Workflows : \A n \in DOMAIN log[v] :
         log[v][n].type # "delete" => log[v][n].series \in Series
  BY DEF CommandsTyped
<1>11. CommandsTell'
  <2>1. AskedKnown'
    <3>1. \A s \in Series : Asked(s)' => Asked(s) \/ c.series = s
      BY <1>1 DEF Asked
    <3> QED BY <1>9, <3>1 DEF CommandsTell, AskedKnown, KnownStays, Writes
  <2>2. CancelSeen'
    BY <1>1, <1>10 DEF CommandsTell, CancelSeen, CancelStays, Writes
  <2>3. CancelSent'
    <3> SUFFICES ASSUME NEW s \in Series, series'[s].state = "cancelled"
                 PROVE  \E v \in Workflows : \E n \in DOMAIN log'[v] : Command(v, n, "cancel", s)'
      BY DEF CancelSent
    <3>1. CASE series[s].state = "cancelled"
      BY <1>1, <1>5, <3>1 DEF CommandsTell, CancelSent
    <3>2. CASE series[s].state # "cancelled"
      <4>1. c.series = s
        BY <3>2 DEF Writes
      <4>2. c.type = "cancel"
        BY <1>9, <4>1 DEF Writes
      <4> QED BY <1>1, <1>5, <4>1, <4>2
    <3> QED BY <3>1, <3>2
  <2>4. CancelLast'
    <3> SUFFICES ASSUME NEW v \in Workflows, NEW n \in DOMAIN log'[v], NEW m \in DOMAIN log'[v],
                        n < m, log'[v][n].type = "cancel", log'[v][m].series = log'[v][n].series
                 PROVE  FALSE
      BY DEF CancelLast
    <3>1. CASE n \in DOMAIN log[v] /\ m \in DOMAIN log[v]
      BY <1>1, <3>1 DEF CommandsTell, CancelLast
    <3>2. CASE v = w /\ n \in DOMAIN log[w] /\ m = p
      <4>1. series[c.series].state = "cancelled" /\ c.series \in Series
        BY <1>1, <1>10, <3>2 DEF CommandsTell, CancelSeen
      <4> QED BY <1>9, <4>1 DEF Writes
    <3>3. CASE v = w /\ n = p
      BY <1>1, <3>3
    <3> QED BY <1>1, <3>1, <3>2, <3>3
  <2>5. SpecLast'
    <3> SUFFICES ASSUME NEW s \in Series, OneDoor(s)', NEW v \in Workflows, NEW n \in DOMAIN log'[v],
                        Command(v, n, "set", s)',
                        \A m \in DOMAIN log'[v] : Command(v, m, "set", s)' => m <= n
                 PROVE  log'[v][n].spec = series'[s].spec
      BY DEF SpecLast
    <3>1. CASE v = w /\ n = p
      BY <1>1, <1>5, <3>1 DEF Writes, Command
    <3>2. CASE n \in DOMAIN log[v]
      <4>1. Command(v, n, "set", s)
        BY <1>1, <1>5, <3>2
      <4>2. \A m \in DOMAIN log[v] : Command(v, m, "set", s) => m <= n
        BY <1>1, <1>5
      <4>3. log'[v][n].spec = series[s].spec
        BY <1>1, <1>8, <3>2, <4>1, <4>2 DEF CommandsTell, SpecLast
      <4>4. ASSUME c.series = s, c.type = "set" PROVE FALSE
        <5>1. v \in Doors(s)' /\ w \in Doors(s)'
          BY <1>1, <4>1, <4>4 DEF Doors, Command
        <5>2. v = w
          BY <5>1 DEF OneDoor
        <5>3. p <= n
          BY <1>1, <1>5, <4>4, <5>2
        <5> QED BY <1>1, <3>2, <5>2, <5>3
      <4>5. series'[s].spec = series[s].spec
        BY <1>9, <4>4 DEF Writes
      <4> QED BY <4>3, <4>5
    <3> QED BY <1>1, <3>1, <3>2
  <2>6. FewDoors'
    <3>1. \A s \in Series : IsFiniteSet(Doors(s))
      BY DEF CommandsTell, FewDoors
    <3>2. \A s \in Series : IsFiniteSet(Doors(s) \cup {w})
      BY <3>1, FS_AddElement
    <3> QED BY <1>7, <3>1, <3>2 DEF FewDoors
  <2>7. Unnamed'
    BY <1>1 DEF CommandsTell, Unnamed, Writes
  <2> QED BY <2>1, <2>2, <2>3, <2>4, <2>5, <2>6, <2>7 DEF CommandsTell
<1>12. DeletesTell'
  <2>1. Returned'
    <3> SUFFICES ASSUME NEW v \in Workflows, Deletes(v)' # {}, ~Exists(v)' \/ wf'[v].status # "deleting"
                 PROVE  DeletedByNow(v)
      BY <1>2 DEF Returned
    <3>1. Deletes(v) # {}
      BY <1>6 DEF Writes
    <3>2. ~Exists(v) \/ wf[v].status # "deleting"
      BY DEF Writes
    <3> QED BY <3>1, <3>2 DEF DeletesTell, Returned
  <2>2. PointerBehind'
    <3> SUFFICES ASSUME NEW v \in Workflows, Exists(v)', wf'[v].status # "deleting",
                        wf'[v].series # "none", ~Announced(wf[v].series, v)',
                        NEW n \in DOMAIN log'[v], NEW d \in Deletes(v)', log'[v][n].series = wf'[v].series
                 PROVE  d < n
      BY DEF PointerBehind
    <3>1. d \in Deletes(v) /\ d \in DOMAIN log[v]
      BY <1>6 DEF Writes, Deletes
    <3>2. CASE v = w /\ n = p
      BY <1>1, <3>1, <3>2
    <3>3. CASE n \in DOMAIN log[v]
      <4>1. log[v][n].series = wf'[v].series
        BY <1>1, <3>3
      <4>2. ~Fresh(wf'[v].series)
        BY <3>3, <4>1, NotFresh
      <4>3. wf'[v].series = wf[v].series
        BY <4>2 DEF Writes
      <4>4. ~Announced(wf[v].series, v)
        BY <1>4, <4>3 DEF Announced, Announces
      <4>5. Exists(v) /\ wf[v].status # "deleting"
        BY DEF Writes
      <4> QED BY <3>1, <3>3, <4>1, <4>3, <4>4, <4>5 DEF DeletesTell, PointerBehind
    <3> QED BY <1>1, <3>2, <3>3
  <2>3. SetsBehind'
    <3> SUFFICES ASSUME NEW v \in Workflows, NEW s \in Series, NEW d \in Deletes(v)',
                        NEW m \in DOMAIN log'[v], d < m, Command(v, m, "set", s)', ~AnnouncedDeleted(s),
                        NEW n \in DOMAIN log'[v], n < d, log'[v][n].series = s
                 PROVE  FALSE
      BY <1>3 DEF SetsBehind
    <3>1. d \in Deletes(v) /\ d \in DOMAIN log[v]
      <4>1. m \in DOMAIN log[v] \/ (v = w /\ m = p /\ c.type = "set")
        BY <1>1, <1>5 DEF Command
      <4>2. v = w => d # p
        BY <1>1, <4>1
      <4> QED BY <1>6, <4>2 DEF Deletes
    <3>2. n \in DOMAIN log[v] /\ log[v][n].series = s
      <4>1. v = w => n # p
        BY <1>1, <3>1
      <4> QED BY <1>1, <4>1
    <3>3. CASE m \in DOMAIN log[v]
      <4>1. Command(v, m, "set", s)
        BY <1>1, <1>5, <3>3
      <4> QED BY <3>1, <3>2, <3>3, <4>1 DEF DeletesTell, SetsBehind
    <3>4. CASE v = w /\ m = p
      <4>1. c.type = "set" /\ c.series = s /\ wf'[w].series = s
        <5>1. c.type = "set" /\ c.series = s
          BY <1>1, <3>4 DEF Command
        <5> QED BY <5>1 DEF Writes
      <4>2. Exists(w) /\ wf[w].status # "deleting"
        BY <4>1 DEF Writes
      <4>3. DeletedByNow(w)
        BY <3>1, <3>4, <4>2 DEF DeletesTell, Returned
      <4>4. ~Announced(s, w)
        BY <4>3 DEF Announced, Announces, AnnouncedDeleted
      <4>5. ~Fresh(s)
        BY <3>2, NotFresh
      <4>6. wf[w].series = s
        BY <4>1, <4>5 DEF Writes
      <4>7. d < n
        BY <3>1, <3>2, <3>4, <4>2, <4>4, <4>6, IdAssumption DEF DeletesTell, PointerBehind
      <4> QED BY <1>1, <3>1, <3>2, <3>4, <4>7
    <3> QED BY <1>1, <3>3, <3>4
  <2>4. Addressed'
    <3>1. Minted' = Minted /\ w \in Roots \cup Minted
      BY <1>1 DEF Minted, Received, Writes
    <3> QED BY <1>1, <3>1 DEF DeletesTell, Addressed
  <2>5. Lost'
    BY <1>1, <1>2 DEF DeletesTell, Lost
  <2> QED BY <2>1, <2>2, <2>3, <2>4, <2>5 DEF DeletesTell
<1>13. HubTells'
  <2>1. Begun'
    <3> SUFFICES ASSUME NEW s \in Series, hub[s].state # "none"
                 PROVE  \E v \in Workflows : \E n \in DOMAIN log'[v] :
                          n <= applied[v] /\ Command(v, n, "set", s)' /\ \A d \in Deletes(v)' : n < d
      BY <1>1 DEF Begun
    <3>1. PICK v \in Workflows : \E n \in DOMAIN log[v] :
            n <= applied[v] /\ Command(v, n, "set", s) /\ \A d \in Deletes(v) : n < d
      BY DEF HubTells, Begun
    <3>2. PICK n \in DOMAIN log[v] :
            n <= applied[v] /\ Command(v, n, "set", s) /\ \A d \in Deletes(v) : n < d
      BY <3>1
    <3>3. \A d \in Deletes(v)' : n < d
      BY <1>1, <1>6, <3>2
    <3> QED BY <1>1, <1>5, <3>2, <3>3
  <2>2. LiveOurs'
    <3> SUFFICES ASSUME NEW s \in Series, hub[s].state # "none"
                 PROVE  hub[s].live \in Doors(s)' \/ Announced(s, hub[s].live)'
      BY <1>1 DEF LiveOurs
    <3>1. PICK x : x = hub[s].live
      OBVIOUS
    <3>2. x \in Doors(s)' \/ Announced(s, x)
      BY <1>7, <3>1 DEF HubTells, LiveOurs
    <3>3. Announced(s, x) => Announced(s, hub[s].live)'
      BY <1>1, <3>1 DEF Announced, Announces
    <3> QED BY <3>1, <3>2, <3>3
  <2>3. CancelApplied'
    BY <1>1, <1>5 DEF HubTells, CancelApplied
  <2>4. CancelDone'
    <3> SUFFICES ASSUME NEW s \in Series, OneDoor(s)', NEW v \in Workflows, NEW n \in DOMAIN log'[v],
                        n <= applied[v], Command(v, n, "cancel", s)'
                 PROVE  hub[s].state \in {"none", "cancelled"}
      BY <1>1 DEF CancelDone
    <3>1. n \in DOMAIN log[v]
      BY <1>1
    <3>2. Command(v, n, "cancel", s)
      BY <1>1, <1>5, <3>1
    <3> QED BY <1>8, <3>1, <3>2 DEF HubTells, CancelDone
  <2> QED BY <2>1, <2>2, <2>3, <2>4 DEF HubTells
<1>14. EventsTell'
  BY <1>1 DEF EventsTell, LastWord, CancelSaid, MissedOurs, ArchivedOurs, StoredInTurn, Says, Means
<1>15. ASSUME NEW s \in Series, Plain(s)' PROVE Plain(s) /\ series'[s] = series[s]
  <2>1. c.series # s
    BY <1>1, <1>15 DEF Plain, Settled
  <2>2. Settled(s)
    BY <1>1, <1>15 DEF Plain, Settled
  <2> QED BY <1>1, <1>3, <1>8, <1>15, <2>1, <2>2 DEF Plain, Writes
<1>16. StateAgrees' /\ SpecAgrees'
  <2>1. \A s \in Series : Heard(s)' => Heard(s)
    BY <1>1 DEF Heard, Says
  <2> QED BY <1>1, <1>15, <2>1 DEF Agreed, StateAgrees, SpecAgrees, StateOf
<1>17. ArchiveKept'
  <2>1. \A v : HeardOf(v)' = HeardOf(v)
    BY <1>1 DEF HeardOf
  <2>2. \A v : CameBack(v) => CameBack(v)'
    BY <1>1, <1>3 DEF CameBack, EventsOn, HubKnows
  <2> QED BY <1>1, <2>1, <2>2 DEF Agreed, ArchiveKept, Writes
<1>18. Noticed'
  BY <1>1 DEF Agreed, Noticed
<1> QED BY <1>11, <1>12, <1>13, <1>14, <1>16, <1>17, <1>18 DEF Agreed

-----------------------------------------------------------------------------
(* What the server writes when it gets event i.                            *)

Keeps(v) ==
  Exists(v)' /\ wf'[v].series = wf[v].series /\ (wf[v].status = "deleting" => wf'[v].status = "deleting")

FirstHeard(i, kind) == i \notin stored /\ outbox[i].kind = kind

WritesRows(i) ==
  /\ \A v \in Workflows : Exists(v) =>
       /\ Keeps(v)
       /\ wf'[v].archived = IF FirstHeard(i, "archived") /\ outbox[i].w = v
                            THEN outbox[i].to = "archived" ELSE wf[v].archived
  /\ \A v \in Workflows : Exists(v)' /\ ~Exists(v) =>
       Announces(i, wf'[v].series, v) /\ Accepts(outbox[i])

WritesSeries(i) ==
  /\ \A s \in Series :
       /\ series'[s].spec = series[s].spec
       /\ \/ series'[s].state = series[s].state /\ (FirstHeard(i, "changed") /\ outbox[i].series = s => ~Known(s))
          \/ /\ FirstHeard(i, "changed") /\ outbox[i].series = s
             /\ series'[s].state = NextState(series[s].state, outbox[i].to)
  /\ notices' = IF FirstHeard(i, "missed") /\ Known(outbox[i].series) THEN notices \cup {i} ELSE notices

LEMMA FiredKeeps ==
  ASSUME NEW row \in Row
  PROVE  Fired(row).archived = row.archived /\ Fired(row).status = row.status
<1>1. "fired" \in ScheduleStates
  BY DEF ScheduleStates
<1>2. CASE row.sched \in {"armed", "none"}
  <2>1. Fired(row) = [row EXCEPT !.sched = "fired"]
    BY <1>1, <1>2, SchedSet DEF Fired
  <2> QED BY <2>1 DEF Row
<1>3. CASE row.sched \notin {"armed", "none"}
  BY <1>3 DEF Fired
<1> QED BY <1>2, <1>3

LEMMA HandleWritesRows ==
  ASSUME Typed, Rows, MintedOnce, HubKnows, KnownStays, NEW i \in DOMAIN outbox, HandleEvent(i)
  PROVE  WritesRows(i)
<1> PICK e : e = outbox[i]
  OBVIOUS
<1>1. e \in Emitted
  BY ElementOfSeq, LenProperties DEF Typed, HubTyped
<1>2. ASSUME UNCHANGED wf, FirstHeard(i, "archived") => e.w \notin Workflows \/ ~Exists(e.w)
      PROVE  WritesRows(i)
  BY <1>2 DEF WritesRows, Keeps, Exists
<1>3. ASSUME NEW w \in Workflows, NEW r \in Row, Exists(w), wf' = [wf EXCEPT ![w] = r],
             r.series = wf[w].series, wf[w].status = "deleting" => r.status = "deleting",
             r.archived = IF FirstHeard(i, "archived") THEN e.to = "archived" ELSE wf[w].archived,
             FirstHeard(i, "archived") => e.w = w
      PROVE  WritesRows(i)
  <2>1. wf'[w] = r /\ \A v \in Workflows : v # w => wf'[v] = wf[v]
    BY <1>3 DEF Rows
  <2>2. Exists(w)'
    BY <2>1, RowExists DEF Exists
  <2>3. ASSUME NEW v \in Workflows, Exists(v)
        PROVE  /\ Keeps(v)
               /\ wf'[v].archived = IF FirstHeard(i, "archived") /\ e.w = v
                                    THEN e.to = "archived" ELSE wf[v].archived
    <3>1. CASE v = w
      BY <1>3, <2>1, <2>2, <3>1 DEF Keeps
    <3>2. CASE v # w
      BY <1>3, <2>1, <2>3, <3>2 DEF Keeps, Exists
    <3> QED BY <3>1, <3>2
  <2>4. ASSUME NEW v \in Workflows, Exists(v)', ~Exists(v) PROVE FALSE
    BY <1>3, <2>1, <2>4 DEF Exists
  <2> QED BY <2>3, <2>4 DEF WritesRows
<1>4. CASE e.kind = "created"
  <2>1. Accepts(e) /\ wf' = InsertInstance(e)
    BY <1>4 DEF HandleEvent
  <2>2. ~FirstHeard(i, "archived")
    BY <1>4 DEF FirstHeard
  <2>3. CASE Exists(e.w)
    BY <1>2, <2>1, <2>2, <2>3 DEF InsertInstance
  <2>4. CASE ~Exists(e.w)
    <3>1. e.series \in Series
      BY <1>4 DEF HubKnows
    <3>2. PICK x, p, s : x = e.w /\ p = e.prev /\ s = e.series
      OBVIOUS
    <3>3. /\ p \in Instances(s) /\ p # x
          /\ wf'[x] = Armed(s) /\ wf'[p] = Fired(wf[p])
          /\ \A v \in Workflows : v \notin {x, p} => wf'[v] = wf[v]
      BY <1>4, <2>1, <2>4, <3>1, <3>2, RowsInserted
    <3>4. wf[p] \in Row
      BY <3>3 DEF Rows, Instances, Exists
    <3>5. /\ wf'[p] \in Row /\ wf'[p].series = wf[p].series
          /\ wf'[p].archived = wf[p].archived /\ wf'[p].status = wf[p].status
      BY <3>3, <3>4, FiredRow, FiredKeeps
    <3>6. Exists(p)'
      BY <3>5, RowExists DEF Exists
    <3>7. wf'[x].series = s
      BY <3>1, <3>2, <3>3, ArmedRow
    <3>8. ASSUME NEW v \in Workflows, Exists(v)
          PROVE  Keeps(v) /\ wf'[v].archived = wf[v].archived
      <4>1. CASE v = p
        BY <3>5, <3>6, <4>1 DEF Keeps
      <4>2. CASE v # p
        BY <2>4, <3>2, <3>3, <3>8, <4>2 DEF Keeps, Exists
      <4> QED BY <4>1, <4>2
    <3>9. ASSUME NEW v \in Workflows, Exists(v)', ~Exists(v)
          PROVE  Announces(i, wf'[v].series, v)
      <4>1. v = x
        BY <3>3, <3>9 DEF Exists, Instances
      <4> QED BY <1>4, <3>2, <3>7, <4>1 DEF Announces
    <3> QED BY <2>1, <2>2, <3>8, <3>9 DEF WritesRows
  <2> QED BY <2>3, <2>4
<1>5. CASE e.kind # "created" /\ i \in stored
  BY <1>2, <1>5 DEF HandleEvent, FirstHeard
<1>6. CASE e.kind # "created" /\ i \notin stored
  <2>1. Mirror(i)
    BY <1>6 DEF HandleEvent
  <2>2. CASE e.kind = "archived" /\ MirrorArchived(e)
    <3>1. FirstHeard(i, "archived")
      BY <1>6, <2>2 DEF FirstHeard
    <3>2. CASE e.w \in Workflows /\ Exists(e.w)
      <4>1. wf[e.w] \in Row
        BY <3>2 DEF Rows, Exists
      <4>2. PICK r : r = [wf[e.w] EXCEPT !.archived = (e.to = "archived")]
        OBVIOUS
      <4>3. ScheduleFields(wf[e.w], [archived |-> e.to = "archived"]) = r
        BY <4>1, <4>2, ArchivedSet
      <4>4. /\ r \in Row /\ r.series = wf[e.w].series /\ r.status = wf[e.w].status
            /\ r.archived = (e.to = "archived")
        BY <4>1, <4>2 DEF Row
      <4>5. wf' = [wf EXCEPT ![e.w] = r]
        BY <2>2, <3>2, <4>3 DEF MirrorArchived
      <4> QED BY <1>3, <3>1, <3>2, <4>4, <4>5
    <3>3. CASE ~(e.w \in Workflows /\ Exists(e.w))
      <4>1. UNCHANGED wf
        BY <2>2, <3>3 DEF MirrorArchived, Rows
      <4> QED BY <1>2, <3>3, <4>1
    <3> QED BY <3>2, <3>3
  <2>3. CASE e.kind = "status" /\ MirrorStatus(e)
    <3>1. ~FirstHeard(i, "archived")
      BY <2>3 DEF FirstHeard
    <3>2. CASE e.w \in Workflows /\ Exists(e.w) /\ wf[e.w].status # "deleting"
      <4>1. wf[e.w] \in Row /\ e.to \in {"idle", "busy"}
        BY <1>1, <2>3, <3>2 DEF Rows, Exists, Emitted
      <4>2. PICK r : r = [wf[e.w] EXCEPT !.status = e.to]
        OBVIOUS
      <4>3. r \in Row /\ r.series = wf[e.w].series /\ r.archived = wf[e.w].archived
        BY <4>1, <4>2 DEF Row
      <4>4. wf' = [wf EXCEPT ![e.w] = r]
        BY <2>3, <3>2, <4>2 DEF MirrorStatus
      <4> QED BY <1>3, <3>1, <3>2, <4>3, <4>4
    <3>3. CASE ~(e.w \in Workflows /\ Exists(e.w) /\ wf[e.w].status # "deleting")
      <4>1. UNCHANGED wf
        BY <2>3, <3>3 DEF MirrorStatus, Rows
      <4> QED BY <1>2, <3>1, <4>1
    <3> QED BY <3>2, <3>3
  <2>4. CASE e.kind = "missed" /\ MirrorMissed(i)
    BY <1>2, <2>4 DEF MirrorMissed, FirstHeard
  <2>5. CASE e.kind = "changed" /\ MirrorChanged(e)
    <3>1. ~FirstHeard(i, "archived")
      BY <2>5 DEF FirstHeard
    <3>2. CASE UNCHANGED wf
      BY <1>2, <3>1, <3>2
    <3>3. CASE e.w \in Instances(e.series) /\ wf' = [wf EXCEPT ![e.w] = ScheduleFields(@, [sched |-> e.to])]
      <4>1. /\ e.w \in Workflows /\ Exists(e.w) /\ wf[e.w] \in Row
            /\ e.to \in ScheduleStates
        BY <1>1, <2>5, <3>3 DEF Instances, Rows, Exists, Emitted
      <4>2. PICK r : r = [wf[e.w] EXCEPT !.sched = e.to]
        OBVIOUS
      <4>3. ScheduleFields(wf[e.w], [sched |-> e.to]) = r
        BY <4>1, <4>2, SchedSet
      <4>4. /\ r \in Row /\ r.series = wf[e.w].series
            /\ r.status = wf[e.w].status /\ r.archived = wf[e.w].archived
        BY <4>1, <4>2 DEF Row
      <4>5. wf' = [wf EXCEPT ![e.w] = r]
        BY <3>3, <4>3
      <4> QED BY <1>3, <3>1, <4>1, <4>4, <4>5
    <3> QED BY <2>5, <3>2, <3>3 DEF MirrorChanged
  <2> QED BY <2>1, <2>2, <2>3, <2>4, <2>5 DEF Mirror
<1> QED BY <1>4, <1>5, <1>6

LEMMA HandleWritesSeries ==
  ASSUME Typed, HubKnows, NEW i \in DOMAIN outbox, HandleEvent(i)
  PROVE  WritesSeries(i)
<1> PICK e : e = outbox[i]
  OBVIOUS
<1>1. ASSUME UNCHANGED series, notices' = notices,
             ~FirstHeard(i, "changed"), ~FirstHeard(i, "missed")
      PROVE  WritesSeries(i)
  BY <1>1 DEF WritesSeries
<1>2. CASE e.kind = "created"
  BY <1>1, <1>2 DEF HandleEvent, FirstHeard
<1>3. CASE e.kind # "created" /\ i \in stored
  BY <1>1, <1>3 DEF HandleEvent, FirstHeard
<1>4. CASE e.kind # "created" /\ i \notin stored
  <2>1. Mirror(i)
    BY <1>4 DEF HandleEvent
  <2>2. CASE e.kind = "archived" /\ MirrorArchived(e)
    BY <1>1, <2>2 DEF MirrorArchived, FirstHeard
  <2>3. CASE e.kind = "status" /\ MirrorStatus(e)
    BY <1>1, <2>3 DEF MirrorStatus, FirstHeard
  <2>4. CASE e.kind = "missed" /\ MirrorMissed(i)
    <3>1. FirstHeard(i, "missed") /\ ~FirstHeard(i, "changed")
      BY <1>4, <2>4 DEF FirstHeard
    <3> QED BY <2>4, <3>1 DEF MirrorMissed, WritesSeries
  <2>5. CASE e.kind = "changed" /\ MirrorChanged(e)
    <3>1. FirstHeard(i, "changed") /\ ~FirstHeard(i, "missed") /\ UNCHANGED notices
      BY <1>4, <2>5 DEF FirstHeard, MirrorChanged
    <3>2. e.series \in Series
      BY <2>5 DEF HubKnows
    <3>3. CASE Known(e.series)
      <4>1. PICK x : x = NextState(series[e.series].state, e.to)
        OBVIOUS
      <4>2. series' = [series EXCEPT ![e.series].state = x]
        BY <2>5, <3>3, <4>1 DEF MirrorChanged, SeriesMoved
      <4>3. /\ series'[e.series].state = x /\ series'[e.series].spec = series[e.series].spec
            /\ \A s \in Series : s # e.series => series'[s] = series[s]
        BY <3>2, <4>2 DEF Typed, SeriesTyped
      <4> QED BY <3>1, <4>1, <4>3 DEF WritesSeries
    <3>4. CASE ~Known(e.series)
      <4>1. UNCHANGED series
        BY <2>5, <3>4 DEF MirrorChanged
      <4> QED BY <3>1, <3>4, <4>1 DEF WritesSeries
    <3> QED BY <3>3, <3>4
  <2> QED BY <2>1, <2>2, <2>3, <2>4, <2>5 DEF Mirror
<1> QED BY <1>2, <1>3, <1>4

(* The server handles an event: a repeated one, the first of its series    *)
(* that is unheard, or an announcement it had refused.                     *)
LEMMA HandledTidy ==
  ASSUME IInv, Tidy, KnownStays, CancelStays, NEW i \in DOMAIN outbox, HandleEvent(i)
  PROVE  Tidy'
<1> USE DEF Tidy
<1>1. /\ Typed /\ Rows /\ MintedOnce /\ HubKnows /\ Received /\ InOrder
      /\ answered \in Nat /\ i \in Nat
  <2>1. \A j \in DOMAIN outbox : j \in Nat
    BY LenProperties DEF IInv, Typed, HubTyped
  <2> QED BY <2>1 DEF IInv, Typed
<1>2. /\ i <= answered + 1 /\ stored' = stored \cup {i}
      /\ UNCHANGED <<log, applied, hub, mine, outbox>>
      /\ answered' \in Nat /\ answered <= answered'
  BY <1>1 DEF HandleEvent, Arrives, Answered
<1>3. WritesRows(i) /\ WritesSeries(i)
  BY <1>1, HandleWritesRows, HandleWritesSeries
<1>4. i \notin stored /\ outbox[i].kind # "created" => i = answered + 1
  BY <1>1, <1>2 DEF Received
<1>5. \A j \in stored : j \in DOMAIN outbox /\ j \in Nat /\ j <= answered + 1
  BY LenProperties, <1>1 DEF EventsTell, StoredInTurn, Typed, HubTyped
<1>6. /\ \A w : DeletedByNow(w)' <=> DeletedByNow(w)
      /\ \A s : AnnouncedDeleted(s)' <=> AnnouncedDeleted(s)
      /\ \A s, w : Announced(s, w)' <=> Announced(s, w)
      /\ \A w : CameBack(w)' <=> CameBack(w)
  BY <1>2 DEF DeletedByNow, AnnouncedDeleted, Announced, Announces, CameBack, EventsOn
<1>7. /\ \A w, n, type, s : Command(w, n, type, s)' <=> Command(w, n, type, s)
      /\ \A w : Deletes(w)' = Deletes(w)
      /\ \A s : Doors(s)' = Doors(s) /\ (OneDoor(s)' <=> OneDoor(s)) /\ (Asked(s)' <=> Asked(s))
      /\ Minted' = Minted
  BY <1>2 DEF Command, Deletes, Doors, OneDoor, Asked, Minted
<1>8. \A s \in Series : hub[s].state # "none" => Known(s)
  BY <1>1 DEF HubKnows, CommandsTell, AskedKnown
<1>9. CommandsTell'
  <2>1. AskedKnown'
    BY <1>7 DEF CommandsTell, AskedKnown, KnownStays
  <2>2. CancelSeen'
    <3>1. \A w \in Workflows : \A n \in DOMAIN log[w] :
            log[w][n].type # "delete" => log[w][n].series \in Series
      BY <1>1 DEF Typed, CommandsTyped
    <3> QED BY <1>2, <3>1 DEF CommandsTell, CancelSeen, CancelStays
  <2>3. CancelSent'
    <3> SUFFICES ASSUME NEW s \in Series, series'[s].state = "cancelled"
                 PROVE  \E w \in Workflows : \E n \in DOMAIN log[w] : Command(w, n, "cancel", s)
      BY <1>2, <1>7 DEF CancelSent
    <3>1. CASE series[s].state = "cancelled"
      BY <3>1 DEF CommandsTell, CancelSent
    <3>2. CASE series[s].state # "cancelled"
      <4>1. Says(i, s) /\ outbox[i].to = "cancelled"
        BY <1>3, <3>2 DEF WritesSeries, NextState, FirstHeard, Says
      <4>2. hub[s].state = "cancelled"
        BY <4>1 DEF EventsTell, CancelSaid
      <4> QED BY <4>2 DEF HubTells, CancelApplied
    <3> QED BY <3>1, <3>2
  <2>4. CancelLast' /\ FewDoors' /\ Unnamed'
    BY <1>2, <1>7 DEF CommandsTell, CancelLast, FewDoors, Unnamed
  <2>5. SpecLast'
    BY <1>2, <1>3, <1>7 DEF CommandsTell, SpecLast, WritesSeries
  <2> QED BY <2>1, <2>2, <2>3, <2>4, <2>5 DEF CommandsTell
<1>10. DeletesTell'
  <2>1. Returned'
    <3>1. \A w \in Workflows : ~Exists(w)' \/ wf'[w].status # "deleting"
                                => ~Exists(w) \/ wf[w].status # "deleting"
      BY <1>3 DEF WritesRows, Keeps
    <3> QED BY <1>6, <1>7, <3>1 DEF DeletesTell, Returned
  <2>2. PointerBehind'
    <3> SUFFICES ASSUME NEW w \in Workflows, Exists(w)', wf'[w].status # "deleting",
                        wf'[w].series # "none", ~Announced(wf[w].series, w)'
                 PROVE  \A n \in DOMAIN log[w], d \in Deletes(w) : log[w][n].series = wf'[w].series => d < n
      BY <1>2, <1>7 DEF PointerBehind
    <3>1. Exists(w)
      BY <1>2, <1>3 DEF WritesRows, Announced, Announces
    <3>2. wf'[w].series = wf[w].series /\ wf[w].status # "deleting"
      BY <1>3, <3>1 DEF WritesRows, Keeps
    <3>3. ~Announced(wf[w].series, w)
      BY <1>2, <3>2 DEF Announced, Announces
    <3> QED BY <3>1, <3>2, <3>3 DEF DeletesTell, PointerBehind
  <2>3. SetsBehind' /\ Addressed' /\ Lost'
    BY <1>2, <1>6, <1>7 DEF DeletesTell, SetsBehind, Addressed, Lost
  <2> QED BY <2>1, <2>2, <2>3 DEF DeletesTell
<1>11. HubTells'
  <2>1. LiveOurs'
    BY <1>2, <1>7 DEF HubTells, LiveOurs, Announced, Announces
  <2> QED BY <1>2, <1>7, <2>1 DEF HubTells, Begun, CancelApplied, CancelDone
<1>12. EventsTell'
  <2>1. LastWord' /\ CancelSaid' /\ MissedOurs' /\ ArchivedOurs'
    BY <1>2 DEF EventsTell, LastWord, CancelSaid, MissedOurs, ArchivedOurs, Says, Means
  <2>2. \A j \in stored' : j \in DOMAIN outbox /\ j <= answered' + 1
    BY <1>1, <1>2, <1>5
  <2> QED BY <1>2, <2>1, <2>2 DEF EventsTell, StoredInTurn
<1>13. \A s \in Series : Plain(s)' <=> Plain(s)
  BY <1>2, <1>6, <1>7 DEF Plain, Settled
<1>14. StateAgrees'
  <2> SUFFICES ASSUME NEW s \in Series, Plain(s), Heard(s)'
               PROVE  series'[s].state = StateOf(hub[s].state)
    BY <1>2, <1>13 DEF StateAgrees, StateOf
  <2>1. hub[s].state # "none" /\ Known(s)
    BY <1>8 DEF Plain
  <2>2. CASE Heard(s)
    <3>1. series[s].state = StateOf(hub[s].state)
      BY <2>2 DEF Agreed, StateAgrees
    <3>2. ~(FirstHeard(i, "changed") /\ outbox[i].series = s)
      BY <2>2 DEF Heard, Says, FirstHeard
    <3> QED BY <1>3, <3>1, <3>2 DEF WritesSeries
  <2>3. CASE ~Heard(s)
    <3>1. \A j : Says(j, s) => j \in stored \/ j = i
      BY <1>2 DEF Heard, Says
    <3>2. Says(i, s) /\ i \notin stored
      BY <2>3, <3>1 DEF Heard
    <3>3. i = answered + 1
      BY <1>4, <3>2 DEF Says
    <3>4. PICK k : Says(k, s) /\ Means(outbox[k].to) = hub[s].state /\ \A j : Says(j, s) => j <= k
      BY <2>1 DEF EventsTell, LastWord
    <3>5. k = i
      <4>1. k \in stored => k \in Nat /\ k <= i
        BY <1>5, <3>3
      <4>2. i <= k
        BY <3>2, <3>4
      <4> QED BY <1>1, <3>1, <3>4, <4>1, <4>2
    <3>6. series'[s].state = NextState(series[s].state, outbox[i].to)
      BY <1>3, <2>1, <3>2 DEF WritesSeries, FirstHeard, Says
    <3>7. CASE series[s].state # "cancelled"
      <4>1. series'[s].state = IF outbox[i].to \in {"broken", "cancelled"} THEN outbox[i].to ELSE "active"
        BY <3>6, <3>7 DEF NextState
      <4> QED BY <3>4, <3>5, <4>1 DEF Means, StateOf
    <3>8. CASE series[s].state = "cancelled"
      <4>1. PICK w \in Workflows : \E n \in DOMAIN log[w] : Command(w, n, "cancel", s)
        BY <3>8 DEF CommandsTell, CancelSent
      <4>2. PICK n \in DOMAIN log[w] : Command(w, n, "cancel", s)
        BY <4>1
      <4>3. n <= applied[w] /\ OneDoor(s)
        BY <4>2 DEF Plain, Settled, Command
      <4>4. hub[s].state = "cancelled"
        BY <2>1, <4>2, <4>3 DEF HubTells, CancelDone
      <4>5. series'[s].state = "cancelled"
        BY <3>8 DEF CancelStays
      <4> QED BY <4>4, <4>5 DEF StateOf
    <3> QED BY <3>7, <3>8
  <2> QED BY <2>2, <2>3
<1>15. SpecAgrees'
  BY <1>2, <1>3, <1>13 DEF Agreed, SpecAgrees, WritesSeries
<1>16. ArchiveKept'
  <2> SUFFICES ASSUME NEW w \in Workflows, Exists(w)', ~CameBack(w), HeardOf(w)' # {}
               PROVE  \E k \in HeardOf(w)' : /\ \A j \in HeardOf(w)' : j <= k
                                             /\ wf'[w].archived = (outbox[k].to = "archived")
    BY <1>2, <1>6 DEF ArchiveKept
  <2>1. \A j : j \in HeardOf(w)' <=> j \in HeardOf(w) \/ (j = i /\ outbox[i].kind = "archived" /\ outbox[i].w = w)
    BY <1>2 DEF HeardOf
  <2>2. CASE FirstHeard(i, "archived") /\ outbox[i].w = w
    <3>1. Exists(w)
      BY <1>3, <2>2 DEF WritesRows, Announces, FirstHeard
    <3>2. wf'[w].archived = (outbox[i].to = "archived")
      BY <1>3, <2>2, <3>1 DEF WritesRows
    <3>3. \A j \in HeardOf(w) : j <= i
      BY <1>4, <1>5, <2>2 DEF HeardOf, FirstHeard
    <3> QED BY <1>1, <2>1, <2>2, <3>2, <3>3 DEF FirstHeard
  <2>3. CASE ~(FirstHeard(i, "archived") /\ outbox[i].w = w)
    <3>1. HeardOf(w)' = HeardOf(w)
      BY <2>1, <2>3 DEF HeardOf, FirstHeard
    <3>2. CASE Exists(w)
      <4>1. wf'[w].archived = wf[w].archived
        BY <1>3, <2>3, <3>2 DEF WritesRows
      <4> QED BY <3>1, <3>2, <4>1 DEF Agreed, ArchiveKept
    <3>3. CASE ~Exists(w)
      <4>1. outbox[i].kind = "created" /\ outbox[i].w = w /\ Accepts(outbox[i])
        BY <1>3, <3>3 DEF WritesRows, Announces
      <4>2. PICK s \in Series : s = outbox[i].series
        BY <1>1, <4>1 DEF HubKnows
      <4>3. RefusedForGood(s)
        BY <1>1, <4>1, <4>2 DEF InOrder, CameBack, EventsOn
      <4>4. PICK k \in HeardOf(w) : TRUE
        BY <3>1
      <4>5. k \in DOMAIN outbox /\ outbox[k].kind = "archived" /\ outbox[k].w = w
            /\ k \in Nat /\ k <= answered + 1
        BY <1>5, <4>4 DEF HeardOf
      <4>6. w \notin Roots
        BY <1>1, <4>1, IdAssumption DEF MintedOnce
      <4>7. PICK j \in DOMAIN outbox : j < k /\ outbox[j].kind = "created" /\ outbox[j].w = w
        BY <4>5, <4>6 DEF EventsTell, ArchivedOurs
      <4>8. j = i
        BY <1>1, <4>1, <4>7 DEF MintedOnce
      <4>9. i <= answered
        BY <1>1, <4>5, <4>7, <4>8
      <4> QED BY <3>3, <4>1, <4>2, <4>3, <4>9 DEF RefusedForGood, Accepts
    <3> QED BY <3>2, <3>3
  <2> QED BY <2>2, <2>3
<1>17. Noticed'
  <2>1. notices = {j \in stored : outbox[j].kind = "missed"}
    BY DEF Agreed, Noticed
  <2>2. outbox[i].kind = "missed" => Known(outbox[i].series)
    BY <1>8 DEF EventsTell, MissedOurs
  <2> QED BY <1>2, <1>3, <2>1, <2>2 DEF Noticed, WritesSeries, FirstHeard
<1> QED BY <1>9, <1>10, <1>11, <1>12, <1>14, <1>15, <1>16, <1>17 DEF Agreed

-----------------------------------------------------------------------------
(* Until the server first stops between two writes, every step keeps the   *)
(* agreement.                                                              *)

LEMMA StepTidy ==
  ASSUME IInv, IInv', Tidy, [Next]_vars, crashes' = crashes, crashes = 0
  PROVE  Tidy'
<1>1. /\ Typed /\ Rows /\ MintedOnce /\ HubKnows /\ Received /\ InOrder /\ CommandsTyped
      /\ answered \in Nat /\ answered' \in Nat
  BY DEF IInv, Typed
<1>2. HubMoves /\ LogGrows /\ CommandsTyped'
  BY <1>1, StepMoves
<1>3. KnownStays
  BY <1>1, StepKnows
<1>4. CancelStays
  BY <1>1, StepKeepsCancel DEF Typed
<1>5. ASSUME NEW w \in Workflows, NEW s \in Series, NEW spec \in Specs, Schedule(w, s, spec)
      PROVE  Tidy'
  BY <1>1, <1>3, <1>4, <1>5, ScheduleAsks, AsksTidy
<1>6. ASSUME NEW w \in Workflows, Cancel(w) PROVE Tidy'
  BY <1>1, <1>3, <1>4, <1>6, CancelAsks, AsksTidy
<1>7. ASSUME NEW w \in Workflows, Delete(w) PROVE Tidy'
  BY <1>1, <1>3, <1>4, <1>7, DeleteAsks, AsksTidy
<1>8. ASSUME NEW w \in Workflows, HubApply(w) PROVE Tidy'
  <2>1. PICK p : p = applied[w] + 1
    OBVIOUS
  <2>2. Took(w, p)
    BY <1>1, <1>8, <2>1, ApplyTook
  <2>3. HubSaid /\ HubTook(w, log[w][p])
    BY <1>1, <1>8, <2>1, ApplySays
  <2> QED BY <1>1, <1>2, <2>2, <2>3, TookTidy
<1>9. ASSUME HubSaid, HubSteady, answered <= answered',
             UNCHANGED <<series, wf, log, applied, stored, notices>>
      PROVE  Tidy'
  BY <1>1, <1>2, <1>9, HubActsTidy
<1>10. ASSUME NEW s \in Series, NEW w \in Clones, HubFires(s, w) PROVE Tidy'
  <2>1. HubSaid /\ HubSteady
    BY <1>1, <1>10, FiresSays
  <2> QED BY <1>1, <1>9, <1>10, <2>1 DEF HubFires
<1>11. ASSUME NEW s \in Series, HubBreaks(s) PROVE Tidy'
  <2>1. HubSaid /\ HubSteady
    BY <1>1, <1>11, SaysBroken DEF HubBreaks
  <2> QED BY <1>1, <1>9, <1>11, <2>1 DEF HubBreaks
<1>12. ASSUME NEW w \in Workflows, HubArchives(w) \/ \E to \in {"idle", "busy"} : HubRuns(w, to)
       PROVE  Tidy'
  <2>1. HubSaid /\ HubSteady
    BY <1>1, <1>12, ReportSays
  <2> QED BY <1>1, <1>9, <1>12, <2>1 DEF HubArchives, HubRuns
<1>13. ASSUME NEW i \in DOMAIN outbox, RefuseEvent(i) PROVE Tidy'
  <2>1. /\ UNCHANGED <<series, wf, log, applied, mine, stored, notices>>
        /\ outbox[i].kind = "created"
        /\ answered' = answered \/ (i = answered + 1 /\ answered' = i)
    BY <1>13 DEF RefuseEvent, Answered
  <2>2. answered <= answered'
    BY <1>1, <2>1
  <2>3. HubSaid /\ HubSteady
    <3>1. PICK s \in Series : s = outbox[i].series
      BY <1>1, <2>1 DEF HubKnows
    <3>2. CASE UNCHANGED <<hub, outbox>>
      BY <3>2, SaysNothing
    <3>3. CASE /\ hub[s].state = "armed"
               /\ hub' = [hub EXCEPT ![s].state = "broken"]
               /\ outbox' = Append(outbox, Changed(s, hub[s].live, "broken"))
      BY <1>1, <3>3, SaysBroken
    <3> QED BY <1>13, <3>1, <3>2, <3>3 DEF RefuseEvent
  <2> QED BY <1>9, <2>1, <2>2, <2>3
<1>14. ASSUME NEW i \in DOMAIN outbox, HandleEvent(i) PROVE Tidy'
  BY <1>3, <1>4, <1>14, HandledTidy
<1>15. ASSUME Crash PROVE FALSE
  BY <1>15 DEF Crash
<1>16. CASE UNCHANGED vars
  <2>1. HubSaid /\ HubSteady
    BY <1>16, SaysNothing DEF vars
  <2> QED BY <1>1, <1>9, <1>16, <2>1 DEF vars
<1> QED
  BY <1>5, <1>6, <1>7, <1>8, <1>10, <1>11, <1>12, <1>13, <1>14, <1>15, <1>16
     DEF Next, Operator, Hub, Events, ScheduleThenCrash, CancelThenCrash, HandleEventThenCrash

(* How often the server stopped only counts up.                            *)
LEMMA CrashesCount ==
  ASSUME crashes \in Nat, [Next]_vars
  PROVE  crashes' = crashes \/ (crashes' \in Nat /\ crashes' = crashes + 1)
<1>1. Operator => crashes' = crashes \/ crashes' = crashes + 1
  BY DEF Operator, Schedule, ScheduleThenCrash, Cancel, CancelThenCrash, Delete, Crash
<1>2. Hub => crashes' = crashes
  BY DEF Hub, HubApply, HubFires, HubBreaks, HubRuns, HubArchives
<1>3. Events => crashes' = crashes \/ crashes' = crashes + 1
  BY DEF Events, HandleEvent, RefuseEvent, HandleEventThenCrash, Crash
<1> QED BY <1>1, <1>2, <1>3 DEF Next, vars

(* The invariant of the agreement, on top of IInv.                         *)
TidyUntilCrash == crashes \in Nat /\ (crashes = 0 => Tidy)

(* The two sides stay in step, whatever arrives late, twice or not at all. *)
THEOREM TidyHolds == Spec => []TidyUntilCrash
<1>1. Init => TidyUntilCrash
  <2> SUFFICES ASSUME Init PROVE Tidy
    BY DEF Init, TidyUntilCrash
  <2>1. /\ \A w \in Workflows : log[w] = << >> /\ DOMAIN log[w] = {} /\ applied[w] = 0
        /\ outbox = << >> /\ DOMAIN outbox = {} /\ stored = {} /\ notices = {}
        /\ \A s \in Series : hub[s].state = "none" /\ series[s].state = "none"
    BY DEF Init, NoSeries
  <2>2. /\ \A w \in Workflows : ~DeletedByNow(w)
        /\ \A w \in Workflows : Deletes(w) = {}
        /\ \A s : Doors(s) = {}
    BY <2>1 DEF DeletedByNow, Deletes, Doors
  <2>3. CommandsTell
    BY <2>1, <2>2, FS_EmptySet
       DEF CommandsTell, AskedKnown, Asked, CancelSeen, CancelSent, CancelLast, SpecLast, FewDoors,
           Unnamed
  <2>4. DeletesTell
    BY <2>1, <2>2 DEF DeletesTell, Returned, PointerBehind, SetsBehind, Addressed, Lost
  <2>5. HubTells
    BY <2>1 DEF HubTells, Begun, LiveOurs, CancelApplied, CancelDone
  <2>6. EventsTell
    BY <2>1 DEF EventsTell, LastWord, CancelSaid, MissedOurs, ArchivedOurs, StoredInTurn, Says
  <2>7. Agreed
    BY <2>1 DEF Agreed, StateAgrees, SpecAgrees, Plain, ArchiveKept, HeardOf, Noticed
  <2> QED BY <2>3, <2>4, <2>5, <2>6, <2>7 DEF Tidy
<1>2. TidyUntilCrash /\ IInv /\ IInv' /\ [Next]_vars => TidyUntilCrash'
  <2> SUFFICES ASSUME TidyUntilCrash, IInv, IInv', [Next]_vars PROVE TidyUntilCrash'
    OBVIOUS
  <2>1. crashes' = crashes \/ (crashes' \in Nat /\ crashes' = crashes + 1)
    BY CrashesCount DEF TidyUntilCrash
  <2>2. ASSUME crashes' = 0 PROVE Tidy'
    <3>1. crashes' = crashes /\ crashes = 0
      BY <2>1, <2>2 DEF TidyUntilCrash
    <3> QED BY <3>1, StepTidy DEF TidyUntilCrash
  <2> QED BY <2>1, <2>2 DEF TidyUntilCrash
<1> QED BY <1>1, <1>2, Invariance, PTL DEF Spec

(* Once every command and every event is through, server and hub agree on  *)
(* the state and the spec of each series whose commands took one channel   *)
(* and no announced instance of which was deleted, every row shows what    *)
(* its last archive event says, and every missed run has its notice,       *)
(* however late, lost, repeated or refused the events came.                *)
THEOREM AgreesHolds == Spec => []AgreesWhenQuiet
<1>1. IInv /\ TidyUntilCrash => AgreesWhenQuiet
  <2> SUFFICES ASSUME IInv, Tidy, Quiet
               PROVE  /\ \A s \in Series :
                           Cardinality(Doors(s)) <= 1 /\ ~AnnouncedDeleted(s) => Agrees(s)
                      /\ \A w \in Workflows : ArchiveAgrees(w)
                      /\ notices = {i \in DOMAIN outbox : outbox[i].kind = "missed"}
    BY DEF AgreesWhenQuiet, TidyUntilCrash
  <2> USE DEF Tidy
  <2>1. \A i \in DOMAIN outbox : outbox[i].kind # "created" => i \in stored
    <3>1. DOMAIN outbox = 1 .. Len(outbox) /\ Len(outbox) \in Nat
      BY LenProperties DEF IInv, Typed, HubTyped
    <3>2. \A i \in DOMAIN outbox : i <= answered
      BY <3>1 DEF Quiet
    <3> QED BY <3>2 DEF IInv, Received
  <2>2. ASSUME NEW s \in Series, Cardinality(Doors(s)) <= 1, ~AnnouncedDeleted(s) PROVE Agrees(s)
    <3>1. OneDoor(s)
      <4>1. IsFiniteSet(Doors(s))
        BY DEF CommandsTell, FewDoors
      <4>2. ASSUME NEW v \in Doors(s), NEW w \in Doors(s), v # w PROVE FALSE
        <5>1. IsFiniteSet(Doors(s) \ {v}) /\ Cardinality(Doors(s) \ {v}) = Cardinality(Doors(s)) - 1
          BY <4>1, <4>2, FS_RemoveElement
        <5>2. IsFiniteSet((Doors(s) \ {v}) \ {w})
              /\ Cardinality((Doors(s) \ {v}) \ {w}) = Cardinality(Doors(s) \ {v}) - 1
          BY <4>2, <5>1, FS_RemoveElement
        <5>3. Cardinality(Doors(s)) \in Nat /\ Cardinality((Doors(s) \ {v}) \ {w}) \in Nat
          BY <4>1, <5>2, FS_CardinalityType
        <5> QED BY <2>2, <5>1, <5>2, <5>3
      <4> QED BY <4>2 DEF OneDoor
    <3>2. Settled(s)
      <4>1. ASSUME NEW w \in Workflows, NEW n \in DOMAIN log[w] PROVE n <= applied[w]
        <5>1. log[w] \in Seq(Commanding)
          BY DEF IInv, Typed, CommandsTyped
        <5>2. n \in 1 .. Len(log[w]) /\ Len(log[w]) \in Nat
          BY <5>1, LenProperties
        <5> QED BY <5>2 DEF Quiet
      <4> QED BY <4>1 DEF Settled
    <3>3. Heard(s)
      BY <2>1 DEF Heard, Says
    <3> QED BY <2>2, <3>1, <3>2, <3>3 DEF Agrees, Agreed, StateAgrees, SpecAgrees, Plain
  <2>3. ASSUME NEW w \in Workflows PROVE ArchiveAgrees(w)
    <3>1. EventsOn(w, "archived") = HeardOf(w)
      BY <2>1 DEF EventsOn, HeardOf
    <3> QED BY <3>1 DEF ArchiveAgrees, Agreed, ArchiveKept
  <2>4. notices = {i \in DOMAIN outbox : outbox[i].kind = "missed"}
    <3>1. notices = {i \in stored : outbox[i].kind = "missed"}
      BY DEF Agreed, Noticed
    <3>2. \A i \in stored : i \in DOMAIN outbox
      BY DEF EventsTell, StoredInTurn
    <3> QED BY <2>1, <3>1, <3>2
  <2> QED BY <2>2, <2>3, <2>4
<1> QED BY <1>1, Invariance, TidyHolds, PTL

=============================================================================
