----------------------------- MODULE OtelExport -----------------------------
(***************************************************************************)
(* The OTLP exporter of one organization: the ingest hook that queues      *)
(* events, the worker that drains the outbox to the destination, and the   *)
(* operators who change the settings under it (otel-worker.mjs processOrg, *)
(* db.mjs 5539-5760, otel.mjs computeUsageDelta and mergeSeries).  Every   *)
(* await of the worker is a point where the others may act: the endpoint   *)
(* check, the traces request and the metrics request.  One session and one *)
(* series of each kind stand for all: they never meet.  Both signals are   *)
(* on; spans, prices and labels are left out.                              *)
(***************************************************************************)
EXTENDS Integers, Sequences, FiniteSets, FiniteSetsExt

CONSTANTS
  MaxEvents,      \* bound: events ever received
  MaxTotal,       \* bound: running total of the session
  BatchSize,      \* rows a claim takes (200)
  MaxBatches,     \* claims of one pass (5)
  Temporalities,  \* temporalities an operator may choose
  MaxFaults,      \* bound: failed or lost requests and crashes
  MaxChanges      \* bound: changes to saved settings, and passes that find
                  \* rows old enough to prune

ASSUME BoundAssumption == MaxEvents \in Nat /\ MaxTotal \in Nat /\ MaxFaults \in Nat
ASSUME BatchAssumption == BatchSize \in Nat \ {0} /\ MaxBatches \in Nat \ {0}
ASSUME TemporalityAssumption == Temporalities \subseteq {"delta", "cumulative"}
ASSUME ChangeAssumption == MaxChanges \in Nat

VARIABLES
  events,   \* events by order of receipt: a running total, or one to count
  outbox,   \* otel_outbox, by event: its status, and the failure it waits out
  config,   \* otel_exports: on or off, the events received before it went on
  state,    \* otel_export_state: the session's total exported so far
  series,   \* otel_metric_series: running totals of both series
  worker,   \* where the pass is, and what it read before its last await
  dest,     \* external: what the destination shows, and how often it was
            \* sent each event
  refused,  \* requests that failed without being accepted
  lost,     \* accepted requests whose answer or commit was lost
  changes   \* history: changes to saved settings and prunings so far

vars == <<events, outbox, config, state, series, worker, dest, refused, lost, changes>>

NoRow == [st |-> "none", wait |-> 0]
NoConfig == [saved |-> FALSE, on |-> FALSE, since |-> 0, temp |-> "delta"]
Zero == [tok |-> 0, cnt |-> 0]
Idle == [pc |-> "idle", cfg |-> NoConfig, claims |-> 0, ids |-> {}, tok |-> 0, cnt |-> {},
         states |-> {}, series |-> Zero]

Totals == [tok : Nat, cnt : Nat]

TypeOK ==
  /\ \A n \in DOMAIN events : events[n].total \in 0 .. MaxTotal
  /\ outbox \in [1 .. MaxEvents -> [st : {"none", "pending", "sent", "dead"}, wait : 0 .. MaxFaults]]
  /\ config.temp \in {"delta", "cumulative"} /\ config.since \in 0 .. Len(events)
  /\ state \in 0 .. MaxTotal
  /\ series \in Totals
  /\ worker.pc \in {"idle", "check", "claim", "traces", "metrics", "answer"}
  /\ worker.claims \in 0 .. MaxBatches
  /\ worker.ids \subseteq DOMAIN events /\ worker.tok \in Nat /\ worker.series \in Totals
  /\ dest.shown \in Totals /\ dest.times \in [1 .. MaxEvents -> Nat]
  /\ refused + lost <= MaxFaults
  /\ changes \in 0 .. MaxChanges

(* Counts the step when it is one that changes the settings or prunes.     *)
Counts(change) ==
  /\ changes' = IF change THEN changes + 1 ELSE changes
  /\ changes' <= MaxChanges

-----------------------------------------------------------------------------
(* Receiving events: POST /ingest.                                         *)

(* The worker claims without an await: nobody else acts in between.        *)
Free == worker.pc # "claim"

Last == IF \E n \in DOMAIN events : events[n].kind = "usage"
        THEN Max({events[n].total : n \in DOMAIN events}) ELSE 0

(* otelEnqueueGate: on, and received since it was switched on.             *)
Gate(n) == config.on /\ n > config.since

Ingest(kind, total) ==
  LET n == Len(events) + 1
  IN /\ Free
     /\ n <= MaxEvents
     /\ total >= Last
     /\ events' = Append(events, [kind |-> kind, total |-> total, on |-> config.on])
     /\ outbox' = [outbox EXCEPT ![n] = IF Gate(n) THEN [st |-> "pending", wait |-> 0] ELSE @]
     /\ UNCHANGED <<config, state, series, worker, dest, refused, lost, changes>>

-----------------------------------------------------------------------------
(* The settings: PUT and DELETE /api/settings/otel.                        *)

(* saveOtelConfig: going on stamps enabled_at.                             *)
Saved(on, temp) ==
  [saved |-> TRUE, on |-> on, temp |-> temp,
   since |-> IF on /\ ~config.on THEN Len(events) ELSE config.since]

(* The route checks key and endpoint first, then reads and writes the row  *)
(* in one step; another temporality drops the stored totals.               *)
Save(on, temp) ==
  /\ Free
  /\ Counts(config.saved)
  /\ config' = Saved(on, temp)
  /\ series' = IF config.saved /\ config.temp # temp THEN Zero ELSE series
  /\ UNCHANGED <<events, outbox, state, worker, dest, refused, lost>>

(* deleteOtelConfig: settings, outbox, state and totals in one transaction.*)
DeleteConfig ==
  /\ Free
  /\ Counts(TRUE)
  /\ config.saved
  /\ config' = NoConfig
  /\ outbox' = [n \in 1 .. MaxEvents |-> NoRow]
  /\ state' = 0
  /\ series' = Zero
  /\ UNCHANGED <<events, worker, dest, refused, lost>>

(* /api/settings/otel.  Its test sends a request of its own and writes     *)
(* nothing.                                                                *)
SettingsRoute ==
  \/ \E on \in BOOLEAN, temp \in Temporalities : Save(on, temp)
  \/ DeleteConfig

-----------------------------------------------------------------------------
(* The worker.  What it read stays in worker until its next claim.         *)

(* A pass reads the settings and prunes; then it awaits the endpoint check.*)
Start(cut) ==
  /\ worker.pc = "idle"
  /\ config.on
  /\ Counts(cut > 0)
  /\ outbox' = [n \in 1 .. MaxEvents |-> IF n <= cut THEN NoRow ELSE outbox[n]]
  /\ worker' = [Idle EXCEPT !.pc = "check", !.cfg = config]
  /\ UNCHANGED <<events, config, state, series, dest, refused, lost>>

(* The timer starts a pass unless one is running.                          *)
RunOnce == \E cut \in 0 .. Len(events) : Start(cut)

EndpointOk ==
  /\ worker.pc = "check"
  /\ worker' = [worker EXCEPT !.pc = "claim"]
  /\ UNCHANGED <<events, outbox, config, state, series, dest, refused, lost, changes>>

EndpointRefused ==
  /\ worker.pc = "check"
  /\ refused + lost < MaxFaults
  /\ worker' = Idle
  /\ refused' = refused + 1
  /\ UNCHANGED <<events, outbox, config, state, series, dest, lost, changes>>

Due == {n \in DOMAIN events : outbox[n] = [st |-> "pending", wait |-> 0]}
Batch == {n \in Due : Cardinality({m \in Due : m <= n}) <= BatchSize}

(* Only events received since the settings the pass read went on.          *)
Loaded(cfg) == {n \in Batch : n > cfg.since}
Usage(ns) == {n \in ns : events[n].kind = "usage"}
Counted(ns) == {n \in ns : events[n].kind = "count"}

Mark(ids, row) ==
  [n \in 1 .. MaxEvents |-> IF n \in ids /\ outbox[n] # NoRow THEN row ELSE outbox[n]]

(* computeUsageDelta: never negative.                                      *)
UsageDelta(total, exported) == IF total > exported THEN total - exported ELSE 0

(* Only cumulative totals are loaded (loadOtelMetricSeries).               *)
LoadedSeries(cfg) == IF cfg.temp = "cumulative" THEN series ELSE Zero

(* mergeSeries: what the batch adds to the running totals.                 *)
Merged(old, tok, cnt) == [tok |-> old.tok + tok, cnt |-> old.cnt + Cardinality(cnt)]

(* claimOtelOutboxBatch and buildMetrics: the last snapshot against the    *)
(* exported total, one more for each counted event.  Rows too old for the  *)
(* settings are done without a request.                                    *)
Claim ==
  /\ worker.pc = "claim"
  /\ worker.claims < MaxBatches
  /\ Batch # {}
  /\ LET loaded == Loaded(worker.cfg)
         snapshots == {events[n].total : n \in Usage(loaded)}
         tok == IF snapshots = {} THEN 0 ELSE UsageDelta(Max(snapshots), state)
         cnt == Counted(loaded)
     IN IF loaded = {}
        THEN /\ outbox' = Mark(Batch, [st |-> "sent", wait |-> 0])
             /\ worker' = [worker EXCEPT !.claims = @ + 1]
        ELSE /\ worker' = [worker EXCEPT !.pc = "traces", !.claims = @ + 1, !.ids = Batch,
                             !.tok = tok, !.cnt = cnt,
                             !.states = IF snapshots = {} THEN {} ELSE {Max(snapshots)},
                             !.series = Merged(LoadedSeries(worker.cfg), tok, cnt)]
             /\ UNCHANGED outbox
  /\ UNCHANGED <<events, config, state, series, dest, refused, lost, changes>>

(* Nothing due, or the limit of batches reached.                           *)
EndPass ==
  /\ worker.pc = "claim"
  /\ Batch = {} \/ worker.claims = MaxBatches
  /\ worker' = Idle
  /\ UNCHANGED <<events, outbox, config, state, series, dest, refused, lost, changes>>

Faults == refused + lost

NextState == IF worker.states = {} THEN state ELSE Max(worker.states)

(* Seeded fault: the totals advance although the request failed.           *)
FailAdvances ==
  /\ outbox' = Mark(worker.ids, [st |-> "pending", wait |-> Faults + 1])
  /\ state' = NextState
  /\ worker' = Idle
  /\ UNCHANGED <<events, config, series, dest>>

(* markOtelRetry: the batch waits; the pass ends.                          *)
Fail ==
  /\ outbox' = Mark(worker.ids, [st |-> "pending", wait |-> Faults + 1])
  /\ worker' = Idle
  /\ UNCHANGED <<events, config, state, series, dest>>

HasMetrics == worker.tok > 0 \/ worker.cnt # {}

(* One request fails without reaching the destination's data.              *)
Refused ==
  /\ worker.pc \in {"traces", "metrics"}
  /\ Faults < MaxFaults
  /\ Fail
  /\ refused' = refused + 1
  /\ UNCHANGED <<lost, changes>>

(* markOtelDead: the destination rejects the request for good.             *)
Rejected ==
  /\ worker.pc \in {"traces", "metrics"}
  /\ Faults < MaxFaults
  /\ outbox' = Mark(worker.ids, [st |-> "dead", wait |-> 0])
  /\ worker' = Idle
  /\ refused' = refused + 1
  /\ UNCHANGED <<events, config, state, series, dest, lost, changes>>

TracesSent ==
  /\ worker.pc = "traces"
  /\ HasMetrics
  /\ worker' = [worker EXCEPT !.pc = "metrics"]
  /\ UNCHANGED <<events, outbox, config, state, series, dest, refused, lost, changes>>

(* External: the destination adds deltas, and shows cumulative totals as   *)
(* they come; a series without a change is not in the request.             *)
Shown ==
  IF worker.cfg.temp = "delta"
  THEN [tok |-> dest.shown.tok + worker.tok, cnt |-> dest.shown.cnt + Cardinality(worker.cnt)]
  ELSE [tok |-> IF worker.tok > 0 THEN worker.series.tok ELSE dest.shown.tok,
        cnt |-> IF worker.cnt # {} THEN worker.series.cnt ELSE dest.shown.cnt]

MetricsAccepted ==
  /\ worker.pc = "metrics"
  /\ dest' = [shown |-> Shown,
              times |-> [n \in 1 .. MaxEvents |-> dest.times[n] + IF n \in worker.cnt THEN 1 ELSE 0]]
  /\ worker' = [worker EXCEPT !.pc = "answer"]
  /\ UNCHANGED <<events, outbox, config, state, series, refused, lost, changes>>

(* Seeded fault: the running totals are not written.                       *)
CommitWithoutSeries ==
  /\ outbox' = Mark(worker.ids, [st |-> "sent", wait |-> 0])
  /\ state' = NextState
  /\ UNCHANGED series

(* writeOtelMetricSeries: the totals of the series the batch touched.      *)
WrittenSeries ==
  IF worker.cfg.temp = "delta" THEN series
  ELSE [tok |-> IF worker.tok > 0 THEN worker.series.tok ELSE series.tok,
        cnt |-> IF worker.cnt # {} THEN worker.series.cnt ELSE series.cnt]

(* markOtelSent: rows, state and changed series in one transaction.        *)
Commit ==
  /\ outbox' = Mark(worker.ids, [st |-> "sent", wait |-> 0])
  /\ state' = NextState
  /\ series' = WrittenSeries

(* The last request of the batch is answered; the next claim follows.      *)
BatchSent ==
  /\ worker.pc = "answer" \/ (worker.pc = "traces" /\ ~HasMetrics)
  /\ Commit
  /\ worker' = [worker EXCEPT !.pc = "claim"]
  /\ UNCHANGED <<events, config, dest, refused, lost, changes>>

(* The answer of an accepted request times out, which counts as a failure. *)
AnswerLost ==
  /\ worker.pc = "answer"
  /\ Faults < MaxFaults
  /\ Fail
  /\ lost' = lost + 1
  /\ UNCHANGED <<refused, changes>>

(* The process stops: only what was committed is left.                     *)
Crash ==
  /\ worker.pc # "idle"
  /\ Faults < MaxFaults
  /\ worker' = Idle
  /\ lost' = lost + 1
  /\ UNCHANGED <<events, outbox, config, state, series, dest, refused, changes>>

(* Seeded fault: only the first wait ever ends.                            *)
ElapseFirstOnly(w) ==
  /\ w = 1
  /\ outbox' = [n \in 1 .. MaxEvents |->
                  IF outbox[n].wait = w THEN [outbox[n] EXCEPT !.wait = 0] ELSE outbox[n]]
  /\ UNCHANGED <<events, config, state, series, worker, dest, refused, lost, changes>>

(* The backoff of a failed batch is over: all its rows are due again.      *)
Elapse(w) ==
  /\ \E n \in DOMAIN events : outbox[n].wait = w
  /\ outbox' = [n \in 1 .. MaxEvents |->
                  IF outbox[n].wait = w THEN [outbox[n] EXCEPT !.wait = 0] ELSE outbox[n]]
  /\ UNCHANGED <<events, config, state, series, worker, dest, refused, lost, changes>>

-----------------------------------------------------------------------------
Init ==
  /\ events = << >>
  /\ outbox = [n \in 1 .. MaxEvents |-> NoRow]
  /\ config = NoConfig
  /\ state = 0
  /\ series = Zero
  /\ worker = Idle
  /\ dest = [shown |-> Zero, times |-> [n \in 1 .. MaxEvents |-> 0]]
  /\ refused = 0
  /\ lost = 0
  /\ changes = 0

Worker == EndpointOk \/ Claim \/ EndPass \/ TracesSent \/ MetricsAccepted \/ BatchSent

Next ==
  \/ \E total \in 1 .. MaxTotal : Ingest("usage", total)
  \/ Ingest("count", Last)
  \/ SettingsRoute
  \/ RunOnce
  \/ EndpointOk
  \/ EndpointRefused
  \/ Claim
  \/ EndPass
  \/ TracesSent
  \/ MetricsAccepted
  \/ BatchSent
  \/ Refused
  \/ Rejected
  \/ AnswerLost
  \/ Crash
  \/ \E w \in 1 .. MaxFaults : Elapse(w)

Spec == Init /\ [][Next]_vars

(* A timer starts passes, every await of a started pass ends, and time     *)
(* goes on.                                                                *)
Fairness ==
  /\ WF_vars(Start(0))
  /\ WF_vars(Worker)
  /\ \A w \in 1 .. MaxFaults : WF_vars(Elapse(w))

FairSpec == Spec /\ Fairness

-----------------------------------------------------------------------------
(* Properties.  Those about the destination are for settings that stay as  *)
(* they were first saved and rows that are not pruned.                     *)

Steady == changes = 0

Is(n, st) == outbox[n].st = st
Queued == {n \in DOMAIN events : outbox[n] # NoRow}

(* At least once, and not more often than answers were lost: a finished    *)
(* row was counted and shown, whatever failed, was lost or was sent in     *)
(* another order.  A failed request that was not accepted repeats nothing  *)
(* and does not advance the exported total, so the destination never shows *)
(* less usage than a finished snapshot told (markOtelRetry, markOtelSent). *)
(* And an operator's off is respected: what arrived while the exporter was *)
(* off or deleted is never counted, although passes work on with the       *)
(* settings they read and rows of earlier settings may be left.            *)
SentIsCounted ==
  /\ \A n \in DOMAIN events : dest.times[n] > 0 => events[n].on
  /\ Steady =>
    /\ \A n \in Counted(DOMAIN events) :
         /\ Is(n, "sent") => dest.times[n] >= 1
         /\ dest.times[n] <= 1 + lost
    /\ \A n \in Usage(DOMAIN events) :
         Is(n, "sent") => dest.shown.tok >= events[n].total

(* Running totals absorb repeats: once every row is sent, the destination  *)
(* shows each counted event once, however often answers were lost.         *)
ExactWhenDrained ==
  (Steady /\ config.temp = "cumulative" /\ \A n \in Queued : Is(n, "sent"))
    => dest.shown.cnt = Cardinality(Counted(Queued))

(* Every queued row is sent or given up: a batch that failed becomes due   *)
(* again and a pass that stops half way is started again.                  *)
EveryRowEnds == \A n \in 1 .. MaxEvents : Is(n, "pending") ~> ~Is(n, "pending") \/ ~Steady
=============================================================================
