------------------------------- MODULE Traces -------------------------------
(***************************************************************************)
(* The trace builder of the OTLP exporter and what a destination makes of  *)
(* its batches (otel.mjs buildTraces; otel-worker.mjs processOrg).  Spans  *)
(* are built from the events of ONE batch and carry ids made from names,   *)
(* so a later request with the same id replaces the span: whether a trace  *)
(* ends up true depends on where the batches were cut, on which of them    *)
(* were sent again and in which order.  One workflow stands for all: their *)
(* spans never meet.  An event's time is its position in the log; metrics, *)
(* settings and prices are OtelExport's and Pricing's.                     *)
(***************************************************************************)
EXTENDS Integers, Sequences, FiniteSets, FiniteSetsExt

CONSTANTS
  Steps,      \* steps of the workflow
  Sessions,   \* agent sessions
  MaxTotal,   \* bound: running total of a session
  MaxEvents,  \* bound: events ever received
  BatchSize,  \* rows a claim takes (200)
  MaxFaults   \* bound: refused requests and lost answers

ASSUME BatchAssumption == BatchSize \in Nat \ {0}
ASSUME BoundAssumption == MaxTotal \in Nat /\ MaxEvents \in Nat /\ MaxFaults \in Nat

VARIABLES
  log,      \* events of the workflow, in order of receipt
  due,      \* otel_outbox: rows a claim may take
  waiting,  \* batches that failed and wait out their backoff
  batch,    \* rows of the request on its way, or {}
  sent,     \* otel_outbox: rows marked sent
  dest,     \* external: the spans the destination shows
  faults,   \* requests that failed so far
  split     \* history: steps with an end claimed without the start before it

vars == <<log, due, waiting, batch, sent, dest, faults, split>>

-----------------------------------------------------------------------------
(* Building spans from the rows b of one batch.                            *)

Ends == {"done", "failed"}
EndsOf(b, s) == {n \in b : log[n].kind \in Ends /\ log[n].step = s}
StartsOf(b, s) == {n \in b : log[n].kind = "started" /\ log[n].step = s}

(* Seeded fault: every end is taken for the first attempt.                 *)
AttemptFirst(b, n) == 0

(* The attempt of an end: that of the latest start before it in the batch. *)
Attempt(b, n) ==
  LET before == {m \in StartsOf(b, log[n].step) : m < n}
  IN IF before = {} THEN 0 ELSE log[Max(before)].attempt

StepId(s, attempt) == <<"step", s, attempt>>

(* Seeded fault: a repeated attempt keeps the earlier span.                *)
KeptFirst(b, s) ==
  {n \in EndsOf(b, s) : \A m \in EndsOf(b, s) : Attempt(b, m) = Attempt(b, n) => m >= n}

(* A repeated attempt keeps the later span.                                *)
Kept(b, s) ==
  {n \in EndsOf(b, s) : \A m \in EndsOf(b, s) : Attempt(b, m) = Attempt(b, n) => m <= n}

(* The span that carries a step's judgements: the highest attempt's.       *)
Judged(b, s) ==
  CHOOSE n \in Kept(b, s) : \A m \in Kept(b, s) : Attempt(b, m) <= Attempt(b, n)

StepSpans(b) ==
  UNION {{[id |-> StepId(s, Attempt(b, n)), end |-> n, status |-> log[n].kind,
           judged |-> IF n # Judged(b, s) THEN {}
                      ELSE {m \in b : log[m].kind = "judged" /\ log[m].step = s}] :
          n \in Kept(b, s)} : s \in Steps}

UsageOf(b, x) == {n \in b : log[n].kind = "usage" /\ log[n].session = x}

(* A snapshot is a running total: the last one of the batch counts.        *)
SessionTotal(b, x) == log[Max(UsageOf(b, x))].total

Reporting(b) == {x \in Sessions : UsageOf(b, x) # {}}

SessionSpans(b) ==
  {[id |-> <<"session", x>>, start |-> Min(UsageOf(b, x)), end |-> Max(UsageOf(b, x)),
    usage |-> SessionTotal(b, x)] : x \in Reporting(b)}

Terminals(b) == {n \in b : log[n].kind = "status" /\ log[n].to \in {"completed", "failed"}}

(* Only once the workflow ended; its usage is that of the batch's sessions.*)
RootSpan(b) ==
  IF Terminals(b) = {} THEN {}
  ELSE LET created == {n \in b : log[n].kind = "created"}
           starts == UNION {StartsOf(b, s) : s \in Steps}
           end == Max(Terminals(b))
           start == IF created # {} THEN Min(created)
                    ELSE IF starts # {} THEN Min(starts) ELSE end
       IN {[id |-> <<"root">>, start |-> Min({start, end}), end |-> end,
            status |-> log[end].to,
            usage |-> MapThenSumSet(LAMBDA x : SessionTotal(b, x), Reporting(b))]}

(* buildTraces.                                                            *)
Spans(b) == RootSpan(b) \cup StepSpans(b) \cup SessionSpans(b)

-----------------------------------------------------------------------------
(* The hub (external), and POST /ingest, which queues what it reports.     *)

Rows == DOMAIN log

Receive(event) ==
  /\ Len(log) < MaxEvents
  /\ log' = Append(log, event)
  /\ due' = due \cup {Len(log) + 1}
  /\ UNCHANGED <<waiting, batch, sent, dest, faults, split>>

Running(s) == StartsOf(Rows, s) # {} /\ \A n \in EndsOf(Rows, s) : n < Max(StartsOf(Rows, s))
Attempts(s) == {log[n].attempt : n \in StartsOf(Rows, s)}

Created == log = << >> /\ Receive([kind |-> "created"])

(* A first start, a retry after the last attempt, or its judge phase.      *)
Started(s) ==
  /\ ~Running(s)
  /\ \E a \in IF Attempts(s) = {} THEN {0} ELSE {Max(Attempts(s)), Max(Attempts(s)) + 1} :
       Receive([kind |-> "started", step |-> s, attempt |-> a])

Ended(s) == Running(s) /\ \E kind \in Ends : Receive([kind |-> kind, step |-> s])

(* The judge answers once after an end.                                    *)
JudgedStep(s) ==
  /\ EndsOf(Rows, s) # {} /\ ~Running(s)
  /\ \A n \in Rows : log[n].kind = "judged" /\ log[n].step = s => n < Max(EndsOf(Rows, s))
  /\ Receive([kind |-> "judged", step |-> s])

Reported(x) ==
  \E total \in 1 .. MaxTotal :
    /\ \A n \in UsageOf(Rows, x) : log[n].total <= total
    /\ Receive([kind |-> "usage", session |-> x, total |-> total])

(* A workflow that ended may be run again and end again.                   *)
StatusChanged(to) ==
  /\ log # << >> /\ Len(log) \notin Terminals(Rows)
  /\ \A s \in Steps : ~Running(s)
  /\ Receive([kind |-> "status", to |-> to])

-----------------------------------------------------------------------------
(* The worker: one batch at a time.                                        *)

Oldest(rows) == {n \in rows : Cardinality({m \in rows : m <= n}) <= BatchSize}

Torn(b) ==
  {s \in Steps : \E n \in EndsOf(b, s) :
     Max({m \in StartsOf(Rows, s) : m < n}) \notin b}

Claim ==
  /\ batch = {} /\ due # {}
  /\ batch' = Oldest(due)
  /\ due' = due \ Oldest(due)
  /\ split' = split \cup Torn(Oldest(due))
  /\ UNCHANGED <<log, waiting, sent, dest, faults>>

(* External: a span replaces the one with its id.                          *)
Upsert(spans) ==
  {old \in dest : \A new \in spans : new.id # old.id} \cup spans

(* A batch may have nothing to show; it is done without a request.         *)
Accepted ==
  /\ batch # {}
  /\ dest' = Upsert(Spans(batch))
  /\ sent' = sent \cup batch
  /\ batch' = {}
  /\ UNCHANGED <<log, due, waiting, faults, split>>

Fail ==
  /\ batch # {} /\ faults < MaxFaults
  /\ waiting' = waiting \cup {batch}
  /\ batch' = {}
  /\ faults' = faults + 1
  /\ UNCHANGED <<log, due, sent, split>>

Refused == Fail /\ UNCHANGED dest

AnswerLost == Fail /\ dest' = Upsert(Spans(batch))

(* The backoff of a failed batch is over.                                  *)
Elapse(b) ==
  /\ b \in waiting
  /\ waiting' = waiting \ {b}
  /\ due' = due \cup b
  /\ UNCHANGED <<log, batch, sent, dest, faults, split>>

-----------------------------------------------------------------------------
Init ==
  /\ log = << >>
  /\ due = {} /\ waiting = {} /\ batch = {} /\ sent = {}
  /\ dest = {}
  /\ faults = 0
  /\ split = {}

Next ==
  \/ Created
  \/ \E s \in Steps : Started(s) \/ Ended(s) \/ JudgedStep(s)
  \/ \E x \in Sessions : Reported(x)
  \/ \E to \in {"completed", "failed"} : StatusChanged(to)
  \/ Claim
  \/ Accepted
  \/ Refused
  \/ AnswerLost
  \/ \E b \in waiting : Elapse(b)

Spec == Init /\ [][Next]_vars

-----------------------------------------------------------------------------
(* Properties.                                                             *)

(* What the whole log says, of an end and of a session.                    *)
TrueAttempt(n) == log[Max({m \in StartsOf(Rows, log[n].step) : m < n})].attempt
LastTold(b, x) == log[Max(UsageOf(b, x))].total

(* A re-sent, delayed or reordered batch never loses an attempt of a step  *)
(* or shows one in another's place, as long as no batch tore an end from   *)
(* its start (the step span's id, docs/observability/otel-mapping.md 4).   *)
AttemptsKept ==
  \A s \in Steps \ split : \A n \in EndsOf(sent, s) :
    \E span \in dest : /\ span.id = StepId(s, TrueAttempt(n))
                       /\ TrueAttempt(span.end) = TrueAttempt(n)

(* Whatever was sent again, the totals of the workflow's span count no     *)
(* session twice: they never exceed what the sessions last told.           *)
NothingCountedTwice ==
  \A span \in dest : span.id = <<"root">> =>
    span.usage <= MapThenSumSet(LAMBDA x : LastTold(Rows, x), Reporting(Rows))

(* Wherever the batches were cut, as long as none failed the destination   *)
(* shows the last word of every step, session and workflow that was sent.  *)
LastWordKept ==
  faults = 0 =>
    /\ \A s \in Steps : EndsOf(sent, s) # {} =>
         \E span \in dest : span.id[1] = "step" /\ span.end = Max(EndsOf(sent, s))
    /\ \A x \in Sessions : UsageOf(sent, x) # {} =>
         \E span \in dest : span.id = <<"session", x>> /\ span.usage = LastTold(sent, x)
    /\ Terminals(sent) # {} =>
         \E span \in dest : span.id = <<"root">> /\ span.status = log[Max(Terminals(sent))].to

(* What the destination shows of the batches is neither too much nor stale.*)
LastWordShown == NothingCountedTwice /\ LastWordKept
=============================================================================
