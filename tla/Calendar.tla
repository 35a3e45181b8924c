------------------------------ MODULE Calendar ------------------------------
(***************************************************************************)
(* When a scheduled series runs: the editor's draft (ScheduleEditor.tsx),  *)
(* its validation and the preview of the next runs (ui/src/lib/            *)
(* schedule.ts), the rules the server applies to the same schedule         *)
(* (blueprint.mjs), and the runs a hub then makes with the same            *)
(* calendar arithmetic, across the clock changes of the chosen zone.       *)
(*                                                                         *)
(* An instant is a number of minutes; a day has DayLength of them and a    *)
(* week WeekLength days, so that small instances keep every case.  A wall  *)
(* clock reading is a number too: date * DayLength + minute of the day.    *)
(* A zone has one change of its clock: a positive shift leaves a gap of    *)
(* readings that never occur, a negative one repeats some.                 *)
(***************************************************************************)
EXTENDS Integers, Sequences, FiniteSets, FiniteSetsExt, SequencesExt

CONSTANTS
    DayLength,      \* minutes in a day
    WeekLength,     \* days in a week
    Zones,          \* the zones Intl knows: records [base, shift, at]
    BrowserZone,    \* what the browser reports, perhaps not one of Zones
    Utc,            \* the zone used when the browser's is not accepted
    DefaultTime,    \* the time of an empty draft
    DefaultDays,    \* the days of an empty draft
    Dates,          \* the local dates an operator picks for a single run
    Times,          \* the minutes of the day an operator picks
    EditTimes,      \* the instants at which the operator edits (bound)
    MaxEdits,       \* bound on the changes made to a draft
    Horizon,        \* last instant modelled (bound)
    Null            \* null: a missing value, an empty field

(***************************************************************************)
(* Clocks are at most a day and a half from UTC and change by a day at     *)
(* most; the code relies on both ("No zone offset exceeds 14h and          *)
(* transitions are months apart").                                         *)
(***************************************************************************)
Reach == (3 * DayLength) \div 2

ASSUME DayAssumption == DayLength \in Nat \ {0, 1} /\ WeekLength \in Nat \ {0}
ASSUME ZoneAssumption ==
    /\ Utc \in Zones
    /\ \A z \in Zones :
          /\ z.at \in Int /\ z.base \in Int /\ z.shift \in Int
          /\ {z.base, z.base + z.shift} \subseteq -Reach .. Reach
          /\ z.shift \in -DayLength .. DayLength
ASSUME DraftAssumption ==
    /\ Times \cup {DefaultTime} \subseteq 0 .. DayLength - 1
    /\ DefaultDays \in Seq(0 .. WeekLength - 1) /\ IsInjective(DefaultDays)
    /\ Dates \subseteq Nat
ASSUME TimeAssumption ==
    /\ Horizon \in Nat /\ EditTimes # {} /\ EditTimes \subseteq 0 .. Horizon
    /\ Null \notin Int /\ MaxEdits \in Nat

VARIABLES
    draft,      \* what the editor holds; every kind's fields stay
    edits,      \* how many changes were made (bound)
    series,     \* the schedule the server stored, or Null
    preview,    \* the runs the editor showed when it was saved
    savedAt,    \* when that was
    armed,      \* the hub: the instant of the next run, or Null
    ran,        \* the hub: the instants of the runs made since
    now

calendarVars == <<draft, edits, series, preview, savedAt, armed, ran, now>>

-----------------------------------------------------------------------------
(***************************************************************************)
(* Wall clocks.                                                            *)
(***************************************************************************)

Offset(zone, t) == zone.base + (IF t >= zone.at THEN zone.shift ELSE 0)

WallClock(zone, t) == t + Offset(zone, t)

DateOf(wall) == wall \div DayLength

(***************************************************************************)
(* The first minute after low, and no later than high, whose reading has   *)
(* reached local: the interval is halved until nothing is left to halve,   *)
(* for which as many rounds as it has minutes suffice.                     *)
(***************************************************************************)
Halved(zone, local, pair) ==
    LET mid == pair[1] + (pair[2] - pair[1]) \div 2
    IN  IF pair[2] - pair[1] <= 1 THEN pair
        ELSE IF WallClock(zone, mid) >= local THEN <<pair[1], mid>> ELSE <<mid, pair[2]>>

Bisect(zone, local, low, high) ==
    LET round[n \in 0 .. high - low] ==
          IF n = 0 THEN <<low, high>> ELSE Halved(zone, local, round[n - 1])
    IN  round[high - low][2]

LastOf(hits)  == Max(hits)
FirstOf(hits) == Min(hits)

(***************************************************************************)
(* The instant at which the clock of the zone shows local: the first of    *)
(* two, and the clock change itself when the reading is skipped.  The only *)
(* offsets tried are those in effect a day and a half either side.         *)
(***************************************************************************)
ResolveLocal(zone, local) ==
    LET offsets == {Offset(zone, t) : t \in {local - Reach, local, local + Reach}}
        hits    == {t \in {local - o : o \in offsets} : WallClock(zone, t) = local}
    IN  IF hits # {} THEN FirstOf(hits)
        ELSE Bisect(zone, local, local - Max(offsets), local - Min(offsets))

(***************************************************************************)
(* The first run strictly after an instant, or Null.  Local dates are      *)
(* tried from the one the zone shows at that instant; a week of them and   *)
(* one more cover today's run having passed.                               *)
(***************************************************************************)
Lookahead == WeekLength + 1

IsNotSooner(t, after) == t >= after
IsLater(t, after)     == t > after

RunsOn(spec, date) ==
    spec.kind = "weekly" => \E i \in DOMAIN spec.days : spec.days[i] = date % WeekLength

NextOccurrence(spec, zone, after) ==
    IF spec.kind = "once"
    THEN LET t == ResolveLocal(zone, spec.at)
         IN  IF IsLater(t, after) THEN t ELSE Null
    ELSE LET start  == DateOf(WallClock(zone, after))
             run[i \in 0 .. Lookahead] == ResolveLocal(zone, (start + i) * DayLength + spec.time)
             usable == {i \in 0 .. Lookahead : RunsOn(spec, start + i) /\ IsLater(run[i], after)}
         IN  IF usable = {} THEN Null ELSE run[Min(usable)]

PreviewLength == 3

PreviewRuns(spec, zone, from) ==
    LET upcoming[n \in 0 .. PreviewLength] ==
          IF n = 0 THEN << >>
          ELSE LET shown == upcoming[n - 1]
                   next  == NextOccurrence(spec, zone,
                                IF shown = << >> THEN from ELSE Last(shown))
               IN  IF Len(shown) < n - 1 \/ next = Null THEN shown ELSE Append(shown, next)
    IN  upcoming[PreviewLength]

-----------------------------------------------------------------------------
(***************************************************************************)
(* The draft, the request it makes and the rules of both sides.            *)
(***************************************************************************)

IsValidTimeZone(zone) == zone \in Zones

BrowserTimeZone == IF IsValidTimeZone(BrowserZone) THEN BrowserZone ELSE Utc

EmptyScheduleDraft(zone) ==
    [kind |-> "daily", at |-> Null, time |-> DefaultTime, days |-> DefaultDays, timezone |-> zone]

(***************************************************************************)
(* A list of days in ascending order, each as often as it was.             *)
(***************************************************************************)
Occurrences(days) ==
    [day \in 0 .. WeekLength - 1 |-> Cardinality({i \in DOMAIN days : days[i] = day})]

Spread(times) ==
    LET upTo[n \in 0 .. WeekLength] ==
          IF n = 0 THEN << >> ELSE upTo[n - 1] \o [i \in 1 .. times[n - 1] |-> n - 1]
    IN  upTo[WeekLength]

Ascending(days) == Spread(Occurrences(days))

DraftSpec(d) ==
    CASE d.kind = "once"   -> [kind |-> "once", at |-> d.at]
      [] d.kind = "daily"  -> [kind |-> "daily", time |-> d.time]
      [] d.kind = "weekly" -> [kind |-> "weekly", days |-> Ascending(d.days), time |-> d.time]

(* A text that names no existing date and time is Null here. *)
ParsesAsLocalDateTime(at) == at # Null

ScheduleIsValid(spec, zone) ==
    /\ IsValidTimeZone(zone)
    /\ IF spec.kind = "once" THEN ParsesAsLocalDateTime(spec.at)
       ELSE spec.time # Null /\ (spec.kind = "weekly" => spec.days # << >>)

DraftToBody(d) ==
    LET spec == DraftSpec(d)
    IN  IF ScheduleIsValid(spec, d.timezone) THEN [spec |-> spec, timezone |-> d.timezone]
        ELSE Null

DraftFromSeries(s) ==
    LET empty == EmptyScheduleDraft(s.timezone)
    IN  [empty EXCEPT !.kind = s.spec.kind,
                      !.at   = IF s.spec.kind = "once" THEN s.spec.at ELSE @,
                      !.time = IF s.spec.kind = "once" THEN @ ELSE s.spec.time,
                      !.days = IF s.spec.kind = "weekly" THEN s.spec.days ELSE @]

(***************************************************************************)
(* The server: exactly the fields of the kind, at least one day and no day *)
(* twice, a known zone.                                                    *)
(***************************************************************************)
ServerKnowsZone(zone) == zone \in Zones

IsValidLocalDateTime(at) == at # Null

DaysAccepted(days) ==
    /\ days # << >> /\ IsInjective(days)
    /\ \A i \in DOMAIN days : days[i] \in 0 .. WeekLength - 1

SpecAccepted(spec) ==
    \/ /\ spec.kind = "once"
       /\ DOMAIN spec = {"kind", "at"} /\ IsValidLocalDateTime(spec.at)
    \/ /\ spec.kind = "daily"
       /\ DOMAIN spec = {"kind", "time"} /\ spec.time # Null
    \/ /\ spec.kind = "weekly"
       /\ DOMAIN spec = {"kind", "days", "time"} /\ spec.time # Null
       /\ DaysAccepted(spec.days)

ServerAccepts(body) == SpecAccepted(body.spec) /\ ServerKnowsZone(body.timezone)

-----------------------------------------------------------------------------
CalendarInit ==
    /\ draft = EmptyScheduleDraft(BrowserTimeZone)
    /\ edits = 0
    /\ series = Null /\ preview = << >> /\ savedAt = Null
    /\ armed = Null /\ ran = {}
    /\ now = Min(EditTimes)

(***************************************************************************)
(* The editor changes one field; a day is switched on at the end of the    *)
(* list and off wherever it stands.                                        *)
(***************************************************************************)
AppendDay(days, day) == Append(days, day)

ToggleDay(days, day) ==
    IF \E i \in DOMAIN days : days[i] = day
    THEN RemoveAt(days, CHOOSE i \in DOMAIN days : days[i] = day)
    ELSE Append(days, day)

Edit(next) ==
    /\ edits < MaxEdits /\ now \in EditTimes
    /\ next # draft
    /\ draft' = next /\ edits' = edits + 1
    /\ UNCHANGED <<series, preview, savedAt, armed, ran, now>>

SetKind == \E kind \in {"once", "daily", "weekly"} : Edit([draft EXCEPT !.kind = kind])

SetAt ==
    /\ draft.kind = "once"
    /\ \E at \in {date * DayLength + time : date \in Dates, time \in Times} \cup {Null} :
          Edit([draft EXCEPT !.at = at])

SetTime ==
    /\ draft.kind # "once"
    /\ \E time \in Times \cup {Null} : Edit([draft EXCEPT !.time = time])

SetDays ==
    /\ draft.kind = "weekly"
    /\ \E day \in 0 .. WeekLength - 1 : Edit([draft EXCEPT !.days = ToggleDay(@, day)])

SetZone == \E zone \in Zones : Edit([draft EXCEPT !.timezone = zone])

(***************************************************************************)
(* Saving sends the request of a complete draft; the server stores it, the *)
(* hub arms the first run after now, and the editor is seeded again from   *)
(* the stored series.                                                      *)
(***************************************************************************)
Save ==
    LET body == DraftToBody(draft)
    IN  /\ now \in EditTimes
        /\ body # Null /\ body # series
        /\ ServerAccepts(body)
        /\ series' = body /\ savedAt' = now
        /\ preview' = PreviewRuns(body.spec, body.timezone, now)
        /\ armed' = NextOccurrence(body.spec, body.timezone, now)
        /\ ran' = {}
        /\ draft' = DraftFromSeries(body)
        /\ UNCHANGED <<edits, now>>

(***************************************************************************)
(* Time passes; the hub makes the run that is due and arms the next one    *)
(* after it.                                                               *)
(***************************************************************************)
Tick ==
    /\ now < Horizon
    /\ series = Null => now < Max(EditTimes)
    /\ now' = now + 1
    /\ IF armed = now + 1
       THEN /\ ran' = ran \cup {armed}
            /\ armed' = NextOccurrence(series.spec, series.timezone, armed)
       ELSE UNCHANGED <<ran, armed>>
    /\ UNCHANGED <<draft, edits, series, preview, savedAt>>

CalendarNext ==
    \/ SetKind \/ SetAt \/ SetTime \/ SetDays \/ SetZone
    \/ Save
    \/ Tick

CalendarSpec == CalendarInit /\ [][CalendarNext]_calendarVars

-----------------------------------------------------------------------------
(***************************************************************************)
(* What a schedule means, said without the arithmetic above: a local       *)
(* reading falls on the first instant that shows it and, when no instant   *)
(* does, on the first one past it.                                         *)
(***************************************************************************)
Meaning(zone, local) ==
    LET around == local - 2 * DayLength .. local + 2 * DayLength
        exact  == {t \in around : WallClock(zone, t) = local}
    IN  IF exact # {} THEN Min(exact)
        ELSE Min({t \in around : WallClock(zone, t) >= local})

LocalRuns(spec) ==
    IF spec.kind = "once" THEN {spec.at}
    ELSE {date * DayLength + spec.time :
            date \in {d \in -2 .. DateOf(Horizon) + 2 : RunsOn(spec, d)}}

(***************************************************************************)
(* Since it was saved, a series ran at exactly the instants its schedule   *)
(* means: every matching local date once, also a date whose time the clock *)
(* change skips or repeats, and nothing else (schedule.ts, resolveLocal    *)
(* and nextOccurrence; the comment on DST at the head of that file).       *)
(***************************************************************************)
RunsAreExact ==
    series # Null =>
        ran = {Meaning(series.timezone, local) : local \in LocalRuns(series.spec)}
                  \cap (savedAt + 1 .. now)

(***************************************************************************)
(* The runs shown in the editor are the runs made, soonest first: no shown *)
(* run is passed over, and none that is not shown is made before the last  *)
(* of them, or at all when fewer were shown than there is room for.  "A    *)
(* preview that disagreed with it would promise times the hub never uses"  *)
(* (schedule.ts).                                                          *)
(***************************************************************************)
PreviewIsKept ==
    series # Null =>
        /\ \A i, j \in DOMAIN preview : i < j => preview[i] < preview[j]
        /\ \A i \in DOMAIN preview : preview[i] <= now => preview[i] \in ran
        /\ \A t \in ran \ ToSet(preview) :
              Len(preview) = PreviewLength /\ \A i \in DOMAIN preview : preview[i] < t

(***************************************************************************)
(* A draft the editor lets the operator save is accepted by the server,    *)
(* and the draft seeded from a stored series makes the same request again: *)
(* the two sets of rules, kept in two files, do not drift apart.           *)
(***************************************************************************)
RulesAgree ==
    LET body == DraftToBody(draft)
    IN  /\ body # Null => ServerAccepts(body) /\ DraftToBody(DraftFromSeries(body)) = body
        /\ series # Null => DraftToBody(DraftFromSeries(series)) = series

=============================================================================
