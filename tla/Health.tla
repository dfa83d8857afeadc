--------------------------------- MODULE Health ---------------------------------
(***************************************************************************)
(* The health checks of one Tap (src/features/health): what every          *)
(* evaluation concludes from the detector, the telemetry and the           *)
(* maintenance records, the timers and leak samples it carries to the      *)
(* next one, and the incidents it opens and resolves.                      *)
(*                                                                         *)
(* The timer sweeps at every tick of the clock while the process is up.    *)
(* A verdict is the state and, for an active check, its severity; reasons  *)
(* and evidence are left out.  The phases of a pour are one: "pour".       *)
(***************************************************************************)
EXTENDS Shared, Sequences, FiniteSets

CONSTANTS
  Volume,                         \* settled volumes, at most the capacity
  Threshold, Critical, Settling,  \* low_keg
  Degraded, Unavailable,          \* scale_availability; staleness of every check
  Loss, LeakWindow, Grace, Suppressed, Movement, MaxSamples,  \* suspected_leak
  Duration,                       \* serving_temperature
  CleaningDue, CleaningOverdue,                   \* line_cleaning_due
  MaxCooldown, Retention, Skew,
  MaxMoment, MaxEpoch, MaxIncidents   \* bounds

ASSUME HealthAssumption ==
  /\ Volume \subseteq Nat
  /\ {Threshold, Critical, Settling, Loss, Grace, Suppressed, Movement, Duration, CleaningDue,
      CleaningOverdue, MaxCooldown, Retention, Skew, MaxMoment, MaxEpoch, MaxIncidents} \subseteq Nat
  /\ {Degraded, Unavailable, LeakWindow, MaxSamples} \subseteq Nat \ {0}
  /\ \E capacity \in Volume : \A v \in Volume : v <= capacity

VARIABLES
  time,       \* the clock of the host
  healthUp,   \* the process runs
  tap,        \* what the checks read of the Tap and of its configuration
  rows,       \* health_check_state
  leak,       \* health_leak_samples
  incidents,  \* health_incidents of each check, in the order they were opened
  dip, hot,   \* history: since when the volume is low, the beer out of range
  lapsed,     \* history: checks that were off while they held a timer or samples
  spanned     \* history: the samples kept from before the end of a pour

healthVars == <<time, healthUp, tap, rows, leak, incidents, dip, hot, lapsed, spanned>>

Check == {"low_keg", "scale_availability", "suspected_leak", "serving_temperature",
          "line_cleaning_due"}
Verdict == {"not_configured", "healthy", "degraded", "warning", "critical"}
Instant == 0 .. MaxMoment + Skew
Maybe(S) == S \cup {None}
Reading == [at : Maybe(Instant), degrees : Maybe({"normal", "warm", "hot"})]
Tap == [retired : BOOLEAN, enabled : SUBSET Check, authority : Maybe(Instant),
        status : Reading, epochs : 0 .. MaxEpoch, epoch : 0 .. MaxEpoch,
        started : Maybe(Instant), sample : Reading, renewed : SUBSET {"authority", "epoch"},
        phase : {"waiting", "ready", "pour", "warning"}, volume : Maybe(Volume),
        poured : Maybe(Instant), cleaned : Maybe(Instant)]
Row == [verdict : Verdict, since : Maybe(Instant), observed : Maybe(Instant),
        until : Maybe(Nat), cooldown : Maybe(Nat), evaluated : Instant]
LeakSample == [epoch : 1 .. MaxEpoch, at : Instant, volume : Volume]
Incident == [level : {"warning", "critical"}, worst : {"warning", "critical"},
             opened : Instant, resolved : Maybe(Instant), acknowledged : BOOLEAN]

HealthTypeOK ==
  /\ time \in 0 .. MaxMoment /\ healthUp \in BOOLEAN
  /\ tap \in Tap /\ rows \in [Check -> Row] /\ leak \subseteq LeakSample
  /\ incidents \in [Check -> Seq(Incident)]
  /\ {dip, hot} \subseteq Maybe(Instant) /\ lapsed \subseteq Check /\ spanned \subseteq leak

NoReading == [at |-> None, degrees |-> None]
Bare == [retired |-> FALSE, enabled |-> {}, authority |-> None, status |-> NoReading,
         epochs |-> 0, epoch |-> 0, started |-> None, sample |-> NoReading, renewed |-> {},
         phase |-> "waiting", volume |-> None, poured |-> None, cleaned |-> None]
Seeded == [verdict |-> "not_configured", since |-> None, observed |-> None, until |-> None,
           cooldown |-> None, evaluated |-> 0]

HealthInit ==
  /\ time = 0 /\ healthUp = TRUE
  /\ \E on \in SUBSET Check : tap = [Bare EXCEPT !.enabled = on]
  /\ rows = [c \in Check |-> Seeded] /\ leak = {} /\ incidents = [c \in Check |-> <<>>]
  /\ dip = None /\ hot = None /\ lapsed = {} /\ spanned = {}

-----------------------------------------------------------------------------
(* What the checks conclude: the verdict and the timers for the next time *)

Only(verdict) == [verdict |-> verdict, since |-> None, observed |-> None, until |-> None]
Recent(at, now) == at <= now /\ now - at < Degraded
Alarm(verdict) == verdict \in {"warning", "critical"}

\* As a bug: only a new authority ends the timers.
CarriedOver(row, t) ==
  IF "authority" \in t.renewed THEN [row EXCEPT !.since = None, !.observed = None] ELSE row
(* A new authority or a new epoch since the last evaluation: no timer survives. *)
Carried(row, t) ==
  IF "authority" \in t.renewed \/ (t.epoch # 0 /\ "epoch" \in t.renewed)
  THEN [row EXCEPT !.since = None, !.observed = None] ELSE row

LowKeg(row, t, now) ==
  LET read == t.epoch # 0 /\ t.phase # "waiting" /\ t.volume # None
      settled == read /\ t.phase = "ready" /\ Recent(t.sample.at, now)
      low == settled /\ t.volume < Threshold
      since == IF row.since # None /\ row.since <= now THEN row.since ELSE now
      verdict == IF now - since < Settling THEN "degraded"
                 ELSE IF t.volume <= Critical THEN "critical" ELSE "warning"
  IN CASE ~read -> Only("not_configured")
       [] read /\ ~settled -> Only("degraded")
       [] settled /\ ~low -> Only("healthy")
       [] low -> [Only(verdict) EXCEPT !.since = since]

(* A measurement that is ahead of the clock counts as none. *)
ScaleAvailability(row, t, now) ==
  LET heard == t.status.at # None /\ t.status.at >= t.authority /\ t.status.at <= now
      age == now - (IF heard THEN t.status.at ELSE t.authority)
      verdict == IF age >= Unavailable THEN "critical"
                 ELSE IF heard /\ age < Degraded THEN "healthy" ELSE "degraded"
  IN IF t.authority = None THEN Only("not_configured")
     ELSE [Only(verdict) EXCEPT
             !.since = IF heard THEN None ELSE IF row.since # None THEN row.since ELSE t.authority]

(* The reading of the current epoch; without an epoch that of the source.  None of *)
(* them counts from before the authority.                                          *)
Measurement(t) ==
  LET reading == IF t.epoch # 0 THEN t.sample ELSE t.status
  IN IF reading.at # None /\ t.authority # None /\ reading.at < t.authority
     THEN NoReading ELSE reading
ServingTemperature(row, t, now) ==
  LET reading == Measurement(t)
      at == reading.at
      gap == row.observed # None /\ at - row.observed > Degraded
      since == IF ~gap /\ row.since # None /\ row.since <= now THEN row.since ELSE now
      verdict == IF now - since < Duration THEN "degraded"
                 ELSE IF reading.degrees = "hot" THEN "critical" ELSE "warning"
      observed == [Only("healthy") EXCEPT !.observed = at]
  IN CASE t.authority = None -> Only("not_configured")
       [] t.authority # None /\ (at = None \/ reading.degrees = None) -> Only("degraded")
       [] OTHER ->
            IF ~Recent(at, now) THEN [observed EXCEPT !.verdict = "degraded"]
            ELSE IF reading.degrees = "normal" THEN observed
            ELSE [observed EXCEPT !.verdict = verdict, !.since = since]

LineCleaning(t, now) ==
  Only(IF t.cleaned = None THEN "not_configured"
        ELSE IF now < t.cleaned + CleaningDue THEN "healthy"
        ELSE IF now < t.cleaned + CleaningDue + CleaningOverdue THEN "warning" ELSE "critical")

-----------------------------------------------------------------------------
(* The leak check: settled volumes of one epoch over a window *)

Before(s, x) == s.at < x.at \/ (s.at = x.at /\ s.volume <= x.volume)
Newest(S) == CHOOSE s \in S : \A x \in S : Before(x, s)
Oldest(S) == CHOOSE s \in S : \A x \in S : Before(s, x)

LeakUsable(t, now) ==
  /\ t.epoch # 0 /\ t.volume # None /\ t.phase \in {"ready", "pour"}
  /\ t.sample.at # None /\ Recent(t.sample.at, now)
Observation(t) == [epoch |-> t.epoch, at |-> t.sample.at, volume |-> t.volume]
Prior(t) == {s \in leak : s.at <= t.sample.at}

OtherEpoch(t) == \E s \in leak : s.epoch # t.epoch
PourSeen(t) ==
  \/ t.phase = "pour"
  \/ t.poured # None /\ t.poured <= t.sample.at /\ t.sample.at - t.poured <= Grace
Settles(row, t) == row.until # None /\ t.sample.at < row.until
Moved(t) == Prior(t) # {} /\ t.volume - Newest(Prior(t)).volume >= Movement
Restarts(row, t) == OtherEpoch(t) \/ PourSeen(t) \/ Settles(row, t) \/ Moved(t)

(* What compactLeakSamples may retain: the last sample from before the window, the *)
(* present one and the first within the window; which others is left open.         *)
Compacted(t) ==
  LET this == Observation(t)
      from == t.sample.at - LeakWindow
      Anchor(S) == IF \E s \in S : s.at <= from THEN {Newest({s \in S : s.at <= from})} ELSE {}
      anchor == Anchor(Prior(t) \cup {this})
      later == {s \in Prior(t) \cup {this} : s.at > from}
      slots == MaxSamples - Cardinality(anchor)
      Retained(S) ==
        /\ this \in S /\ Cardinality(S) = slots
        /\ slots >= 2 => Oldest(later) \in S
  IN IF MaxSamples = 1
     THEN {IF Prior(t) = {} THEN {this}
           ELSE IF Anchor(Prior(t)) # {} THEN Anchor(Prior(t)) ELSE {Oldest(Prior(t))}}
     ELSE IF Cardinality(later) <= slots THEN {anchor \cup later}
     ELSE {anchor \cup S : S \in {S \in SUBSET later : Retained(S)}}

NextSamples(row, t, now) ==
  IF t.retired \/ (("suspected_leak" \in t.enabled) /\ ~LeakUsable(t, now)) THEN {{}}
  ELSE IF "suspected_leak" \notin t.enabled THEN {leak}
  ELSE IF Restarts(row, t) THEN {{Observation(t)}} ELSE Compacted(t)

(* The loss since the oldest of the retained samples, over a full window. *)
Leaks(t, samples) ==
  LET first == Oldest(samples)
  IN Prior(t) # {} /\ t.sample.at - first.at >= LeakWindow /\ first.volume - t.volume >= Loss
SuspectedLeak(row, t, now, samples) ==
  LET usable == LeakUsable(t, now)
      started == usable /\ ~OtherEpoch(t)
      verdict == IF ~Restarts(row, t) /\ Leaks(t, samples) THEN "warning" ELSE "healthy"
      until == IF PourSeen(t) THEN t.sample.at + Suppressed
               ELSE IF Settles(row, t) THEN row.until ELSE None
  IN CASE t.epoch = 0 -> Only("not_configured")
       [] t.epoch # 0 /\ ~started -> Only("degraded")
       [] started -> [Only(verdict) EXCEPT !.until = until]

-----------------------------------------------------------------------------
(* One evaluation, at time': every check in turn, and its incident *)

Conclusion(c, row, t, now, samples) ==
  LET carried == Carried(row, t)
  IN IF t.retired THEN Only("not_configured")
     ELSE IF c \notin t.enabled THEN
       [Only("not_configured") EXCEPT !.since = carried.since, !.observed = carried.observed,
                                       !.until = row.until]
     ELSE CASE c = "low_keg" -> LowKeg(carried, t, now)
            [] c = "scale_availability" -> ScaleAvailability(carried, t, now)
            [] c = "suspected_leak" -> SuspectedLeak(carried, t, now, samples)
            [] c = "serving_temperature" -> ServingTemperature(carried, t, now)
            [] c = "line_cleaning_due" -> LineCleaning(t, now)

Concluded(c, t, samples) ==
  LET row == rows[c]
      found == Conclusion(c, row, t, time', samples)
      over == t.retired \/ (row.cooldown # None /\ row.cooldown <= time')
  IN [verdict |-> found.verdict, since |-> found.since, observed |-> found.observed,
      until |-> found.until, cooldown |-> IF over THEN None ELSE row.cooldown,
      evaluated |-> time']

NewIncident(verdict) == [level |-> verdict, worst |-> verdict, opened |-> time',
                    resolved |-> None, acknowledged |-> FALSE]
IsOpen(list) == list # <<>> /\ list[Len(list)].resolved = None

\* As a bug: an incident is opened without a look for the open one.
SyncedBlindly(list, row) ==
  IF Alarm(row.verdict) /\ row.cooldown = None THEN Append(list, NewIncident(row.verdict)) ELSE list
(* #syncIncident; a retired Tap's verdict is no alarm, and resolves. *)
Synced(list, row) ==
  LET last == Len(list)
  IN CASE Alarm(row.verdict) /\ IsOpen(list) ->
            [list EXCEPT ![last].level = row.verdict,
                         ![last].worst = IF row.verdict = "critical" THEN "critical" ELSE @]
       [] Alarm(row.verdict) /\ ~IsOpen(list) /\ row.cooldown = None ->
            Append(list, NewIncident(row.verdict))
       [] ~Alarm(row.verdict) /\ IsOpen(list) -> [list EXCEPT ![last].resolved = time']
       [] OTHER -> list

(* Resolved incidents are kept for the retention.  They are in the order in which they *)
(* were resolved, so those that go are the first.                                      *)
Expired(incident) == incident.resolved # None /\ incident.resolved < time' - Retention
Kept(list) ==
  SubSeq(list, 1 + Cardinality({i \in DOMAIN list : Expired(list[i])}), Len(list))

(* History: since when the settled volume has been below the threshold, the beer *)
(* measured out of range without a gap; which checks were switched off meanwhile.  *)
(* The leak check lapses on when a pour in a new epoch meets samples of an old one: *)
(* it takes its baseline in the middle of that pour and does not wait for its end.  *)
Heat(t) ==
  IF t.authority # None /\ t.status.at # None /\ t.status.at >= t.authority
     /\ t.status.degrees \in {"warm", "hot"}
  THEN t.status.at ELSE None
Watch(new) ==
  /\ dip' = IF new.epoch = 0 \/ new.volume = None \/ new.volume >= Threshold THEN None
            ELSE IF dip # None /\ new.epoch = tap.epoch THEN dip ELSE time'
  /\ hot' = IF Heat(new) = None THEN None
            ELSE IF hot # None /\ Heat(new) - Heat(tap) <= Degraded THEN hot ELSE time'
Unwatched(new) ==
  lapsed' = {c \in Check :
    /\ c \in lapsed \/ c \notin new.enabled
    /\ IF c = "suspected_leak"
       THEN leak \cap leak' # {} \/ (new.phase = "pour" /\ OtherEpoch(new))
       ELSE rows[c].since # None /\ rows'[c].since = rows[c].since}

Evaluate(new) ==
  /\ tap' = [new EXCEPT !.renewed = {}] /\ Watch(new)
  /\ leak' \in NextSamples(Carried(rows["suspected_leak"], new), new, time')
  /\ rows' = [c \in Check |-> Concluded(c, new, leak')]
  /\ Unwatched(new) /\ spanned' = spanned \cap leak'
EvaluateTap(new) ==
  /\ Evaluate(new)
  /\ incidents' = [c \in Check |-> Synced(incidents[c], rows'[c])]
Sweep(new) ==
  /\ Evaluate(new)
  /\ incidents' = [c \in Check |-> Kept(Synced(incidents[c], rows'[c]))]

-----------------------------------------------------------------------------
(* What happens to the Tap *)

HealthRunning == healthUp /\ UNCHANGED <<time, healthUp>>
NewEpoch(t) ==
  [t EXCEPT !.epochs = @ + 1, !.epoch = t.epochs + 1, !.started = time, !.sample = NoReading,
            !.renewed = @ \cup {"epoch"}, !.phase = "waiting", !.volume = None,
            !.poured = None]

(* A sample in the order of its source.  The detector takes it if it belongs to the *)
(* epoch, and may find beer gone or added; the checks follow.                       *)
Arrivals == IF tap.authority = None THEN {}
            ELSE {at \in 0 .. time + Skew : tap.status.at # None => at > tap.status.at}
Findings ==
  [phase : {"ready"}, volume : Volume] \cup
  [phase : {"pour", "warning"} \cup ({"waiting"} \cap {tap.phase}), volume : {tap.volume}]
AcceptSample(at, degrees, finding) ==
  LET reading == [at |-> at, degrees |-> degrees]
  IN /\ HealthRunning /\ tap.epoch # 0 /\ at >= tap.started
     /\ EvaluateTap([tap EXCEPT !.status = reading, !.sample = reading,
                                !.phase = finding.phase, !.volume = finding.volume])
AcceptOther(at, degrees) ==
  /\ HealthRunning /\ (tap.epoch # 0 => at < tap.started)
  /\ EvaluateTap([tap EXCEPT !.status = [at |-> at, degrees |-> degrees]])

(* The detector's timer completes a pour or ends its cooldown: no check follows. *)
CompletePour(at, volume) ==
  /\ HealthRunning /\ tap.epoch # 0 /\ tap.phase = "pour" /\ tap.volume # None
  /\ tap.sample.at <= at /\ at <= time /\ volume < tap.volume
  /\ tap' = [tap EXCEPT !.poured = at, !.volume = volume]
  /\ Watch(tap') /\ spanned' = leak
  /\ UNCHANGED <<rows, leak, incidents, lapsed>>
EndCooldown ==
  /\ HealthRunning /\ tap.phase = "pour" /\ tap.volume # None
  /\ tap' = [tap EXCEPT !.phase = "ready"]
  /\ UNCHANGED <<rows, leak, incidents, dip, hot, lapsed, spanned>>

(* The status of a source that had the Tap before is from before now. *)
ChangeAuthority(authority, status) ==
  LET changed == [tap EXCEPT !.authority = authority, !.status = status,
                             !.renewed = IF authority = None THEN @ ELSE @ \cup {"authority"}]
  IN /\ HealthRunning /\ (tap.epoch # 0 => tap.epochs < MaxEpoch)
     /\ EvaluateTap(IF tap.epoch = 0 THEN changed ELSE NewEpoch(changed))
OpenAssignment ==
  /\ HealthRunning /\ tap.epoch = 0 /\ ~tap.retired
  /\ EvaluateTap(NewEpoch(tap))
CloseAssignment ==
  /\ HealthRunning /\ tap.epoch # 0
  /\ EvaluateTap([tap EXCEPT !.epoch = 0, !.started = None, !.sample = NoReading,
                             !.phase = "waiting", !.volume = None, !.poured = None])
(* A correction of the Keg or of the density tells the checks, a new baseline or *)
(* configuration of the detector does not.                                       *)
CorrectKeg == HealthRunning /\ tap.epoch # 0 /\ EvaluateTap(NewEpoch(tap))
Rebaseline ==
  /\ HealthRunning /\ tap.epoch # 0 /\ tap' = NewEpoch(tap) /\ Watch(tap')
  /\ UNCHANGED <<rows, leak, incidents, lapsed, spanned>>

(* Of the maintenance records only the last line cleaning is read. *)
RecordMaintenance(performed) ==
  /\ HealthRunning /\ performed \in 0 .. time
  /\ EvaluateTap([tap EXCEPT !.cleaned =
       IF @ = None THEN performed ELSE Later(@, performed)])
Retire ==
  /\ HealthRunning /\ ~tap.retired /\ tap.epoch = 0
  /\ EvaluateTap([tap EXCEPT !.retired = TRUE])

(* An override is written and evaluated at once.  A global change is committed *)
(* before the sweep that follows it, which may fail.                           *)
Switched(c) ==
  [tap EXCEPT !.enabled = IF c \in @ THEN @ \ {c} ELSE @ \cup {c}]
UpdateTapOverride(c) == HealthRunning /\ EvaluateTap(Switched(c))
UpdateGlobalConfig(c) == HealthRunning /\ Sweep(Switched(c))
SweepFails(c) ==
  /\ HealthRunning /\ tap' = Switched(c)
  /\ UNCHANGED <<rows, leak, incidents, dip, hot, lapsed, spanned>>

AcknowledgeIncident(c) ==
  /\ HealthRunning /\ IsOpen(incidents[c])
  /\ incidents' = [incidents EXCEPT ![c][Len(incidents[c])].acknowledged = TRUE]
  /\ UNCHANGED <<tap, rows, leak, dip, hot, lapsed, spanned>>
SetIncidentCooldown(c, until) ==
  /\ HealthRunning /\ IsOpen(incidents[c])
  /\ until # None => until <= time + MaxCooldown
  /\ rows' = [rows EXCEPT ![c].cooldown = until]
  /\ UNCHANGED <<tap, leak, incidents, dip, hot, lapsed, spanned>>

-----------------------------------------------------------------------------
(* The process *)

Tick == time < MaxMoment /\ time' = time + 1
RunSweepOnce == healthUp /\ Tick /\ UNCHANGED healthUp /\ Sweep(tap)
StopMaintenance ==
  /\ healthUp /\ healthUp' = FALSE
  /\ UNCHANGED <<time, tap, rows, leak, incidents, dip, hot, lapsed, spanned>>
Pass ==
  /\ ~healthUp /\ Tick
  /\ UNCHANGED <<healthUp, tap, rows, leak, incidents, dip, hot, lapsed, spanned>>
StartMaintenance == ~healthUp /\ healthUp' = TRUE /\ UNCHANGED time /\ Sweep(tap)

SampleArrives(times, degrees, findings) ==
  \E at \in times, d \in degrees :
    AcceptOther(at, d) \/ \E f \in findings : AcceptSample(at, d, f)
OfCheck(c) ==
  \/ UpdateTapOverride(c) \/ UpdateGlobalConfig(c) \/ SweepFails(c)
  \/ AcknowledgeIncident(c)
  \/ \E until \in {None} \cup 0 .. MaxMoment : SetIncidentCooldown(c, until)
OfTap(statuses) ==
  \/ \E at \in 0 .. time, v \in Volume : CompletePour(at, v)
  \/ EndCooldown
  \/ \E status \in statuses : ChangeAuthority(time, status)
  \/ tap.authority # None /\ ChangeAuthority(None, NoReading)
  \/ tap.epochs < MaxEpoch /\ (OpenAssignment \/ CorrectKeg \/ Rebaseline)
  \/ CloseAssignment \/ Retire
  \/ \E at \in 0 .. time : RecordMaintenance(at)
  \/ RunSweepOnce \/ StopMaintenance \/ Pass \/ StartMaintenance
HealthNext ==
  \/ SampleArrives(Arrivals, {None, "normal", "warm", "hot"}, Findings)
  \/ \E c \in Check : OfCheck(c)
  \/ OfTap({NoReading} \cup [at : 0 .. time - 1, degrees : {"normal", "warm"}])
HealthSpec == HealthInit /\ [][HealthNext]_healthVars

-----------------------------------------------------------------------------
(* Properties *)

(* Of a check at most the last incident is open.  It is open exactly while the last *)
(* evaluation found an alarm, with that severity, unless a cooldown kept it from     *)
(* being opened; a retired Tap has none.                                             *)
IncidentsSound ==
  \A c \in Check :
    LET list == incidents[c]  row == rows[c]
    IN /\ \A i \in 1 .. Len(list) - 1 :
            list[i].resolved # None /\ list[i].resolved <= list[i + 1].opened
       /\ IsOpen(list) =>
            /\ ~tap.retired /\ list[Len(list)].level = row.verdict
            /\ row.verdict = "critical" => list[Len(list)].worst = "critical"
       /\ Alarm(row.verdict) /\ ~IsOpen(list) =>
            row.cooldown # None /\ row.cooldown > row.evaluated

(* An incident never goes away before its retention is over: it is not opened anew, *)
(* its worst severity does not fall and its acknowledgement is not lost.             *)
IncidentsKept ==
  \A c \in Check : \A i \in DOMAIN incidents[c] :
    LET old == incidents[c][i]
    IN \/ old.resolved # None /\ old.resolved < time' - Retention
       \/ \E j \in DOMAIN incidents'[c] :
            LET new == incidents'[c][j]
            IN /\ new.opened = old.opened
               /\ old.resolved # None => new = old
               /\ old.worst = "critical" => new.worst = "critical"
               /\ old.acknowledged => new.acknowledged

(* A timed check alarms only when the condition lasted, measured and without a gap, *)
(* for its whole duration; the leak check only for beer lost since a settled sample  *)
(* of this epoch, a window ago, that no pour has outdated.  A check that was off in  *)
(* the meantime is not held to it: it goes on with what it kept.                     *)
Raised(c) == c \notin lapsed' /\ Alarm(rows'[c].verdict) /\ ~Alarm(rows[c].verdict)
TimersGrounded ==
  /\ Raised("low_keg") => dip' # None /\ time' - dip' >= Settling
  /\ Raised("serving_temperature") => hot' # None /\ time' - hot' >= Duration
LeaksGrounded ==
  Raised("suspected_leak") =>
    \E s \in leak' \ spanned' :
      /\ s.epoch = tap'.epoch /\ s.volume - tap'.volume >= Loss
      /\ tap'.sample.at - s.at >= LeakWindow

AlarmsSound == [][IncidentsKept /\ TimersGrounded /\ LeaksGrounded]_healthVars
=============================================================================
