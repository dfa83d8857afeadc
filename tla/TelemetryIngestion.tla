-------------------------- MODULE TelemetryIngestion --------------------------
(***************************************************************************)
(* Telemetry ingestion (src/features/telemetry/service.ts, repository.ts,  *)
(* routes.ts): requests authenticated before their body has arrived, one   *)
(* transaction per request with the samples of a batch in it, durable      *)
(* receipts, the watermark of each source and Tap, authority, settings     *)
(* and pruning.                                                            *)
(*                                                                         *)
(* A transaction works on a copy of the tables and either replaces them or *)
(* is dropped; nothing else runs while it is open, because the driver and  *)
(* every extension are synchronous.  Whether the rate limiter has a token  *)
(* is left open here: TelemetryRateLimiter is the bucket.                  *)
(***************************************************************************)
EXTENDS Integers, FiniteSets, Sequences

CONSTANTS
  Source, Tap, ClientId, Value,
  NoSource, NoClientId,   \* no authority; a sample without client_sample_id
  Settings,               \* the settings operators ask for
  Samples,                \* the samples sources send
  MaxTime,                \* bound on the clock, assumed monotone
  MaxBatch,               \* maxBatchSize
  MaxAssignments,         \* bound on assignments ever opened
  PruneBatch              \* TELEMETRY_PRUNE_BATCH_SIZE

Time == 0 .. MaxTime
Sample == [id : ClientId \cup {NoClientId}, tap : Tap, at : Time, value : Value]
Setting == [horizon : Nat, skew : Nat, raw : Nat, receipts : Nat]
Limit == [horizon : Nat, skew : Nat, receipts : Nat]

ASSUME IngestionAssumption ==
  /\ NoSource \notin Source /\ NoClientId \notin ClientId
  /\ MaxTime \in Nat /\ MaxBatch \in Nat \ {0} /\ PruneBatch \in Nat \ {0}
  /\ MaxAssignments \in Nat
  /\ Settings \subseteq Setting /\ Samples \subseteq Sample

VARIABLES
  now, settings,
  limits,       \* history: the longest horizon, the largest future skew and the
                \* shortest retention of receipts that were ever in force
  disabled,     \* sources that were disabled
  authority,    \* tap_telemetry_authority
  retired,      \* retired Taps
  assignments,  \* tap_assignment_lifecycles, in the order they were opened
  reading,      \* sources with an authenticated request whose body is awaited
  db,           \* the telemetry tables, with the history the properties need
  tx            \* the transaction of one request

operatorVars == <<settings, limits, disabled, authority, retired, assignments>>
vars == <<now, operatorVars, reading, db, tx>>

None == 0
Open == -1      \* ended_at of an active assignment
Codes == {"telemetry.accepted", "telemetry.not_authoritative", "telemetry.tap_retired",
          "telemetry.future_timestamp", "telemetry.stale_timestamp", "telemetry.out_of_order"}
Receipt == [source : Source, sample : Sample, code : Codes, received : Time]
Measurement == [source : Source, tap : Tap, at : Time, received : Time,
                assignment : 0 .. MaxAssignments]
Answer == [source : Source, sample : Sample, code : Codes]
Assignment == [tap : Tap, from : Time, to : Time \cup {Open}]

\* receipts, measurements, the latest measured time of each source and Tap;
\* history: every measurement ever accepted, the first durable answer to each
\* sample, and whether a replay was ever answered differently: one that was looked
\* up by its identity (unlike), or one whose batch contradicted it (overruled).
Tables == [receipts : SUBSET Receipt, measurements : SUBSET Measurement,
           watermark : [Source -> [Tap -> Time \cup {-1}]],
           log : Seq(Measurement), answers : SUBSET Answer,
           unlike : BOOLEAN, overruled : BOOLEAN]
Transaction == [open : BOOLEAN, source : Source \cup {NoSource}, todo : SUBSET Sample,
                work : Tables]

\* Types, and a closed transaction that holds nothing back: routes and service.
TypeOK ==
  /\ now \in Time /\ settings \in Setting /\ limits \in Limit
  /\ disabled \subseteq Source /\ retired \subseteq Tap /\ reading \subseteq Source
  /\ authority \in [Tap -> Source \cup {NoSource}]
  /\ assignments \in Seq(Assignment)
  /\ db \in Tables /\ tx \in Transaction
  /\ tx.open => tx.source \in Source
  /\ ~tx.open => tx.todo = {} /\ tx.work = db

-----------------------------------------------------------------------------
Idle(d) == [open |-> FALSE, source |-> NoSource, todo |-> {}, work |-> d]
Empty == [receipts |-> {}, measurements |-> {},
          watermark |-> [s \in Source |-> [t \in Tap |-> -1]],
          log |-> <<>>, answers |-> {}, unlike |-> FALSE, overruled |-> FALSE]
\* The limits when x joins what was in force before.
Widened(l, x) ==
  [horizon |-> IF x.horizon > l.horizon THEN x.horizon ELSE l.horizon,
   skew |-> IF x.skew > l.skew THEN x.skew ELSE l.skew,
   receipts |-> IF x.receipts < l.receipts THEN x.receipts ELSE l.receipts]
LegalSettings(x) == x.receipts >= x.horizon /\ x.receipts >= x.raw

Init ==
  /\ now = 0 /\ settings \in {x \in Settings : LegalSettings(x)}
  /\ limits = [horizon |-> settings.horizon, skew |-> settings.skew,
               receipts |-> settings.receipts]
  /\ disabled = {} /\ retired = {} /\ reading = {}
  /\ authority = [t \in Tap |-> NoSource] /\ assignments = <<>>
  /\ db = Empty /\ tx = Idle(Empty)

-----------------------------------------------------------------------------
(* One sample inside the transaction. *)
SameIdentity(x, y) ==
  \/ x.id # NoClientId /\ x.id = y.id
  \/ x.id = NoClientId /\ y.id = NoClientId /\ x.tap = y.tap /\ x.at = y.at
Known(d, s, x) == {r \in d.receipts : r.source = s /\ SameIdentity(x, r.sample)}

\* The checks behind the receipt and the rate limiter, in the order of the code.
Verdict(d, s, x) ==
  IF authority[x.tap] # s THEN "telemetry.not_authoritative"
  ELSE IF x.tap \in retired THEN "telemetry.tap_retired"
  ELSE IF x.at > now + settings.skew THEN "telemetry.future_timestamp"
  ELSE IF x.at < now - settings.horizon THEN "telemetry.stale_timestamp"
  ELSE IF x.at <= d.watermark[s][x.tap] THEN "telemetry.out_of_order"
  ELSE "telemetry.accepted"

Active(t) == {i \in DOMAIN assignments : assignments[i].tap = t /\ assignments[i].to = Open}
\* As a bug: the assignment of today, whatever the age of the sample.
AttributionNow(x) ==
  IF Active(x.tap) = {} THEN None ELSE CHOOSE i \in Active(x.tap) : TRUE
Attribution(x) ==
  LET a == {i \in Active(x.tap) : x.at >= assignments[i].from}
  IN  IF a = {} THEN None ELSE CHOOSE i \in a : TRUE

\* History: the first durable answer given while the sample could be accepted,
\* and a later, different one.
InWindow(x) == now - settings.horizon <= x.at /\ x.at <= now + settings.skew
Unlike(d, s, x, code) ==
  InWindow(x) /\ \E a \in d.answers : a.source = s /\ a.sample = x /\ a.code # code
Noted(d, s, x, code) ==
  IF InWindow(x) /\ ~\E a \in d.answers : a.source = s /\ a.sample = x
  THEN d.answers \cup {[source |-> s, sample |-> x, code |-> code]} ELSE d.answers

Answered(d, s, x, code) == [d EXCEPT !.unlike = @ \/ Unlike(d, s, x, code)]
Receipted(d, s, x, code) ==
  [d EXCEPT !.receipts = @ \cup {[source |-> s, sample |-> x, code |-> code, received |-> now]},
            !.answers = Noted(d, s, x, code),
            !.unlike = @ \/ Unlike(d, s, x, code)]
Advanced(w, s, x) == [w EXCEPT ![s][x.tap] = x.at]
Measured(d, s, x) ==
  LET row == [source |-> s, tap |-> x.tap, at |-> x.at, received |-> now,
              assignment |-> Attribution(x)]
  IN  [d EXCEPT !.measurements = @ \cup {row}, !.log = Append(@, row),
                !.watermark = Advanced(@, s, x)]

\* Another answer for the identity of a receipt.
Replayed(d, s, x) ==
  LET r == CHOOSE r \in Known(d, s, x) : TRUE
  IN  Answered(d, s, x, IF r.sample = x THEN r.code ELSE "telemetry.idempotency_conflict")
Judged(d, s, x) ==
  LET code == Verdict(d, s, x)
  IN  Receipted(IF code = "telemetry.accepted" THEN Measured(d, s, x) ELSE d, s, x, code)

\* As a bug: the rate limiter is asked before the receipt.
OutcomesLimitedFirst(d, s, x) ==
  {Answered(d, s, x, "telemetry.rate_limited"),
   IF Known(d, s, x) # {} THEN Replayed(d, s, x) ELSE Judged(d, s, x)}
\* As a bug: a sample refused by the limiter leaves a receipt.
OutcomesLimitedReceipt(d, s, x) ==
  IF Known(d, s, x) # {} THEN {Replayed(d, s, x)}
  ELSE {Judged(d, s, x), Receipted(d, s, x, "telemetry.rate_limited")}

\* processSingleSample: a receipt answers first; only a new identity costs a
\* token, and a sample refused by the limiter leaves no receipt.
Outcomes(d, s, x) ==
  IF Known(d, s, x) # {} THEN {Replayed(d, s, x)}
  ELSE {Judged(d, s, x), Answered(d, s, x, "telemetry.rate_limited")}

-----------------------------------------------------------------------------
(* Requests. *)
Authenticate(s) ==
  /\ ~tx.open /\ s \notin disabled
  /\ reading' = reading \cup {s}
  /\ UNCHANGED <<now, operatorVars, db, tx>>

\* Samples of one batch that share an identity and differ are all answered with a
\* conflict, before any receipt is looked up; equal ones are one sample here.
Conflicting(batch) == {x \in batch : \E y \in batch : x # y /\ SameIdentity(x, y)}
Overruled(d, s, batch) ==
  [d EXCEPT !.overruled = @ \/ \E x \in Conflicting(batch) :
                                 Unlike(d, s, x, "telemetry.idempotency_conflict")]
Batches == {b \in SUBSET Samples : b # {} /\ Cardinality(b) <= MaxBatch}

\* The body has arrived: the transaction begins with the source as it was
\* authenticated.  Another request of that source may still be reading.
Ingest(s, batch) ==
  /\ ~tx.open /\ s \in reading
  /\ reading' \in {reading, reading \ {s}}
  /\ tx' = [open |-> TRUE, source |-> s, todo |-> batch \ Conflicting(batch),
            work |-> Overruled(db, s, batch)]
  /\ UNCHANGED <<now, operatorVars, db>>

\* The samples of a batch in the order of their measured time.
Process(x) ==
  /\ tx.open /\ x \in tx.todo
  /\ \A y \in tx.todo : x.at <= y.at
  /\ \E d \in Outcomes(tx.work, tx.source, x) :
       tx' = [tx EXCEPT !.todo = @ \ {x}, !.work = d]
  /\ UNCHANGED <<now, operatorVars, reading, db>>

Commit ==
  /\ tx.open /\ tx.todo = {}
  /\ db' = tx.work /\ tx' = Idle(tx.work)
  /\ UNCHANGED <<now, operatorVars, reading>>

\* A Tap that vanished, a hook or a statement that throws: all of it is undone.
Rollback ==
  /\ tx.open
  /\ tx' = Idle(db)
  /\ UNCHANGED <<now, operatorVars, reading, db>>

\* An invalid body, an unknown Tap or a client that hangs up.
Abandon(s) ==
  /\ ~tx.open /\ s \in reading
  /\ reading' = reading \ {s}
  /\ UNCHANGED <<now, operatorVars, db, tx>>

Restart ==
  /\ reading # {} \/ tx.open
  /\ reading' = {} /\ tx' = Idle(db)
  /\ UNCHANGED <<now, operatorVars, db>>

-----------------------------------------------------------------------------
(* Pruning, by the minute, every 100 samples, and on demand. *)
Oldest(rows) ==
  {cut \in SUBSET rows :
     /\ Cardinality(cut) = IF Cardinality(rows) < PruneBatch THEN Cardinality(rows)
                                                             ELSE PruneBatch
     /\ \A a \in cut : \A b \in rows \ cut : a.received <= b.received}
RawExpired == {m \in db.measurements : m.received < now - settings.raw}
ReceiptsExpired == {r \in db.receipts : r.received < now - settings.receipts}
\* As a bug: the status of a Tap goes with its latest measurement.
PrunedWithStatus(raw, old) ==
  [db EXCEPT !.measurements = @ \ raw, !.receipts = @ \ old,
             !.watermark = [s \in Source |-> [t \in Tap |->
               IF \E m \in raw : m.source = s /\ m.tap = t /\ m.at = @[s][t]
               THEN -1 ELSE @[s][t]]]]
Pruned(raw, old) == [db EXCEPT !.measurements = @ \ raw, !.receipts = @ \ old]

Prune ==
  /\ ~tx.open
  /\ \E raw \in Oldest(RawExpired), old \in Oldest(ReceiptsExpired) :
       db' = Pruned(raw, old) /\ tx' = Idle(Pruned(raw, old))
  /\ UNCHANGED <<now, operatorVars, reading>>

-----------------------------------------------------------------------------
(* Operators: settings, sources, authority, Taps and what is on them. *)
UpdateSettings(x) ==
  /\ ~tx.open /\ LegalSettings(x)
  /\ settings' = x /\ limits' = Widened(limits, x)
  /\ UNCHANGED <<now, disabled, authority, retired, assignments, reading, db, tx>>

MayHold(s) == s = NoSource \/ s \notin disabled
SetAuthority(t, s) ==
  /\ ~tx.open /\ MayHold(s) /\ authority[t] # s
  /\ authority' = [authority EXCEPT ![t] = s]
  /\ UNCHANGED <<now, settings, limits, disabled, retired, assignments, reading, db, tx>>

\* As a bug: authority is not looked at.
HoldsAny(s) == TRUE
HoldsNone(s) == \A t \in Tap : authority[t] # s
DisableSource(s) ==
  /\ ~tx.open /\ s \notin disabled /\ HoldsNone(s)
  /\ disabled' = disabled \cup {s}
  /\ UNCHANGED <<now, settings, limits, authority, retired, assignments, reading, db, tx>>

RetireTap(t) ==
  /\ ~tx.open /\ t \notin retired /\ Active(t) = {}
  /\ retired' = retired \cup {t}
  /\ UNCHANGED <<now, settings, limits, disabled, authority, assignments, reading, db, tx>>

Assign(t) ==
  /\ ~tx.open /\ t \notin retired /\ Active(t) = {} /\ Len(assignments) < MaxAssignments
  /\ assignments' = Append(assignments, [tap |-> t, from |-> now, to |-> Open])
  /\ UNCHANGED <<now, settings, limits, disabled, authority, retired, reading, db, tx>>

Unassign(t) ==
  /\ ~tx.open
  /\ \E i \in Active(t) : assignments' = [assignments EXCEPT ![i].to = now]
  /\ UNCHANGED <<now, settings, limits, disabled, authority, retired, reading, db, tx>>

Tick ==
  /\ ~tx.open /\ now < MaxTime
  /\ now' = now + 1
  /\ UNCHANGED <<operatorVars, reading, db, tx>>

Next ==
  \/ Commit \/ Rollback \/ Restart \/ Prune \/ Tick
  \/ \E s \in Source : Authenticate(s) \/ Abandon(s) \/ DisableSource(s)
                       \/ \E batch \in Batches : Ingest(s, batch)
  \/ \E x \in Samples : Process(x)
  \/ \E x \in Settings : UpdateSettings(x)
  \/ \E t \in Tap : RetireTap(t) \/ Assign(t) \/ Unassign(t)
                    \/ \E s \in Source \cup {NoSource} : SetAuthority(t, s)

Spec == Init /\ [][Next]_vars

-----------------------------------------------------------------------------
(* Properties. *)

\* What a source has accepted for a Tap is strictly ordered by measured time,
\* over everything ever accepted: across replays, batches, pruned receipts and
\* measurements, changed horizons and authority that left and came back.  In
\* particular no measurement is accepted twice (repository.ts,
\* upsertSourceTapStatus; the status rows survive pruning).
AcceptedInOrder ==
  \A i, j \in DOMAIN db.log :
    i < j /\ db.log[i].source = db.log[j].source /\ db.log[i].tap = db.log[j].tap
      => db.log[i].at < db.log[j].at

\* A sample sent again while it could still be accepted gets the first durable
\* answer (service.ts, processSingleSample, the receipt before everything else),
\* provided that receipts were always kept for the longest horizon and the
\* largest future skew together, as the defaults of the settings have it: a
\* shorter retention, or a horizon made longer, may forget what was answered.
\* Excepted are the replies to the members of a batch that share an identity and
\* differ (ingestBatch, as architecture.md describes it): they get a conflict that
\* is not durable, and the sample gets its first answer again when it comes
\* without the other.
Lasting == limits.receipts >= limits.horizon + limits.skew
RepliesAgree == Lasting => ~db.unlike

\* architecture.md: "an existing same-digest receipt returns its original
\* accepted/rejected outcome", and ADR 0004 "the original durable outcome", neither
\* with that exception.
ReceiptsAnswer == Lasting => ~db.unlike /\ ~db.overruled

\* Every raw measurement still has the receipt that answers its replays
\* (service.ts, pruneTelemetry: raw measurements before receipts).
RawHasReceipt ==
  \A m \in db.measurements : \E r \in db.receipts :
    /\ r.code = "telemetry.accepted" /\ r.source = m.source
    /\ r.sample.tap = m.tap /\ r.sample.at = m.at

\* A disabled source has no authority and gets nothing accepted any more, even
\* through a request that was authenticated before (service.ts, disableSource
\* and processSingleSample).
NothingFromDisabled ==
  [][\A s \in disabled : \A t \in Tap :
       authority[t] # s /\ db'.watermark[s][t] = db.watermark[s][t]]_vars

\* A measurement is attributed only to the assignment that was on its Tap when
\* it was taken, however late it arrives (service.ts, acceptSample).  Samples
\* that claim a later time than their arrival are attributed to what is there.
OnTapWhenMeasured ==
  \A i \in DOMAIN db.log :
    LET m == db.log[i] IN
    m.assignment # None =>
      LET a == assignments[m.assignment] IN
      /\ a.tap = m.tap /\ a.from <= m.at
      /\ m.at <= m.received /\ a.to # Open => m.at <= a.to

MeasurementsSound == RawHasReceipt /\ OnTapWhenMeasured
=============================================================================
