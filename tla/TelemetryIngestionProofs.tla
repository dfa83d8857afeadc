----------------------- MODULE TelemetryIngestionProofs -----------------------
(***************************************************************************)
(* Theorems about TelemetryIngestion, for every set of sources, Taps,      *)
(* samples and settings and every bound: what is accepted is strictly      *)
(* ordered, a disabled source gets nothing accepted, a measurement belongs *)
(* to the assignment it was taken under, and replays get the first answer. *)
(*                                                                         *)
(* The invariant behind both says that the watermark is above everything   *)
(* accepted, in the committed tables and in the copy of an open            *)
(* transaction, and that the copy has touched no watermark of a disabled   *)
(* source.                                                                 *)
(***************************************************************************)
EXTENDS TelemetryIngestion, FiniteSetTheorems, TLAPS

\* Everything accepted lies at or below the watermark, in strict order.
Sound(d) ==
  \A i \in 1 .. Len(d.log) :
    /\ d.log[i].at <= d.watermark[d.log[i].source][d.log[i].tap]
    /\ \A j \in 1 .. Len(d.log) :
         i < j /\ d.log[i].source = d.log[j].source /\ d.log[i].tap = d.log[j].tap
           => d.log[i].at < d.log[j].at

AuthorityEnabled == \A s \in disabled : \A t \in Tap : authority[t] # s

IInv ==
  /\ TypeOK /\ Len(assignments) <= MaxAssignments
  /\ Sound(db) /\ Sound(tx.work)
  /\ AuthorityEnabled
  /\ \A s \in disabled : tx.work.watermark[s] = db.watermark[s]

-----------------------------------------------------------------------------
(* What one sample does to a copy of the tables. *)

LEMMA AnsweredKeeps ==
  ASSUME NEW d \in Tables, NEW s, NEW x, NEW code
  PROVE  /\ Answered(d, s, x, code) \in Tables
         /\ Answered(d, s, x, code).log = d.log
         /\ Answered(d, s, x, code).watermark = d.watermark
<1>1. (d.unlike \/ Unlike(d, s, x, code)) \in BOOLEAN  BY DEF Unlike
<1> DEFINE u == d.unlike \/ Unlike(d, s, x, code)
<1>2. u \in BOOLEAN /\ Answered(d, s, x, code) = [d EXCEPT !.unlike = u]
  BY <1>1 DEF Answered
<1> HIDE DEF u
<1> QED BY <1>2 DEF Tables

LEMMA ReceiptedKeeps ==
  ASSUME NEW d \in Tables, NEW s \in Source, NEW x \in Sample, NEW code \in Codes,
         now \in Time
  PROVE  /\ Receipted(d, s, x, code) \in Tables
         /\ Receipted(d, s, x, code).log = d.log
         /\ Receipted(d, s, x, code).watermark = d.watermark
<1> DEFINE r == d.receipts \cup {[source |-> s, sample |-> x, code |-> code, received |-> now]}
           a == Noted(d, s, x, code)
           u == d.unlike \/ Unlike(d, s, x, code)
<1>1. r \in SUBSET Receipt  BY DEF Tables, Receipt
<1>2. a \in SUBSET Answer  BY DEF Noted, Tables, Answer
<1>3. u \in BOOLEAN  BY DEF Unlike
<1>4. Receipted(d, s, x, code) = [d EXCEPT !.receipts = r, !.answers = a, !.unlike = u]
  BY DEF Receipted
<1> HIDE DEF r, a, u
<1> QED BY <1>1, <1>2, <1>3, <1>4 DEF Tables

LEMMA AttributionType ==
  ASSUME assignments \in Seq(Assignment), Len(assignments) <= MaxAssignments,
         MaxAssignments \in Nat, NEW x
  PROVE  Attribution(x) \in 0 .. MaxAssignments
<1> DEFINE a == {i \in Active(x.tap) : x.at >= assignments[i].from}
<1>1. \A i \in a : i \in 0 .. MaxAssignments  BY DEF Active
<1>2. Attribution(x) = IF a = {} THEN None ELSE CHOOSE i \in a : TRUE  BY DEF Attribution
<1> HIDE DEF a
<1> QED BY <1>1, <1>2 DEF None

\* Appending a row above its watermark, and raising the watermark to it.
LEMMA MeasuredKeeps ==
  ASSUME NEW d \in Tables, Sound(d), NEW s \in Source, NEW x \in Sample,
         now \in Time, MaxTime \in Nat, Attribution(x) \in 0 .. MaxAssignments,
         x.at > d.watermark[s][x.tap]
  PROVE  /\ Measured(d, s, x) \in Tables /\ Sound(Measured(d, s, x))
         /\ \A q \in Source : q # s => Measured(d, s, x).watermark[q] = d.watermark[q]
<1> DEFINE row == [source |-> s, tap |-> x.tap, at |-> x.at, received |-> now,
                   assignment |-> Attribution(x)]
           ms == d.measurements \cup {row}
           lg == Append(d.log, row)
           w == Advanced(d.watermark, s, x)
           e == Measured(d, s, x)
           n == Len(d.log)
<1>1. row \in Measurement /\ x.at \in Time /\ x.tap \in Tap  BY DEF Measurement, Sample
<1>2. row.source = s /\ row.tap = x.tap /\ row.at = x.at  OBVIOUS
<1>3. d.log \in Seq(Measurement) /\ d.watermark \in [Source -> [Tap -> Time \cup {-1}]]
  BY DEF Tables
<1>4. w \in [Source -> [Tap -> Time \cup {-1}]]  BY <1>1, <1>3 DEF Advanced
<1>5. /\ w[s][x.tap] = x.at
      /\ \A q \in Source, t \in Tap : q # s \/ t # x.tap => w[q][t] = d.watermark[q][t]
      /\ \A q \in Source : q # s => w[q] = d.watermark[q]
  BY <1>1, <1>3 DEF Advanced
<1> HIDE DEF row, w
<1>6. lg \in Seq(Measurement) /\ ms \in SUBSET Measurement
  BY <1>1, <1>3 DEF Tables
<1>7. /\ n \in Nat /\ Len(lg) = n + 1 /\ lg[n + 1] = row
      /\ \A i \in 1 .. n : lg[i] = d.log[i]
      /\ \A i \in 1 .. n : d.log[i] \in Measurement
  BY <1>1, <1>3
<1>8. e = [d EXCEPT !.measurements = ms, !.log = lg, !.watermark = w]
  BY DEF Measured, row, w
<1> HIDE DEF ms, lg, n, e
<1>9. e \in Tables /\ e.log = lg /\ e.watermark = w
  BY <1>4, <1>6, <1>8 DEF Tables
<1>10. ASSUME NEW i \in 1 .. n
       PROVE /\ lg[i].at <= w[lg[i].source][lg[i].tap]
             /\ lg[i].source = s /\ lg[i].tap = x.tap => lg[i].at < x.at
  <2> DEFINE m == d.log[i]
  <2>1. lg[i] = m /\ m.source \in Source /\ m.tap \in Tap /\ m.at \in Time
    BY <1>7 DEF Measurement
  <2>2. m.at <= d.watermark[m.source][m.tap]  BY DEF Sound, n
  <2>3. m.at \in Int /\ x.at \in Int /\ d.watermark[m.source][m.tap] \in Int
        /\ d.watermark[s][x.tap] \in Int
    BY <1>1, <1>3, <2>1 DEF Time
  <2> HIDE DEF m
  <2>4. CASE m.source = s /\ m.tap = x.tap  BY <1>5, <2>1, <2>2, <2>3, <2>4
  <2>5. CASE m.source # s \/ m.tap # x.tap  BY <1>5, <2>1, <2>2, <2>5
  <2> QED BY <2>4, <2>5
<1>11. ASSUME NEW i \in 1 .. n + 1, NEW j \in 1 .. n + 1, i < j,
              lg[i].source = lg[j].source, lg[i].tap = lg[j].tap
       PROVE  lg[i].at < lg[j].at
  <2>1. i \in 1 .. n  BY <1>7, <1>11
  <2>2. CASE j = n + 1  BY <1>2, <1>7, <1>10, <1>11, <2>1, <2>2
  <2>3. CASE j # n + 1
    <3>1. j \in 1 .. n  BY <1>7, <2>3
    <3>2. lg[i] = d.log[i] /\ lg[j] = d.log[j]  BY <1>7, <2>1, <3>1
    <3> QED BY <1>11, <2>1, <3>1, <3>2 DEF Sound, n
  <2> QED BY <2>2, <2>3
<1>12. ASSUME NEW i \in 1 .. n + 1 PROVE lg[i].at <= w[lg[i].source][lg[i].tap]
  <2>1. CASE i = n + 1
    <3>1. x.at \in Int  BY <1>1 DEF Time
    <3> QED BY <1>2, <1>5, <1>7, <2>1, <3>1
  <2>2. CASE i # n + 1
    <3>1. i \in 1 .. n  BY <1>7, <2>2
    <3> QED BY <1>10, <3>1
  <2> QED BY <2>1, <2>2
<1>13. Sound(e)  BY <1>7, <1>9, <1>11, <1>12 DEF Sound
<1> QED BY <1>5, <1>9, <1>13 DEF e

\* A batch that contradicts itself leaves the tables as they were, but for the history.
LEMMA OverruledFields ==
  ASSUME NEW d \in Tables, NEW s, NEW batch
  PROVE  LET e == Overruled(d, s, batch) IN
         /\ e \in Tables /\ e.log = d.log /\ e.watermark = d.watermark
         /\ e.receipts = d.receipts /\ e.measurements = d.measurements
         /\ e.answers = d.answers /\ e.unlike = d.unlike
<1> DEFINE o == d.overruled \/ \E x \in Conflicting(batch) :
                                 Unlike(d, s, x, "telemetry.idempotency_conflict")
<1>1. Overruled(d, s, batch) = [d EXCEPT !.overruled = o]  BY DEF Overruled
<1>2. o \in BOOLEAN  BY DEF Tables
<1> HIDE DEF o
<1> QED BY <1>1, <1>2 DEF Tables

\* Only the log and the watermark matter.
LEMMA SoundOf ==
  ASSUME NEW d, NEW e, Sound(d), e.log = d.log, e.watermark = d.watermark
  PROVE  Sound(e)
BY DEF Sound

LEMMA VerdictType ==
  ASSUME NEW d, NEW s, NEW x PROVE Verdict(d, s, x) \in Codes
BY DEF Verdict, Codes

LEMMA Accepts ==
  ASSUME NEW d \in Tables, NEW s \in Source, NEW x \in Sample, MaxTime \in Nat,
         Verdict(d, s, x) = "telemetry.accepted"
  PROVE  authority[x.tap] = s /\ x.at > d.watermark[s][x.tap]
<1>1. x.at \in Int /\ d.watermark[s][x.tap] \in Int  BY DEF Sample, Tables, Time
<1>2. authority[x.tap] = s /\ ~(x.at <= d.watermark[s][x.tap])  BY DEF Verdict
<1> QED BY <1>1, <1>2

LEMMA SampleKeeps ==
  ASSUME IngestionAssumption, IInv, NEW d \in Tables, Sound(d),
         NEW s \in Source, NEW x \in Sample, NEW e \in Outcomes(d, s, x)
  PROVE  /\ e \in Tables /\ Sound(e)
         /\ \A q \in Source : q # s \/ authority[x.tap] # s => e.watermark[q] = d.watermark[q]
<1>0. now \in Time /\ MaxTime \in Nat /\ Attribution(x) \in 0 .. MaxAssignments
  BY AttributionType DEF IngestionAssumption, IInv, TypeOK
<1>1. CASE \E code : e = Answered(d, s, x, code)
  BY <1>1, AnsweredKeeps, SoundOf
<1>2. CASE e = Judged(d, s, x)
  <2> DEFINE code == Verdict(d, s, x)
             c == IF code = "telemetry.accepted" THEN Measured(d, s, x) ELSE d
  <2>1. code \in Codes  BY VerdictType
  <2>2. /\ c \in Tables /\ Sound(c)
        /\ \A q \in Source : q # s \/ authority[x.tap] # s => c.watermark[q] = d.watermark[q]
    <3>1. CASE code = "telemetry.accepted"
      <4>1. authority[x.tap] = s /\ x.at > d.watermark[s][x.tap]  BY <1>0, <3>1, Accepts
      <4>2. c = Measured(d, s, x)  BY <3>1
      <4> HIDE DEF c, code
      <4> QED BY <1>0, <4>1, <4>2, MeasuredKeeps
    <3>2. CASE code # "telemetry.accepted"  BY <3>2
    <3> QED BY <3>1, <3>2
  <2>3. e = Receipted(c, s, x, code)  BY <1>2 DEF Judged
  <2> HIDE DEF c, code
  <2>4. e \in Tables /\ e.log = c.log /\ e.watermark = c.watermark
    BY <1>0, <2>1, <2>2, <2>3, ReceiptedKeeps
  <2> QED BY <2>2, <2>4, SoundOf
<1>3. e = Judged(d, s, x) \/ \E code : e = Answered(d, s, x, code)
  BY DEF Outcomes, Replayed
<1> QED BY <1>1, <1>2, <1>3

-----------------------------------------------------------------------------
\* What is in force is within the limits.
WithinLimits ==
  /\ settings.horizon <= limits.horizon /\ settings.skew <= limits.skew
  /\ limits.receipts <= settings.receipts

LEMMA WidenedHolds ==
  ASSUME NEW l \in Limit, NEW x \in Setting
  PROVE  LET w == Widened(l, x) IN
         /\ w \in Limit
         /\ l.horizon <= w.horizon /\ l.skew <= w.skew /\ w.receipts <= l.receipts
         /\ x.horizon <= w.horizon /\ x.skew <= w.skew /\ w.receipts <= x.receipts
<1> DEFINE h == IF x.horizon > l.horizon THEN x.horizon ELSE l.horizon
           k == IF x.skew > l.skew THEN x.skew ELSE l.skew
           c == IF x.receipts < l.receipts THEN x.receipts ELSE l.receipts
<1>1. /\ l.horizon \in Nat /\ l.skew \in Nat /\ l.receipts \in Nat
      /\ x.horizon \in Nat /\ x.skew \in Nat /\ x.receipts \in Nat
  BY DEF Limit, Setting
<1>2. /\ h \in Nat /\ l.horizon <= h /\ x.horizon <= h
      /\ k \in Nat /\ l.skew <= k /\ x.skew <= k
      /\ c \in Nat /\ c <= l.receipts /\ c <= x.receipts
  BY <1>1
<1>3. Widened(l, x) = [horizon |-> h, skew |-> k, receipts |-> c]
  BY DEF Widened
<1> HIDE DEF h, k, c
<1> QED
  BY <1>2, <1>3 DEF Limit

LEMMA Initially == ASSUME IngestionAssumption, Init PROVE IInv
<1>1. Empty \in Tables
  BY DEF Empty, Tables, Time
<1>2. Empty.log = <<>>  BY DEF Empty
<1>3. Sound(Empty)  BY <1>2 DEF Sound
<1>4. tx = Idle(Empty) /\ db = Empty  BY DEF Init
<1> HIDE DEF Empty
<1>5. Idle(Empty) \in Transaction /\ ~tx.open /\ tx.todo = {} /\ tx.work = db
  BY <1>1, <1>4 DEF Idle, Transaction
<1>6. now \in Time /\ settings \in Setting /\ limits \in Limit
  <2>1. now \in Time /\ settings \in Setting
    BY DEF Init, IngestionAssumption, Time
  <2>2. settings.horizon \in Nat /\ settings.skew \in Nat /\ settings.receipts \in Nat
    BY <2>1 DEF Setting
  <2>3. limits \in Limit
    BY <2>2 DEF Init, Limit
  <2> QED
    BY <2>1, <2>3
<1>7. TypeOK  BY <1>1, <1>4, <1>5, <1>6 DEF TypeOK, Init
<1>8. Len(assignments) <= MaxAssignments  BY DEF Init, IngestionAssumption
<1>9. AuthorityEnabled /\ \A s \in disabled : tx.work.watermark[s] = db.watermark[s]
  BY DEF Init, AuthorityEnabled
<1> QED BY <1>3, <1>4, <1>5, <1>7, <1>8, <1>9 DEF IInv

\* Closing a transaction, with or without its work.
LEMMA Closed ==
  ASSUME NEW d \in Tables
  PROVE  /\ Idle(d) \in Transaction /\ ~Idle(d).open /\ Idle(d).todo = {} /\ Idle(d).work = d
BY DEF Idle, Transaction

LEMMA EndedType ==
  ASSUME NEW a \in Assignment, NEW t \in Time PROVE [a EXCEPT !.to = t] \in Assignment
BY DEF Assignment

LEMMA Inductive == ASSUME IngestionAssumption, IInv, [Next]_vars PROVE IInv'
<1>0. db \in Tables /\ tx \in Transaction /\ tx.work \in Tables
  BY DEF IInv, TypeOK, Transaction
<1>1. CASE Commit
  <2>1. db' = tx.work /\ tx' = Idle(tx.work) /\ UNCHANGED <<now, operatorVars, reading>>
    BY <1>1 DEF Commit
  <2>2. TypeOK'  BY <1>0, <2>1, Closed DEF IInv, TypeOK, operatorVars
  <2> QED BY <1>0, <2>1, <2>2, Closed DEF IInv, AuthorityEnabled, operatorVars
<1>2. CASE Rollback
  <2>1. tx' = Idle(db) /\ UNCHANGED <<now, operatorVars, reading, db>>  BY <1>2 DEF Rollback
  <2>2. TypeOK'  BY <1>0, <2>1, Closed DEF IInv, TypeOK, operatorVars
  <2> QED BY <1>0, <2>1, <2>2, Closed DEF IInv, AuthorityEnabled, operatorVars
<1>3. CASE Restart
  <2>1. tx' = Idle(db) /\ reading' = {} /\ UNCHANGED <<now, operatorVars, db>>
    BY <1>3 DEF Restart
  <2>2. TypeOK'  BY <1>0, <2>1, Closed DEF IInv, TypeOK, operatorVars
  <2> QED BY <1>0, <2>1, <2>2, Closed DEF IInv, AuthorityEnabled, operatorVars
<1>4. CASE Prune
  <2>1. PICK raw, old : db' = Pruned(raw, old) /\ tx' = Idle(Pruned(raw, old))
    BY <1>4 DEF Prune
  <2> DEFINE e == Pruned(raw, old)
  <2>2. e \in Tables /\ e.log = db.log /\ e.watermark = db.watermark
    <3>1. db.measurements \ raw \in SUBSET Measurement /\ db.receipts \ old \in SUBSET Receipt
      BY <1>0 DEF Tables
    <3> QED BY <1>0, <3>1 DEF Pruned, Tables
  <2>3. Sound(e)  BY <2>2, SoundOf DEF IInv
  <2>4. UNCHANGED <<now, operatorVars, reading>>  BY <1>4 DEF Prune
  <2> HIDE DEF e
  <2>5. db' = e /\ tx' = Idle(e)  BY <2>1 DEF e
  <2>6. TypeOK'  BY <2>2, <2>4, <2>5, Closed DEF IInv, TypeOK, operatorVars
  <2> QED BY <2>2, <2>3, <2>4, <2>5, <2>6, Closed DEF IInv, AuthorityEnabled, operatorVars
<1>5. CASE Tick
  <2>1. now' \in Time  BY <1>5 DEF Tick, IInv, TypeOK, Time
  <2> QED BY <1>5, <2>1 DEF Tick, IInv, TypeOK, AuthorityEnabled, operatorVars
<1>6. ASSUME NEW s \in Source, Authenticate(s) \/ Abandon(s) PROVE IInv'
  BY <1>6 DEF Authenticate, Abandon, IInv, TypeOK, AuthorityEnabled, operatorVars
<1>7. ASSUME NEW s \in Source, DisableSource(s) PROVE IInv'
  <2>1. AuthorityEnabled'
    BY <1>7 DEF DisableSource, HoldsNone, IInv, AuthorityEnabled
  <2>2. ~tx.open /\ tx.work = db  BY <1>7 DEF DisableSource, IInv, TypeOK
  <2>3. TypeOK'  BY <1>7 DEF DisableSource, IInv, TypeOK
  <2> QED BY <1>7, <2>1, <2>2, <2>3 DEF DisableSource, IInv
<1>8. ASSUME NEW s \in Source, NEW batch \in Batches, Ingest(s, batch) PROVE IInv'
  <2>1. batch \ Conflicting(batch) \in SUBSET Sample
    BY DEF Batches, IngestionAssumption
  <2> DEFINE e == Overruled(db, s, batch)
  <2>2. e \in Tables /\ e.log = db.log /\ e.watermark = db.watermark
    BY <1>0, OverruledFields
  <2>3. Sound(e)  BY <2>2, SoundOf DEF IInv
  <2>4. tx' = [open |-> TRUE, source |-> s, todo |-> batch \ Conflicting(batch), work |-> e]
    BY <1>8 DEF Ingest
  <2> HIDE DEF e
  <2>5. tx' \in Transaction /\ tx'.open /\ tx'.source = s /\ tx'.work = e
    BY <2>1, <2>2, <2>4 DEF Transaction
  <2>6. UNCHANGED <<now, operatorVars, db>> /\ reading' \subseteq Source
    BY <1>8 DEF Ingest, IInv, TypeOK
  <2>7. TypeOK'  BY <2>5, <2>6 DEF IInv, TypeOK, operatorVars
  <2> QED BY <2>2, <2>3, <2>5, <2>6, <2>7 DEF IInv, AuthorityEnabled, operatorVars
<1>9. ASSUME NEW x \in Samples, Process(x) PROVE IInv'
  <2>1. x \in Sample /\ tx.open /\ tx.source \in Source /\ Sound(tx.work)
    BY <1>9 DEF Process, IngestionAssumption, IInv, TypeOK
  <2>2. PICK e \in Outcomes(tx.work, tx.source, x) :
          tx' = [tx EXCEPT !.todo = @ \ {x}, !.work = e]
    BY <1>9 DEF Process
  <2>3. /\ e \in Tables /\ Sound(e)
        /\ \A q \in Source : q # tx.source \/ authority[x.tap] # tx.source
                               => e.watermark[q] = tx.work.watermark[q]
    BY <1>0, <2>1, SampleKeeps
  <2>4. /\ tx' \in Transaction /\ tx'.open /\ tx'.source = tx.source /\ tx'.work = e
    <3>1. tx.todo \ {x} \in SUBSET Sample  BY <1>0 DEF Transaction
    <3> QED BY <1>0, <2>1, <2>2, <2>3, <3>1 DEF Transaction
  <2>5. UNCHANGED <<now, operatorVars, reading, db>>  BY <1>9 DEF Process
  <2>6. TypeOK'  BY <2>1, <2>4, <2>5 DEF IInv, TypeOK, operatorVars
  <2>7. ASSUME NEW q \in disabled PROVE e.watermark[q] = db.watermark[q]
    <3>1. x.tap \in Tap /\ q \in Source  BY <2>1 DEF Sample, IInv, TypeOK
    <3>2. authority[x.tap] # q /\ tx.work.watermark[q] = db.watermark[q]
      BY <3>1 DEF IInv, AuthorityEnabled
    <3> QED BY <2>3, <3>1, <3>2
  <2> QED BY <2>3, <2>4, <2>5, <2>6, <2>7 DEF IInv, AuthorityEnabled, operatorVars
<1>10. ASSUME NEW x \in Settings, UpdateSettings(x) PROVE IInv'
  <2>1. x \in Setting /\ limits \in Limit
    BY <1>10 DEF UpdateSettings, IngestionAssumption, IInv, TypeOK
  <2>2. limits' \in Limit /\ settings' \in Setting
    BY <1>10, <2>1, WidenedHolds DEF UpdateSettings
  <2> QED
    BY <1>10, <2>2 DEF UpdateSettings, IInv, TypeOK, AuthorityEnabled
<1>11. ASSUME NEW t \in Tap, RetireTap(t) PROVE IInv'
  BY <1>11 DEF RetireTap, IInv, TypeOK, AuthorityEnabled
<1>12. ASSUME NEW t \in Tap, Assign(t) PROVE IInv'
  <2> DEFINE a == [tap |-> t, from |-> now, to |-> Open]
  <2>1. a \in Assignment  BY DEF Assignment, IInv, TypeOK
  <2>2. assignments' = Append(assignments, a) /\ Len(assignments) < MaxAssignments
    BY <1>12 DEF Assign
  <2> HIDE DEF a
  <2>3. assignments' \in Seq(Assignment) /\ Len(assignments') <= MaxAssignments
    BY <2>1, <2>2 DEF IInv, TypeOK, IngestionAssumption
  <2> QED BY <1>12, <2>3 DEF Assign, IInv, TypeOK, AuthorityEnabled
<1>13. ASSUME NEW t \in Tap, Unassign(t) PROVE IInv'
  <2>1. PICK i \in Active(t) : assignments' = [assignments EXCEPT ![i].to = now]
    BY <1>13 DEF Unassign
  <2>2. i \in 1 .. Len(assignments)  BY DEF Active, IInv, TypeOK
  <2> DEFINE a == [assignments[i] EXCEPT !.to = now]
  <2>3. a \in Assignment
    <3>1. assignments[i] \in Assignment /\ now \in Time  BY <2>2 DEF IInv, TypeOK
    <3> QED BY <3>1, EndedType
  <2>4. assignments' = [assignments EXCEPT ![i] = a]  BY <2>1
  <2> HIDE DEF a
  <2>5. assignments' \in Seq(Assignment) /\ Len(assignments') = Len(assignments)
    BY <2>2, <2>3, <2>4 DEF IInv, TypeOK
  <2> QED BY <1>13, <2>5 DEF Unassign, IInv, TypeOK, AuthorityEnabled
<1>14. ASSUME NEW t \in Tap, NEW s \in Source \cup {NoSource}, SetAuthority(t, s) PROVE IInv'
  <2>1. authority' \in [Tap -> Source \cup {NoSource}]
    BY <1>14 DEF SetAuthority, IInv, TypeOK
  <2>2. AuthorityEnabled'
    BY <1>14 DEF SetAuthority, MayHold, IInv, TypeOK, AuthorityEnabled, IngestionAssumption
  <2> QED BY <1>14, <2>1, <2>2 DEF SetAuthority, IInv, TypeOK
<1>15. CASE UNCHANGED vars
  BY <1>15 DEF vars, operatorVars, IInv, TypeOK, AuthorityEnabled
<1> QED
  BY <1>1, <1>2, <1>3, <1>4, <1>5, <1>6, <1>7, <1>8, <1>9, <1>10, <1>11, <1>12, <1>13,
     <1>14, <1>15 DEF Next

\* Types, for every instance.
THEOREM TypeCorrect == Spec => []TypeOK
<1>1. ASSUME IngestionAssumption PROVE Init => IInv  BY <1>1, Initially
<1>2. ASSUME IngestionAssumption PROVE IInv /\ [Next]_vars => IInv'  BY <1>2, Inductive
<1>3. IInv => TypeOK  BY DEF IInv
<1> QED BY <1>1, <1>2, <1>3, IngestionAssumption, PTL DEF Spec

\* No measurement is accepted twice or out of order, whatever is pruned and
\* however the settings and the authority change.
THEOREM OrderOfAccepted == Spec => []AcceptedInOrder
<1>1. ASSUME IngestionAssumption PROVE Init => IInv  BY <1>1, Initially
<1>2. ASSUME IngestionAssumption PROVE IInv /\ [Next]_vars => IInv'  BY <1>2, Inductive
<1>3. IInv => AcceptedInOrder
  <2>1. ASSUME IInv PROVE DOMAIN db.log = 1 .. Len(db.log)
    BY <2>1 DEF IInv, TypeOK, Tables
  <2> QED BY <2>1 DEF IInv, Sound, AcceptedInOrder
<1> QED BY <1>1, <1>2, <1>3, IngestionAssumption, PTL DEF Spec

\* A disabled source has no authority and its watermarks never move again.
THEOREM DisabledIsFinal == Spec => NothingFromDisabled
<1> DEFINE Final == \A s \in disabled : \A t \in Tap :
                      authority[t] # s /\ db'.watermark[s][t] = db.watermark[s][t]
<1>1. ASSUME IngestionAssumption PROVE Init => IInv  BY <1>1, Initially
<1>2. ASSUME IngestionAssumption PROVE IInv /\ [Next]_vars => IInv'  BY <1>2, Inductive
<1>3. ASSUME IInv, [Next]_vars PROVE [Final]_vars
  <2>1. AuthorityEnabled /\ \A s \in disabled : tx.work.watermark[s] = db.watermark[s]
    BY <1>3 DEF IInv
  <2>2. db' = db \/ db' = tx.work \/ Prune
    BY <1>3 DEF Next, vars, Commit, Rollback, Restart, Tick, Authenticate, Abandon,
       DisableSource, Ingest, Process, UpdateSettings, RetireTap, Assign, Unassign, SetAuthority
  <2>3. CASE db' = db \/ db' = tx.work  BY <2>1, <2>3 DEF AuthorityEnabled
  <2>4. CASE Prune
    <3>1. PICK raw, old : db' = Pruned(raw, old)  BY <2>4 DEF Prune
    <3>2. db'.watermark = db.watermark  BY <1>3, <3>1 DEF Pruned, IInv, TypeOK, Tables
    <3> QED BY <2>1, <3>2 DEF AuthorityEnabled
  <2> QED BY <2>2, <2>3, <2>4
<1> QED BY <1>1, <1>2, <1>3, IngestionAssumption, PTL DEF Spec, NothingFromDisabled

-----------------------------------------------------------------------------
(* What was accepted: its assignment, and the receipt that answers its replays. *)

\* Every measurement is no newer than the clock, and attributed as OnTapWhenMeasured demands.
Attributed(m, t, list) ==
  /\ m.received <= t
  /\ m.assignment # None =>
       /\ m.assignment \in 1 .. Len(list)
       /\ LET a == list[m.assignment] IN
          /\ a.tap = m.tap /\ a.from <= m.at
          /\ m.at <= m.received /\ a.to # Open => m.at <= a.to
Placed(d, t, list) == \A i \in 1 .. Len(d.log) : Attributed(d.log[i], t, list)

Answers(r, m) ==
  /\ r.code = "telemetry.accepted" /\ r.source = m.source
  /\ r.sample.tap = m.tap /\ r.sample.at = m.at /\ r.received = m.received
Logged(d) == \A m \in d.measurements : \E i \in 1 .. Len(d.log) : d.log[i] = m
Answerable(d) ==
  /\ IsFiniteSet(d.measurements) /\ IsFiniteSet(d.receipts) /\ Logged(d)
  /\ \A m \in d.measurements : \E r \in d.receipts : Answers(r, m)

\* One receipt for an identity; an answer whose receipt cannot have expired has it, made no
\* earlier than the largest skew lets its sample be; and while receipts were kept for the
\* longest horizon and the largest skew together, no answer was unlike the first.
OneReceipt(d) ==
  \A p, q \in d.receipts : p.source = q.source /\ SameIdentity(p.sample, q.sample) => p = q
Covers(l) == l.receipts >= l.horizon + l.skew
Remembered(d, t, l) ==
  \A a \in d.answers : a.sample.at + l.receipts >= t + l.skew =>
    \E r \in d.receipts :
      /\ r.source = a.source /\ r.sample = a.sample /\ r.code = a.code
      /\ r.received + l.skew >= a.sample.at
Consistent(d, t, l) == OneReceipt(d) /\ Remembered(d, t, l) /\ (Covers(l) => ~d.unlike)

-----------------------------------------------------------------------------
(* The fields each outcome leaves alone. *)

LEMMA AnsweredFields ==
  ASSUME NEW d \in Tables, NEW s, NEW x, NEW code
  PROVE  LET e == Answered(d, s, x, code) IN
         /\ e.receipts = d.receipts /\ e.measurements = d.measurements /\ e.log = d.log
         /\ e.answers = d.answers /\ e.unlike = (d.unlike \/ Unlike(d, s, x, code))
<1> DEFINE u == d.unlike \/ Unlike(d, s, x, code)
<1>1. Answered(d, s, x, code) = [d EXCEPT !.unlike = u]
  BY DEF Answered
<1> HIDE DEF u
<1>2. LET e == [d EXCEPT !.unlike = u] IN
      /\ e.receipts = d.receipts /\ e.measurements = d.measurements /\ e.log = d.log
      /\ e.answers = d.answers /\ e.unlike = u
  BY DEF Tables
<1> QED
  BY <1>1, <1>2 DEF u

LEMMA ReceiptedFields ==
  ASSUME NEW d \in Tables, NEW s, NEW x, NEW code
  PROVE  LET e == Receipted(d, s, x, code) IN
         /\ e.receipts = d.receipts \cup {[source |-> s, sample |-> x, code |-> code, received |-> now]}
         /\ e.measurements = d.measurements /\ e.log = d.log
         /\ e.answers = Noted(d, s, x, code)
         /\ e.unlike = (d.unlike \/ Unlike(d, s, x, code))
<1> DEFINE r == d.receipts \cup {[source |-> s, sample |-> x, code |-> code, received |-> now]}
           a == Noted(d, s, x, code)
           u == d.unlike \/ Unlike(d, s, x, code)
<1>1. Receipted(d, s, x, code) = [d EXCEPT !.receipts = r, !.answers = a, !.unlike = u]
  BY DEF Receipted
<1> HIDE DEF r, a, u
<1>2. LET e == [d EXCEPT !.receipts = r, !.answers = a, !.unlike = u] IN
      /\ e.receipts = r /\ e.measurements = d.measurements /\ e.log = d.log
      /\ e.answers = a /\ e.unlike = u
  BY DEF Tables
<1> QED
  BY <1>1, <1>2 DEF r, a, u

Row(s, x) == [source |-> s, tap |-> x.tap, at |-> x.at, received |-> now, assignment |-> Attribution(x)]
LEMMA MeasuredFields ==
  ASSUME NEW d \in Tables, NEW s, NEW x
  PROVE  LET e == Measured(d, s, x) IN
         /\ e.receipts = d.receipts /\ e.answers = d.answers /\ e.unlike = d.unlike
         /\ e.measurements = d.measurements \cup {Row(s, x)} /\ e.log = Append(d.log, Row(s, x))
<1> DEFINE ms == d.measurements \cup {Row(s, x)}
           lg == Append(d.log, Row(s, x))
           w == Advanced(d.watermark, s, x)
<1>1. Measured(d, s, x) = [d EXCEPT !.measurements = ms, !.log = lg, !.watermark = w]
  BY DEF Measured, Row
<1> HIDE DEF ms, lg, w
<1>2. LET e == [d EXCEPT !.measurements = ms, !.log = lg, !.watermark = w] IN
      /\ e.receipts = d.receipts /\ e.answers = d.answers /\ e.unlike = d.unlike
      /\ e.measurements = ms /\ e.log = lg
  BY DEF Tables
<1> QED
  BY <1>1, <1>2 DEF ms, lg

LEMMA PrunedFields ==
  ASSUME NEW raw, NEW old, db \in Tables
  PROVE  LET e == Pruned(raw, old) IN
         /\ e.receipts = db.receipts \ old /\ e.measurements = db.measurements \ raw
         /\ e.log = db.log /\ e.answers = db.answers /\ e.unlike = db.unlike
<1> DEFINE ms == db.measurements \ raw
           rs == db.receipts \ old
<1>1. Pruned(raw, old) = [db EXCEPT !.measurements = ms, !.receipts = rs]
  BY DEF Pruned
<1> HIDE DEF ms, rs
<1>2. LET e == [db EXCEPT !.measurements = ms, !.receipts = rs] IN
      /\ e.receipts = rs /\ e.measurements = ms
      /\ e.log = db.log /\ e.answers = db.answers /\ e.unlike = db.unlike
  BY DEF Tables
<1> QED
  BY <1>1, <1>2 DEF ms, rs

\* The three kinds of outcomes of a sample.
LEMMA OutcomeIs ==
  ASSUME NEW d \in Tables, NEW s, NEW x, NEW e \in Outcomes(d, s, x)
  PROVE  \/ Known(d, s, x) # {} /\ e = Replayed(d, s, x)
         \/ Known(d, s, x) = {} /\ e = Answered(d, s, x, "telemetry.rate_limited")
         \/ Known(d, s, x) = {} /\ e = Judged(d, s, x)
BY DEF Outcomes

-----------------------------------------------------------------------------
(* Samples. *)

LEMMA RowAttributed ==
  ASSUME IngestionAssumption, IInv, NEW s \in Source, NEW x \in Sample
  PROVE  LET m == Row(s, x) IN m \in Measurement /\ Attributed(m, now, assignments)
<1>1. /\ now \in 0 .. MaxTime /\ MaxTime \in Nat /\ x.tap \in Tap /\ x.at \in 0 .. MaxTime
      /\ assignments \in Seq(Assignment) /\ Len(assignments) <= MaxAssignments
      /\ MaxAssignments \in Nat
  BY DEF IngestionAssumption, IInv, TypeOK, Sample, Time
<1>2. Attribution(x) \in 0 .. MaxAssignments
  BY <1>1, AttributionType
<1>3. Attribution(x) # None =>
        /\ Attribution(x) \in DOMAIN assignments
        /\ assignments[Attribution(x)].tap = x.tap
        /\ assignments[Attribution(x)].to = Open
        /\ x.at >= assignments[Attribution(x)].from
  BY DEF Attribution, Active
<1> DEFINE m == Row(s, x)
<1>4. /\ m \in Measurement /\ m.received = now /\ m.tap = x.tap /\ m.at = x.at
      /\ m.assignment = Attribution(x)
  BY <1>1, <1>2 DEF Row, Measurement, Time
<1> HIDE DEF m
<1>5. m.assignment # None =>
        /\ m.assignment \in 1 .. Len(assignments)
        /\ assignments[m.assignment].from \in Int
  <2>1. DOMAIN assignments = 1 .. Len(assignments)
        /\ \A i \in DOMAIN assignments : assignments[i] \in Assignment
    BY <1>1
  <2>2. \A a \in Assignment : a.from \in Int
    BY <1>1 DEF Assignment, Time
  <2> QED
    BY <1>3, <1>4, <2>1, <2>2
<1>6. now <= now /\ (m.assignment # None => assignments[m.assignment].from <= x.at)
  BY <1>1, <1>3, <1>4, <1>5
<1>7. Attributed(m, now, assignments)
  BY <1>3, <1>4, <1>5, <1>6 DEF Attributed
<1> QED
  BY <1>4, <1>7 DEF m

Rcpt(s, x, code) == [source |-> s, sample |-> x, code |-> code, received |-> now]

LEMMA MeasuredTyped ==
  ASSUME IngestionAssumption, IInv, NEW d \in Tables, NEW s \in Source, NEW x \in Sample
  PROVE  Measured(d, s, x) \in Tables
<1>1. /\ d.measurements \cup {Row(s, x)} \in SUBSET Measurement
      /\ Append(d.log, Row(s, x)) \in Seq(Measurement)
  BY RowAttributed DEF Tables
<1>2. Advanced(d.watermark, s, x) \in [Source -> [Tap -> Time \cup {-1}]]
  BY DEF Advanced, Tables, Sample
<1> QED
  BY <1>1, <1>2 DEF Measured, Row, Tables

LEMMA JudgedFields ==
  ASSUME IngestionAssumption, IInv, NEW d \in Tables, NEW s \in Source, NEW x \in Sample
  PROVE  LET e == Judged(d, s, x)
             code == Verdict(d, s, x) IN
         /\ e.receipts = d.receipts \cup {Rcpt(s, x, code)}
         /\ e.answers = Noted(d, s, x, code)
         /\ e.unlike = (d.unlike \/ Unlike(d, s, x, code))
         /\ \/ e.measurements = d.measurements /\ e.log = d.log
            \/ /\ code = "telemetry.accepted"
               /\ e.measurements = d.measurements \cup {Row(s, x)}
               /\ e.log = Append(d.log, Row(s, x))
<1> DEFINE code == Verdict(d, s, x)
           c == IF code = "telemetry.accepted" THEN Measured(d, s, x) ELSE d
           e == Receipted(c, s, x, code)
<1>1. e = Judged(d, s, x)
  BY DEF Judged
<1>2. /\ c \in Tables /\ c.receipts = d.receipts /\ c.answers = d.answers /\ c.unlike = d.unlike
      /\ \/ c.measurements = d.measurements /\ c.log = d.log
         \/ /\ code = "telemetry.accepted"
            /\ c.measurements = d.measurements \cup {Row(s, x)}
            /\ c.log = Append(d.log, Row(s, x))
  <2>1. CASE code = "telemetry.accepted"
    <3>1. c = Measured(d, s, x)
      BY <2>1
    <3> HIDE DEF c, code
    <3> QED
      BY <2>1, <3>1, MeasuredTyped, MeasuredFields
  <2>2. CASE code # "telemetry.accepted"
    BY <2>2
  <2> QED
    BY <2>1, <2>2
<1> HIDE DEF c, code
<1>3. /\ e.receipts = c.receipts \cup {Rcpt(s, x, code)}
      /\ e.measurements = c.measurements /\ e.log = c.log
      /\ e.answers = Noted(c, s, x, code)
      /\ e.unlike = (c.unlike \/ Unlike(c, s, x, code))
  BY <1>2, ReceiptedFields DEF Rcpt
<1>4. Noted(c, s, x, code) = Noted(d, s, x, code) /\ Unlike(c, s, x, code) = Unlike(d, s, x, code)
  BY <1>2 DEF Noted, Unlike
<1> HIDE DEF e
<1>5. /\ e.receipts = d.receipts \cup {Rcpt(s, x, code)}
      /\ e.answers = Noted(d, s, x, code)
      /\ e.unlike = (d.unlike \/ Unlike(d, s, x, code))
      /\ \/ e.measurements = d.measurements /\ e.log = d.log
         \/ /\ code = "telemetry.accepted"
            /\ e.measurements = d.measurements \cup {Row(s, x)}
            /\ e.log = Append(d.log, Row(s, x))
  BY <1>2, <1>3, <1>4
<1> QED
  BY <1>1, <1>5 DEF code

\* An answer that is not judged now touches nothing but what the history thinks of it.
LEMMA RepliedFields ==
  ASSUME NEW d \in Tables, NEW s, NEW x, NEW e \in Outcomes(d, s, x), e # Judged(d, s, x)
  PROVE  e.receipts = d.receipts /\ e.measurements = d.measurements /\ e.log = d.log
<1>1. PICK code : e = Answered(d, s, x, code)
  BY OutcomeIs DEF Replayed
<1>2. LET n == Answered(d, s, x, code) IN
      n.receipts = d.receipts /\ n.measurements = d.measurements /\ n.log = d.log
  BY AnsweredFields
<1> QED
  BY <1>1, <1>2

LEMMA SamplePlaces ==
  ASSUME IngestionAssumption, IInv, NEW d \in Tables, Placed(d, now, assignments),
         NEW s \in Source, NEW x \in Sample, NEW e \in Outcomes(d, s, x)
  PROVE  Placed(e, now, assignments)
<1>1. e.log = d.log \/ e.log = Append(d.log, Row(s, x))
  BY RepliedFields, JudgedFields
<1>2. d.log \in Seq(Measurement) /\ Row(s, x) \in Measurement /\ Attributed(Row(s, x), now, assignments)
  BY RowAttributed DEF Tables
<1> DEFINE m == Row(s, x)
<1> HIDE DEF m
<1>3. CASE e.log = Append(d.log, m)
  <2>1. ASSUME NEW i \in 1 .. Len(e.log)
        PROVE  e.log[i] = m \/ (i \in 1 .. Len(d.log) /\ e.log[i] = d.log[i])
    BY <1>2, <1>3 DEF m
  <2> QED
    BY <1>2, <2>1 DEF Placed, m
<1> QED
  BY <1>1, <1>3 DEF Placed, m

LEMMA SampleAnswers ==
  ASSUME IngestionAssumption, IInv, NEW d \in Tables, Answerable(d),
         NEW s \in Source, NEW x \in Sample, NEW e \in Outcomes(d, s, x)
  PROVE  Answerable(e)
<1>1. CASE e.receipts = d.receipts /\ e.measurements = d.measurements /\ e.log = d.log
  BY <1>1 DEF Answerable, Logged
<1>2. CASE e = Judged(d, s, x)
  <2> DEFINE code == Verdict(d, s, x)
             n == Rcpt(s, x, code)
             m == Row(s, x)
  <2>1. /\ e.receipts = d.receipts \cup {n}
        /\ \/ e.measurements = d.measurements /\ e.log = d.log
           \/ /\ code = "telemetry.accepted"
              /\ e.measurements = d.measurements \cup {m} /\ e.log = Append(d.log, m)
    BY <1>2, JudgedFields
  <2>2. code = "telemetry.accepted" => Answers(n, m)
    BY DEF Answers, Rcpt, Row
  <2>3. m \in Measurement /\ d.log \in Seq(Measurement)
    BY RowAttributed DEF Tables
  <2> HIDE DEF code, n, m
  <2>4. IsFiniteSet(e.measurements) /\ IsFiniteSet(e.receipts)
    <3>1. IsFiniteSet(d.measurements) /\ IsFiniteSet(d.receipts)
      BY DEF Answerable
    <3>2. IsFiniteSet(d.measurements \cup {m}) /\ IsFiniteSet(d.receipts \cup {n})
      BY <3>1, FS_AddElement
    <3> QED
      BY <2>1, <3>1, <3>2
  <2>5. CASE e.measurements = d.measurements /\ e.log = d.log
    BY <2>1, <2>4, <2>5 DEF Answerable, Logged
  <2>6. CASE /\ code = "telemetry.accepted"
             /\ e.measurements = d.measurements \cup {m} /\ e.log = Append(d.log, m)
    <3>1. /\ Len(e.log) = Len(d.log) + 1 /\ Len(d.log) \in Nat /\ e.log[Len(d.log) + 1] = m
          /\ \A i \in 1 .. Len(d.log) : e.log[i] = d.log[i]
      BY <2>3, <2>6
    <3>2. Logged(e)
      <4>1. ASSUME NEW p \in d.measurements PROVE \E i \in 1 .. Len(e.log) : e.log[i] = p
        <5>1. PICK i \in 1 .. Len(d.log) : d.log[i] = p
          BY DEF Answerable, Logged
        <5>2. i \in 1 .. Len(e.log) /\ e.log[i] = p
          BY <3>1, <5>1
        <5> QED
          BY <5>2
      <4>2. Len(d.log) + 1 \in 1 .. Len(e.log)
        BY <3>1
      <4> QED
        BY <2>6, <3>1, <4>1, <4>2 DEF Logged
    <3> QED
      BY <2>1, <2>2, <2>4, <2>6, <3>2 DEF Answerable
  <2> QED
    BY <2>1, <2>5, <2>6
<1> QED
  BY <1>1, <1>2, RepliedFields

LEMMA SampleConsistent ==
  ASSUME IngestionAssumption, IInv, WithinLimits, NEW d \in Tables, Consistent(d, now, limits),
         NEW s \in Source, NEW x \in Sample, NEW e \in Outcomes(d, s, x)
  PROVE  Consistent(e, now, limits)
<1>0. /\ now \in 0 .. MaxTime /\ MaxTime \in Nat /\ settings.horizon \in Nat /\ settings.skew \in Nat
      /\ limits.horizon \in Nat /\ limits.skew \in Nat /\ limits.receipts \in Nat
      /\ settings.horizon <= limits.horizon /\ settings.skew <= limits.skew
      /\ x.at \in 0 .. MaxTime
  BY DEF IngestionAssumption, IInv, TypeOK, Sample, Time, Setting, Limit, WithinLimits
<1>1. ASSUME NEW a \in d.answers, a.source = s, a.sample = x, InWindow(x), Covers(limits)
      PROVE  /\ Known(d, s, x) # {}
             /\ \A r \in Known(d, s, x) : r.sample = x /\ r.code = a.code
  <2>1. x.at + limits.receipts >= now + limits.skew
    BY <1>0, <1>1 DEF InWindow, Covers
  <2>2. PICK r \in d.receipts : r.source = s /\ r.sample = x /\ r.code = a.code
    BY <1>1, <2>1 DEF Consistent, Remembered
  <2>3. r \in Known(d, s, x)
    BY <2>2 DEF Known, SameIdentity
  <2>4. \A q \in Known(d, s, x) : q \in d.receipts /\ q.source = s /\ SameIdentity(q.sample, r.sample)
    BY <2>2 DEF Known, SameIdentity
  <2>5. \A q \in Known(d, s, x) : q = r
    BY <2>2, <2>4 DEF Consistent, OneReceipt
  <2> QED
    BY <2>2, <2>3, <2>5
<1>2. CASE Known(d, s, x) # {} /\ e = Replayed(d, s, x)
  <2> DEFINE r == CHOOSE r \in Known(d, s, x) : TRUE
             code == IF r.sample = x THEN r.code ELSE "telemetry.idempotency_conflict"
  <2>1. r \in Known(d, s, x) /\ e = Answered(d, s, x, code)
    BY <1>2 DEF Replayed
  <2> HIDE DEF r
  <2>2. \A a \in d.answers : a.source = s /\ a.sample = x /\ InWindow(x) /\ Covers(limits) => a.code = code
    BY <1>1, <2>1
  <2> HIDE DEF code
  <2>3. Covers(limits) => ~Unlike(d, s, x, code)
    BY <2>2 DEF Unlike
  <2>4. LET n == Answered(d, s, x, code) IN
        /\ n.receipts = d.receipts /\ n.answers = d.answers
        /\ n.unlike = (d.unlike \/ Unlike(d, s, x, code))
    BY AnsweredFields
  <2>5. e.receipts = d.receipts /\ e.answers = d.answers /\ (Covers(limits) => ~e.unlike)
    BY <2>1, <2>3, <2>4 DEF Consistent
  <2> QED
    BY <2>5 DEF Consistent, OneReceipt, Remembered
<1>3. CASE Known(d, s, x) = {} /\ e = Answered(d, s, x, "telemetry.rate_limited")
  <2>1. Covers(limits) => ~Unlike(d, s, x, "telemetry.rate_limited")
    BY <1>1, <1>3 DEF Unlike
  <2>2. LET n == Answered(d, s, x, "telemetry.rate_limited") IN
        /\ n.receipts = d.receipts /\ n.answers = d.answers
        /\ n.unlike = (d.unlike \/ Unlike(d, s, x, "telemetry.rate_limited"))
    BY AnsweredFields
  <2>3. e.receipts = d.receipts /\ e.answers = d.answers /\ (Covers(limits) => ~e.unlike)
    BY <1>3, <2>1, <2>2 DEF Consistent
  <2> QED
    BY <2>3 DEF Consistent, OneReceipt, Remembered
<1>4. CASE Known(d, s, x) = {} /\ e = Judged(d, s, x)
  <2> DEFINE code == Verdict(d, s, x)
             n == Rcpt(s, x, code)
  <2>1. /\ e.receipts = d.receipts \cup {n}
        /\ e.answers = Noted(d, s, x, code)
        /\ e.unlike = (d.unlike \/ Unlike(d, s, x, code))
    BY <1>4, JudgedFields
  <2>2. n.source = s /\ n.sample = x /\ n.code = code /\ n.received = now
    BY DEF Rcpt
  <2> HIDE DEF n, code
  <2>3. Covers(limits) => ~Unlike(d, s, x, code)
    BY <1>1, <1>4 DEF Unlike
  <2>4. OneReceipt(e)
    <3>1. \A r \in d.receipts : ~(r.source = s /\ SameIdentity(x, r.sample))
      BY <1>4 DEF Known
    <3>2. \A p, q : SameIdentity(p, q) => SameIdentity(q, p)
      BY DEF SameIdentity
    <3> QED
      BY <2>1, <2>2, <3>1, <3>2 DEF Consistent, OneReceipt
  <2>5. Remembered(e, now, limits)
    <3>1. ASSUME NEW a \in e.answers, a.sample.at + limits.receipts >= now + limits.skew
          PROVE  \E r \in e.receipts :
                   /\ r.source = a.source /\ r.sample = a.sample /\ r.code = a.code
                   /\ r.received + limits.skew >= a.sample.at
      <4>1. CASE a \in d.answers
        BY <2>1, <3>1, <4>1 DEF Consistent, Remembered
      <4>2. CASE a \notin d.answers
        <5>1. InWindow(x) /\ a = [source |-> s, sample |-> x, code |-> code]
          BY <2>1, <4>2 DEF Noted
        <5>2. now + limits.skew >= x.at
          BY <1>0, <5>1 DEF InWindow
        <5>3. a.source = s /\ a.sample = x /\ a.code = code
          BY <5>1
        <5> QED
          BY <2>1, <2>2, <5>2, <5>3
      <4> QED
        BY <4>1, <4>2
    <3> QED
      BY <3>1 DEF Remembered
  <2> QED
    BY <2>1, <2>3, <2>4, <2>5 DEF Consistent
<1> QED
  BY <1>2, <1>3, <1>4, OutcomeIs

(* Where the tables of a step come from. *)
LEMMA Origins ==
  ASSUME IngestionAssumption, IInv, [Next]_vars, NEW d \in {db', tx'.work}
  PROVE  \/ d = db \/ d = tx.work
         \/ \E s \in Source, batch \in Batches : d = Overruled(db, s, batch)
         \/ /\ UNCHANGED <<now, settings, assignments>>
            /\ \E raw \in Oldest(RawExpired), old \in Oldest(ReceiptsExpired) : d = Pruned(raw, old)
         \/ /\ UNCHANGED <<now, settings, assignments>>
            /\ tx.source \in Source /\ \E x \in Sample : d \in Outcomes(tx.work, tx.source, x)
<1>1. CASE UNCHANGED <<db, tx>>
  BY <1>1
<1>2. CASE Commit \/ Rollback \/ Restart \/ \E s \in Source, batch \in Batches : Ingest(s, batch)
  BY <1>2 DEF Commit, Rollback, Restart, Ingest, Idle
<1>3. CASE Prune
  <2>1. PICK raw \in Oldest(RawExpired), old \in Oldest(ReceiptsExpired) :
          db' = Pruned(raw, old) /\ tx' = Idle(Pruned(raw, old))
    BY <1>3 DEF Prune
  <2>2. d = Pruned(raw, old)
    BY <2>1 DEF Idle
  <2> QED
    BY <1>3, <2>2 DEF Prune, operatorVars
<1>4. ASSUME NEW x \in Samples, Process(x) PROVE d = db \/
         /\ UNCHANGED <<now, settings, assignments>>
         /\ tx.source \in Source /\ \E y \in Sample : d \in Outcomes(tx.work, tx.source, y)
  <2>1. x \in Sample /\ tx \in Transaction /\ tx.source \in Source /\ db' = db
    BY <1>4 DEF Process, IngestionAssumption, IInv, TypeOK
  <2>2. PICK e \in Outcomes(tx.work, tx.source, x) :
          tx' = [tx EXCEPT !.todo = @ \ {x}, !.work = e]
    BY <1>4 DEF Process
  <2>3. tx'.work = e
    BY <2>1, <2>2 DEF Transaction
  <2> QED
    BY <1>4, <2>1, <2>2, <2>3 DEF Process, operatorVars
<1> QED
  BY <1>1, <1>2, <1>3, <1>4
     DEF Next, vars, Tick, Authenticate, Abandon, DisableSource, UpdateSettings,
         RetireTap, Assign, Unassign, SetAuthority

-----------------------------------------------------------------------------
(* ATTRIBUTION. *)

\* Time passes, assignments are added and end: no measurement loses its place.
LEMMA StaysAttributed ==
  ASSUME IngestionAssumption, IInv, [Next]_vars, NEW m \in Measurement, Attributed(m, now, assignments)
  PROVE  Attributed(m, now', assignments')
<1>0. /\ assignments \in Seq(Assignment) /\ m.received \in Int /\ m.at \in Int /\ now \in Int
      /\ m.assignment \in Int
  BY DEF IngestionAssumption, IInv, TypeOK, Measurement, Time
<1>1. CASE UNCHANGED <<now, assignments>>
  BY <1>1
<1>2. CASE Tick
  <2>1. m.received <= now'
    BY <1>0, <1>2 DEF Tick, Attributed
  <2> QED
    BY <1>2, <2>1 DEF Tick, operatorVars, Attributed
<1>3. ASSUME NEW t \in Tap, Assign(t) PROVE Attributed(m, now', assignments')
  <2> DEFINE a == [tap |-> t, from |-> now, to |-> Open]
  <2>1. assignments' = Append(assignments, a) /\ now' = now
    BY <1>3 DEF Assign
  <2>2. a \in Assignment
    BY DEF Assignment, IInv, TypeOK
  <2> HIDE DEF a
  <2>3. /\ Len(assignments') = Len(assignments) + 1 /\ Len(assignments) \in Nat
        /\ \A i \in 1 .. Len(assignments) : assignments'[i] = assignments[i]
    BY <1>0, <2>1, <2>2
  <2>4. \A i \in 1 .. Len(assignments) : i \in 1 .. Len(assignments')
    BY <2>3
  <2> QED
    BY <2>1, <2>3, <2>4 DEF Attributed
<1>4. ASSUME NEW t \in Tap, Unassign(t) PROVE Attributed(m, now', assignments')
  <2>1. PICK i \in Active(t) : assignments' = [assignments EXCEPT ![i].to = now]
    BY <1>4 DEF Unassign
  <2>2. now' = now
    BY <1>4 DEF Unassign
  <2>3. i \in 1 .. Len(assignments)
    BY <1>0 DEF Active
  <2>4. /\ Len(assignments') = Len(assignments)
        /\ \A j \in 1 .. Len(assignments) :
             /\ assignments'[j].tap = assignments[j].tap
             /\ assignments'[j].from = assignments[j].from
             /\ assignments'[j].to = assignments[j].to \/ assignments'[j].to = now
    <3> DEFINE a == [assignments[i] EXCEPT !.to = now]
    <3>1. assignments[i] \in Assignment
      BY <1>0, <2>3
    <3>2. a.tap = assignments[i].tap /\ a.from = assignments[i].from /\ a.to = now /\ a \in Assignment
      BY <3>1 DEF Assignment, IInv, TypeOK
    <3>3. assignments' = [assignments EXCEPT ![i] = a]
      BY <2>1
    <3> HIDE DEF a
    <3>4. /\ Len(assignments') = Len(assignments)
          /\ \A j \in 1 .. Len(assignments) : assignments'[j] = IF j = i THEN a ELSE assignments[j]
      BY <1>0, <2>3, <3>2, <3>3
    <3> QED
      BY <3>2, <3>4
  <2>5. m.at <= m.received => m.at <= now
    BY <1>0 DEF Attributed
  <2> QED
    BY <2>2, <2>4, <2>5 DEF Attributed
<1> QED
  BY <1>1, <1>2, <1>3, <1>4
     DEF Next, vars, operatorVars, Commit, Rollback, Restart, Prune, Process, Authenticate, Abandon,
         DisableSource, Ingest, UpdateSettings, RetireTap, SetAuthority

PlacedInv == IInv /\ Placed(db, now, assignments) /\ Placed(tx.work, now, assignments)

LEMMA PlacedInit == Init => PlacedInv
<1> SUFFICES ASSUME Init PROVE PlacedInv
  OBVIOUS
<1>1. db.log = <<>> /\ tx.work.log = <<>>
  BY DEF Init, Empty, Idle
<1>2. IInv
  BY Initially, IngestionAssumption
<1> QED
  BY <1>1, <1>2 DEF PlacedInv, Placed

LEMMA PlacedNext == PlacedInv /\ [Next]_vars => PlacedInv'
<1> SUFFICES ASSUME PlacedInv, [Next]_vars PROVE PlacedInv'
  OBVIOUS
<1>1. IngestionAssumption /\ IInv /\ IInv'
  BY IngestionAssumption, Inductive DEF PlacedInv
<1>2. db \in Tables /\ tx.work \in Tables /\ db' \in Tables /\ tx'.work \in Tables
  BY <1>1 DEF IInv, TypeOK, Transaction
<1>3. ASSUME NEW d \in {db', tx'.work}
      PROVE  Placed(d, now, assignments)
  <2>1. CASE d = db \/ d = tx.work
    BY <2>1 DEF PlacedInv
  <2>2. ASSUME NEW raw, NEW old, d = Pruned(raw, old)
        PROVE  Placed(d, now, assignments)
    <3>1. d.log = db.log
      BY <1>2, <2>2, PrunedFields
    <3> QED
      BY <3>1 DEF PlacedInv, Placed
  <2>3. ASSUME tx.source \in Source, NEW x \in Sample, d \in Outcomes(tx.work, tx.source, x)
        PROVE  Placed(d, now, assignments)
    BY <1>1, <1>2, <2>3, SamplePlaces DEF PlacedInv
  <2>4. ASSUME NEW s, NEW batch, d = Overruled(db, s, batch)
        PROVE  Placed(d, now, assignments)
    BY <1>2, <2>4, OverruledFields DEF PlacedInv, Placed
  <2> QED
    BY <1>1, <2>1, <2>2, <2>3, <2>4, Origins
<1>4. ASSUME NEW d \in {db', tx'.work}
      PROVE  Placed(d, now', assignments')
  <2>1. d.log \in Seq(Measurement) /\ Placed(d, now, assignments)
    BY <1>2, <1>3 DEF Tables
  <2>2. \A i \in 1 .. Len(d.log) : d.log[i] \in Measurement
    BY <2>1
  <2> QED
    BY <1>1, <2>1, <2>2, StaysAttributed DEF Placed
<1> QED
  BY <1>1, <1>4 DEF PlacedInv

\* A measurement belongs to the assignment its Tap had when it was taken, whatever was
\* reassigned before it arrived (service.ts, acceptSample).
THEOREM OnTapAsMeasured == Spec => []OnTapWhenMeasured
<1>1. PlacedInv => OnTapWhenMeasured
  <2> SUFFICES ASSUME PlacedInv PROVE OnTapWhenMeasured
    OBVIOUS
  <2>1. DOMAIN db.log = 1 .. Len(db.log)
    BY DEF PlacedInv, IInv, TypeOK, Tables
  <2> QED
    BY <2>1 DEF PlacedInv, Placed, Attributed, OnTapWhenMeasured
<1> QED
  BY <1>1, PlacedInit, PlacedNext, PTL DEF Spec

-----------------------------------------------------------------------------
(* RECEIPTS.  A pass of pruning removes at most PruneBatch rows of each table, the oldest     *)
(* first.  Among rows of one time its choice is arbitrary (by the id, a UUID), so a receipt   *)
(* may go before its measurement if the batch of measurements ends between two of one time.   *)
(* What follows is for passes that do not end there.                                          *)
BatchesApart ==
  \A cut \in Oldest(RawExpired) : \A m \in cut, n \in RawExpired \ cut : m.received < n.received

\* A source has one measurement of a Tap at a time.
LEMMA OneRow ==
  ASSUME IngestionAssumption, NEW d \in Tables, Sound(d), Logged(d),
         NEW m \in d.measurements, NEW n \in d.measurements,
         m.source = n.source, m.tap = n.tap, m.at = n.at
  PROVE  m = n
<1>1. PICK i \in 1 .. Len(d.log) : d.log[i] = m
  BY DEF Logged
<1>2. PICK j \in 1 .. Len(d.log) : d.log[j] = n
  BY DEF Logged
<1>3. m.at \in Int /\ i \in Int /\ j \in Int
  BY DEF IngestionAssumption, Tables, Measurement, Time
<1>4. ~(i < j) /\ ~(j < i)
  BY <1>1, <1>2, <1>3 DEF Sound
<1> QED
  BY <1>1, <1>2, <1>3, <1>4

\* Were the receipt of a measurement removed and the measurement left, each of the PruneBatch
\* measurements removed would be older, and so would its own receipt: with that one, more
\* receipts than a batch holds.
LEMMA PrunesAnswerable ==
  ASSUME IngestionAssumption, IInv, LegalSettings(settings), Answerable(db), BatchesApart,
         NEW raw \in Oldest(RawExpired), NEW old \in Oldest(ReceiptsExpired)
  PROVE  Answerable(Pruned(raw, old))
<1> DEFINE d == Pruned(raw, old)
<1>1. d.receipts = db.receipts \ old /\ d.measurements = db.measurements \ raw /\ d.log = db.log
  BY PrunedFields DEF IInv, TypeOK
<1> HIDE DEF d
<1>2. /\ IsFiniteSet(RawExpired) /\ IsFiniteSet(ReceiptsExpired) /\ IsFiniteSet(raw)
      /\ IsFiniteSet(old) /\ IsFiniteSet(d.measurements) /\ IsFiniteSet(d.receipts)
  <2>1. IsFiniteSet(db.measurements) /\ IsFiniteSet(db.receipts)
    BY DEF Answerable
  <2>2. /\ RawExpired \in SUBSET db.measurements /\ ReceiptsExpired \in SUBSET db.receipts
        /\ raw \in SUBSET RawExpired /\ old \in SUBSET ReceiptsExpired
        /\ d.measurements \in SUBSET db.measurements /\ d.receipts \in SUBSET db.receipts
    BY <1>1 DEF RawExpired, ReceiptsExpired, Oldest
  <2>3. IsFiniteSet(RawExpired) /\ IsFiniteSet(ReceiptsExpired)
    BY <2>1, <2>2, FS_Subset
  <2> QED
    BY <2>1, <2>2, <2>3, FS_Subset
<1>3. /\ now \in Int /\ settings.raw \in Int /\ settings.receipts \in Int
      /\ settings.receipts >= settings.raw /\ db \in Tables /\ Sound(db)
      /\ \A p \in db.measurements : p.received \in Int
      /\ \A p \in db.receipts : p.received \in Int
  BY DEF IInv, TypeOK, IngestionAssumption, Setting, Time, LegalSettings, Tables,
         Measurement, Receipt
<1>4. /\ Cardinality(raw) \in Nat /\ Cardinality(old) \in Nat /\ PruneBatch \in Nat
      /\ raw = RawExpired \/ Cardinality(raw) = PruneBatch
      /\ Cardinality(old) <= PruneBatch
  <2>1. /\ Cardinality(raw) \in Nat /\ Cardinality(old) \in Nat /\ PruneBatch \in Nat
        /\ Cardinality(RawExpired) \in Nat /\ Cardinality(ReceiptsExpired) \in Nat
    BY <1>2, FS_CardinalityType DEF IngestionAssumption
  <2>2. /\ raw \in SUBSET RawExpired
        /\ Cardinality(raw) = IF Cardinality(RawExpired) < PruneBatch
                              THEN Cardinality(RawExpired) ELSE PruneBatch
        /\ Cardinality(old) = IF Cardinality(ReceiptsExpired) < PruneBatch
                              THEN Cardinality(ReceiptsExpired) ELSE PruneBatch
    BY DEF Oldest
  <2>3. Cardinality(old) <= PruneBatch
    BY <2>1, <2>2
  <2>4. Cardinality(raw) = Cardinality(RawExpired) => raw = RawExpired
    BY <1>2, <2>2, FS_Subset
  <2> QED
    BY <2>1, <2>2, <2>3, <2>4
<1>5. ASSUME NEW m \in d.measurements, NEW r \in db.receipts, Answers(r, m), r \in old
      PROVE  FALSE
  <2>1. m \in db.measurements /\ m \notin raw /\ r.received = m.received
    BY <1>1, <1>5 DEF Answers
  <2>2. r.received < now - settings.receipts
    BY <1>5 DEF Oldest, ReceiptsExpired
  <2>3. m \in RawExpired \ raw
    BY <1>3, <1>5, <2>1, <2>2 DEF RawExpired
  <2>4. \A c \in raw : c \in db.measurements /\ c.received < r.received
    BY <2>1, <2>3 DEF BatchesApart, Oldest, RawExpired
  <2> DEFINE f == [c \in raw |-> CHOOSE q \in db.receipts : Answers(q, c)]
  <2>5. \A c \in raw : f[c] \in db.receipts /\ Answers(f[c], c)
    BY <2>4 DEF Answerable
  <2>6. f = [c \in raw |-> f[c]]
    OBVIOUS
  <2> HIDE DEF f
  <2>7. ASSUME NEW c \in raw PROVE f[c] \in old \ {r}
    <3>1. f[c] \in db.receipts /\ f[c].received = c.received /\ c.received < r.received
      BY <2>4, <2>5 DEF Answers
    <3>2. f[c].received \in Int /\ r.received \in Int
      BY <1>3, <1>5, <3>1
    <3>3. f[c].received < now - settings.receipts /\ ~(r.received <= f[c].received)
      BY <1>3, <2>2, <3>1, <3>2
    <3>4. f[c] \in ReceiptsExpired
      BY <3>1, <3>3 DEF ReceiptsExpired
    <3>5. f[c] \in old
      BY <1>5, <3>3, <3>4 DEF Oldest
    <3> QED
      BY <3>1, <3>2, <3>3, <3>5
  <2>8. f \in [raw -> old \ {r}]
    BY <2>6, <2>7
  <2>9. IsFiniteSet(old \ {r}) /\ Cardinality(old \ {r}) < Cardinality(raw)
    <3>1. IsFiniteSet(old \ {r}) /\ Cardinality(old \ {r}) = Cardinality(old) - 1
      BY <1>2, <1>5, FS_RemoveElement
    <3>2. Cardinality(raw) = PruneBatch
      BY <1>4, <2>3
    <3> QED
      BY <1>4, <3>1, <3>2
  <2>10. PICK x \in raw, y \in raw : x # y /\ f[x] = f[y]
    BY <1>2, <2>8, <2>9, FS_PigeonHole
  <2>11. x.source = y.source /\ x.tap = y.tap /\ x.at = y.at
    BY <2>5, <2>10 DEF Answers
  <2> QED
    BY <1>3, <2>4, <2>10, <2>11, OneRow DEF Answerable
<1>6. ASSUME NEW m \in d.measurements PROVE \E r \in d.receipts : Answers(r, m)
  <2>1. PICK r \in db.receipts : Answers(r, m)
    BY <1>1 DEF Answerable
  <2>2. r \notin old
    BY <1>5, <2>1
  <2> QED
    BY <1>1, <2>1, <2>2
<1>7. Logged(d)
  BY <1>1 DEF Answerable, Logged
<1> QED
  BY <1>2, <1>6, <1>7 DEF Answerable, d

AnswerableInv ==
  IInv /\ LegalSettings(settings) /\ Answerable(db) /\ Answerable(tx.work)

LEMMA AnswerableInit == Init => AnswerableInv
<1> SUFFICES ASSUME Init PROVE AnswerableInv
  OBVIOUS
<1>1. /\ db.measurements = {} /\ tx.work.measurements = {} /\ db.receipts = {}
      /\ tx.work.receipts = {} /\ LegalSettings(settings)
  BY DEF Init, Empty, Idle
<1>2. IInv
  BY Initially, IngestionAssumption
<1> QED
  BY <1>1, <1>2, FS_EmptySet DEF AnswerableInv, Answerable, Logged

LEMMA AnswerableNext == AnswerableInv /\ BatchesApart /\ [Next]_vars => AnswerableInv'
<1> SUFFICES ASSUME AnswerableInv, BatchesApart, [Next]_vars PROVE AnswerableInv'
  OBVIOUS
<1>1. IngestionAssumption /\ IInv /\ IInv'
  BY IngestionAssumption, Inductive DEF AnswerableInv
<1>2. db \in Tables /\ tx.work \in Tables
  BY <1>1 DEF IInv, TypeOK, Transaction
<1>3. ASSUME NEW d \in {db', tx'.work}
      PROVE  Answerable(d)
  <2>1. CASE d = db \/ d = tx.work
    BY <2>1 DEF AnswerableInv
  <2>2. ASSUME NEW raw \in Oldest(RawExpired), NEW old \in Oldest(ReceiptsExpired), d = Pruned(raw, old)
        PROVE  Answerable(d)
    BY <1>1, <2>2, PrunesAnswerable DEF AnswerableInv
  <2>3. ASSUME tx.source \in Source, NEW x \in Sample, d \in Outcomes(tx.work, tx.source, x)
        PROVE  Answerable(d)
    BY <1>1, <1>2, <2>3, SampleAnswers DEF AnswerableInv
  <2>4. ASSUME NEW s, NEW batch, d = Overruled(db, s, batch)
        PROVE  Answerable(d)
    BY <1>2, <2>4, OverruledFields DEF AnswerableInv, Answerable, Logged
  <2> QED
    BY <1>1, <2>1, <2>2, <2>3, <2>4, Origins
<1>4. LegalSettings(settings')
  BY DEF AnswerableInv, LegalSettings, Next, vars, operatorVars, Commit, Rollback, Restart, Prune, Tick,
     Process, Authenticate, Abandon, DisableSource, Ingest, UpdateSettings, RetireTap, Assign,
     Unassign, SetAuthority
<1> QED
  BY <1>1, <1>3, <1>4 DEF AnswerableInv

\* As long as no pass of pruning draws its line between measurements received at one time, each
\* one that is kept has the receipt that answers its replays, and its place (pruneTelemetry).
THEOREM MeasurementsAreSound == Spec /\ []BatchesApart => []MeasurementsSound
<1>1. AnswerableInv => RawHasReceipt
  BY DEF AnswerableInv, Answerable, Answers, RawHasReceipt
<1>2. RawHasReceipt /\ OnTapWhenMeasured => MeasurementsSound
  BY DEF MeasurementsSound
<1> QED
  BY <1>1, <1>2, OnTapAsMeasured, AnswerableInit, AnswerableNext, PTL DEF Spec

-----------------------------------------------------------------------------
(* REPLAYS.  The limits only widen: an answer whose receipt was pruned is out of the longest   *)
(* horizon for good, as long as receipts were always kept for that and the largest skew.       *)
ConsistentInv ==
  IInv /\ WithinLimits /\ Consistent(db, now, limits) /\ Consistent(tx.work, now, limits)

LEMMA PrunesConsistent ==
  ASSUME IngestionAssumption, IInv, WithinLimits, Consistent(db, now, limits),
         NEW raw, NEW old \in Oldest(ReceiptsExpired)
  PROVE  Consistent(Pruned(raw, old), now, limits)
<1> DEFINE d == Pruned(raw, old)
<1>1. d.receipts = db.receipts \ old /\ d.answers = db.answers /\ d.unlike = db.unlike
  BY PrunedFields DEF IInv, TypeOK
<1> HIDE DEF d
<1>2. old \subseteq ReceiptsExpired
  BY DEF Oldest
<1>3. /\ now \in Int /\ settings.receipts \in Int /\ limits.skew \in Int /\ limits.receipts \in Int
      /\ limits.receipts <= settings.receipts
      /\ db.receipts \subseteq Receipt /\ db.answers \subseteq Answer
  BY DEF IInv, TypeOK, IngestionAssumption, Setting, Limit, Time, Tables, WithinLimits
<1>4. ASSUME NEW a \in db.answers, a.sample.at + limits.receipts >= now + limits.skew
      PROVE  \E r \in d.receipts :
               /\ r.source = a.source /\ r.sample = a.sample /\ r.code = a.code
               /\ r.received + limits.skew >= a.sample.at
  <2>1. PICK r \in db.receipts :
          /\ r.source = a.source /\ r.sample = a.sample /\ r.code = a.code
          /\ r.received + limits.skew >= a.sample.at
    BY <1>4 DEF Consistent, Remembered
  <2>2. r.received \in Int
    BY <1>3 DEF Receipt, Time, IngestionAssumption
  <2>3. a.sample.at \in Int
    BY <1>3 DEF Answer, Sample, Time, IngestionAssumption
  <2> DEFINE at == a.sample.at
             received == r.received
  <2>4. at + limits.receipts >= now + limits.skew /\ received + limits.skew >= at
    BY <1>4, <2>1
  <2> HIDE DEF at, received
  <2>5. at \in Int /\ received \in Int
    BY <2>2, <2>3 DEF at, received
  <2>6. ~(received < now - settings.receipts)
    BY <1>3, <2>4, <2>5
  <2>7. r \notin ReceiptsExpired
    BY <2>6 DEF ReceiptsExpired, received
  <2> QED
    BY <1>1, <1>2, <2>1, <2>7
<1> QED
  BY <1>1, <1>4 DEF Consistent, OneReceipt, Remembered, d

\* Later, and under wider limits.
Wider(l, k) == l.horizon <= k.horizon /\ l.skew <= k.skew /\ k.receipts <= l.receipts

\* Fewer answers must be remembered later and under wider limits, and their receipts do.
LEMMA StaysConsistent ==
  ASSUME IngestionAssumption, NEW d \in Tables, NEW t \in Time, NEW u \in Time, t <= u,
         NEW l \in Limit, NEW k \in Limit, Wider(l, k), Consistent(d, t, l)
  PROVE  Consistent(d, u, k)
<1>1. /\ t \in Int /\ u \in Int
      /\ l.horizon \in Int /\ l.skew \in Int /\ l.receipts \in Int
      /\ k.horizon \in Int /\ k.skew \in Int /\ k.receipts \in Int
  BY DEF IngestionAssumption, Time, Limit
<1>2. ASSUME NEW at \in Int, at + k.receipts >= u + k.skew PROVE at + l.receipts >= t + l.skew
  BY <1>1, <1>2 DEF Wider
<1>3. ASSUME NEW at \in Int, NEW received \in Int, received + l.skew >= at
      PROVE  received + k.skew >= at
  BY <1>1, <1>3 DEF Wider
<1>4. /\ \A a \in d.answers : a.sample.at \in Int
      /\ \A r \in d.receipts : r.received \in Int
  BY DEF IngestionAssumption, Tables, Answer, Receipt, Sample, Time
<1>5. ASSUME NEW a \in d.answers, a.sample.at + k.receipts >= u + k.skew
      PROVE  \E r \in d.receipts :
               /\ r.source = a.source /\ r.sample = a.sample /\ r.code = a.code
               /\ r.received + k.skew >= a.sample.at
  <2>1. a.sample.at + l.receipts >= t + l.skew
    BY <1>2, <1>4, <1>5
  <2>2. PICK r \in d.receipts :
          /\ r.source = a.source /\ r.sample = a.sample /\ r.code = a.code
          /\ r.received + l.skew >= a.sample.at
    BY <2>1 DEF Consistent, Remembered
  <2>3. r.received + k.skew >= a.sample.at
    BY <1>3, <1>4, <2>2
  <2> QED
    BY <2>2, <2>3
<1>6. Covers(k) => Covers(l)
  BY <1>1 DEF Covers, Wider
<1> QED
  BY <1>5, <1>6 DEF Consistent, Remembered

\* What a step does to the clock and the limits.
LEMMA LimitsWiden ==
  ASSUME IngestionAssumption, IInv, WithinLimits, [Next]_vars
  PROVE  WithinLimits' /\ now <= now' /\ Wider(limits, limits')
<1>1. /\ limits \in Limit /\ settings \in Setting /\ now \in Int
      /\ limits.horizon \in Int /\ limits.skew \in Int /\ limits.receipts \in Int
  BY DEF IInv, TypeOK, IngestionAssumption, Limit, Time
<1>2. CASE UNCHANGED <<settings, limits>> /\ (now' = now \/ now' = now + 1)
  BY <1>1, <1>2 DEF WithinLimits, Wider
<1>3. ASSUME NEW x \in Settings, UpdateSettings(x)
      PROVE  WithinLimits' /\ now <= now' /\ Wider(limits, limits')
  <2>1. x \in Setting /\ settings' = x /\ limits' = Widened(limits, x) /\ now' = now
    BY <1>3 DEF UpdateSettings, IngestionAssumption
  <2>2. /\ limits.horizon <= limits'.horizon /\ limits.skew <= limits'.skew
        /\ limits'.receipts <= limits.receipts
        /\ x.horizon <= limits'.horizon /\ x.skew <= limits'.skew /\ limits'.receipts <= x.receipts
    BY <1>1, <2>1, WidenedHolds
  <2> QED
    BY <1>1, <2>1, <2>2 DEF WithinLimits, Wider
<1>4. \/ \E x \in Settings : UpdateSettings(x)
      \/ UNCHANGED <<settings, limits>> /\ (now' = now \/ now' = now + 1)
  BY DEF Next, vars, operatorVars, Commit, Rollback, Restart, Prune, Tick,
     Process, Authenticate, Abandon, DisableSource, Ingest, RetireTap, Assign,
     Unassign, SetAuthority
<1> QED
  BY <1>2, <1>3, <1>4

LEMMA ConsistentNext == ConsistentInv /\ [Next]_vars => ConsistentInv'
<1> SUFFICES ASSUME ConsistentInv, [Next]_vars PROVE ConsistentInv'
  OBVIOUS
<1>1. IngestionAssumption /\ IInv /\ IInv' /\ WithinLimits
  BY IngestionAssumption, Inductive DEF ConsistentInv
<1>2. /\ db \in Tables /\ tx.work \in Tables /\ db' \in Tables /\ tx'.work \in Tables
      /\ now \in Time /\ now' \in Time /\ limits \in Limit /\ limits' \in Limit
  BY <1>1 DEF IInv, TypeOK, Transaction
<1>3. ASSUME NEW d \in {db', tx'.work}
      PROVE  Consistent(d, now, limits)
  <2>1. CASE d = db \/ d = tx.work
    BY <2>1 DEF ConsistentInv
  <2>2. ASSUME NEW raw \in Oldest(RawExpired), NEW old \in Oldest(ReceiptsExpired), d = Pruned(raw, old)
        PROVE  Consistent(d, now, limits)
    BY <1>1, <2>2, PrunesConsistent DEF ConsistentInv
  <2>3. ASSUME tx.source \in Source, NEW x \in Sample, d \in Outcomes(tx.work, tx.source, x)
        PROVE  Consistent(d, now, limits)
    BY <1>1, <1>2, <2>3, SampleConsistent DEF ConsistentInv
  <2>4. ASSUME NEW s, NEW batch, d = Overruled(db, s, batch)
        PROVE  Consistent(d, now, limits)
    BY <1>2, <2>4, OverruledFields DEF ConsistentInv, Consistent, OneReceipt, Remembered
  <2> QED
    BY <1>1, <2>1, <2>2, <2>3, <2>4, Origins
<1>4. WithinLimits' /\ now <= now' /\ Wider(limits, limits')
  BY <1>1, LimitsWiden
<1>5. Consistent(db', now', limits') /\ Consistent(tx'.work, now', limits')
  BY <1>1, <1>2, <1>3, <1>4, StaysConsistent
<1> QED
  BY <1>1, <1>4, <1>5 DEF ConsistentInv

LEMMA ConsistentInit == Init => ConsistentInv
<1> SUFFICES ASSUME Init PROVE ConsistentInv
  OBVIOUS
<1>1. /\ db.receipts = {} /\ tx.work.receipts = {} /\ db.answers = {} /\ tx.work.answers = {}
      /\ ~db.unlike /\ ~tx.work.unlike
  BY DEF Init, Empty, Idle
<1>2. IInv
  BY Initially, IngestionAssumption
<1>3. settings.horizon \in Int /\ settings.skew \in Int /\ settings.receipts \in Int
  BY <1>2 DEF IInv, TypeOK, Setting
<1>4. WithinLimits
  BY <1>3 DEF Init, WithinLimits
<1> QED
  BY <1>1, <1>2, <1>4 DEF ConsistentInv, Consistent, OneReceipt, Remembered

\* A sample sent again while it could still be accepted gets its first durable answer, whatever
\* the settings change to, as long as receipts were always kept for the longest horizon and
\* the largest skew together (processSingleSample).  The members of a batch that contradict
\* each other are the exception: ingestBatch answers them before it looks at any receipt.
THEOREM RetriesAreAnswered == Spec => []RepliesAgree
<1>1. ConsistentInv => RepliesAgree
  BY DEF ConsistentInv, Consistent, Covers, Lasting, RepliesAgree
<1> QED
  BY <1>1, ConsistentInit, ConsistentNext, PTL DEF Spec
=============================================================================
