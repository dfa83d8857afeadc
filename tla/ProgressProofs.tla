---------------------------- MODULE ProgressProofs ----------------------------
(***************************************************************************)
(* Proofs about the two components that MCProgress runs side by side.       *)
(*                                                                         *)
(* OutboundWorker: its types, that its bookkeeping of sends and of the      *)
(* evidence for a connection is exact, and that a live lease is settled     *)
(* only by the send that holds it.  WorkerInv is the inductive invariant;   *)
(* its parts about sends take the set of tasks as a parameter, because a    *)
(* task that settles is removed from a set that was changed before.         *)
(*                                                                         *)
(* LiveUpdates: that what the dashboard shows is current or the page still  *)
(* learns that it is not, and that it never shows an older version than it  *)
(* did.  LiveInv is the inductive invariant.  The page's queue is changed   *)
(* by folds over sequences of any length, so the lemmas about it rest on an *)
(* induction over the positions of a sequence.                             *)
(***************************************************************************)
EXTENDS OutboundWorker, LiveUpdates, FiniteSetTheorems, SequenceTheorems, TLAPS

-------------------------------------------------------------------------------
(* The inductive invariant *)

(* Every admitted row carries the configuration version it was admitted with,   *)
(* and every task is about an admitted row.                                      *)
RowsVersioned ==
  /\ \A x \in Delivery : row[x].state # "none" => row[x].version >= 1
  /\ \A t \in tasks : row[t.delivery].state # "none"

(* The sends of life g of the worker are to different destinations, exactly     *)
(* those marked in flight, and a poll of that life waits for one of them.  The   *)
(* other tasks are left from earlier lives.                                      *)
SendsOf(S, g) == {t \in S : t.read.generation = g}
SendsExact(S, marks, g) ==
  /\ \A t \in S : t.read.generation <= g
  /\ \A t, u \in SendsOf(S, g) : DestinationOf[t.delivery] = DestinationOf[u.delivery] => t = u
  /\ \A d \in Destination :
       /\ marks[d] \in {None, g}
       /\ marks[d] = g <=> \E t \in SendsOf(S, g) : DestinationOf[t.delivery] = d
PollAwaits(S, poll, g) ==
  poll \in {None, g} /\ (poll = g => \E t \in SendsOf(S, g) : t.awaited)

Marked(marks) == {d \in Destination : marks[d] # None}
SlotsOK == Cardinality(Marked(inFlight)) <= Concurrency

(* A healthy verdict is about the present address and credentials unless the     *)
(* secrets were removed, and then the destination is off until new ones are set. *)
EvidenceOK ==
  \A d \in Destination :
    /\ connectedFrom[d] <= version[d]
    /\ enabled[d] => secrets[d] # "absent"
    /\ health[d].state = "healthy" /\ secrets[d] # "absent" =>
         health[d].version >= connectedFrom[d] /\ health[d].credential = credential[d]

WorkerInv ==
  /\ TypeOK /\ RowsVersioned /\ EvidenceOK /\ SlotsOK
  /\ SendsExact(tasks, inFlight, generation) /\ PollAwaits(tasks, polling, generation)

-------------------------------------------------------------------------------
(* Tasks, probes and rows, and what the writes make of them *)

(* A task after the rows X and the profiles of the destinations D moved on. *)
Past(t, X, D) ==
  [t EXCEPT !.holds = @ /\ t.delivery \notin X,
            !.read.fresh = @ /\ DestinationOf[t.delivery] \notin D]

LEMMA TaskPast ==
  ASSUME NEW t \in Task, NEW X, NEW D
  PROVE  /\ Past(t, X, D) \in Task
         /\ Past(t, X, D).delivery = t.delivery /\ Past(t, X, D).awaited = t.awaited
         /\ Past(t, X, D).read.generation = t.read.generation
         /\ Past(t, X, D).holds => t.holds /\ t.delivery \notin X
<1>1. t.holds \in BOOLEAN /\ t.read \in Reading /\ t.read.fresh \in BOOLEAN
  BY DEF Task, Reading
<1> DEFINE h == t.holds /\ t.delivery \notin X
           f == t.read.fresh /\ DestinationOf[t.delivery] \notin D
           read == [t.read EXCEPT !.fresh = f]
<1>2. Past(t, X, D) = [t EXCEPT !.holds = h, !.read = read]
  BY <1>1 DEF Past, Task
<1>3. read \in Reading /\ read.generation = t.read.generation
  <2> HIDE DEF f
  <2>1. f \in BOOLEAN
    BY <1>1 DEF f
  <2> QED
    BY <1>1, <2>1 DEF Reading
<1>4. h \in BOOLEAN /\ (h => t.holds /\ t.delivery \notin X)
  BY <1>1
<1> HIDE DEF h, read
<1> QED
  BY <1>2, <1>3, <1>4 DEF Task

LEMMA TasksPastIs ==
  ASSUME NEW S, NEW X, NEW D
  PROVE  TasksPast(S, X, D) = {Past(t, X, D) : t \in S}
BY DEF TasksPast, Past

LEMMA TasksPastTyped ==
  ASSUME NEW S \in SUBSET Task, NEW X, NEW D
  PROVE  TasksPast(S, X, D) \in SUBSET Task
BY TaskPast, TasksPastIs

LEMMA ProbesPastTyped ==
  ASSUME NEW S \in SUBSET Probe, NEW D
  PROVE  ProbesPast(S, D) \in SUBSET Probe
<1> SUFFICES ASSUME NEW p \in S
             PROVE  [p EXCEPT !.read.fresh = @ /\ p.destination \notin D] \in Probe
  BY DEF ProbesPast
<1>1. p.read \in Reading /\ p.destination \in Destination
  BY DEF Probe
<1> DEFINE read == [p.read EXCEPT !.fresh = @ /\ p.destination \notin D]
<1>2. read \in Reading
  <2> DEFINE f == p.read.fresh /\ p.destination \notin D
  <2>1. f \in BOOLEAN
    OBVIOUS
  <2> HIDE DEF f
  <2>2. [p.read EXCEPT !.fresh = f] \in Reading
    BY <1>1, <2>1 DEF Reading
  <2> QED
    BY <2>2 DEF f
<1>3. [p EXCEPT !.read.fresh = @ /\ p.destination \notin D] = [p EXCEPT !.read = read]
  BY DEF Probe
<1> HIDE DEF read
<1> QED
  BY <1>1, <1>2, <1>3 DEF Probe

LEMMA PastExact ==
  ASSUME NEW S \in SUBSET Task, NEW marks, NEW g, NEW X, NEW D, SendsExact(S, marks, g)
  PROVE  SendsExact(TasksPast(S, X, D), marks, g)
<1> DEFINE T == TasksPast(S, X, D)
<1>1. T = {Past(t, X, D) : t \in S}
  BY TasksPastIs
<1>2. \A t \in S : /\ Past(t, X, D).delivery = t.delivery
                  /\ Past(t, X, D).read.generation = t.read.generation
  BY TaskPast
<1>3. \A t \in T : t.read.generation <= g
  BY <1>1, <1>2 DEF SendsExact
<1>4. \A t, u \in SendsOf(T, g) : DestinationOf[t.delivery] = DestinationOf[u.delivery] => t = u
  BY <1>1, <1>2 DEF SendsExact, SendsOf
<1>5. \A d \in Destination : (\E t \in SendsOf(T, g) : DestinationOf[t.delivery] = d)
                           <=> (\E t \in SendsOf(S, g) : DestinationOf[t.delivery] = d)
  BY <1>1, <1>2 DEF SendsOf
<1> QED
  BY <1>3, <1>4, <1>5 DEF SendsExact

LEMMA PastAwaits ==
  ASSUME NEW S \in SUBSET Task, NEW poll, NEW g, NEW X, NEW D, PollAwaits(S, poll, g)
  PROVE  PollAwaits(TasksPast(S, X, D), poll, g)
<1>1. TasksPast(S, X, D) = {Past(t, X, D) : t \in S}
  BY TasksPastIs
<1>2. \A t \in S : /\ Past(t, X, D).awaited = t.awaited
                  /\ Past(t, X, D).read.generation = t.read.generation
  BY TaskPast
<1> QED
  BY <1>1, <1>2 DEF PollAwaits, SendsOf

(* Rows *)
RowOK(r) == r \in Row /\ (r.state # "none" => r.version >= 1)
RowsOK(rows) == rows \in [Delivery -> Row] /\ \A x \in Delivery : RowOK(rows[x])

LEMMA RowUpdates ==
  ASSUME NEW r, RowOK(r)
  PROVE  /\ r.state # "none" => RowOK(Released(r))
         /\ r.state # "none" /\ r.cycle < MaxCycle => RowOK(Leased(r))
         /\ RowOK(Paused(r))
         /\ \A state \in Ended : r.state # "none" => RowOK(Closed(r, state))
<1>1. r \in Row /\ r.cycle \in 0 .. MaxCycle
  BY DEF RowOK, Row
<1>2. r.state # "none" => RowOK(Released(r))
  BY <1>1 DEF RowOK, Released, Row, Unfinished
<1>3. r.state # "none" /\ r.cycle < MaxCycle => RowOK(Leased(r))
  <2> SUFFICES ASSUME r.state # "none", r.cycle < MaxCycle
               PROVE  RowOK(Leased(r))
    OBVIOUS
  <2> DEFINE c == r.cycle + 1
  <2>1. c \in 0 .. MaxCycle
    BY <1>1, WorkerAssumption
  <2>2. Leased(r) = [r EXCEPT !.state = "leased", !.due = FALSE, !.cycle = c] /\ r.version >= 1
    BY <1>1 DEF Leased, Row, RowOK
  <2> HIDE DEF c
  <2> QED
    BY <1>1, <2>1, <2>2 DEF RowOK, Row, Unfinished
<1>4. RowOK(Paused(r))
  BY <1>1 DEF RowOK, Paused, Row, Unfinished
<1>5. \A state \in Ended : r.state # "none" => RowOK(Closed(r, state))
  BY <1>1 DEF RowOK, Closed, Row, Unfinished, Ended
<1> QED
  BY <1>2, <1>3, <1>4, <1>5

LEMMA RowsAdmitted ==
  ASSUME NEW rows, RowsOK(rows), NEW S, version \in [Destination -> 1 .. MaxVersion]
  PROVE  RowsOK(Admitted(rows, S))
<1> SUFFICES ASSUME NEW x \in Delivery
             PROVE  RowOK([rows[x] EXCEPT !.state = "pending", !.due = TRUE,
                                          !.version = version[DestinationOf[x]]])
  <2> DEFINE new == [x \in Delivery |->
                [rows[x] EXCEPT !.state = "pending", !.due = TRUE,
                                !.version = version[DestinationOf[x]]]]
  <2>1. \A x \in Delivery : Admitted(rows, S)[x] = IF x \in S THEN new[x] ELSE rows[x]
    BY DEF Admitted
  <2>2. Admitted(rows, S) = [x \in Delivery |-> IF x \in S THEN new[x] ELSE rows[x]]
    BY DEF Admitted
  <2>3. \A x \in Delivery : RowOK(new[x])
    OBVIOUS
  <2> HIDE DEF new
  <2> QED
    BY <2>1, <2>2, <2>3 DEF RowsOK, RowOK
<1> DEFINE v == version[DestinationOf[x]]
<1>1. v \in 1 .. MaxVersion
  BY WorkerAssumption
<1>2. rows[x] \in Row
  BY DEF RowsOK
<1> HIDE DEF v
<1>3. v \in 0 .. MaxVersion /\ v >= 1
  BY <1>1, WorkerAssumption
<1>4. [rows[x] EXCEPT !.state = "pending", !.due = TRUE, !.version = v] \in Row
  BY <1>2, <1>3 DEF Row, Unfinished
<1> QED
  BY <1>2, <1>3, <1>4 DEF RowOK, Row, v

-------------------------------------------------------------------------------
(* Sets of sends that are the same but for their flags *)

(* Tasks that differ at most in flags; R holds such a task for each of S, and no other; *)
(* the sends of S in life g go to different destinations. *)
Alike(u, v) ==
  u.delivery = v.delivery /\ u.awaited = v.awaited /\ u.read.generation = v.read.generation
Copies(R, S) ==
  (\A u \in R : \E v \in S : Alike(u, v)) /\ (\A v \in S : \E u \in R : Alike(u, v))
Apart(S, g) ==
  /\ \A t \in S : t.read.generation <= g
  /\ \A t, u \in SendsOf(S, g) : DestinationOf[t.delivery] = DestinationOf[u.delivery] => t = u

LEMMA PastCopies ==
  ASSUME NEW S \in SUBSET Task, NEW g, NEW X, NEW D, Apart(S, g)
  PROVE  Copies(TasksPast(S, X, D), S) /\ Apart(TasksPast(S, X, D), g)
<1>1. TasksPast(S, X, D) = {Past(t, X, D) : t \in S}
  BY TasksPastIs
<1>2. \A t \in S : Alike(Past(t, X, D), t)
  BY TaskPast DEF Alike
<1>3. Copies(TasksPast(S, X, D), S)
  BY <1>1, <1>2 DEF Copies
<1>4. Apart(TasksPast(S, X, D), g)
  BY <1>1, <1>2 DEF Apart, SendsOf, Alike
<1> QED
  BY <1>3, <1>4

(* A task whose poll no longer waits for it, unless `waits`. *)
Unawaited(t, waits) == [t EXCEPT !.awaited = @ /\ waits]
LEMMA TaskUnawaited ==
  ASSUME NEW t \in Task, NEW waits \in BOOLEAN
  PROVE  /\ Unawaited(t, waits) \in Task
         /\ Unawaited(t, waits).delivery = t.delivery
         /\ Unawaited(t, waits).read = t.read
         /\ Unawaited(t, waits).awaited = (t.awaited /\ waits)
         /\ Unawaited(t, waits).holds = t.holds
<1> DEFINE a == t.awaited /\ waits
<1>1. a \in BOOLEAN /\ Unawaited(t, waits) = [t EXCEPT !.awaited = a]
  BY DEF Task, Unawaited
<1> HIDE DEF a
<1>2. Unawaited(t, waits).awaited = a
  BY <1>1 DEF Task
<1> QED
  BY <1>1, <1>2 DEF Task, a

LEMMA FinishSends ==
  ASSUME TypeOK, SendsExact(tasks, inFlight, generation),
         PollAwaits(tasks, polling, generation),
         NEW t \in tasks, NEW R \in SUBSET Task, NEW threw \in BOOLEAN,
         Copies(R, tasks \ {t}), Apart(R, generation),
         Finish(t, R, threw)
  PROVE  /\ tasks' \in SUBSET Task
         /\ inFlight' \in [Destination -> {None} \cup 0 .. MaxGeneration]
         /\ polling' \in {None} \cup 0 .. MaxGeneration
         /\ Marked(inFlight') \subseteq Marked(inFlight)
         /\ SendsExact(tasks', inFlight', generation)
         /\ PollAwaits(tasks', polling', generation)
         /\ \A u \in tasks' : \E v \in R : u.delivery = v.delivery
<1> DEFINE gen == t.read.generation
           d == DestinationOf[t.delivery]
           ends == t.awaited /\ (threw \/ ~\E u \in R : u.awaited /\ u.read.generation = gen)
           copy == [u \in R |-> IF ends THEN Unawaited(u, u.read.generation # gen) ELSE u]
<1>1. /\ t \in Task /\ gen \in 0 .. MaxGeneration /\ gen <= generation /\ gen # None
      /\ generation \in 0 .. MaxGeneration /\ d \in Destination
  BY WorkerAssumption DEF TypeOK, Task, Reading, SendsExact, None
<1>2. /\ inFlight' = IF inFlight[d] = gen THEN [inFlight EXCEPT ![d] = None] ELSE inFlight
      /\ polling' = IF ends /\ polling = gen THEN None ELSE polling
      /\ tasks' = {copy[u] : u \in R}
  BY DEF Finish, Unawaited
<1>3. \A u \in R : /\ copy[u] \in Task /\ copy[u].delivery = u.delivery
                  /\ copy[u].read = u.read
                  /\ copy[u].awaited = (u.awaited /\ ~(ends /\ u.read.generation = gen))
  <2> SUFFICES ASSUME NEW u \in R
               PROVE  /\ copy[u] \in Task /\ copy[u].delivery = u.delivery
                      /\ copy[u].read = u.read
                      /\ copy[u].awaited = (u.awaited /\ ~(ends /\ u.read.generation = gen))
    OBVIOUS
  <2>1. u \in Task /\ u.awaited \in BOOLEAN
    BY DEF Task
  <2> HIDE DEF ends, gen
  <2> QED
    BY <2>1, TaskUnawaited
<1>4. tasks' \in SUBSET Task
  BY <1>2, <1>3
<1>5. /\ inFlight' \in [Destination -> {None} \cup 0 .. MaxGeneration]
      /\ polling' \in {None} \cup 0 .. MaxGeneration
      /\ Marked(inFlight') \subseteq Marked(inFlight)
      /\ \A e \in Destination : inFlight'[e] = IF e = d /\ inFlight[d] = gen THEN None ELSE inFlight[e]
  BY <1>1, <1>2 DEF TypeOK, Marked
<1> HIDE DEF copy
<1>6. \A u \in tasks' : u.read.generation <= generation
  BY <1>2, <1>3 DEF Apart
<1>7. \A u, v \in SendsOf(tasks', generation) :
        DestinationOf[u.delivery] = DestinationOf[v.delivery] => u = v
  BY <1>2, <1>3 DEF Apart, SendsOf
<1>8. \A e \in Destination :
        (\E u \in SendsOf(tasks', generation) : DestinationOf[u.delivery] = e)
          <=> (\E u \in SendsOf(tasks \ {t}, generation) : DestinationOf[u.delivery] = e)
  BY <1>2, <1>3 DEF SendsOf, Copies, Alike
<1>9. \A e \in Destination :
        (\E u \in SendsOf(tasks \ {t}, generation) : DestinationOf[u.delivery] = e)
          <=> inFlight[e] = generation /\ ~(e = d /\ gen = generation)
  BY <1>1 DEF SendsOf, SendsExact
<1>10. SendsExact(tasks', inFlight', generation)
  <2> SUFFICES ASSUME NEW e \in Destination
               PROVE  /\ inFlight'[e] \in {None, generation}
                      /\ inFlight'[e] = generation <=>
                           \E u \in SendsOf(tasks', generation) : DestinationOf[u.delivery] = e
    BY <1>6, <1>7 DEF SendsExact
  <2>1. inFlight[e] \in {None, generation} /\ inFlight[d] \in {None, generation}
    BY <1>1 DEF SendsExact
  <2>2. generation # None
    BY <1>1 DEF None
  <2> HIDE DEF gen, d
  <2> QED
    BY <1>1, <1>5, <1>8, <1>9, <2>1, <2>2
<1>11. PollAwaits(tasks', polling', generation)
  <2>1. polling' \in {None, generation}
    BY <1>2 DEF PollAwaits
  <2>2. ASSUME polling' = generation
        PROVE  \E u \in SendsOf(tasks', generation) : u.awaited
    <3>1. polling = generation /\ ~(ends /\ gen = generation)
      BY <1>1, <1>2, <2>2 DEF None
    <3>2. PICK v \in SendsOf(tasks, generation) : v.awaited
      BY <3>1 DEF PollAwaits
    <3>3. \E u \in R : u.awaited /\ u.read.generation = generation
      <4>1. CASE v # t
        BY <4>1, <3>2 DEF Copies, Alike, SendsOf
      <4>2. CASE v = t
        BY <4>2, <3>1, <3>2 DEF SendsOf
      <4> QED
        BY <4>1, <4>2
    <3>4. PICK u \in R : u.awaited /\ u.read.generation = generation
      BY <3>3
    <3>5. copy[u].awaited /\ copy[u].read.generation = generation /\ copy[u] \in tasks'
      BY <1>2, <1>3, <3>1, <3>4
    <3> QED
      BY <3>5 DEF SendsOf
  <2> QED
    BY <2>1, <2>2 DEF PollAwaits
<1>12. \A u \in tasks' : \E v \in R : u.delivery = v.delivery
  BY <1>2, <1>3
<1> QED
  BY <1>4, <1>5, <1>10, <1>11, <1>12

LEMMA SlotsKept ==
  ASSUME SlotsOK, Marked(inFlight') \subseteq Marked(inFlight)
  PROVE  SlotsOK'
<1>1. IsFiniteSet(Marked(inFlight))
  BY WorkerAssumption, FS_Subset DEF Marked
<1>2. /\ Cardinality(Marked(inFlight')) <= Cardinality(Marked(inFlight))
      /\ Cardinality(Marked(inFlight)) \in Nat /\ Cardinality(Marked(inFlight')) \in Nat
  BY <1>1, FS_Subset, FS_CardinalityType
<1> QED
  BY <1>2, WorkerAssumption DEF SlotsOK

LEMMA SendsStay == \* nothing but the flags of the tasks moves
  ASSUME WorkerInv, NEW X, NEW D,
         UNCHANGED <<generation, polling, inFlight>>, tasks' = TasksPast(tasks, X, D)
  PROVE  /\ SlotsOK' /\ SendsExact(tasks, inFlight, generation)'
         /\ PollAwaits(tasks, polling, generation)' /\ tasks' \in SUBSET Task
         /\ \A u \in tasks' : \E t \in tasks : u.delivery = t.delivery
<1>1. tasks \in SUBSET Task
  BY DEF WorkerInv, TypeOK
<1>2. \A u \in tasks' : \E t \in tasks : u.delivery = t.delivery
  BY <1>1, TasksPastIs, TaskPast
<1> QED
  BY <1>1, <1>2, PastExact, PastAwaits, TasksPastTyped DEF WorkerInv, SlotsOK

-------------------------------------------------------------------------------
(* The steps of the clock and of the life of the worker *)

(* A set of sends that was apart and matched the marks; a poll adds new ones. *)
LEMMA SendsInv ==
  ASSUME WorkerInv
  PROVE  /\ tasks \in SUBSET Task /\ Apart(tasks, generation)
         /\ generation \in 0 .. MaxGeneration /\ generation # None
BY WorkerAssumption DEF WorkerInv, TypeOK, SendsExact, Apart, None

(* What a set of verdicts and other writes leaves of the evidence.             *)
LEMMA EvidenceStays ==
  ASSUME WorkerInv, UNCHANGED <<enabled, secrets, version, connectedFrom, credential, health>>
  PROVE  EvidenceOK'
BY DEF WorkerInv, EvidenceOK

LEMMA EvidenceRecorded ==
  ASSUME WorkerInv, NEW read \in Reading, NEW d \in Destination, NEW outcome \in Verdict,
         Counts(read, d),
         UNCHANGED <<enabled, secrets, version, connectedFrom, credential>>,
         health' = [health EXCEPT ![d] = Recorded(read, outcome)]
  PROVE  EvidenceOK' /\ health' \in [Destination -> Health]
<1>1. Recorded(read, outcome) \in Health
  BY DEF Recorded, Health, Reading
<1>2. health' \in [Destination -> Health]
  BY <1>1 DEF WorkerInv, TypeOK
<1>3. EvidenceOK'
  BY WorkerAssumption DEF WorkerInv, TypeOK, EvidenceOK, Counts, Recorded, Health, Reading
<1> QED
  BY <1>2, <1>3

LEMMA RowsInv == WorkerInv => RowsOK(row) /\ version \in [Destination -> 1 .. MaxVersion]
BY DEF WorkerInv, TypeOK, RowsVersioned, RowsOK, RowOK

(* A row that was admitted stays so. *)
RowsNext ==
  RowsOK(row)' /\ \A x \in Delivery : row[x].state # "none" => row'[x].state # "none"

LEMMA RowsBack ==
  ASSUME WorkerInv, RowsNext, \A u \in tasks' : \E t \in tasks : u.delivery = t.delivery
  PROVE  row' \in [Delivery -> Row] /\ RowsVersioned'
BY DEF RowsNext, RowsOK, RowOK, RowsVersioned, WorkerInv, TypeOK, Task

LEMMA RowsStay ==
  ASSUME WorkerInv, row' = row
  PROVE  RowsNext
BY RowsInv DEF RowsNext, RowsOK, RowOK

LEMMA RowsAdmittedNext ==
  ASSUME WorkerInv, NEW S, row' = Admitted(row, S)
  PROVE  RowsNext
<1>1. RowsOK(row)'
  BY RowsInv, RowsAdmitted DEF RowsOK, RowOK
<1>2. \A x \in Delivery : row[x].state # "none" => row'[x].state # "none"
  BY RowsInv DEF Admitted, RowsOK, RowOK, Row
<1> QED
  BY <1>1, <1>2 DEF RowsNext

LEMMA RowsPausedNext ==
  ASSUME WorkerInv, NEW X,
         row' = [x \in Delivery |-> IF x \in X THEN Paused(row[x]) ELSE row[x]]
  PROVE  RowsNext
<1>1. \A x \in Delivery : RowOK(row[x]) /\ RowOK(Paused(row[x]))
  BY RowsInv, RowUpdates DEF RowsOK
<1>2. \A x \in Delivery : row[x].state # "none" => row'[x].state # "none"
  BY <1>1 DEF Paused, RowOK, Row
<1> QED
  BY <1>1, <1>2 DEF RowsNext, RowsOK, RowOK

LEMMA AdmitOK ==
  ASSUME WorkerInv, Admit
  PROVE  WorkerInv'
<1>1. RowsNext
  BY RowsAdmittedNext DEF Admit
<1> QED
  BY <1>1, RowsBack DEF WorkerInv, TypeOK, Admit, destinationVars, workerVars, EvidenceOK, SlotsOK

LEMMA LeaseExpiresOK ==
  ASSUME WorkerInv, NEW x \in Delivery, LeaseExpires(x)
  PROVE  WorkerInv'
<1>1. RowsNext
  BY RowsInv DEF LeaseExpires, RowsNext, RowsOK, RowOK, Row
<1> QED
  BY <1>1, RowsBack DEF WorkerInv, TypeOK, LeaseExpires, destinationVars, workerVars, EvidenceOK, SlotsOK

LEMMA BackoffElapsesOK ==
  ASSUME WorkerInv, NEW x \in Delivery, BackoffElapses(x)
  PROVE  WorkerInv'
<1>1. RowsNext
  BY RowsInv DEF BackoffElapses, RowsNext, RowsOK, RowOK, Row
<1> QED
  BY <1>1, RowsBack DEF WorkerInv, TypeOK, BackoffElapses, destinationVars, workerVars, EvidenceOK, SlotsOK

LEMMA StopOK ==
  ASSUME WorkerInv, Stop
  PROVE  WorkerInv'
<1>1. SendsExact(tasks, inFlight, generation)'
  BY WorkerAssumption DEF WorkerInv, TypeOK, SendsExact, SendsOf, Stop, NoWork, None, Task, Reading
<1>2. PollAwaits(tasks, polling, generation)'
  BY DEF WorkerInv, TypeOK, PollAwaits, Stop, None
<1>3. SlotsOK'
  BY WorkerAssumption, FS_EmptySet DEF SlotsOK, Marked, Stop, NoWork
<1>4. RowsVersioned' /\ EvidenceOK'
  BY DEF WorkerInv, RowsVersioned, EvidenceOK, Stop, destinationVars
<1>5. generation + 1 \in 0 .. MaxGeneration
  BY WorkerAssumption DEF WorkerInv, TypeOK, Stop
<1>6. TypeOK'
  BY <1>5 DEF WorkerInv, TypeOK, Stop, destinationVars, NoWork
<1> QED
  BY <1>1, <1>2, <1>3, <1>4, <1>6 DEF WorkerInv

LEMMA CrashOK ==
  ASSUME WorkerInv, Crash
  PROVE  WorkerInv'
<1>1. SendsExact(tasks, inFlight, generation)'
  BY DEF WorkerInv, TypeOK, SendsExact, SendsOf, Crash, NoWork, None
<1>2. PollAwaits(tasks, polling, generation)'
  BY DEF WorkerInv, TypeOK, PollAwaits, Crash, None
<1>3. SlotsOK'
  BY WorkerAssumption, FS_EmptySet DEF SlotsOK, Marked, Crash, NoWork
<1>4. RowsVersioned' /\ EvidenceOK'
  BY DEF WorkerInv, RowsVersioned, EvidenceOK, Crash, destinationVars
<1>5. generation + 1 \in 0 .. MaxGeneration
  BY WorkerAssumption DEF WorkerInv, TypeOK, Crash
<1>6. TypeOK'
  BY <1>5 DEF WorkerInv, TypeOK, Crash, destinationVars, NoWork
<1> QED
  BY <1>1, <1>2, <1>3, <1>4, <1>6 DEF WorkerInv

LEMMA ReadingNow ==
  ASSUME WorkerInv, NEW d \in Destination, NEW v \in 1 .. MaxVersion
  PROVE  ReadNow(d, v) \in Reading
BY DEF WorkerInv, TypeOK, ReadNow, Reading

LEMMA StartOK ==
  ASSUME WorkerInv, Start
  PROVE  WorkerInv'
<1> DEFINE off == {d \in HomeAssistant : enabled[d] /\ ~Usable(d)}
           probed == {d \in HomeAssistant : enabled[d] /\ Usable(d)}
           X == UNION {Of(d) : d \in off}
<1>1. RowsNext
  <2>1. row' = [x \in Delivery |-> IF x \in {y \in Delivery : DestinationOf[y] \in off}
                                   THEN Paused(row[x]) ELSE row[x]]
    BY DEF Start
  <2> QED
    BY <2>1, RowsPausedNext
<1>2. /\ SlotsOK' /\ SendsExact(tasks, inFlight, generation)'
      /\ PollAwaits(tasks, polling, generation)' /\ tasks' \in SUBSET Task
      /\ \A u \in tasks' : \E t \in tasks : u.delivery = t.delivery
  <2>1. tasks' = TasksPast(tasks, X, off) /\ UNCHANGED <<generation, polling, inFlight>>
    BY DEF Start
  <2> HIDE DEF off, X
  <2> QED
    BY <2>1, SendsStay
<1>3. probes' \in SUBSET Probe
  <2>1. \A d \in probed : [destination |-> d, read |-> ReadNow(d, version[d])] \in Probe
    BY ReadingNow, WorkerAssumption DEF WorkerInv, TypeOK, Probe
  <2>2. probes' = ProbesPast(probes, off) \cup
                    {[destination |-> d, read |-> ReadNow(d, version[d])] : d \in probed}
    BY DEF Start
  <2>3. ProbesPast(probes, off) \in SUBSET Probe
    BY ProbesPastTyped DEF WorkerInv, TypeOK
  <2> HIDE DEF off, probed
  <2> QED
    BY <2>1, <2>2, <2>3
<1>4. enabled' \in [Destination -> BOOLEAN] /\ health' \in [Destination -> Health] /\ EvidenceOK'
  BY DEF WorkerInv, TypeOK, EvidenceOK, Start, Health
<1> QED
  BY <1>1, <1>2, <1>3, <1>4, RowsBack DEF WorkerInv, TypeOK, Start

-------------------------------------------------------------------------------
(* The operator, and verdicts outside of a send *)

LEMMA PausedRowsOK ==
  ASSUME WorkerInv, NEW d, row' = PausedRows(d)
  PROVE  RowsNext
BY RowsPausedNext DEF PausedRows

LEMMA DisableOK ==
  ASSUME WorkerInv, NEW d \in Destination, Disable(d)
  PROVE  WorkerInv'
<1>1. RowsNext
  BY PausedRowsOK DEF Disable, SwitchOff
<1>2. /\ SlotsOK' /\ SendsExact(tasks, inFlight, generation)'
      /\ PollAwaits(tasks, polling, generation)' /\ tasks' \in SUBSET Task
      /\ \A u \in tasks' : \E t \in tasks : u.delivery = t.delivery
  BY SendsStay DEF Disable, SwitchOff, workerVars
<1>3. probes' \in SUBSET Probe
  BY ProbesPastTyped DEF WorkerInv, TypeOK, Disable, SwitchOff
<1>4. enabled' \in [Destination -> BOOLEAN] /\ EvidenceOK'
  BY DEF WorkerInv, TypeOK, EvidenceOK, Disable, SwitchOff
<1> QED
  BY <1>1, <1>2, <1>3, <1>4, RowsBack DEF WorkerInv, TypeOK, Disable, SwitchOff, workerVars

LEMMA RemoveSecretOK ==
  ASSUME WorkerInv, NEW d \in Destination, RemoveSecret(d)
  PROVE  WorkerInv'
<1>1. RowsNext
  BY PausedRowsOK DEF RemoveSecret, SwitchOff
<1>2. /\ SlotsOK' /\ SendsExact(tasks, inFlight, generation)'
      /\ PollAwaits(tasks, polling, generation)' /\ tasks' \in SUBSET Task
      /\ \A u \in tasks' : \E t \in tasks : u.delivery = t.delivery
  BY SendsStay DEF RemoveSecret, SwitchOff, workerVars
<1>3. probes' \in SUBSET Probe
  BY ProbesPastTyped DEF WorkerInv, TypeOK, RemoveSecret, SwitchOff
<1>4. /\ enabled' \in [Destination -> BOOLEAN] /\ secrets' \in [Destination -> Secrets]
      /\ health' \in [Destination -> Health]
  BY DEF WorkerInv, TypeOK, RemoveSecret, SwitchOff, Health, Secrets
<1>5. credential' \in [Destination -> 1 .. MaxVersion]
  <2>1. credential[d] + 1 \in 1 .. MaxVersion
    BY WorkerAssumption DEF WorkerInv, TypeOK, RemoveSecret
  <2> QED
    BY <2>1 DEF WorkerInv, TypeOK, RemoveSecret
<1>6. EvidenceOK'
  BY DEF WorkerInv, TypeOK, EvidenceOK, RemoveSecret, SwitchOff, Health
<1> QED
  BY <1>1, <1>2, <1>3, <1>4, <1>5, <1>6, RowsBack
     DEF WorkerInv, TypeOK, RemoveSecret, SwitchOff, workerVars

LEMMA EnableOK ==
  ASSUME WorkerInv, NEW d \in Destination, Enable(d)
  PROVE  WorkerInv'
<1>1. /\ SlotsOK' /\ SendsExact(tasks, inFlight, generation)'
      /\ PollAwaits(tasks, polling, generation)' /\ tasks' \in SUBSET Task
      /\ \A u \in tasks' : \E t \in tasks : u.delivery = t.delivery
  BY SendsStay DEF Enable, workerVars
<1>2. probes' \in SUBSET Probe
  <2>1. ProbesPast(probes, {d}) \in SUBSET Probe
    BY ProbesPastTyped DEF WorkerInv, TypeOK
  <2>2. ProbeStart(d) \in SUBSET Probe
    BY ReadingNow DEF ProbeStart, WorkerInv, TypeOK, Probe
  <2> QED
    BY <2>1, <2>2 DEF Enable
<1>3. enabled' \in [Destination -> BOOLEAN] /\ EvidenceOK'
  BY DEF WorkerInv, TypeOK, EvidenceOK, Enable, Usable
<1>9. RowsNext
  BY RowsStay DEF Enable
<1> QED
  BY <1>9, RowsBack, <1>1, <1>2, <1>3 DEF WorkerInv, TypeOK, Enable, workerVars

LEMMA ReplaceSecretOK ==
  ASSUME WorkerInv, NEW d \in Destination, ReplaceSecret(d)
  PROVE  WorkerInv'
<1>1. /\ SlotsOK' /\ SendsExact(tasks, inFlight, generation)'
      /\ PollAwaits(tasks, polling, generation)' /\ tasks' \in SUBSET Task
      /\ \A u \in tasks' : \E t \in tasks : u.delivery = t.delivery
  BY SendsStay DEF ReplaceSecret, workerVars
<1>2. credential[d] + 1 \in 1 .. MaxVersion
  BY WorkerAssumption DEF WorkerInv, TypeOK, ReplaceSecret
<1>3. probes' \in SUBSET Probe
  <2>1. ProbesPast(probes, {d}) \in SUBSET Probe
    BY ProbesPastTyped DEF WorkerInv, TypeOK
  <2> DEFINE read == [ReadNow(d, version[d]) EXCEPT !.credential = @ + 1]
  <2>2. read \in Reading
    <3>1. read = [ReadNow(d, version[d]) EXCEPT !.credential = credential[d] + 1]
      BY DEF ReadNow
    <3> QED
      BY <1>2, <3>1, ReadingNow DEF WorkerInv, TypeOK, Reading
  <2> HIDE DEF read
  <2>3. {[destination |-> d, read |-> read]} \in SUBSET Probe
    BY <2>2 DEF Probe
  <2> QED
    BY <2>1, <2>3 DEF ReplaceSecret, read
<1>4. /\ secrets' \in [Destination -> Secrets] /\ health' \in [Destination -> Health]
      /\ credential' \in [Destination -> 1 .. MaxVersion]
  BY <1>2 DEF WorkerInv, TypeOK, ReplaceSecret, Reset, Health, Secrets
<1>5. EvidenceOK'
  BY DEF WorkerInv, TypeOK, EvidenceOK, ReplaceSecret, Reset, Health
<1>9. RowsNext
  BY RowsStay DEF ReplaceSecret
<1> QED
  BY <1>9, RowsBack, <1>1, <1>3, <1>4, <1>5 DEF WorkerInv, TypeOK, ReplaceSecret, workerVars

LEMMA SecretStoreChangesOK ==
  ASSUME WorkerInv, NEW d \in Destination, SecretStoreChanges(d)
  PROVE  WorkerInv'
<1>1. secrets' \in [Destination -> Secrets] /\ EvidenceOK'
  BY DEF WorkerInv, TypeOK, EvidenceOK, SecretStoreChanges, Secrets
<1>9. RowsNext
  BY RowsStay DEF SecretStoreChanges
<1> QED
  BY <1>9, RowsBack, <1>1 DEF WorkerInv, TypeOK, SlotsOK, SecretStoreChanges, workerVars

LEMMA EditOK ==
  ASSUME WorkerInv, NEW d \in Destination, NEW reconnects \in BOOLEAN, Edit(d, reconnects)
  PROVE  WorkerInv'
<1>1. /\ SlotsOK' /\ SendsExact(tasks, inFlight, generation)'
      /\ PollAwaits(tasks, polling, generation)' /\ tasks' \in SUBSET Task
      /\ \A u \in tasks' : \E t \in tasks : u.delivery = t.delivery
  BY SendsStay DEF Edit, workerVars
<1>2. probes' \in SUBSET Probe
  BY ProbesPastTyped DEF WorkerInv, TypeOK, Edit
<1>3. version[d] + 1 \in 1 .. MaxVersion
  BY WorkerAssumption DEF WorkerInv, TypeOK, Edit
<1>4. /\ version' \in [Destination -> 1 .. MaxVersion]
      /\ connectedFrom' \in [Destination -> 1 .. MaxVersion]
      /\ health' \in [Destination -> Health]
  BY <1>3 DEF WorkerInv, TypeOK, Edit, Reset, Health
<1>5. EvidenceOK'
  BY WorkerAssumption DEF WorkerInv, TypeOK, EvidenceOK, Edit, Reset, Health
<1>9. RowsNext
  BY RowsStay DEF Edit
<1> QED
  BY <1>9, RowsBack, <1>1, <1>2, <1>4, <1>5 DEF WorkerInv, TypeOK, Edit, workerVars

(* The rows after a verdict: as they were, or with an event admitted. *)
LEMMA VerdictRows ==
  ASSUME WorkerInv, row' = row \/ \E S \in SUBSET Admissible : row' = Admitted(row, S)
  PROVE  RowsNext
BY RowsStay, RowsAdmittedNext

LEMMA ProbeEndsOK ==
  ASSUME WorkerInv, NEW p \in probes, NEW outcome \in Verdict, ProbeEnds(p, outcome)
  PROVE  WorkerInv'
<1> DEFINE d == p.destination
           counts == Counts(p.read, d)
<1>1. p \in Probe /\ p.read \in Reading /\ d \in Destination /\ probes \ {p} \in SUBSET Probe
  BY DEF WorkerInv, TypeOK, Probe
<1>2. RowsNext
  BY VerdictRows DEF ProbeEnds
<1>3. UNCHANGED <<enabled, secrets, version, connectedFrom, credential, running,
                  stopRequested, generation, polling, inFlight>>
  BY DEF ProbeEnds, destinationVars, workerVars
<1>4. CASE counts
  <2>1. /\ SlotsOK' /\ SendsExact(tasks, inFlight, generation)'
        /\ PollAwaits(tasks, polling, generation)' /\ tasks' \in SUBSET Task
        /\ \A u \in tasks' : \E t \in tasks : u.delivery = t.delivery
    BY <1>3, <1>4, SendsStay DEF ProbeEnds
  <2>2. probes' \in SUBSET Probe
    BY <1>1, <1>4, ProbesPastTyped DEF ProbeEnds
  <2>3. EvidenceOK' /\ health' \in [Destination -> Health]
    BY <1>1, <1>3, <1>4, EvidenceRecorded DEF ProbeEnds
  <2> QED
    BY <1>2, <1>3, <2>1, <2>2, <2>3, RowsBack DEF WorkerInv, TypeOK
<1>5. CASE ~counts
  <2>1. UNCHANGED <<health, tasks>> /\ probes' = probes \ {p}
    BY <1>5 DEF ProbeEnds
  <2>2. EvidenceOK'
    BY <1>3, <2>1, EvidenceStays
  <2> QED
    BY <1>1, <1>2, <1>3, <2>1, <2>2, RowsBack DEF WorkerInv, TypeOK, SlotsOK
<1> QED
  BY <1>4, <1>5

LEMMA ConnectionEvidenceOK ==
  ASSUME WorkerInv, NEW d \in Destination, NEW outcome \in Verdict,
         NEW v \in 1 .. MaxVersion, NEW cr \in 1 .. MaxVersion,
         ConnectionEvidence(d, [ReadNow(d, v) EXCEPT !.credential = cr], outcome)
  PROVE  WorkerInv'
<1> DEFINE read == [ReadNow(d, v) EXCEPT !.credential = cr]
<1>1. read \in Reading
  BY ReadingNow DEF Reading
<1> HIDE DEF read
<1>2. ConnectionEvidence(d, read, outcome)
  BY DEF read
<1>3. RowsNext
  BY <1>2, VerdictRows DEF ConnectionEvidence
<1>4. UNCHANGED <<enabled, secrets, version, connectedFrom, credential, running,
                  stopRequested, generation, polling, inFlight>>
  BY <1>2 DEF ConnectionEvidence, destinationVars, workerVars
<1>5. /\ SlotsOK' /\ SendsExact(tasks, inFlight, generation)'
      /\ PollAwaits(tasks, polling, generation)' /\ tasks' \in SUBSET Task
      /\ \A u \in tasks' : \E t \in tasks : u.delivery = t.delivery
  BY <1>2, <1>4, SendsStay DEF ConnectionEvidence
<1>6. probes' \in SUBSET Probe
  BY <1>2, ProbesPastTyped DEF ConnectionEvidence, WorkerInv, TypeOK
<1>7. EvidenceOK' /\ health' \in [Destination -> Health]
  BY <1>1, <1>2, <1>4, EvidenceRecorded DEF ConnectionEvidence
<1> QED
  BY <1>3, <1>4, <1>5, <1>6, <1>7, RowsBack DEF WorkerInv, TypeOK

-------------------------------------------------------------------------------
(* Tasks that settle *)

LEMMA Remaining == \* the tasks but one
  ASSUME WorkerInv, NEW t \in tasks, NEW X, NEW D
  PROVE  /\ t \in Task /\ tasks \ {t} \in SUBSET Task /\ Apart(tasks \ {t}, generation)
         /\ Copies(tasks \ {t}, tasks \ {t})
         /\ TasksPast(tasks \ {t}, X, D) \in SUBSET Task
         /\ Copies(TasksPast(tasks \ {t}, X, D), tasks \ {t})
         /\ Apart(TasksPast(tasks \ {t}, X, D), generation)
<1>1. t \in Task /\ tasks \ {t} \in SUBSET Task /\ Apart(tasks \ {t}, generation)
  BY SendsInv DEF Apart, SendsOf
<1>2. Copies(tasks \ {t}, tasks \ {t})
  BY DEF Copies, Alike
<1> QED
  BY <1>1, <1>2, PastCopies, TasksPastTyped

LEMMA FinishKeeps ==
  ASSUME WorkerInv, NEW t \in tasks, NEW R \in SUBSET Task, NEW threw \in BOOLEAN,
         Copies(R, tasks \ {t}), Apart(R, generation), Finish(t, R, threw),
         generation' = generation
  PROVE  /\ tasks' \in SUBSET Task
         /\ inFlight' \in [Destination -> {None} \cup 0 .. MaxGeneration]
         /\ polling' \in {None} \cup 0 .. MaxGeneration
         /\ SlotsOK' /\ SendsExact(tasks, inFlight, generation)'
         /\ PollAwaits(tasks, polling, generation)'
         /\ \A u \in tasks' : \E v \in tasks : u.delivery = v.delivery
<1>1. /\ TypeOK /\ SendsExact(tasks, inFlight, generation) /\ SlotsOK
      /\ PollAwaits(tasks, polling, generation)
  BY DEF WorkerInv
<1>2. /\ tasks' \in SUBSET Task
      /\ inFlight' \in [Destination -> {None} \cup 0 .. MaxGeneration]
      /\ polling' \in {None} \cup 0 .. MaxGeneration
      /\ Marked(inFlight') \subseteq Marked(inFlight)
      /\ SendsExact(tasks', inFlight', generation)
      /\ PollAwaits(tasks', polling', generation)
      /\ \A u \in tasks' : \E v \in R : u.delivery = v.delivery
  BY <1>1, FinishSends
<1>3. SlotsOK'
  BY <1>1, <1>2, SlotsKept
<1>4. \A u \in tasks' : \E v \in tasks : u.delivery = v.delivery
  BY <1>2 DEF Copies, Alike
<1>5. SendsExact(tasks, inFlight, generation)' /\ PollAwaits(tasks, polling, generation)'
  BY <1>2 DEF SendsExact, PollAwaits, SendsOf
<1> QED
  BY <1>2, <1>3, <1>4, <1>5

LEMMA CopiesExact ==
  ASSUME NEW S \in SUBSET Task, NEW R \in SUBSET Task, NEW marks, NEW poll, NEW g,
         SendsExact(S, marks, g), PollAwaits(S, poll, g), Copies(R, S), Apart(R, g)
  PROVE  SendsExact(R, marks, g) /\ PollAwaits(R, poll, g)
<1>1. \A d \in Destination : (\E t \in SendsOf(R, g) : DestinationOf[t.delivery] = d)
                           <=> (\E t \in SendsOf(S, g) : DestinationOf[t.delivery] = d)
  BY DEF Copies, Alike, SendsOf
<1>2. SendsExact(R, marks, g)
  BY <1>1 DEF SendsExact, Apart
<1>3. PollAwaits(R, poll, g)
  BY DEF PollAwaits, Copies, Alike, SendsOf
<1> QED
  BY <1>2, <1>3

LEMMA TaskThrowsOK ==
  ASSUME WorkerInv, NEW t \in tasks, TaskThrows(t)
  PROVE  WorkerInv'
<1>1. /\ tasks' \in SUBSET Task
      /\ inFlight' \in [Destination -> {None} \cup 0 .. MaxGeneration]
      /\ polling' \in {None} \cup 0 .. MaxGeneration
      /\ SlotsOK' /\ SendsExact(tasks, inFlight, generation)'
      /\ PollAwaits(tasks, polling, generation)'
      /\ \A u \in tasks' : \E v \in tasks : u.delivery = v.delivery
  BY Remaining, FinishKeeps DEF TaskThrows
<1>2. RowsNext
  BY RowsStay DEF TaskThrows
<1> QED
  BY <1>1, <1>2, RowsBack DEF WorkerInv, TypeOK, EvidenceOK, TaskThrows, destinationVars

(* What the answer to a probe or a send leaves of probes and evidence.         *)
LEMMA VerdictKept ==
  ASSUME WorkerInv, NEW read \in Reading, NEW d \in Destination, NEW outcome \in Verdict,
         NEW counts \in BOOLEAN, counts => Counts(read, d),
         UNCHANGED <<enabled, secrets, version, connectedFrom, credential>>,
         health' = IF counts THEN [health EXCEPT ![d] = Recorded(read, outcome)] ELSE health,
         probes' = IF counts THEN ProbesPast(probes, {d}) ELSE probes
  PROVE  EvidenceOK' /\ health' \in [Destination -> Health] /\ probes' \in SUBSET Probe
<1>1. CASE counts
  <2>1. EvidenceOK' /\ health' \in [Destination -> Health]
    BY <1>1, EvidenceRecorded
  <2> QED
    BY <1>1, <2>1, ProbesPastTyped DEF WorkerInv, TypeOK
<1>2. CASE ~counts
  <2>1. EvidenceOK'
    BY <1>2, EvidenceStays
  <2> QED
    BY <1>2, <2>1 DEF WorkerInv, TypeOK
<1> QED
  BY <1>1, <1>2

LEMMA TaskProbeEndsOK ==
  ASSUME WorkerInv, NEW t \in tasks, NEW outcome \in Verdict, TaskProbeEnds(t, outcome)
  PROVE  WorkerInv'
<1> DEFINE d == DestinationOf[t.delivery]
           counts == Counts(t.read, d)
           D == IF counts THEN {d} ELSE {}
<1>1. t \in Task /\ t.read \in Reading /\ d \in Destination /\ counts \in BOOLEAN
  BY Remaining, WorkerAssumption DEF Task, Counts, IsCurrent
<1>2. /\ tasks' \in SUBSET Task
      /\ inFlight' \in [Destination -> {None} \cup 0 .. MaxGeneration]
      /\ polling' \in {None} \cup 0 .. MaxGeneration
      /\ SlotsOK' /\ SendsExact(tasks, inFlight, generation)'
      /\ PollAwaits(tasks, polling, generation)'
      /\ \A u \in tasks' : \E v \in tasks : u.delivery = v.delivery
  <2>1. Finish(t, TasksPast(tasks \ {t}, {}, D), FALSE) /\ generation' = generation
    BY DEF TaskProbeEnds
  <2> HIDE DEF D
  <2> QED
    BY <2>1, Remaining, FinishKeeps
<1>3. RowsNext
  BY VerdictRows DEF TaskProbeEnds
<1>4. EvidenceOK' /\ health' \in [Destination -> Health] /\ probes' \in SUBSET Probe
  <2>1. /\ UNCHANGED <<enabled, secrets, version, connectedFrom, credential>>
        /\ health' = IF counts THEN [health EXCEPT ![d] = Recorded(t.read, outcome)] ELSE health
        /\ probes' = IF counts THEN ProbesPast(probes, {d}) ELSE probes
        /\ counts => Counts(t.read, d)
    BY DEF TaskProbeEnds, destinationVars
  <2> HIDE DEF counts, d
  <2> QED
    BY <1>1, <2>1, VerdictKept
<1> QED
  BY <1>2, <1>3, <1>4, RowsBack DEF WorkerInv, TypeOK, TaskProbeEnds, destinationVars

LEMMA SendAnswersOK ==
  ASSUME WorkerInv, NEW t \in tasks, NEW outcome \in Outcome, SendAnswers(t, outcome)
  PROVE  WorkerInv'
<1> DEFINE x == t.delivery
           d == DestinationOf[x]
           counts == Applies(t) /\ Counts(t.read, d)
           X == IF Applies(t) THEN {x} ELSE {}
           D == IF counts THEN {d} ELSE {}
           rest == TasksPast(tasks \ {t}, X, D)
           next == [t EXCEPT !.phase = "probing", !.holds = FALSE, !.read = ReadNow(d, version[d])]
<1>1. /\ t \in Task /\ t.read \in Reading /\ x \in Delivery /\ d \in Destination
      /\ counts \in BOOLEAN /\ row[x].state # "none"
  BY Remaining, WorkerAssumption DEF Task, Counts, IsCurrent, WorkerInv, RowsVersioned
<1>2. rest \in SUBSET Task /\ Copies(rest, tasks \ {t}) /\ Apart(rest, generation)
  <2> HIDE DEF X, D
  <2> QED
    BY Remaining
<1>3. RowsNext
  <2>1. CASE Applies(t)
    <3>1. PICK S \in SUBSET Admissible :
            \E state \in SettledStates(row[x], outcome) :
              row' = Admitted([row EXCEPT ![x] = Answered(@, state, outcome)], S)
      BY <2>1 DEF SendAnswers
    <3>0. PICK state \in SettledStates(row[x], outcome) :
            row' = Admitted([row EXCEPT ![x] = Answered(@, state, outcome)], S)
      BY <3>1
    <3> DEFINE closed == Answered(row[x], state, outcome)
               rows == [row EXCEPT ![x] = closed]
    <3>2. RowOK(closed) /\ closed.state # "none"
      <4>1. state \in Ended \cup {"retry"}
        BY DEF SettledStates, Outcome, Ended
      <4>2. row[x] \in Row /\ row[x].version >= 1 /\ row[x].failed \in BOOLEAN
        BY <1>1 DEF WorkerInv, TypeOK, RowsVersioned, Row
      <4> DEFINE failed == row[x].failed \/ outcome # "success"
      <4>3. closed = [row[x] EXCEPT !.state = state, !.due = FALSE, !.failed = failed]
            /\ failed \in BOOLEAN
        BY <4>2 DEF Answered, Row
      <4> HIDE DEF failed, closed
      <4> QED
        BY <4>1, <4>2, <4>3 DEF RowOK, Row, Unfinished, Ended
    <3>3. row \in [Delivery -> Row] /\ \A y \in Delivery : RowOK(row[y])
      BY RowsInv DEF RowsOK
    <3>4. row' = Admitted(rows, S)
      BY <3>0
    <3> HIDE DEF closed
    <3>5. RowsOK(rows) /\ \A y \in Delivery : row[y].state # "none" => rows[y].state # "none"
      BY <1>1, <3>2, <3>3 DEF RowsOK, RowOK
    <3> HIDE DEF rows
    <3>6. RowsOK(row)'
      BY <3>4, <3>5, RowsInv, RowsAdmitted DEF RowsOK, RowOK
    <3>7. \A y \in Delivery : rows[y].state # "none" => row'[y].state # "none"
      BY <3>4, <3>5 DEF Admitted, RowsOK, RowOK, Row
    <3> QED
      BY <3>5, <3>6, <3>7 DEF RowsNext
  <2>2. CASE ~Applies(t)
    BY <2>2, RowsStay DEF SendAnswers
  <2> QED
    BY <2>1, <2>2
<1>4. EvidenceOK' /\ health' \in [Destination -> Health] /\ probes' \in SUBSET Probe
  <2>1. /\ UNCHANGED <<enabled, secrets, version, connectedFrom, credential>>
        /\ health' = IF counts THEN [health EXCEPT ![d] = Recorded(t.read, outcome)] ELSE health
        /\ probes' = IF counts THEN ProbesPast(probes, {d}) ELSE probes
        /\ counts => Counts(t.read, d)
    BY DEF SendAnswers, destinationVars
  <2>2. PICK verdict \in Verdict : Recorded(t.read, outcome) = Recorded(t.read, verdict)
    BY DEF Recorded, Verdict, Outcome
  <2> HIDE DEF counts, d
  <2> QED
    BY <1>1, <2>1, <2>2, VerdictKept
<1>5. /\ tasks' \in SUBSET Task
      /\ inFlight' \in [Destination -> {None} \cup 0 .. MaxGeneration]
      /\ polling' \in {None} \cup 0 .. MaxGeneration
      /\ SlotsOK' /\ SendsExact(tasks, inFlight, generation)'
      /\ PollAwaits(tasks, polling, generation)'
      /\ \A u \in tasks' : \E v \in tasks : u.delivery = v.delivery
  <2>1. CASE t.outdated /\ IsCurrent(t.read.generation) /\ enabled[d]
    <3>1. /\ tasks' = rest \cup {next} /\ UNCHANGED <<inFlight, polling, generation>>
          /\ t.read.generation = generation
      BY <2>1 DEF SendAnswers, IsCurrent
    <3>2. next \in Task /\ Alike(next, t)
      <4>1. ReadNow(d, version[d]) \in Reading
        BY <1>1, ReadingNow DEF WorkerInv, TypeOK
      <4>2. ReadNow(d, version[d]).generation = generation
        BY DEF ReadNow
      <4> DEFINE read == ReadNow(d, version[d])
      <4> HIDE DEF read
      <4> QED
        BY <1>1, <3>1, <4>1, <4>2 DEF Task, Alike, read
    <3> HIDE DEF next, rest
    <3>3. Copies(tasks', tasks)
      BY <1>2, <3>1, <3>2 DEF Copies
    <3>4. Apart(tasks', generation)
      <4>1. Apart(tasks, generation) /\ generation \in Nat
        BY SendsInv
      <4>2. \A u \in SendsOf(rest, generation) : DestinationOf[u.delivery] # d
        BY <1>2, <3>1, <4>1 DEF Copies, Alike, Apart, SendsOf
      <4>3. \A u \in tasks' : u.read.generation <= generation
        BY <1>2, <3>1, <3>2, <4>1 DEF Apart, Alike
      <4> QED
        BY <1>2, <3>1, <3>2, <4>2, <4>3 DEF Apart, Alike, SendsOf
    <3>5. tasks' \in SUBSET Task
      BY <1>2, <3>1, <3>2
    <3>6. SendsExact(tasks', inFlight, generation) /\ PollAwaits(tasks', polling, generation)
      BY <3>3, <3>4, <3>5, SendsInv, CopiesExact DEF WorkerInv
    <3>7. SendsExact(tasks, inFlight, generation)' /\ PollAwaits(tasks, polling, generation)'
      BY <3>1, <3>6 DEF SendsExact, PollAwaits, SendsOf
    <3>8. \A u \in tasks' : \E v \in tasks : u.delivery = v.delivery
      BY <3>3 DEF Copies, Alike
    <3> QED
      BY <3>1, <3>5, <3>7, <3>8 DEF WorkerInv, TypeOK, SlotsOK
  <2>2. CASE ~(t.outdated /\ IsCurrent(t.read.generation) /\ enabled[d])
    <3>1. Finish(t, rest, FALSE) /\ generation' = generation
      BY <2>2 DEF SendAnswers
    <3> HIDE DEF rest
    <3> QED
      BY <1>2, <3>1, FinishKeeps
  <2> QED
    BY <2>1, <2>2
<1> QED
  BY <1>3, <1>4, <1>5, RowsBack DEF WorkerInv, TypeOK, SendAnswers, destinationVars

-------------------------------------------------------------------------------
(* What a poll adds *)

LEMMA OneToOne ==
  ASSUME NEW S, NEW T, IsFiniteSet(T), NEW f \in [S -> T],
         \A x, y \in S : f[x] = f[y] => x = y
  PROVE  /\ IsFiniteSet(S) /\ Cardinality(S) \in Nat /\ Cardinality(T) \in Nat
         /\ Cardinality(S) <= Cardinality(T)
<1>1. f \in Injection(S, T)
  BY DEF Injection, IsInjective
<1> QED
  BY <1>1, FS_Injection, FS_CardinalityType

LEMMA Onto ==
  ASSUME NEW S, NEW T, IsFiniteSet(S), NEW f \in [S -> T], \A y \in T : \E x \in S : f[x] = y
  PROVE  /\ IsFiniteSet(T) /\ Cardinality(T) \in Nat /\ Cardinality(S) \in Nat
         /\ Cardinality(T) <= Cardinality(S)
<1>1. f \in Surjection(S, T)
  BY DEF Surjection
<1> QED
  BY <1>1, FS_Surjection, FS_CardinalityType

LEMMA MarkedFinite ==
  ASSUME NEW marks
  PROVE  IsFiniteSet(Marked(marks)) /\ Cardinality(Marked(marks)) \in Nat
BY WorkerAssumption, FS_Subset, FS_CardinalityType DEF Marked

LEMMA SlotsFilled ==
  ASSUME SlotsOK, NEW C \in SUBSET Delivery, NEW sent \in SUBSET C,
         \A x, y \in C : DestinationOf[x] = DestinationOf[y] => x = y,
         NEW n \in Nat, Capacity >= 1, Cardinality(C) = Least(Capacity, n),
         Marked(inFlight') = Marked(inFlight) \cup {DestinationOf[x] : x \in sent}
  PROVE  SlotsOK'
<1> DEFINE M == Marked(inFlight)
           T == {DestinationOf[x] : x \in sent}
<1>1. IsFiniteSet(M) /\ Cardinality(M) \in Nat /\ Cardinality(M) <= Concurrency
  BY MarkedFinite DEF SlotsOK
<1>2. IsFiniteSet(C) /\ Cardinality(C) \in Nat
  <2> DEFINE f == [x \in C |-> DestinationOf[x]]
  <2>1. f \in [C -> Destination] /\ \A x, y \in C : f[x] = f[y] => x = y
    BY WorkerAssumption
  <2> HIDE DEF f
  <2> QED
    BY <2>1, OneToOne, WorkerAssumption
<1>3. IsFiniteSet(sent) /\ Cardinality(sent) <= Cardinality(C) /\ Cardinality(sent) \in Nat
  BY <1>2, FS_Subset, FS_CardinalityType
<1>4. IsFiniteSet(T) /\ Cardinality(T) \in Nat /\ Cardinality(T) <= Cardinality(sent)
  <2> DEFINE f == [x \in sent |-> DestinationOf[x]]
  <2>1. f \in [sent -> T] /\ \A y \in T : \E x \in sent : f[x] = y
    OBVIOUS
  <2> HIDE DEF f, T
  <2> QED
    BY <1>3, <2>1, Onto
<1>5. Capacity = Concurrency - Cardinality(M)
  BY DEF Capacity, Marked
<1>6. Cardinality(C) <= Concurrency - Cardinality(M)
  BY <1>1, <1>5, WorkerAssumption DEF Least
<1> HIDE DEF M, T
<1>7. /\ Cardinality(M \cup T) = Cardinality(M) + Cardinality(T) - Cardinality(M \cap T)
      /\ Cardinality(M \cap T) \in Nat /\ Cardinality(M \cup T) \in Nat
  BY <1>1, <1>4, FS_Union, FS_Subset, FS_CardinalityType
<1>8. Cardinality(M \cup T) <= Concurrency
  BY <1>1, <1>2, <1>3, <1>4, <1>6, <1>7, WorkerAssumption
<1> QED
  BY <1>8 DEF SlotsOK, M, T

LEMMA SentExact ==
  ASSUME WorkerInv, NEW S \in SUBSET Task, SendsExact(S, inFlight, generation),
         NEW sent \in SUBSET Delivery, NEW waits \in BOOLEAN,
         \A x, y \in sent : DestinationOf[x] = DestinationOf[y] => x = y,
         \A x \in sent : inFlight[DestinationOf[x]] = None /\ row[x].version >= 1,
         tasks' = {Unawaited(t, waits) : t \in S \cup {NewTask(x) : x \in sent}},
         inFlight' = [d \in Destination |->
                        IF d \in {DestinationOf[x] : x \in sent} THEN generation
                        ELSE inFlight[d]],
         polling' = IF sent # {} /\ waits THEN generation ELSE None,
         generation' = generation
  PROVE  /\ tasks' \in SUBSET Task
         /\ inFlight' \in [Destination -> {None} \cup 0 .. MaxGeneration]
         /\ polling' \in {None} \cup 0 .. MaxGeneration
         /\ SendsExact(tasks, inFlight, generation)'
         /\ PollAwaits(tasks, polling, generation)'
         /\ Marked(inFlight') = Marked(inFlight) \cup {DestinationOf[x] : x \in sent}
         /\ \A u \in tasks' : \E v \in S \cup {NewTask(x) : x \in sent} : u.delivery = v.delivery
<1> DEFINE new == {NewTask(x) : x \in sent}
           all == S \cup new
           D == {DestinationOf[x] : x \in sent}
<1>1. generation \in 0 .. MaxGeneration /\ generation # None /\ generation <= generation
  BY SendsInv, WorkerAssumption
<1>2. \A x \in sent : /\ NewTask(x) \in Task /\ NewTask(x).delivery = x /\ NewTask(x).awaited
                     /\ NewTask(x).read.generation = generation
  <2> SUFFICES ASSUME NEW x \in sent
               PROVE  /\ NewTask(x) \in Task /\ NewTask(x).delivery = x /\ NewTask(x).awaited
                      /\ NewTask(x).read.generation = generation
    OBVIOUS
  <2>1. row[x].version \in 1 .. MaxVersion /\ DestinationOf[x] \in Destination
    BY WorkerAssumption DEF WorkerInv, TypeOK, Row
  <2>2. ReadNow(DestinationOf[x], row[x].version) \in Reading
    BY <2>1, ReadingNow
  <2>3. ReadNow(DestinationOf[x], row[x].version).generation = generation
    BY DEF ReadNow
  <2> DEFINE read == ReadNow(DestinationOf[x], row[x].version)
             outdated == DestinationOf[x] \in HomeAssistant
                           /\ row[x].version # version[DestinationOf[x]]
  <2> HIDE DEF read
  <2>4. outdated \in BOOLEAN
    OBVIOUS
  <2>5. NewTask(x) = [delivery |-> x, phase |-> "sending", awaited |-> TRUE, holds |-> TRUE,
                      outdated |-> outdated, read |-> read]
    BY DEF NewTask, read
  <2> HIDE DEF outdated
  <2> QED
    BY <2>2, <2>3, <2>4, <2>5 DEF Task, read
<1>3. all \in SUBSET Task /\ tasks' = {Unawaited(t, waits) : t \in all}
  BY <1>2
<1>4. \A t \in all : /\ Unawaited(t, waits) \in Task /\ Unawaited(t, waits).delivery = t.delivery
                    /\ Unawaited(t, waits).read = t.read
                    /\ Unawaited(t, waits).awaited = (t.awaited /\ waits)
  BY <1>3, TaskUnawaited
<1>5. \A d \in Destination : inFlight'[d] = IF d \in D THEN generation ELSE inFlight[d]
  OBVIOUS
<1>6. D \subseteq Destination /\ \A d \in D : inFlight[d] = None
  BY WorkerAssumption
<1>7. \A u, v \in SendsOf(all, generation) :
        DestinationOf[u.delivery] = DestinationOf[v.delivery] => u = v
  <2>1. \A u \in SendsOf(S, generation) : DestinationOf[u.delivery] \notin D
    BY <1>1, <1>6 DEF SendsExact
  <2>2. \A u \in new : DestinationOf[u.delivery] \in D
    BY <1>2
  <2>3. \A u, v \in new : DestinationOf[u.delivery] = DestinationOf[v.delivery] => u = v
    BY <1>2
  <2> HIDE DEF new, D
  <2> QED
    BY <2>1, <2>2, <2>3 DEF SendsExact, SendsOf
<1>8. \A d \in Destination : (\E t \in SendsOf(all, generation) : DestinationOf[t.delivery] = d)
                           <=> d \in D \/ inFlight[d] = generation
  BY <1>2 DEF SendsExact, SendsOf
<1> HIDE DEF all, D
<1>9. \A d \in Destination : (\E t \in SendsOf(tasks', generation) : DestinationOf[t.delivery] = d)
                           <=> (\E t \in SendsOf(all, generation) : DestinationOf[t.delivery] = d)
  BY <1>3, <1>4 DEF SendsOf
<1>10. \A u, v \in SendsOf(tasks', generation) :
         DestinationOf[u.delivery] = DestinationOf[v.delivery] => u = v
  <2> SUFFICES ASSUME NEW u \in tasks', NEW v \in tasks', u.read.generation = generation,
                      v.read.generation = generation,
                      DestinationOf[u.delivery] = DestinationOf[v.delivery]
               PROVE  u = v
    BY DEF SendsOf
  <2>1. PICK s \in all, t \in all : u = Unawaited(s, waits) /\ v = Unawaited(t, waits)
    BY <1>3
  <2>2. s = t
    BY <1>4, <1>7, <2>1 DEF SendsOf
  <2> QED
    BY <2>1, <2>2
<1>11. \A u \in tasks' : u.read.generation <= generation
  <2>1. \A t \in all : t.read.generation <= generation
    BY <1>1, <1>2 DEF SendsExact, all
  <2> QED
    BY <1>3, <1>4, <2>1
<1>12. \A d \in Destination : inFlight'[d] \in {None, generation}
  BY <1>5 DEF SendsExact
<1>13. \A d \in Destination : inFlight'[d] = generation <=> d \in D \/ inFlight[d] = generation
  <2> SUFFICES ASSUME NEW d \in Destination
               PROVE  inFlight'[d] = generation <=> d \in D \/ inFlight[d] = generation
    OBVIOUS
  <2>1. inFlight'[d] = IF d \in D THEN generation ELSE inFlight[d]
    BY <1>5
  <2> QED
    BY ONLY <2>1
<1>14. SendsExact(tasks', inFlight', generation)
  BY <1>8, <1>9, <1>10, <1>11, <1>12, <1>13 DEF SendsExact
<1>15. PollAwaits(tasks', polling', generation)
  <2>1. ASSUME polling' = generation
        PROVE  \E u \in SendsOf(tasks', generation) : u.awaited
    <3>1. PICK x \in sent : waits
      BY <1>1, <2>1
    <3>2. Unawaited(NewTask(x), waits) \in tasks' /\ NewTask(x) \in all
      BY <1>3 DEF all
    <3> DEFINE u == Unawaited(NewTask(x), waits)
    <3>3. u.read = NewTask(x).read /\ u.awaited = (NewTask(x).awaited /\ waits)
      BY <1>4, <3>2
    <3>4. NewTask(x).read.generation = generation /\ NewTask(x).awaited
      BY <1>2
    <3> HIDE DEF u
    <3>5. u.read.generation = generation /\ u.awaited
      BY <3>1, <3>3, <3>4
    <3> QED
      BY <3>2, <3>5 DEF SendsOf, u
  <2>2. polling' \in {None, generation}
    OBVIOUS
  <2> QED
    BY <2>1, <2>2 DEF PollAwaits
<1>16. SendsExact(tasks, inFlight, generation)' /\ PollAwaits(tasks, polling, generation)'
  BY <1>14, <1>15 DEF SendsExact, PollAwaits, SendsOf
<1>17. Marked(inFlight') = Marked(inFlight) \cup D
  BY <1>1, <1>5, <1>6 DEF Marked
<1>18. tasks' \in SUBSET Task /\ \A u \in tasks' : \E v \in all : u.delivery = v.delivery
  BY <1>3, <1>4
<1>19. /\ inFlight' \in [Destination -> {None} \cup 0 .. MaxGeneration]
       /\ polling' \in {None} \cup 0 .. MaxGeneration
  BY <1>1 DEF WorkerInv, TypeOK
<1> QED
  BY <1>16, <1>17, <1>18, <1>19 DEF all, D

-------------------------------------------------------------------------------
(* Polls, and the invariant *)

(* The rows after a poll gave T up and claimed C, handing `back` some. *)
RowsAfter(T, C, back, off) ==
  [x \in Delivery |->
                IF x \in T THEN Closed(row[x], "terminal")
                ELSE IF x \in back THEN Released(Leased(row[x]))
                ELSE IF x \in C
                  THEN IF DestinationOf[x] \in off THEN Paused(Leased(row[x]))
                                                   ELSE Leased(row[x])
                ELSE IF DestinationOf[x] \in off THEN Paused(row[x]) ELSE row[x]]

LEMMA PollRows ==
  ASSUME WorkerInv, NEW T \in SUBSET (Spent \cup WindowOver), NEW C \in SUBSET Claimable,
         NEW back \in SUBSET C, NEW off,
         row' = RowsAfter(T, C, back, off)
  PROVE  RowsNext
<1> SUFFICES ASSUME NEW x \in Delivery
             PROVE  RowOK(row'[x]) /\ (row[x].state # "none" => row'[x].state # "none")
  <2>1. row' = [x \in Delivery |-> row'[x]]
    BY DEF RowsAfter
  <2> QED
    BY <2>1 DEF RowsNext, RowsOK, RowOK
<1>1. RowOK(row[x]) /\ row[x] \in Row
  BY RowsInv DEF RowsOK, RowOK
<1>2. CASE x \in T
  <2>1. row[x].state # "none" /\ row'[x] = Closed(row[x], "terminal")
    BY <1>2 DEF RowsAfter, Spent, WindowOver, Reclaimable
  <2>2. Closed(row[x], "terminal").state = "terminal"
    BY <1>1 DEF Closed, Row
  <2> QED
    BY <1>1, <2>1, <2>2, RowUpdates DEF Ended
<1>3. CASE x \in C /\ x \notin T
  <2>1. row[x].state # "none" /\ row[x].cycle < MaxCycle
    BY <1>3 DEF Claimable, Unfinished
  <2>2. RowOK(Leased(row[x])) /\ Leased(row[x]).state = "leased"
    BY <1>1, <2>1, RowUpdates DEF Leased, Row
  <2> DEFINE r == Leased(row[x])
  <2> HIDE DEF r
  <2>3. RowOK(r) /\ r.state = "leased" /\ r \in Row
    BY <2>2 DEF r, RowOK
  <2>4. RowOK(Released(r)) /\ RowOK(Paused(r))
    BY <2>3, RowUpdates
  <2>5. Released(r).state # "none" /\ Paused(r).state # "none"
    BY <2>3 DEF Released, Paused, Row, Unfinished
  <2>6. row'[x] \in {Released(r), Paused(r), r}
    BY <1>3 DEF RowsAfter, r
  <2> QED
    BY <2>1, <2>3, <2>4, <2>5, <2>6
<1>4. CASE x \notin T /\ x \notin C
  <2>1. row'[x] \in {Paused(row[x]), row[x]}
    BY <1>4 DEF RowsAfter
  <2>2. RowOK(Paused(row[x])) /\ (row[x].state # "none" => Paused(row[x]).state # "none")
    BY <1>1, RowUpdates DEF Paused, Row
  <2> QED
    BY <1>1, <2>1, <2>2
<1> QED
  BY <1>2, <1>3, <1>4

LEMMA PollOK ==
  ASSUME WorkerInv, Poll
  PROVE  WorkerInv'
<1> PICK batch \in Batches : \E broken \in SUBSET batch[2] : Claims(batch[1], batch[2], broken)
  BY DEF Poll
<1> PICK broken \in SUBSET batch[2] : Claims(batch[1], batch[2], broken)
  OBVIOUS
<1> DEFINE T == batch[1]
           C == batch[2]
           back == {x \in C : AlreadyInFlight(DestinationOf[x])}
           threw == broken \ back
           bare == {x \in C \ (back \cup threw) : ~Usable(DestinationOf[x])}
           sent == C \ (back \cup threw \cup bare)
           off == {DestinationOf[x] : x \in bare}
           moved == T \cup C \cup UNION {Of(d) : d \in off}
           S == TasksPast(tasks, moved, off)
<1>1. /\ T \in SUBSET (Spent \cup WindowOver) /\ C \in SUBSET Claimable /\ C \in SUBSET Delivery
      /\ \A x, y \in C : DestinationOf[x] = DestinationOf[y] => x = y
      /\ Cardinality(C) = Least(Capacity, Cardinality({DestinationOf[x] : x \in Claimable \ T}))
  BY DEF Batches, Claimable
<1>20. /\ back \in SUBSET C
       /\ row' = RowsAfter(T, C, back, off)
  BY DEF Claims, RowsAfter
<1>2. RowsNext
  <2> HIDE DEF T, C, back, off
  <2> QED
    BY <1>1, <1>20, PollRows
<1>3. UNCHANGED <<secrets, version, connectedFrom, credential, running, stopRequested, generation>>
      /\ Capacity >= 1
  BY DEF Poll
<1>4. S \in SUBSET Task /\ SendsExact(S, inFlight, generation)
  <2> HIDE DEF moved, off
  <2> QED
    BY TasksPastTyped, PastExact DEF WorkerInv, TypeOK
<1>5. /\ sent \in SUBSET Delivery /\ sent \in SUBSET C
      /\ \A x, y \in sent : DestinationOf[x] = DestinationOf[y] => x = y
  BY <1>1
<1>6. \A x \in sent : inFlight[DestinationOf[x]] = None /\ row[x].version >= 1
  <2>1. \A x \in sent : row[x].state # "none"
    BY <1>1 DEF Claimable, Unfinished
  <2>2. \A x \in sent : ~AlreadyInFlight(DestinationOf[x])
    OBVIOUS
  <2> HIDE DEF sent
  <2> QED
    BY <1>5, <2>1, <2>2 DEF WorkerInv, RowsVersioned, AlreadyInFlight
<1>7. tasks' = {Unawaited(t, threw = {}) : t \in S \cup {NewTask(x) : x \in sent}}
  BY DEF Unawaited, Claims
<1>8. /\ inFlight' = [d \in Destination |->
                        IF d \in {DestinationOf[x] : x \in sent} THEN generation
                        ELSE inFlight[d]]
      /\ polling' = IF sent # {} /\ threw = {} THEN generation ELSE None
      /\ probes' = ProbesPast(probes, off)
      /\ enabled' = [d \in Destination |-> enabled[d] /\ d \notin off]
      /\ health' = [d \in Destination |->
                      IF d \in off THEN [health[d] EXCEPT !.state = "failing"] ELSE health[d]]
  BY DEF Claims
<1> DEFINE waits == threw = {}
<1> HIDE DEF T, C, back, threw, bare, sent, off, moved, S
<1>9. /\ tasks' \in SUBSET Task
      /\ inFlight' \in [Destination -> {None} \cup 0 .. MaxGeneration]
      /\ polling' \in {None} \cup 0 .. MaxGeneration
      /\ SendsExact(tasks, inFlight, generation)'
      /\ PollAwaits(tasks, polling, generation)'
      /\ Marked(inFlight') = Marked(inFlight) \cup {DestinationOf[x] : x \in sent}
      /\ \A u \in tasks' : \E v \in S \cup {NewTask(x) : x \in sent} : u.delivery = v.delivery
  <2>1. waits \in BOOLEAN
    OBVIOUS
  <2>2. /\ tasks' = {Unawaited(t, waits) : t \in S \cup {NewTask(x) : x \in sent}}
        /\ polling' = IF sent # {} /\ waits THEN generation ELSE None
    BY <1>7, <1>8
  <2> HIDE DEF waits
  <2> QED
    BY <1>3, <1>4, <1>5, <1>6, <1>8, <2>1, <2>2, SentExact
<1>10. SlotsOK'
  <2>1. Cardinality({DestinationOf[x] : x \in Claimable \ T}) \in Nat
    <3>1. {DestinationOf[x] : x \in Claimable \ T} \in SUBSET Destination
      BY WorkerAssumption DEF Claimable
    <3> DEFINE all == {DestinationOf[x] : x \in Claimable \ T}
    <3> HIDE DEF all
    <3>2. all \in SUBSET Destination
      BY <3>1 DEF all
    <3>3. Cardinality(all) \in Nat
      BY <3>2, WorkerAssumption, FS_Subset, FS_CardinalityType
    <3> QED
      BY <3>3 DEF all
  <2> DEFINE n == Cardinality({DestinationOf[x] : x \in Claimable \ T})
  <2>2. Cardinality(C) = Least(Capacity, n) /\ n \in Nat
    BY <1>1, <2>1
  <2> HIDE DEF n
  <2> QED
    BY <1>1, <1>3, <1>5, <1>9, <2>2, SlotsFilled DEF WorkerInv
<1>11. RowsVersioned' /\ row' \in [Delivery -> Row]
  <2>1. row' \in [Delivery -> Row] /\ \A x \in Delivery : row'[x].state # "none" => row'[x].version >= 1
    BY <1>2 DEF RowsNext, RowsOK, RowOK
  <2>2. ASSUME NEW u \in tasks'
        PROVE  row'[u.delivery].state # "none"
    <3>1. PICK v \in S \cup {NewTask(x) : x \in sent} : u.delivery = v.delivery
      BY <1>9, <2>2
    <3>2. v.delivery \in Delivery /\ row[v.delivery].state # "none"
      <4>1. CASE v \in S
        <5>1. PICK t \in tasks : v = Past(t, moved, off)
          BY <4>1, TasksPastIs DEF S
        <5>2. v.delivery = t.delivery /\ t.delivery \in Delivery
          BY <5>1, TaskPast DEF WorkerInv, TypeOK, Task
        <5> QED
          BY <5>2 DEF WorkerInv, RowsVersioned
      <4>2. CASE v \in {NewTask(x) : x \in sent}
        BY <1>1, <1>5, <4>2 DEF NewTask, Claimable, Unfinished
      <4> QED
        BY <3>1, <4>1, <4>2
    <3> QED
      BY <1>2, <3>1, <3>2 DEF RowsNext
  <2> QED
    BY <2>1, <2>2 DEF RowsVersioned
<1>12. probes' \in SUBSET Probe
  BY <1>8, ProbesPastTyped DEF WorkerInv, TypeOK
<1>13. enabled' \in [Destination -> BOOLEAN] /\ health' \in [Destination -> Health]
  BY <1>8 DEF WorkerInv, TypeOK, Health
<1>14. EvidenceOK'
  <2> SUFFICES ASSUME NEW d \in Destination
               PROVE  /\ connectedFrom'[d] <= version'[d]
                      /\ enabled'[d] => secrets'[d] # "absent"
                      /\ health'[d].state = "healthy" /\ secrets'[d] # "absent" =>
                           /\ health'[d].version >= connectedFrom'[d]
                           /\ health'[d].credential = credential'[d]
    BY DEF EvidenceOK
  <2>1. health'[d] = health[d] \/ health'[d].state = "failing"
    BY <1>8 DEF WorkerInv, TypeOK, Health
  <2>2. enabled'[d] => enabled[d]
    BY <1>8
  <2> QED
    BY <1>3, <2>1, <2>2 DEF WorkerInv, EvidenceOK
<1>15. TypeOK'
  BY <1>3, <1>9, <1>11, <1>12, <1>13 DEF WorkerInv, TypeOK
<1> QED
  BY <1>9, <1>10, <1>11, <1>14, <1>15 DEF WorkerInv

LEMMA WorkerInitOK == Init => WorkerInv
<1> SUFFICES ASSUME Init
             PROVE  WorkerInv
  OBVIOUS
<1>0. /\ version = [d \in Destination |-> 1] /\ connectedFrom = [d \in Destination |-> 1]
      /\ credential = [d \in Destination |-> 1] /\ enabled = [d \in Destination |-> TRUE]
      /\ secrets = [d \in Destination |-> "usable"]
  BY DEF Init, InitWith
<1>1. TypeOK
  <2>1. 1 \in 1 .. MaxVersion /\ 0 \in 0 .. MaxVersion /\ 0 \in 0 .. MaxCycle
        /\ 0 \in 0 .. MaxGeneration
    BY WorkerAssumption
  <2>2. row \in [Delivery -> Row] /\ health \in [Destination -> Health]
    BY <2>1 DEF Init, InitWith, Row, Health
  <2> QED
    BY <1>0, <2>1, <2>2 DEF Init, InitWith, TypeOK, Secrets, NoWork, None
<1>2. SlotsOK
  <2>1. Marked(inFlight) = {}
    BY DEF Init, InitWith, Marked, NoWork
  <2> QED
    BY <2>1, WorkerAssumption, FS_EmptySet DEF SlotsOK
<1>3. RowsVersioned /\ EvidenceOK
  BY <1>0 DEF Init, InitWith, RowsVersioned, EvidenceOK
<1>4. SendsExact(tasks, inFlight, generation) /\ PollAwaits(tasks, polling, generation)
  BY DEF Init, InitWith, SendsExact, SendsOf, PollAwaits, NoWork, None
<1> QED
  BY <1>1, <1>2, <1>3, <1>4 DEF WorkerInv

LEMMA WorkerNextOK ==
  ASSUME WorkerInv, [Next]_vars
  PROVE  WorkerInv'
<1>1. CASE Next
  BY <1>1, AdmitOK, PollOK, StartOK, StopOK, CrashOK, LeaseExpiresOK, BackoffElapsesOK,
     SendAnswersOK, TaskProbeEndsOK, TaskThrowsOK, ProbeEndsOK, ConnectionEvidenceOK,
     DisableOK, EnableOK, RemoveSecretOK, ReplaceSecretOK, SecretStoreChangesOK, EditOK
     DEF Next, SendEnds, TaskProbeSettles
<1>2. CASE UNCHANGED vars
  <2>1. TypeOK' /\ RowsVersioned' /\ EvidenceOK' /\ SlotsOK'
    BY <1>2 DEF WorkerInv, TypeOK, RowsVersioned, EvidenceOK, SlotsOK, vars, destinationVars,
                workerVars
  <2>2. SendsExact(tasks, inFlight, generation)' /\ PollAwaits(tasks, polling, generation)'
    BY <1>2 DEF WorkerInv, vars, destinationVars, workerVars
  <2> QED
    BY <2>1, <2>2 DEF WorkerInv
<1> QED
  BY <1>1, <1>2

LEMMA WorkerInvSound == WorkerInv => SendsSound
<1> SUFFICES ASSUME WorkerInv
             PROVE  SendsSound
  OBVIOUS
<1>1. Mine = SendsOf(tasks, generation)
  BY DEF Mine, SendsOf
<1>2. generation \in 0 .. MaxGeneration /\ generation # None
  BY SendsInv
<1>3. OneSendPerDestination
  BY <1>1 DEF OneSendPerDestination, WorkerInv, SendsExact
<1>4. InFlightExact
  BY <1>1, <1>2 DEF InFlightExact, WorkerInv, SendsExact
<1>5. PollNotWedged
  BY <1>1 DEF PollNotWedged, WorkerInv, PollAwaits
<1>6. HealthyIsCurrent
  BY DEF HealthyIsCurrent, WorkerInv, EvidenceOK
<1>7. CapacityRespected
  <2> DEFINE f == [t \in Mine |-> DestinationOf[t.delivery]]
  <2>1. \A t \in Mine : t \in Task /\ DestinationOf[t.delivery] \in Destination
    BY WorkerAssumption DEF Mine, WorkerInv, TypeOK, Task
  <2>2. f \in [Mine -> Marked(inFlight)]
    BY <1>2, <2>1, <1>4 DEF InFlightExact, Marked
  <2>3. \A t, u \in Mine : f[t] = f[u] => t = u
    BY <1>3 DEF OneSendPerDestination
  <2> HIDE DEF f
  <2>4. Cardinality(Mine) <= Cardinality(Marked(inFlight)) /\ Cardinality(Mine) \in Nat
        /\ Cardinality(Marked(inFlight)) \in Nat
    BY <2>2, <2>3, MarkedFinite, OneToOne
  <2> QED
    BY <2>4, WorkerAssumption DEF CapacityRespected, WorkerInv, SlotsOK
<1> QED
  BY <1>3, <1>4, <1>5, <1>6, <1>7 DEF SendsSound

-------------------------------------------------------------------------------
(* What settles a live lease, and the theorems *)

(* Live leases, and what the writes other than the one that settles make of them. *)
Live(x) == row[x].state = "leased" /\ ~row[x].due

LEMMA AdmittedKeepsLive ==
  ASSUME WorkerInv, NEW rows \in [Delivery -> Row], NEW S \in SUBSET Admissible,
         NEW x \in Delivery, Live(x)
  PROVE  Admitted(rows, S)[x] = rows[x]
BY DEF Admitted, Admissible, Live

LEMMA PausedKeepsLive ==
  ASSUME WorkerInv, NEW x \in Delivery, Live(x)
  PROVE  Paused(row[x]).state \notin Ended
BY DEF WorkerInv, TypeOK, Row, Live, Paused, Unfinished, Ended

LEMMA PollKeepsLive ==
  ASSUME WorkerInv, NEW T \in SUBSET (Spent \cup WindowOver), NEW C \in SUBSET Claimable,
         NEW broken, Claims(T, C, broken), NEW x \in Delivery, Live(x)
  PROVE  row'[x].state \notin Ended
<1>1. x \notin T /\ x \notin C
  BY DEF Live, Spent, WindowOver, Reclaimable, Claimable, Unfinished
<1>2. row'[x] \in {Paused(row[x]), row[x]}
  BY <1>1 DEF Claims
<1> QED
  BY <1>2, PausedKeepsLive DEF Live, Ended

LEMMA FinishKeepsHolds ==
  ASSUME NEW t, NEW R \in SUBSET Task, NEW threw, Finish(t, R, threw)
  PROVE  \A u \in tasks' : \E v \in R : u.delivery = v.delivery /\ u.holds = v.holds
<1> SUFFICES ASSUME NEW u \in tasks'
             PROVE  \E v \in R : u.delivery = v.delivery /\ u.holds = v.holds
  OBVIOUS
<1>1. CASE u \in R
  BY <1>1
<1>2. CASE u \notin R
  <2>1. PICK v \in R : u = Unawaited(v, v.read.generation # t.read.generation)
    BY <1>2 DEF Finish, Unawaited
  <2> DEFINE waits == v.read.generation # t.read.generation
  <2>2. waits \in BOOLEAN
    OBVIOUS
  <2> HIDE DEF waits
  <2>3. Unawaited(v, waits).delivery = v.delivery /\ Unawaited(v, waits).holds = v.holds
    BY <2>2, TaskUnawaited
  <2> QED
    BY <2>1, <2>3 DEF waits
<1> QED
  BY <1>1, <1>2

LEMMA SendSettlesOwn ==
  ASSUME WorkerInv, NEW t \in tasks, NEW outcome \in Outcome, SendAnswers(t, outcome),
         NEW x \in Delivery, Live(x), row'[x].state \in Ended
  PROVE  t \in Mine /\ t.delivery = x /\ t.holds /\ t \notin tasks'
<1>1. t \in Task /\ t.delivery \in Delivery
  BY Remaining DEF Task
<1>2. Applies(t) /\ t.delivery = x
  <2>1. CASE ~Applies(t)
    BY <2>1 DEF SendAnswers, Live, Ended
  <2>2. CASE Applies(t) /\ t.delivery # x
    <3>1. PICK S \in SUBSET Admissible : \E state \in SettledStates(row[t.delivery], outcome) :
            row' = Admitted([row EXCEPT ![t.delivery] = Answered(@, state, outcome)], S)
      BY <2>2 DEF SendAnswers
    <3>2. PICK state \in SettledStates(row[t.delivery], outcome) :
            row' = Admitted([row EXCEPT ![t.delivery] = Answered(@, state, outcome)], S)
      BY <3>1
    <3> DEFINE answered == Answered(row[t.delivery], state, outcome)
    <3> HIDE DEF answered
    <3>3. row' = Admitted([row EXCEPT ![t.delivery] = answered], S)
      BY <3>2 DEF answered
    <3>4. row'[x] = row[x]
      BY <1>1, <2>2, <3>3 DEF Admitted, Admissible, Live, WorkerInv, TypeOK
    <3> QED
      BY <3>4 DEF Live, Ended
  <2> QED
    BY <2>1, <2>2
<1>3. t \in Mine /\ t.holds
  BY <1>2 DEF Applies, IsCurrent, Mine
<1> DEFINE d == DestinationOf[t.delivery]
           D == IF Applies(t) /\ Counts(t.read, d) THEN {d} ELSE {}
           rest == TasksPast(tasks \ {t}, {x}, D)
           probing == [t EXCEPT !.phase = "probing", !.holds = FALSE,
                                !.read = ReadNow(d, version[d])]
<1>4. \A u \in rest : u \in Task /\ ~(u.delivery = x /\ u.holds)
  <2> HIDE DEF D
  <2> QED
    BY TaskPast, TasksPastIs DEF WorkerInv, TypeOK
<1>5. (tasks' = rest \cup {probing}) \/ Finish(t, rest, FALSE)
  BY <1>2 DEF SendAnswers
<1>6. ~probing.holds
  BY <1>1 DEF Task
<1> HIDE DEF rest, probing
<1>7. \A u \in tasks' : ~(u.delivery = x /\ u.holds)
  <2>1. CASE tasks' = rest \cup {probing}
    BY <1>4, <1>6, <2>1
  <2>2. CASE Finish(t, rest, FALSE)
    <3>1. rest \in SUBSET Task
      BY <1>4
    <3>2. \A u \in tasks' : \E v \in rest : u.delivery = v.delivery /\ u.holds = v.holds
      BY <2>2, <3>1, FinishKeepsHolds
    <3> QED
      BY <1>4, <3>2
  <2> QED
    BY <1>5, <2>1, <2>2
<1> QED
  BY <1>2, <1>3, <1>7

LEMMA OthersKeepLive ==
  ASSUME WorkerInv, [Next]_vars, ~SendEnds, NEW x \in Delivery, Live(x)
  PROVE  row'[x].state \notin Ended
<1>0. row \in [Delivery -> Row] /\ row[x].state \notin Ended
  BY DEF WorkerInv, TypeOK, Live, Ended
<1>1. \A S \in SUBSET Admissible : row' = Admitted(row, S) => row'[x].state \notin Ended
  BY <1>0, AdmittedKeepsLive
<1>2. CASE Poll
  BY <1>2, PollKeepsLive DEF Poll, Batches
<1>3. CASE Start
  BY <1>0, <1>3, PausedKeepsLive DEF Start
<1>4. ASSUME NEW d \in Destination, row' = PausedRows(d)
      PROVE  row'[x].state \notin Ended
  BY <1>0, <1>4, PausedKeepsLive DEF PausedRows
<1>5. ASSUME NEW y \in Delivery, LeaseExpires(y) \/ BackoffElapses(y)
      PROVE  row'[x].state \notin Ended
  BY <1>0, <1>5 DEF LeaseExpires, BackoffElapses, Row
<1>6. CASE \/ Admit \/ TaskProbeSettles
           \/ \E p \in probes, outcome \in Verdict : ProbeEnds(p, outcome)
           \/ \E d \in Destination, outcome \in Verdict, v, cr \in 1 .. MaxVersion :
                ConnectionEvidence(d, [ReadNow(d, v) EXCEPT !.credential = cr], outcome)
  BY <1>0, <1>1, <1>6 DEF Admit, TaskProbeSettles, TaskProbeEnds, ProbeEnds, ConnectionEvidence
<1>7. CASE row' = row
  BY <1>0, <1>7
<1> QED
  BY <1>2, <1>3, <1>4, <1>5, <1>6, <1>7
     DEF Next, vars, Stop, Crash, TaskThrows, Disable, RemoveSecret, SwitchOff, Enable,
         ReplaceSecret, SecretStoreChanges, Edit

(* The invariant holds in every state the worker reaches.                       *)
LEMMA WorkerAlways == Spec => []WorkerInv
<1>1. Init => WorkerInv
  BY WorkerInitOK
<1>2. WorkerInv /\ [Next]_vars => WorkerInv'
  BY WorkerNextOK
<1> QED
  BY <1>1, <1>2, PTL DEF Spec

(* Rows, marks, tasks and evidence keep their types for any number of           *)
(* deliveries, destinations, slots and restarts (worker.ts).                     *)
THEOREM WorkerTypes == Spec => []TypeOK
<1>1. WorkerInv => TypeOK
  BY DEF WorkerInv
<1> QED
  BY <1>1, WorkerAlways, PTL

(* One send per destination, no more sends than slots, marks exactly where a     *)
(* send runs, no poll that waits for nothing, and a healthy verdict only about   *)
(* the present address and credentials (#pollOnce, #recordTransportStatus).      *)
THEOREM SendsAreSound == Spec => []SendsSound
BY WorkerAlways, WorkerInvSound, PTL

(* A live lease ends only by the answer to the send of this life of the worker   *)
(* that holds it (#processClaim, applyDeliveryResult).                           *)
THEOREM OnlyTheHolderSettles == Spec => SettledByOwnSend
<1>1. WorkerInv /\ [Next]_vars =>
        \A x \in Delivery :
          row[x].state = "leased" /\ ~row[x].due /\ row'[x].state \in Ended =>
            \E t \in Mine : t.delivery = x /\ t.holds /\ t \notin tasks'
  <2> SUFFICES ASSUME WorkerInv, [Next]_vars, NEW x \in Delivery, Live(x),
                      row'[x].state \in Ended
               PROVE  \E t \in Mine : t.delivery = x /\ t.holds /\ t \notin tasks'
    BY DEF Live
  <2>1. PICK t \in tasks, outcome \in Outcome : SendAnswers(t, outcome)
    BY OthersKeepLive DEF SendEnds
  <2> QED
    BY <2>1, SendSettlesOwn
<1> QED
  BY <1>1, WorkerAlways, PTL DEF Spec, SettledByOwnSend

-------------------------------------------------------------------------------
(* LiveUpdates.  Induction over numbers and over the positions of a sequence *)

(* A set of numbers has a least. *)
LEMMA LeastNumber ==
  ASSUME NEW S \in SUBSET Nat, S # {}
  PROVE  \E m \in S : \A y \in S : m <= y
<1> DEFINE T == {1 .. m : m \in S}
           R == StrictSubsetOrdering(Nat)
<1>1. T \subseteq FiniteSubsetsOf(Nat) /\ T # {}
  <2>1. \A m \in S : IsFiniteSet(1 .. m) /\ 1 .. m \subseteq Nat
    BY FS_Interval
  <2> QED
    BY <2>1 DEF FiniteSubsetsOf
<1>2. IsWellFoundedOn(R, FiniteSubsetsOf(Nat))
  BY FS_StrictSubsetOrderingWellFounded
<1>3. \E x \in T : \A z \in T : ~(<<z, x>> \in R)
  <2> HIDE DEF T, R
  <2> QED
    BY <1>1, <1>2, WFMin
<1>4. PICK m \in S : \A y \in S : ~(<<1 .. y, 1 .. m>> \in R)
  BY <1>3
<1>5. \A y \in S : m <= y
  <2> SUFFICES ASSUME NEW y \in S, y < m PROVE FALSE
    OBVIOUS
  <2>1. 1 .. y \subseteq 1 .. m /\ m \in 1 .. m /\ m \notin 1 .. y
    OBVIOUS
  <2>2. <<1 .. y, 1 .. m>> \in R
    BY <2>1 DEF StrictSubsetOrdering
  <2> QED
    BY <2>2, <1>4
<1> QED
  BY <1>5

(* What holds at 0 and passes from one number to the next holds up to n. *)
LEMMA UpTo ==
  ASSUME NEW n \in Nat, NEW G, 0 \in G, \A k \in 0 .. n : k < n /\ k \in G => k + 1 \in G
  PROVE  n \in G
<1> SUFFICES ASSUME n \notin G PROVE FALSE
  OBVIOUS
<1> DEFINE Left == {k \in 0 .. n : k \notin G}
<1>1. Left \in SUBSET Nat /\ n \in Left
  OBVIOUS
<1>2. PICK m \in Left : \A y \in Left : m <= y
  <2> HIDE DEF Left
  <2> QED
    BY <1>1, LeastNumber
<1>3. m # 0 /\ m \in 0 .. n
  OBVIOUS
<1>4. m - 1 \in 0 .. n /\ m - 1 < n /\ m - 1 \notin Left
  BY <1>2, <1>3
<1>5. (m - 1) + 1 \in G
  BY <1>4
<1> QED
  BY <1>5

(* The greatest member of a part of 1 .. n. *)
LEMMA MaxIs ==
  ASSUME NEW n \in Nat, NEW z \in SUBSET (1 .. n), z # {}
  PROVE  Max(z) \in z /\ \A y \in z : Max(z) >= y
<1> DEFINE G == {k \in Nat : \A x \in SUBSET (1 .. k) : x # {} => \E m \in x : \A y \in x : m >= y}
<1>1. 0 \in G
  <2>1. 1 .. 0 = {}
    OBVIOUS
  <2> QED
    BY <2>1
<1>2. ASSUME NEW k \in 0 .. n, k < n, k \in G
      PROVE  k + 1 \in G
  <2> SUFFICES ASSUME NEW x \in SUBSET (1 .. k + 1), x # {}
               PROVE  \E m \in x : \A y \in x : m >= y
    OBVIOUS
  <2>1. CASE k + 1 \in x
    BY <2>1
  <2>2. CASE k + 1 \notin x
    <3>1. x \in SUBSET (1 .. k)
      BY <2>2
    <3> QED
      BY <3>1, <1>2
  <2> QED
    BY <2>1, <2>2
<1>3. n \in G
  <2> HIDE DEF G
  <2> QED
    BY <1>1, <1>2, UpTo
<1>4. \E m \in z : \A y \in z : m >= y
  BY <1>3
<1> QED
  BY <1>4 DEF Max

-------------------------------------------------------------------------------
(* Folds *)

(* iter is the recursive function by which FoldLeft is defined, for the *)
(* step F (a function, so that it can be quantified over), the first value p and the sequence s. *)
Iterates(iter, F, p, s) ==
  iter = [z \in SUBSET (DOMAIN s) |-> IF z = {} THEN p ELSE F[<<iter[z \ {Max(z)}], s[Max(z)]>>]]

(* There is such a function, for every step, first value and sequence. *)
LEMMA IterationExists ==
  ASSUME NEW T, NEW s \in Seq(T), NEW F, NEW p
  PROVE  \E iter : Iterates(iter, F, p, s)
<1> DEFINE n == Len(s)
           Part(g, k) == g = [z \in SUBSET (1 .. k) |->
                                IF z = {} THEN p ELSE F[<<g[z \ {Max(z)}], s[Max(z)]>>]]
           G == {k \in Nat : \E g : Part(g, k)}
<1>1. 0 \in G
  <2> DEFINE g == [z \in SUBSET (1 .. 0) |-> p]
  <2>1. Part(g, 0)
    <3>1. \A z \in SUBSET (1 .. 0) : z = {}
      OBVIOUS
    <3> QED
      BY <3>1
  <2> QED
    BY <2>1
<1>2. ASSUME NEW k \in 0 .. n, k < n, k \in G
      PROVE  k + 1 \in G
  <2>1. PICK g : Part(g, k)
    BY <1>2
  <2> HIDE DEF Part
  <2> DEFINE h == [z \in SUBSET (1 .. k + 1) |->
                     IF k + 1 \in z THEN F[<<g[z \ {k + 1}], s[k + 1]>>] ELSE g[z]]
  <2>2. \A z \in SUBSET (1 .. k + 1) : k + 1 \notin z => z \in SUBSET (1 .. k)
    OBVIOUS
  <2>3. \A z \in SUBSET (1 .. k + 1) : k + 1 \notin z => h[z] = g[z]
    OBVIOUS
  <2>4. ASSUME NEW z \in SUBSET (1 .. k + 1)
        PROVE  h[z] = IF z = {} THEN p ELSE F[<<h[z \ {Max(z)}], s[Max(z)]>>]
    <3>1. CASE z = {}
      BY <3>1, <2>1, <2>3 DEF Part
    <3>2. CASE z # {} /\ k + 1 \in z
      <4>1. Max(z) = k + 1
        <5>1. k + 1 \in Nat /\ z \subseteq Int
          OBVIOUS
        <5>3. Max(z) \in z /\ \A y \in z : Max(z) >= y
          BY <3>2, <5>1, MaxIs
        <5>2. \A m \in z : m \in Int /\ m <= k + 1
          BY <5>1
        <5>4. Max(z) >= k + 1
          BY <5>3, <3>2
        <5>5. Max(z) \in Int /\ Max(z) <= k + 1
          BY <5>2, <5>3
        <5> QED
          BY <5>1, <5>4, <5>5
      <4>2. z \ {k + 1} \in SUBSET (1 .. k + 1) /\ k + 1 \notin z \ {k + 1}
        OBVIOUS
      <4>3. h[z \ {k + 1}] = g[z \ {k + 1}]
        BY <4>2, <2>3
      <4> QED
        BY <4>1, <4>3, <3>2
    <3>3. CASE z # {} /\ k + 1 \notin z
      <4>1. z \in SUBSET (1 .. k)
        BY <3>3, <2>2
      <4>2. g[z] = F[<<g[z \ {Max(z)}], s[Max(z)]>>]
        BY <4>1, <3>3, <2>1 DEF Part
      <4>3. h[z] = g[z] /\ h[z \ {Max(z)}] = g[z \ {Max(z)}]
        BY <3>3, <2>3
      <4> QED
        BY <4>2, <4>3, <3>3
    <3> QED
      BY <3>1, <3>2, <3>3
  <2>5. Part(h, k + 1)
    <3> HIDE DEF h
    <3>1. h = [z \in SUBSET (1 .. k + 1) |-> h[z]]
      BY DEF h
    <3> QED
      BY <3>1, <2>4 DEF Part
  <2> QED
    BY <2>5
<1>3. n \in G
  <2> HIDE DEF G
  <2> QED
    BY <1>1, <1>2, UpTo
<1>4. DOMAIN s = 1 .. n
  OBVIOUS
<1> QED
  BY <1>3, <1>4 DEF Iterates

(* Induction over the positions of a sequence, in the order in which FoldLeft takes them. *)
LEMMA PositionsInduction ==
  ASSUME NEW T, NEW s \in Seq(T), NEW G, {} \in G,
         \A z \in SUBSET (DOMAIN s) : z # {} /\ z \ {Max(z)} \in G => z \in G
  PROVE  SUBSET (DOMAIN s) \subseteq G
<1> DEFINE n == Len(s)
           H == {k \in Nat : k <= n => SUBSET (1 .. k) \subseteq G}
<1>1. DOMAIN s = 1 .. n /\ n \in Nat
  OBVIOUS
<1>2. 0 \in H
  <2>1. \A z \in SUBSET (1 .. 0) : z = {}
    OBVIOUS
  <2> QED
    BY <2>1
<1>3. ASSUME NEW k \in 0 .. n, k < n, k \in H
      PROVE  k + 1 \in H
  <2>6. k \in Nat /\ k + 1 \in Nat /\ k + 1 <= n
    BY <1>1, <1>3
  <2>7. SUFFICES \A z \in SUBSET (1 .. k + 1) : z \in G
    BY <2>6
  <2> SUFFICES ASSUME NEW z \in SUBSET (1 .. k + 1), z # {}
               PROVE  z \in G
    OBVIOUS
  <2>1. k + 1 \in Nat /\ k + 1 <= n /\ z \in SUBSET Int
    BY <2>6
  <2>2. Max(z) \in z /\ \A y \in z : Max(z) >= y
    <3> DEFINE m == k + 1
    <3>1. m \in Nat /\ z \in SUBSET (1 .. m) /\ z # {}
      BY <2>1
    <3> HIDE DEF m
    <3> QED
      BY <3>1, MaxIs
  <2>3. z \ {Max(z)} \in SUBSET (1 .. k)
    <3>1. k \in Int /\ \A y \in z : y \in Int /\ 1 <= y /\ y <= k + 1
      BY <2>1
    <3> SUFFICES ASSUME NEW y \in z, y # Max(z) PROVE y \in 1 .. k
      OBVIOUS
    <3>2. Max(z) \in Int /\ Max(z) <= k + 1 /\ Max(z) >= y
      BY <3>1, <2>2
    <3>3. 1 <= y /\ y <= k /\ y \in Int
      BY <3>1, <3>2
    <3> QED
      BY <3>1, <3>3
  <2>4. z \ {Max(z)} \in G
    BY <2>3, <1>3
  <2>5. z \in SUBSET (1 .. n)
    <3>1. \A i \in 1 .. k + 1 : i \in 1 .. n
      BY <2>1
    <3> QED
      BY <3>1
  <2> QED
    BY <2>4, <2>5, <1>1
<1>4. n \in H
  <2> HIDE DEF H
  <2> QED
    BY <1>1, <1>2, <1>3, UpTo
<1> QED
  BY <1>1, <1>4

-------------------------------------------------------------------------------
(* Pages *)

(* What a page's queue always is: running targets fit in, one that runs again runs, *)
(* and a queued one is queued once and does not run.                                        *)
Pages ==
  {p \in Page :
     /\ IsFiniteSet(p.running) /\ Cardinality(p.running) <= MaxRunning
     /\ p.rerun \subseteq p.running
     /\ \A i \in DOMAIN p.queued :
          /\ p.queued[i] \notin p.running
          /\ \A j \in DOMAIN p.queued : p.queued[i] = p.queued[j] => i = j}

(* The page knows that t is to be fetched: by itself, or with everything. *)
Dirty(p, t) == Contains(p.queued, t) \/ t \in p.rerun \/ Contains(p.held, t) \/ p.again
Noted(p, q, t) == Dirty(q, t) \/ t \in q.running \ p.running

(* From p to q nothing was forgotten or stopped. *)
Later(p, q) ==
  /\ q \in Pages
  /\ p.running \subseteq q.running
  /\ q.recovering = p.recovering
  /\ p.recovering => q.running = p.running
  /\ \A t \in Target : Dirty(p, t) => Noted(p, q, t)

(* To change nothing is to forget nothing. *)
LEMMA LaterSelf ==
  ASSUME NEW p \in Pages
  PROVE  Later(p, p)
BY DEF Later, Noted, Pages

(* Two such changes, one after the other, are one. *)
LEMMA LaterStill ==
  ASSUME NEW p \in Pages, NEW q, NEW r, Later(p, q), Later(q, r)
  PROVE  /\ Later(p, r)
         /\ \A t \in Target : Noted(p, q, t) \/ Noted(q, r, t) => Noted(p, r, t)
<1>1. p \in Page /\ q \in Page /\ r \in Page /\ r \in Pages
  BY DEF Later, Pages
<1>2. \A t \in Target : Noted(p, q, t) \/ Noted(q, r, t) => Noted(p, r, t)
  BY DEF Later, Noted
<1> QED
  BY <1>1, <1>2 DEF Later, Noted

(* A fold each of whose steps notes its target notes them all. *)
LEMMA FoldNotes ==
  ASSUME NEW p \in Pages, NEW s \in Seq(Target), NEW iter, iter[{}] = p,
         \A z \in SUBSET (DOMAIN s) : z # {} /\ iter[z \ {Max(z)}] \in Pages =>
           /\ Later(iter[z \ {Max(z)}], iter[z])
           /\ Noted(iter[z \ {Max(z)}], iter[z], s[Max(z)])
  PROVE  /\ Later(p, iter[DOMAIN s])
         /\ \A i \in DOMAIN s : Noted(p, iter[DOMAIN s], s[i])
<1> DEFINE G == {z \in SUBSET (DOMAIN s) : /\ Later(p, iter[z])
                                           /\ \A i \in z : Noted(p, iter[z], s[i])}
<1>1. {} \in G
  BY LaterSelf
<1>2. ASSUME NEW z \in SUBSET (DOMAIN s), z # {}, z \ {Max(z)} \in G
      PROVE  z \in G
  <2> DEFINE y == z \ {Max(z)}
  <2>1. Later(p, iter[y]) /\ \A i \in y : Noted(p, iter[y], s[i])
    BY <1>2
  <2>2. iter[y] \in Pages
    BY <2>1 DEF Later
  <2>3. Later(iter[y], iter[z]) /\ Noted(iter[y], iter[z], s[Max(z)])
    BY <2>2, <1>2
  <2>4. Later(p, iter[z])
    BY <2>1, <2>3, LaterStill
  <2>5. ASSUME NEW i \in z PROVE Noted(p, iter[z], s[i])
    <3>1. s[i] \in Target
      OBVIOUS
    <3>2. CASE i = Max(z)
      BY <3>1, <3>2, <2>1, <2>3, LaterStill
    <3>3. CASE i # Max(z)
      <4>1. i \in y
        BY <3>3
      <4>2. Noted(p, iter[y], s[i])
        BY <4>1, <2>1
      <4> QED
        BY <3>1, <4>2, <2>1, <2>3, LaterStill
    <3> QED
      BY <3>2, <3>3
  <2> QED
    BY <2>4, <2>5
<1>3. SUBSET (DOMAIN s) \subseteq G
  <2> HIDE DEF G
  <2> QED
    BY <1>1, <1>2, PositionsInduction
<1> QED
  BY <1>3

(* The last of some positions of a sequence is one of them. *)
LEMMA MaxPosition ==
  ASSUME NEW T, NEW s \in Seq(T), NEW z \in SUBSET (DOMAIN s), z # {}
  PROVE  Max(z) \in DOMAIN s /\ s[Max(z)] \in T
<1>1. Len(s) \in Nat /\ DOMAIN s = 1 .. Len(s)
  OBVIOUS
<1>2. Max(z) \in z
  BY <1>1, MaxIs
<1> QED
  BY <1>1, <1>2

-------------------------------------------------------------------------------
(* Holding dirty targets *)

(* A dirty target is held, or the page recovers once more. *)
LEMMA Holds ==
  ASSUME NEW p \in Pages, NEW t \in Target
  PROVE  Later(p, Hold(p, t)) /\ Noted(p, Hold(p, t), t)
<1>1. p \in Page
  BY DEF Pages
<1>2. CASE Contains(p.held, t)
  BY <1>2, LaterSelf DEF Hold, Noted, Dirty
<1>3. CASE ~Contains(p.held, t) /\ Len(p.held) >= HeldLimit
  <2> DEFINE q == [p EXCEPT !.again = TRUE]
  <2>1. Hold(p, t) = q
    BY <1>3 DEF Hold
  <2>2. /\ q \in Page /\ q.again /\ q.running = p.running /\ q.recovering = p.recovering
        /\ q.queued = p.queued /\ q.rerun = p.rerun
    BY <1>1 DEF Page
  <2>3. q \in Pages
    BY <2>2 DEF Pages
  <2> HIDE DEF q
  <2> QED
    BY <2>1, <2>2, <2>3 DEF Later, Noted, Dirty
<1>4. CASE ~Contains(p.held, t) /\ ~(Len(p.held) >= HeldLimit)
  <2> DEFINE q == [p EXCEPT !.held = Append(@, t)]
  <2>1. Hold(p, t) = q
    BY <1>4 DEF Hold
  <2>4. p.held \in Seq(Target) /\ Append(p.held, t) \in Seq(Target)
    BY <1>1 DEF Page
  <2>2. /\ q \in Page /\ q.again = p.again /\ q.running = p.running
        /\ q.recovering = p.recovering /\ q.held = Append(p.held, t)
        /\ q.queued = p.queued /\ q.rerun = p.rerun
    BY <1>1, <2>4 DEF Page
  <2>3. q \in Pages
    BY <2>2 DEF Pages
  <2>5. Contains(q.held, t) /\ \A u \in Target : Contains(p.held, u) => Contains(q.held, u)
    BY <2>2, <2>4 DEF Contains
  <2> HIDE DEF q
  <2> QED
    BY <2>1, <2>2, <2>3, <2>5 DEF Later, Noted, Dirty
<1> QED
  BY <1>2, <1>3, <1>4

(* Dirty targets held one after the other: each is held, or the page recovers once more. *)
LEMMA HoldsAll ==
  ASSUME NEW p \in Pages, NEW s \in Seq(Target)
  PROVE  /\ Later(p, FoldLeft(Hold, p, s))
         /\ \A i \in DOMAIN s : Noted(p, FoldLeft(Hold, p, s), s[i])
<1> DEFINE F == [x \in Pages \X Target |-> Hold(x[1], x[2])]
<1>1. PICK f : Iterates(f, F, p, s)
  BY IterationExists
<1>2. ASSUME NEW z \in SUBSET (DOMAIN s), z # {}
      PROVE  Max(z) \in DOMAIN s /\ s[Max(z)] \in Target
  BY <1>2, MaxPosition
<1>3. SUBSET (DOMAIN s) \subseteq {z \in SUBSET (DOMAIN s) : f[z] \in Pages}
  <2> DEFINE G == {z \in SUBSET (DOMAIN s) : f[z] \in Pages}
  <2>1. {} \in G
    BY <1>1 DEF Iterates
  <2>2. ASSUME NEW z \in SUBSET (DOMAIN s), z # {}, z \ {Max(z)} \in G
        PROVE  z \in G
    <3>1. s[Max(z)] \in Target
      BY <1>2, <2>2
    <3>2. f[z] = Hold(f[z \ {Max(z)}], s[Max(z)])
      BY <1>1, <2>2, <3>1 DEF Iterates
    <3> QED
      BY <2>2, <3>1, <3>2, Holds DEF Later
  <2> HIDE DEF G
  <2>3. SUBSET (DOMAIN s) \subseteq G
    BY <2>1, <2>2, PositionsInduction
  <2> QED
    BY <2>3 DEF G
<1>4. f = [z \in SUBSET (DOMAIN s) |->
             IF z = {} THEN p ELSE Hold(f[z \ {Max(z)}], s[Max(z)])]
  <2>1. ASSUME NEW z \in SUBSET (DOMAIN s), z # {}
        PROVE  f[z] = Hold(f[z \ {Max(z)}], s[Max(z)])
    <3>1. s[Max(z)] \in Target /\ f[z \ {Max(z)}] \in Pages
      BY <1>2, <1>3, <2>1
    <3> QED
      BY <1>1, <2>1, <3>1 DEF Iterates
  <2> QED
    BY <1>1, <2>1 DEF Iterates
<1>5. PICK iter : /\ iter = [z \in SUBSET (DOMAIN s) |->
                               IF z = {} THEN p ELSE Hold(iter[z \ {Max(z)}], s[Max(z)])]
                  /\ FoldLeft(Hold, p, s) = iter[DOMAIN s]
  BY <1>4 DEF FoldLeft, MapThenFoldSet
<1>6. iter[{}] = p
  BY <1>5
<1>7. \A z \in SUBSET (DOMAIN s) : z # {} /\ iter[z \ {Max(z)}] \in Pages =>
        /\ Later(iter[z \ {Max(z)}], iter[z])
        /\ Noted(iter[z \ {Max(z)}], iter[z], s[Max(z)])
  <2> SUFFICES ASSUME NEW z \in SUBSET (DOMAIN s), z # {}, iter[z \ {Max(z)}] \in Pages
               PROVE  /\ Later(iter[z \ {Max(z)}], iter[z])
                      /\ Noted(iter[z \ {Max(z)}], iter[z], s[Max(z)])
    OBVIOUS
  <2>1. s[Max(z)] \in Target
    BY <1>2
  <2>2. iter[z] = Hold(iter[z \ {Max(z)}], s[Max(z)])
    BY <1>5
  <2> QED
    BY <2>1, <2>2, Holds
<1>8. Later(p, iter[DOMAIN s]) /\ \A i \in DOMAIN s : Noted(p, iter[DOMAIN s], s[i])
  BY <1>6, <1>7, FoldNotes
<1> QED
  BY <1>5, <1>8

-------------------------------------------------------------------------------
(* Starting what is queued *)

(* A queued target runs now or stays queued; while the page recovers it is held. *)
LEMMA Pumps ==
  ASSUME NEW p \in Pages
  PROVE  Later(p, Pump(p))
<1> DEFINE free == MaxRunning - Cardinality(p.running)
           n == IF Len(p.queued) < free THEN Len(p.queued) ELSE free
<1>1. p \in Page /\ p.queued \in Seq(Target) /\ p.running \subseteq Target
  BY DEF Pages, Page
<1>2. Cardinality(p.running) \in Nat /\ free \in Nat
  BY FS_CardinalityType, LiveAssumption DEF Pages
<1>3. CASE p.recovering /\ free > 0
  <2> DEFINE b == [p EXCEPT !.queued = <<>>]
             r == FoldLeft(Hold, b, p.queued)
  <2>1. Pump(p) = r
    BY <1>3 DEF Pump
  <2>2. /\ b \in Page /\ b.queued = <<>> /\ b.running = p.running /\ b.rerun = p.rerun
        /\ b.held = p.held /\ b.again = p.again /\ b.recovering = p.recovering
    <3>1. <<>> \in Seq(Target)
      OBVIOUS
    <3> QED
      BY <1>1, <3>1 DEF Page
  <2>3. b \in Pages
    <3> HIDE DEF b
    <3>1. DOMAIN b.queued = {}
      BY <2>2
    <3> QED
      BY <2>2, <3>1 DEF Pages
  <2>4. Later(b, r) /\ \A i \in DOMAIN p.queued : Noted(b, r, p.queued[i])
    <3> HIDE DEF b
    <3> QED
      BY <1>1, <2>3, HoldsAll
  <2> HIDE DEF b, r
  <2>5. ASSUME NEW t \in Target, Dirty(p, t) PROVE Noted(p, r, t)
    <3>1. CASE Contains(p.queued, t)
      BY <1>1, <2>2, <2>4, <3>1 DEF Contains, Noted
    <3>2. CASE ~Contains(p.queued, t)
      <4>1. Dirty(b, t)
        BY <2>2, <2>5, <3>2 DEF Dirty
      <4> QED
        BY <4>1, <2>2, <2>4 DEF Later, Noted
    <3> QED
      BY <3>1, <3>2
  <2> QED
    BY <2>1, <2>2, <2>4, <2>5 DEF Later
<1>4. CASE ~(p.recovering /\ free > 0)
  <2> DEFINE head == SubSeq(p.queued, 1, n)
             tail == SubSeq(p.queued, n + 1, Len(p.queued))
             q == [p EXCEPT !.queued = tail, !.running = @ \cup ToSet(head)]
  <2>1. Pump(p) = q
    BY <1>4 DEF Pump
  <2>2. n \in Nat /\ n <= Len(p.queued) /\ n <= free /\ Len(p.queued) \in Nat
    BY <1>1, <1>2
  <2> HIDE DEF n
  <2>3. /\ tail \in Seq(Target) /\ Len(tail) = Len(p.queued) - n
        /\ \A i \in 1 .. Len(p.queued) - n : tail[i] = p.queued[n + i]
    BY <1>1, <2>2, SubSeqProperties
  <2>4. head \in Seq(Target) /\ Len(head) = n /\ \A i \in 1 .. n : head[i] = p.queued[i]
    BY <1>1, <2>2, SubSeqProperties
  <2>5. DOMAIN head = 1 .. n /\ DOMAIN tail = 1 .. Len(p.queued) - n /\ DOMAIN p.queued = 1 .. Len(p.queued)
    BY <1>1, <2>3, <2>4
  <2> HIDE DEF head, tail
  <2>6. ToSet(head) = {p.queued[i] : i \in 1 .. n} /\ ToSet(head) \subseteq Target
    BY <2>4, <2>5 DEF ToSet
  <2>7. IsFiniteSet(ToSet(head)) /\ Cardinality(ToSet(head)) <= n
    <3> DEFINE f == [i \in 1 .. n |-> p.queued[i]]
    <3>1. f \in Surjection(1 .. n, ToSet(head))
      BY <2>6 DEF Surjection
    <3>2. IsFiniteSet(1 .. n) /\ Cardinality(1 .. n) = n
      BY <2>2, FS_Interval
    <3> HIDE DEF f
    <3> QED
      BY <3>1, <3>2, FS_Surjection
  <2>8. /\ IsFiniteSet(p.running \cup ToSet(head))
        /\ Cardinality(p.running \cup ToSet(head)) <= MaxRunning
    <3>1. IsFiniteSet(p.running)
      BY DEF Pages
    <3>2. /\ IsFiniteSet(p.running \cup ToSet(head))
          /\ Cardinality(p.running \cup ToSet(head)) =
               Cardinality(p.running) + Cardinality(ToSet(head)) - Cardinality(p.running \cap ToSet(head))
      BY <3>1, <2>7, FS_Union
    <3>3. IsFiniteSet(p.running \cap ToSet(head))
      BY <3>1, FS_Subset
    <3>4. Cardinality(p.running \cap ToSet(head)) \in Nat /\ Cardinality(ToSet(head)) \in Nat
      BY <3>3, <2>7, FS_CardinalityType
    <3> QED
      BY <3>2, <3>4, <2>2, <2>7, <1>2, LiveAssumption
  <2>9. /\ q.queued = tail /\ q.running = p.running \cup ToSet(head) /\ q.rerun = p.rerun
        /\ q.held = p.held /\ q.again = p.again /\ q.recovering = p.recovering
        /\ q \in Page
    BY <1>1, <2>3, <2>6 DEF Page
  <2> HIDE DEF q
  <2>10. q \in Pages
    <3>1. \A i, j \in 1 .. Len(p.queued) : p.queued[i] = p.queued[j] => i = j
      BY <2>5 DEF Pages
    <3>2. \A i \in 1 .. Len(p.queued) : p.queued[i] \notin p.running
      BY <2>5 DEF Pages
    <3>3. \A i \in DOMAIN tail : n + i \in 1 .. Len(p.queued) /\ tail[i] = p.queued[n + i] /\ i \in Int
      BY <2>2, <2>3, <2>5
    <3>4. ASSUME NEW i \in DOMAIN tail PROVE tail[i] \notin ToSet(head)
      <4>1. \A j \in 1 .. n : j \in 1 .. Len(p.queued) /\ j # n + i
        BY <2>2, <3>3, <2>5
      <4>2. \A j \in 1 .. n : p.queued[j] # p.queued[n + i]
        BY <4>1, <3>1, <3>3
      <4> QED
        BY <4>2, <3>3, <2>6
    <3>5. ASSUME NEW i \in DOMAIN tail, NEW j \in DOMAIN tail, tail[i] = tail[j] PROVE i = j
      <4>1. n + i = n + j
        BY <3>1, <3>3, <3>5
      <4> QED
        BY <4>1, <3>3, <2>2
    <3> QED
      BY <2>8, <2>9, <3>2, <3>3, <3>4, <3>5 DEF Pages
  <2>11. p.recovering => q.running = p.running
    <3> SUFFICES ASSUME p.recovering PROVE ToSet(head) = {}
      BY <2>9
    <3>1. n = 0
      BY <1>2, <1>4, <2>2
    <3> QED
      BY <3>1, <2>6
  <2>12. ASSUME NEW t \in Target, Contains(p.queued, t) PROVE Noted(p, q, t)
    <3>1. PICK i \in 1 .. Len(p.queued) : p.queued[i] = t
      BY <2>12 DEF Contains
    <3>2. CASE i <= n
      <4>1. i \in 1 .. n
        BY <3>2, <2>2
      <4>2. t \in ToSet(head) /\ t \notin p.running
        BY <4>1, <3>1, <2>5, <2>6 DEF Pages
      <4> QED
        BY <4>2, <2>9 DEF Noted
    <3>3. CASE i > n
      <4>1. i - n \in 1 .. Len(tail) /\ n + (i - n) = i
        BY <3>3, <2>2, <2>3
      <4>2. tail[i - n] = t
        BY <4>1, <3>1, <2>3
      <4> QED
        BY <4>1, <4>2, <2>9 DEF Noted, Dirty, Contains
    <3> QED
      BY <3>2, <3>3, <2>2
  <2>13. \A t \in Target : Dirty(p, t) => Noted(p, q, t)
    BY <2>9, <2>12 DEF Dirty, Noted
  <2> QED
    BY <2>1, <2>9, <2>10, <2>11, <2>13 DEF Later
<1> QED
  BY <1>3, <1>4

(* A target that is queued once more. *)
LEMMA WithIs ==
  ASSUME NEW s \in Seq(Target), NEW t \in Target
  PROVE  /\ With(s, t) \in Seq(Target)
         /\ \A u \in Target : Contains(With(s, t), u) <=> (u = t \/ Contains(s, u))
<1>1. CASE Contains(s, t)
  BY <1>1 DEF With
<1>2. CASE ~Contains(s, t)
  <2>1. With(s, t) = Append(s, t)
    BY <1>2 DEF With
  <2>2. /\ Append(s, t) \in Seq(Target) /\ Len(Append(s, t)) = Len(s) + 1 /\ Len(s) \in Nat
        /\ \A i \in 1 .. Len(s) : Append(s, t)[i] = s[i]
        /\ Append(s, t)[Len(s) + 1] = t
    BY AppendProperties
  <2> QED
    BY <2>1, <2>2 DEF Contains
<1> QED
  BY <1>1, <1>2

(* A target that does not run joins a queue without repetitions. *)
LEMMA Enqueues ==
  ASSUME NEW p \in Page, NEW t \in Target, t \notin p.running,
         \A i \in DOMAIN p.queued :
           /\ p.queued[i] \notin p.running
           /\ \A j \in DOMAIN p.queued : p.queued[i] = p.queued[j] => i = j
  PROVE  \A i \in DOMAIN With(p.queued, t) :
           /\ With(p.queued, t)[i] \notin p.running
           /\ \A j \in DOMAIN With(p.queued, t) : With(p.queued, t)[i] = With(p.queued, t)[j] => i = j
<1> DEFINE s == p.queued
<1>1. s \in Seq(Target)
  BY DEF Page
<1>2. CASE Contains(s, t)
  BY <1>2 DEF With
<1>3. CASE ~Contains(s, t)
  <2>1. With(s, t) = Append(s, t)
    BY <1>3 DEF With
  <2>2. /\ Append(s, t) \in Seq(Target) /\ Len(Append(s, t)) = Len(s) + 1 /\ Len(s) \in Nat
        /\ \A i \in 1 .. Len(s) : Append(s, t)[i] = s[i] /\ s[i] # t
        /\ Append(s, t)[Len(s) + 1] = t
    BY <1>1, <1>3, AppendProperties DEF Contains
  <2>3. DOMAIN Append(s, t) = 1 .. Len(s) + 1 /\ DOMAIN s = 1 .. Len(s)
    BY <1>1, <2>2
  <2> HIDE DEF s
  <2>4. \A i \in 1 .. Len(s) + 1 : i \in 1 .. Len(s) \/ i = Len(s) + 1
    BY <2>2
  <2> QED
    BY <2>1, <2>2, <2>3, <2>4 DEF s
<1> QED
  BY <1>2, <1>3

-------------------------------------------------------------------------------
(* Queueing *)

(* A target that gets dirty is queued, or will run again. *)
LEMMA Queues ==
  ASSUME NEW p \in Pages, NEW t \in Target
  PROVE  Later(p, Queue(p, t)) /\ Noted(p, Queue(p, t), t)
<1>1. p \in Page /\ p.queued \in Seq(Target)
  BY DEF Pages, Page
<1> DEFINE q == IF t \in p.running THEN [p EXCEPT !.rerun = @ \cup {t}]
                ELSE [p EXCEPT !.queued = With(@, t)]
<1>2. Queue(p, t) = Pump(q)
  BY DEF Queue
<1>3. Later(p, q) /\ Noted(p, q, t)
  <2>1. CASE t \in p.running
    <3>1. /\ q \in Page /\ q.rerun = p.rerun \cup {t} /\ q.queued = p.queued /\ q.running = p.running
          /\ q.held = p.held /\ q.again = p.again /\ q.recovering = p.recovering
      BY <2>1, <1>1 DEF Page
    <3> HIDE DEF q
    <3>2. q \in Pages
      BY <2>1, <3>1 DEF Pages
    <3> QED
      BY <3>1, <3>2 DEF Later, Noted, Dirty
  <2>2. CASE t \notin p.running
    <3>1. /\ With(p.queued, t) \in Seq(Target)
          /\ \A u \in Target : Contains(With(p.queued, t), u) <=> (u = t \/ Contains(p.queued, u))
      BY <1>1, WithIs
    <3>2. /\ q \in Page /\ q.rerun = p.rerun /\ q.queued = With(p.queued, t) /\ q.running = p.running
          /\ q.held = p.held /\ q.again = p.again /\ q.recovering = p.recovering
      BY <2>2, <3>1, <1>1 DEF Page
    <3> HIDE DEF q
    <3>3. q \in Pages
      <4>1. \A i \in DOMAIN p.queued :
              /\ p.queued[i] \notin p.running
              /\ \A j \in DOMAIN p.queued : p.queued[i] = p.queued[j] => i = j
        BY DEF Pages
      <4>2. \A i \in DOMAIN q.queued :
              /\ q.queued[i] \notin q.running
              /\ \A j \in DOMAIN q.queued : q.queued[i] = q.queued[j] => i = j
        <5>1. \A i \in DOMAIN With(p.queued, t) :
                /\ With(p.queued, t)[i] \notin p.running
                /\ \A j \in DOMAIN With(p.queued, t) :
                     With(p.queued, t)[i] = With(p.queued, t)[j] => i = j
          BY <2>2, <1>1, <4>1, Enqueues
        <5> QED
          BY <3>2, <5>1
      <4> QED
        BY <3>2, <4>2 DEF Pages
    <3> QED
      BY <3>1, <3>2, <3>3 DEF Later, Noted, Dirty
  <2> QED
    BY <2>1, <2>2
<1> HIDE DEF q
<1>4. Later(q, Pump(q))
  BY <1>3, Pumps DEF Later
<1> QED
  BY <1>2, <1>3, <1>4, LaterStill

(* A target gets dirty, whether the page recovers or not. *)
LEMMA QueuesDirty ==
  ASSUME NEW p \in Pages, NEW t \in Target
  PROVE  Later(p, QueueDirty(p, t)) /\ Noted(p, QueueDirty(p, t), t)
BY Holds, Queues DEF QueueDirty

(* Targets are queued one after the other. *)
LEMMA QueuesAll ==
  ASSUME NEW p \in Pages, NEW s \in Seq(Target)
  PROVE  /\ Later(p, FoldLeft(Queue, p, s))
         /\ \A i \in DOMAIN s : Noted(p, FoldLeft(Queue, p, s), s[i])
<1> DEFINE F == [x \in Pages \X Target |-> Queue(x[1], x[2])]
<1>1. PICK f : Iterates(f, F, p, s)
  BY IterationExists
<1>2. ASSUME NEW z \in SUBSET (DOMAIN s), z # {}
      PROVE  Max(z) \in DOMAIN s /\ s[Max(z)] \in Target
  BY <1>2, MaxPosition
<1>3. SUBSET (DOMAIN s) \subseteq {z \in SUBSET (DOMAIN s) : f[z] \in Pages}
  <2> DEFINE G == {z \in SUBSET (DOMAIN s) : f[z] \in Pages}
  <2>1. {} \in G
    BY <1>1 DEF Iterates
  <2>2. ASSUME NEW z \in SUBSET (DOMAIN s), z # {}, z \ {Max(z)} \in G
        PROVE  z \in G
    <3>1. s[Max(z)] \in Target
      BY <1>2, <2>2
    <3>2. f[z] = Queue(f[z \ {Max(z)}], s[Max(z)])
      BY <1>1, <2>2, <3>1 DEF Iterates
    <3> QED
      BY <2>2, <3>1, <3>2, Queues DEF Later
  <2> HIDE DEF G
  <2>3. SUBSET (DOMAIN s) \subseteq G
    BY <2>1, <2>2, PositionsInduction
  <2> QED
    BY <2>3 DEF G
<1>4. f = [z \in SUBSET (DOMAIN s) |->
             IF z = {} THEN p ELSE Queue(f[z \ {Max(z)}], s[Max(z)])]
  <2>1. ASSUME NEW z \in SUBSET (DOMAIN s), z # {}
        PROVE  f[z] = Queue(f[z \ {Max(z)}], s[Max(z)])
    <3>1. s[Max(z)] \in Target /\ f[z \ {Max(z)}] \in Pages
      BY <1>2, <1>3, <2>1
    <3> QED
      BY <1>1, <2>1, <3>1 DEF Iterates
  <2> QED
    BY <1>1, <2>1 DEF Iterates
<1>5. PICK iter : /\ iter = [z \in SUBSET (DOMAIN s) |->
                               IF z = {} THEN p ELSE Queue(iter[z \ {Max(z)}], s[Max(z)])]
                  /\ FoldLeft(Queue, p, s) = iter[DOMAIN s]
  BY <1>4 DEF FoldLeft, MapThenFoldSet
<1>6. iter[{}] = p
  BY <1>5
<1>7. \A z \in SUBSET (DOMAIN s) : z # {} /\ iter[z \ {Max(z)}] \in Pages =>
        /\ Later(iter[z \ {Max(z)}], iter[z])
        /\ Noted(iter[z \ {Max(z)}], iter[z], s[Max(z)])
  <2> SUFFICES ASSUME NEW z \in SUBSET (DOMAIN s), z # {}, iter[z \ {Max(z)}] \in Pages
               PROVE  /\ Later(iter[z \ {Max(z)}], iter[z])
                      /\ Noted(iter[z \ {Max(z)}], iter[z], s[Max(z)])
    OBVIOUS
  <2>1. s[Max(z)] \in Target
    BY <1>2
  <2>2. iter[z] = Queue(iter[z \ {Max(z)}], s[Max(z)])
    BY <1>5
  <2> QED
    BY <2>1, <2>2, Queues
<1>8. Later(p, iter[DOMAIN s]) /\ \A i \in DOMAIN s : Noted(p, iter[DOMAIN s], s[i])
  BY <1>6, <1>7, FoldNotes
<1> QED
  BY <1>5, <1>8

(* Targets get dirty one after the other, as an event names them. *)
LEMMA QueuesAllDirty ==
  ASSUME NEW p \in Pages, NEW s \in Seq(Target)
  PROVE  /\ Later(p, FoldLeft(QueueDirty, p, s))
         /\ \A i \in DOMAIN s : Noted(p, FoldLeft(QueueDirty, p, s), s[i])
<1> DEFINE F == [x \in Pages \X Target |-> QueueDirty(x[1], x[2])]
<1>1. PICK f : Iterates(f, F, p, s)
  BY IterationExists
<1>2. ASSUME NEW z \in SUBSET (DOMAIN s), z # {}
      PROVE  Max(z) \in DOMAIN s /\ s[Max(z)] \in Target
  BY <1>2, MaxPosition
<1>3. SUBSET (DOMAIN s) \subseteq {z \in SUBSET (DOMAIN s) : f[z] \in Pages}
  <2> DEFINE G == {z \in SUBSET (DOMAIN s) : f[z] \in Pages}
  <2>1. {} \in G
    BY <1>1 DEF Iterates
  <2>2. ASSUME NEW z \in SUBSET (DOMAIN s), z # {}, z \ {Max(z)} \in G
        PROVE  z \in G
    <3>1. s[Max(z)] \in Target
      BY <1>2, <2>2
    <3>2. f[z] = QueueDirty(f[z \ {Max(z)}], s[Max(z)])
      BY <1>1, <2>2, <3>1 DEF Iterates
    <3> QED
      BY <2>2, <3>1, <3>2, QueuesDirty DEF Later
  <2> HIDE DEF G
  <2>3. SUBSET (DOMAIN s) \subseteq G
    BY <2>1, <2>2, PositionsInduction
  <2> QED
    BY <2>3 DEF G
<1>4. f = [z \in SUBSET (DOMAIN s) |->
             IF z = {} THEN p ELSE QueueDirty(f[z \ {Max(z)}], s[Max(z)])]
  <2>1. ASSUME NEW z \in SUBSET (DOMAIN s), z # {}
        PROVE  f[z] = QueueDirty(f[z \ {Max(z)}], s[Max(z)])
    <3>1. s[Max(z)] \in Target /\ f[z \ {Max(z)}] \in Pages
      BY <1>2, <1>3, <2>1
    <3> QED
      BY <1>1, <2>1, <3>1 DEF Iterates
  <2> QED
    BY <1>1, <2>1 DEF Iterates
<1>5. PICK iter : /\ iter = [z \in SUBSET (DOMAIN s) |->
                               IF z = {} THEN p ELSE QueueDirty(iter[z \ {Max(z)}], s[Max(z)])]
                  /\ FoldLeft(QueueDirty, p, s) = iter[DOMAIN s]
  BY <1>4 DEF FoldLeft, MapThenFoldSet
<1>6. iter[{}] = p
  BY <1>5
<1>7. \A z \in SUBSET (DOMAIN s) : z # {} /\ iter[z \ {Max(z)}] \in Pages =>
        /\ Later(iter[z \ {Max(z)}], iter[z])
        /\ Noted(iter[z \ {Max(z)}], iter[z], s[Max(z)])
  <2> SUFFICES ASSUME NEW z \in SUBSET (DOMAIN s), z # {}, iter[z \ {Max(z)}] \in Pages
               PROVE  /\ Later(iter[z \ {Max(z)}], iter[z])
                      /\ Noted(iter[z \ {Max(z)}], iter[z], s[Max(z)])
    OBVIOUS
  <2>1. s[Max(z)] \in Target
    BY <1>2
  <2>2. iter[z] = QueueDirty(iter[z \ {Max(z)}], s[Max(z)])
    BY <1>5
  <2> QED
    BY <2>1, <2>2, QueuesDirty
<1>8. Later(p, iter[DOMAIN s]) /\ \A i \in DOMAIN s : Noted(p, iter[DOMAIN s], s[i])
  BY <1>6, <1>7, FoldNotes
<1> QED
  BY <1>5, <1>8

(* A run that ends, and the page's end of a recovery. *)
Without(p, q, t) ==
  /\ q \in Pages
  /\ p.running \ {t} \subseteq q.running
  /\ q.recovering = p.recovering
  /\ p.recovering => q.running = p.running \ {t}
  /\ \A u \in Target : Dirty(p, u) => Dirty(q, u) \/ u \in q.running \ (p.running \ {t})

(* A run ends, and the next targets take its place. *)
LEMMA RunEndsWithout ==
  ASSUME NEW p \in Pages, NEW t \in Target
  PROVE  Without(p, RunEnds(p, t), t)
<1>1. p \in Page /\ p.queued \in Seq(Target)
  BY DEF Pages, Page
<1> DEFINE s == IF t \in p.rerun THEN With(p.queued, t) ELSE p.queued
           q == [p EXCEPT !.running = @ \ {t}, !.rerun = @ \ {t}, !.queued = s]
<1>2. RunEnds(p, t) = Pump(q)
  BY DEF RunEnds
<1>3. s \in Seq(Target) /\ \A u \in Target : Contains(s, u) <=> (t \in p.rerun /\ u = t) \/ Contains(p.queued, u)
  BY <1>1, WithIs
<1>4. /\ q \in Page /\ q.rerun = p.rerun \ {t} /\ q.queued = s /\ q.running = p.running \ {t}
      /\ q.held = p.held /\ q.again = p.again /\ q.recovering = p.recovering
  <2> HIDE DEF s
  <2> QED
    BY <1>1, <1>3 DEF Page
<1>5. q \in Pages
  <2> DEFINE b == [p EXCEPT !.running = @ \ {t}]
  <2>1. b \in Page /\ b.running = p.running \ {t} /\ b.queued = p.queued
    BY <1>1 DEF Page
  <2>2. \A i \in DOMAIN p.queued :
          /\ p.queued[i] \notin p.running
          /\ \A j \in DOMAIN p.queued : p.queued[i] = p.queued[j] => i = j
    BY DEF Pages
  <2> HIDE DEF b
  <2>3. \A i \in DOMAIN s :
          /\ s[i] \notin p.running \ {t}
          /\ \A j \in DOMAIN s : s[i] = s[j] => i = j
    <3>1. CASE t \in p.rerun
      <4>1. t \notin b.running
        BY <2>1
      <4>2. \A i \in DOMAIN With(b.queued, t) :
              /\ With(b.queued, t)[i] \notin b.running
              /\ \A j \in DOMAIN With(b.queued, t) : With(b.queued, t)[i] = With(b.queued, t)[j] => i = j
        BY <2>1, <2>2, <4>1, Enqueues
      <4>3. s = With(b.queued, t)
        BY <3>1, <2>1
      <4> HIDE DEF s
      <4> QED
        BY <4>2, <4>3, <2>1
    <3>2. CASE t \notin p.rerun
      BY <3>2, <2>2
    <3> QED
      BY <3>1, <3>2
  <2>4. IsFiniteSet(p.running \ {t}) /\ Cardinality(p.running \ {t}) <= MaxRunning
    <3>1. IsFiniteSet(p.running) /\ Cardinality(p.running) <= MaxRunning
      BY DEF Pages
    <3>2. IsFiniteSet(p.running \ {t}) /\ Cardinality(p.running \ {t}) <= Cardinality(p.running)
      BY <3>1, FS_Subset
    <3>3. Cardinality(p.running \ {t}) \in Nat /\ Cardinality(p.running) \in Nat
      BY <3>1, <3>2, FS_CardinalityType
    <3> QED
      BY <3>1, <3>2, <3>3, LiveAssumption
  <2>5. p.rerun \ {t} \subseteq p.running \ {t}
    BY DEF Pages
  <2> HIDE DEF s, q
  <2> QED
    BY <1>4, <2>3, <2>4, <2>5 DEF Pages
<1> HIDE DEF s, q
<1>6. \A u \in Target : Dirty(p, u) => Dirty(q, u)
  BY <1>3, <1>4 DEF Dirty
<1>7. Later(q, Pump(q))
  BY <1>5, Pumps
<1> QED
  BY <1>2, <1>4, <1>6, <1>7 DEF Later, Noted, Without

(* One that was dirty again before it ended is still to be fetched. *)
LEMMA DropsWithout ==
  ASSUME NEW p \in Pages, NEW t \in Target, t \in p.running
  PROVE  LET q == RunEnds(QueueDirty(p, t), t)
         IN  /\ Without(p, q, t)
             /\ Dirty(q, t) \/ t \in q.running
<1> DEFINE r == QueueDirty(p, t)
           q == RunEnds(r, t)
<1>1. Later(p, r) /\ Noted(p, r, t)
  BY QueuesDirty
<1>2. r \in Pages
  BY <1>1 DEF Later
<1> HIDE DEF r
<1>3. Without(r, q, t)
  BY <1>2, RunEndsWithout
<1> HIDE DEF q
<1>4. Dirty(r, t)
  BY <1>1 DEF Noted
<1>5. Dirty(q, t) \/ t \in q.running
  BY <1>3, <1>4 DEF Without
<1>6. Without(p, q, t)
  <2>1. \A u \in Target : Dirty(p, u) => Dirty(q, u) \/ u \in q.running \ (p.running \ {t})
    <3> SUFFICES ASSUME NEW u \in Target, Dirty(p, u), ~Dirty(q, u)
                 PROVE  u \in q.running \ (p.running \ {t})
      OBVIOUS
    <3>1. CASE Dirty(r, u)
      BY <3>1, <1>1, <1>3 DEF Without, Later
    <3>2. CASE ~Dirty(r, u)
      <4>1. u \in r.running \ p.running
        BY <3>2, <1>1 DEF Later, Noted
      <4> QED
        BY <4>1, <1>3 DEF Without
    <3> QED
      BY <3>1, <3>2
  <2> QED
    BY <2>1, <1>1, <1>3 DEF Without, Later
<1> QED
  BY <1>5, <1>6 DEF q, r

(* The recovery is over: what was held is queued, and nothing is forgotten. *)
LEMMA EndsRecovery ==
  ASSUME NEW p \in Pages
  PROVE  LET q == EndRecovery(p)
         IN  /\ q \in Pages /\ p.running \subseteq q.running /\ ~q.recovering
             /\ \A u \in Target : Dirty(p, u) => Noted(p, q, u)
<1> DEFINE b == [p EXCEPT !.recovering = FALSE, !.held = <<>>]
           q == FoldLeft(Queue, b, p.held)
<1>1. p \in Page /\ p.held \in Seq(Target)
  BY DEF Pages, Page
<1>2. /\ b \in Page /\ b.held = <<>> /\ ~b.recovering /\ b.running = p.running
      /\ b.rerun = p.rerun /\ b.queued = p.queued /\ b.again = p.again
  <2>1. <<>> \in Seq(Target)
    OBVIOUS
  <2> QED
    BY <1>1, <2>1 DEF Page
<1> HIDE DEF b
<1>3. b \in Pages
  BY <1>2 DEF Pages
<1>4. Later(b, q) /\ \A i \in DOMAIN p.held : Noted(b, q, p.held[i])
  BY <1>1, <1>3, QueuesAll
<1> HIDE DEF q
<1>5. ASSUME NEW u \in Target, Dirty(p, u) PROVE Noted(p, q, u)
  <2>1. CASE Contains(p.held, u)
    BY <2>1, <1>1, <1>2, <1>4 DEF Contains, Noted
  <2>2. CASE ~Contains(p.held, u)
    <3>1. Dirty(b, u)
      BY <1>2, <1>5, <2>2 DEF Dirty
    <3> QED
      BY <3>1, <1>2, <1>4 DEF Later, Noted
  <2> QED
    BY <2>1, <2>2
<1>6. EndRecovery(p) = q
  BY DEF EndRecovery, q, b
<1> QED
  BY <1>2, <1>4, <1>5, <1>6 DEF Later

-------------------------------------------------------------------------------
(* The inductive invariant *)

(* A request is out for exactly the targets that run. *)
FetchesFit ==
  \A t \in Target : /\ fetches[t].phase # "none" <=> t \in page.running
                    /\ fetches[t].phase = "none" => ~fetches[t].outdated

(* The page recovers as long as it asks for everything, and drops what it had asked for before. *)
RecoveryFits ==
  /\ page.recovering <=> snapshot.phase # "none"
  /\ page.recovering => \A t \in page.running : fetches[t].outdated

StreamFits ==
  /\ stream.phase = "none" => wire = <<>> /\ source.phase # "open"
  /\ source.phase = "waiting" => stream.phase = "none"
  /\ stream.phase # "open" => stream.queue = <<>>
  /\ stream.phase = "open" /\ ~stream.blocked => Len(wire) < MaxWire

(* Versions grow from the screen over what is about to be shown to the server. *)
VersionsFit ==
  \A t \in Target :
    /\ screen[t] <= published[t]
    /\ fetches[t].phase = "answered" /\ ~fetches[t].outdated =>
         screen[t] <= fetches[t].value /\ fetches[t].value <= published[t]
    /\ snapshot.phase = "answered" =>
         screen[t] <= snapshot.values[t] /\ snapshot.values[t] <= published[t]

Current(t) ==
  screen[t] = published[t] \/ t \in unseen \/ Announced(t) \/ Refetched(t) \/ Reconciled(t)

LiveFits == FetchesFit /\ RecoveryFits /\ StreamFits /\ VersionsFit
LiveInv == LiveTypeOK /\ page \in Pages /\ LiveFits /\ \A t \in Target : Current(t)

(* The rendered page is current. *)
LEMMA LiveInvInit == LiveInit => LiveInv
<1> SUFFICES ASSUME LiveInit PROVE LiveInv
  OBVIOUS
<1>1. AtOnce \in Target /\ MaxRunning \in Nat /\ MaxRunning >= 1 /\ MaxWire \in Nat /\ MaxWire >= 1
      /\ MaxChanges \in Nat /\ MaxDisturbances \in Nat
  BY LiveAssumption
<1>2. <<>> \in Seq(Target) /\ <<>> \in Seq(Event) /\ <<>> \in Seq(Event \cup {"hello"}) /\ Len(<<>>) = 0
      /\ DOMAIN <<>> = {}
  OBVIOUS
<1>3. page \in Page /\ page.running = {AtOnce} /\ page.rerun = {} /\ page.queued = <<>>
  BY <1>1, <1>2 DEF LiveInit, Page
<1>4. IsFiniteSet({AtOnce}) /\ Cardinality({AtOnce}) = 1
  BY FS_Singleton
<1>5. page \in Pages
  BY <1>1, <1>2, <1>3, <1>4 DEF Pages
<1>6. 0 \in Version
  BY <1>1 DEF Version
<1>7. fetches \in [Target -> Fetch]
  BY <1>6 DEF LiveInit, Fetch, Asked, NoFetch
<1>8. LiveTypeOK
  BY <1>1, <1>2, <1>3, <1>6, <1>7 DEF LiveInit, LiveTypeOK, Stream, Source, NoStream, Snapshot, NoSnapshot
<1>9. LiveFits
  BY <1>1, <1>2 DEF LiveInit, LiveFits, FetchesFit, RecoveryFits, StreamFits, VersionsFit,
                    Asked, NoFetch, NoStream, NoSnapshot
<1>10. \A t \in Target : Current(t)
  BY DEF LiveInit, Current
<1> QED
  BY <1>5, <1>8, <1>9, <1>10 DEF LiveInv

-------------------------------------------------------------------------------
(* The hub *)

(* A full wire blocks. *)
LEMMA BlocksWhenFull ==
  ASSUME NEW w, NEW b \in Blocks(w)
  PROVE  b \in BOOLEAN /\ (~b => Len(w) # MaxWire)
BY DEF Blocks

(* A stream begins with a frame that names no target. *)
LEMMA ConnectKeeps ==
  ASSUME LiveInv, Connect
  PROVE  LiveInv' /\ screen' = screen
<1>1. MaxWire \in Nat /\ MaxWire >= 1
  BY LiveAssumption
<1>2. wire' \in Seq(Event \cup {"hello"}) /\ Len(wire') = 1
  BY DEF Connect
<1>3. PICK b \in Blocks(wire') : stream' = [NoStream EXCEPT !.phase = "open", !.blocked = b]
  BY DEF Connect
<1>4. b \in BOOLEAN /\ (~b => Len(wire') # MaxWire)
  BY BlocksWhenFull
<1>5. <<>> \in Seq(Event)
  OBVIOUS
<1>6. stream' = [phase |-> "open", blocked |-> b, queue |-> <<>>]
  BY <1>3 DEF NoStream
<1>7. LiveTypeOK'
  BY <1>1, <1>2, <1>4, <1>5, <1>6 DEF LiveInv, LiveTypeOK, Connect, pageVars, Stream
<1>8. FetchesFit' /\ RecoveryFits' /\ VersionsFit' /\ page' \in Pages
  BY DEF LiveInv, LiveFits, FetchesFit, RecoveryFits, VersionsFit, Connect, pageVars
<1>9. StreamFits'
  <2>1. ~b => Len(wire') < MaxWire
    BY <1>1, <1>2, <1>4
  <2>2. stream'.phase = "open" /\ stream'.blocked = b /\ source'.phase = "connecting"
    BY <1>6 DEF Connect
  <2> QED
    BY <2>1, <2>2 DEF StreamFits
<1>10. ASSUME NEW t \in Target PROVE Current(t)'
  <2>1. ~Announced(t)
    <3>1. wire = <<>> /\ stream.queue = <<>>
      BY DEF LiveInv, LiveFits, StreamFits, Connect
    <3> QED
      BY <3>1 DEF Announced, ToSet
  <2>2. Current(t)
    BY DEF LiveInv
  <2> QED
    BY <2>1, <2>2 DEF Current, Connect, pageVars, Refetched, Reconciled
<1> QED
  BY <1>7, <1>8, <1>9, <1>10 DEF LiveInv, LiveFits, Connect, pageVars

(* The stream is over, or has none yet: the page is going to fetch everything. *)
LEMMA EndedKeeps ==
  ASSUME LiveInv, Refuse \/ Cut \/ Lost \/ Reopen
  PROVE  LiveInv' /\ screen' = screen
<1>1. UNCHANGED <<published, page, fetches, snapshot, screen, unseen>>
  BY DEF Refuse, Cut, Lost, Reopen, pageVars, hubVars
<1>2. FetchesFit' /\ RecoveryFits' /\ VersionsFit' /\ page' \in Pages
  BY <1>1 DEF LiveInv, LiveFits, FetchesFit, RecoveryFits, VersionsFit
<1>3. <<>> \in Seq(Event) /\ <<>> \in Seq(Event \cup {"hello"}) /\ Len(<<>>) = 0
      /\ MaxWire \in Nat /\ MaxDisturbances \in Nat
  BY LiveAssumption
<1>4. disturbances' \in 0 .. MaxDisturbances
  BY <1>3 DEF LiveInv, LiveTypeOK, Refuse, Cut, Lost, Reopen, Disturbed
<1>5. stream' \in Stream /\ source' \in Source /\ wire' \in Seq(Event \cup {"hello"}) /\ Len(wire') <= MaxWire
  <2>1. stream \in Stream /\ source \in Source /\ wire \in Seq(Event \cup {"hello"}) /\ Len(wire) <= MaxWire
    BY DEF LiveInv, LiveTypeOK
  <2>2. CASE Refuse
    BY <2>1, <2>2 DEF Refuse, Stream
  <2>3. CASE Cut
    <3>1. stream' = [phase |-> "ended", blocked |-> FALSE, queue |-> <<>>]
      BY <2>3 DEF Cut, NoStream
    <3>2. source' = source /\ wire' = wire
      BY <2>3 DEF Cut
    <3>3. stream' \in Stream
      BY <1>3, <3>1 DEF Stream
    <3> QED
      BY <2>1, <3>2, <3>3
  <2>4. CASE Lost
    <3>1. stream' = [phase |-> "none", blocked |-> FALSE, queue |-> <<>>]
      BY <2>4 DEF Lost, NoStream
    <3>2. wire' \in Seq(Event \cup {"hello"}) /\ Len(wire') <= MaxWire
      BY <2>4, <1>3, LiveAssumption DEF Lost
    <3>3. source' \in Source
      BY <2>1, <2>4 DEF Lost, Source
    <3> QED
      BY <1>3, <3>1, <3>2, <3>3 DEF Stream
  <2>5. CASE Reopen
    BY <2>1, <2>5 DEF Reopen, hubVars, Source
  <2> QED
    BY <2>2, <2>3, <2>4, <2>5
<1>6. LiveTypeOK'
  BY <1>1, <1>4, <1>5 DEF LiveInv, LiveTypeOK
<1>7. StreamFits'
  BY <1>3 DEF LiveInv, LiveFits, LiveTypeOK, StreamFits, Refuse, Cut, Lost, Reopen, Stream, Source, NoStream, hubVars
<1>8. ASSUME NEW t \in Target PROVE Reconciled(t)'
  BY DEF LiveInv, LiveTypeOK, Refuse, Cut, Lost, Reopen, Stream, Source, NoStream, Reconciled
<1> QED
  BY <1>1, <1>2, <1>6, <1>7, <1>8 DEF LiveInv, LiveFits, Current

(* What waited at the hub is on the wire or still waits. *)
LEMMA DrainKeeps ==
  ASSUME LiveInv, Drain
  PROVE  LiveInv' /\ screen' = screen
<1>1. PICK n \in {i \in 0 .. Len(stream.queue) : i <= MaxWire} :
        /\ wire' = SubSeq(stream.queue, 1, n)
        /\ n < Len(stream.queue) => n > 0
        /\ \E b \in (IF n = 0 THEN {FALSE} ELSE Blocks(wire')) :
             /\ ~b => n = Len(stream.queue)
             /\ stream' = [stream EXCEPT !.blocked = b, !.queue = SubSeq(@, n + 1, Len(@))]
  BY DEF Drain
<1>2. PICK b \in (IF n = 0 THEN {FALSE} ELSE Blocks(wire')) :
        /\ ~b => n = Len(stream.queue)
        /\ stream' = [stream EXCEPT !.blocked = b, !.queue = SubSeq(@, n + 1, Len(@))]
  BY <1>1
<1>3. stream \in Stream /\ stream.queue \in Seq(Event) /\ stream.phase = "open" /\ Len(stream.queue) \in Nat
      /\ MaxWire \in Nat /\ MaxWire >= 1 /\ n \in Nat /\ n <= Len(stream.queue) /\ n <= MaxWire
  BY LiveAssumption DEF LiveInv, LiveTypeOK, Stream, Drain
<1> DEFINE head == SubSeq(stream.queue, 1, n)
           tail == SubSeq(stream.queue, n + 1, Len(stream.queue))
<1>4. /\ tail \in Seq(Event) /\ Len(tail) = Len(stream.queue) - n
      /\ \A i \in 1 .. Len(stream.queue) - n : tail[i] = stream.queue[n + i]
  BY <1>3, SubSeqProperties
<1>5. head \in Seq(Event) /\ Len(head) = n /\ \A i \in 1 .. n : head[i] = stream.queue[i]
  BY <1>3, SubSeqProperties
<1>6. b \in BOOLEAN /\ (~b => Len(wire') < MaxWire)
  <2>1. Len(wire') = n
    BY <1>1, <1>5
  <2>2. CASE n = 0
    BY <2>1, <2>2, <1>3
  <2>3. CASE n # 0
    <3>1. b \in Blocks(wire')
      BY <2>3
    <3>2. b \in BOOLEAN /\ (~b => Len(wire') # MaxWire)
      BY <3>1, BlocksWhenFull
    <3> QED
      BY <2>1, <3>2, <1>3
  <2> QED
    BY <2>2, <2>3
<1> HIDE DEF head, tail
<1>7. wire' = head /\ wire' \in Seq(Event \cup {"hello"}) /\ Len(wire') <= MaxWire
  BY <1>1, <1>3, <1>5 DEF head
<1>8. stream' \in Stream /\ stream'.queue = tail /\ stream'.blocked = b /\ stream'.phase = "open"
  BY <1>2, <1>3, <1>4, <1>6 DEF Stream, tail
<1>9. LiveTypeOK'
  BY <1>7, <1>8 DEF LiveInv, LiveTypeOK, Drain, pageVars
<1>10. FetchesFit' /\ RecoveryFits' /\ VersionsFit' /\ page' \in Pages
  BY DEF LiveInv, LiveFits, FetchesFit, RecoveryFits, VersionsFit, Drain, pageVars
<1>11. StreamFits'
  BY <1>6, <1>8 DEF LiveInv, LiveFits, Drain, StreamFits
<1>12. ASSUME NEW t \in Target PROVE Current(t)'
  <2>1. CASE Announced(t)
    <3>1. PICK e \in ToSet(wire) \cup ToSet(stream.queue) : e # "hello" /\ Contains(Dirties[e], t)
      BY <2>1 DEF Announced
    <3>2. ToSet(wire) = {}
      BY DEF Drain, ToSet
    <3>3. PICK i \in 1 .. Len(stream.queue) : stream.queue[i] = e
      BY <3>1, <3>2, <1>3 DEF ToSet
    <3>4. CASE i <= n
      <4>1. i \in DOMAIN head /\ head[i] = e
        BY <3>3, <3>4, <1>3, <1>5
      <4> QED
        BY <4>1, <3>1, <1>7 DEF Current, Announced, ToSet
    <3>5. CASE i > n
      <4>1. i - n \in 1 .. Len(stream.queue) - n /\ n + (i - n) = i
        BY <3>3, <3>5, <1>3
      <4>2. i - n \in DOMAIN tail /\ tail[i - n] = e
        BY <4>1, <3>3, <1>4
      <4> QED
        BY <4>2, <3>1, <1>8 DEF Current, Announced, ToSet
    <3> QED
      BY <3>4, <3>5, <1>3
  <2>2. CASE ~Announced(t)
    BY <2>2, <1>3, <1>8 DEF LiveInv, Current, Drain, pageVars, Refetched, Reconciled
  <2> QED
    BY <2>1, <2>2
<1> QED
  BY <1>9, <1>10, <1>11, <1>12 DEF LiveInv, LiveFits, Drain, pageVars

(* An event reaches the client's queue or the wire, or the client is dropped. *)
LEMMA PublishTells ==
  ASSUME LiveInv, NEW e \in Event, Publish(e), source' = source
  PROVE  /\ stream' \in Stream /\ wire' \in Seq(Event \cup {"hello"}) /\ Len(wire') <= MaxWire
         /\ StreamFits'
         /\ stream.phase # "open" => UNCHANGED <<stream, wire>>
         /\ stream'.phase = "ended" \/ stream'.phase = stream.phase
         /\ stream.phase = "open" /\ stream'.phase # "ended" =>
              \A x \in ToSet(wire) \cup ToSet(stream.queue) \cup {e} : x \in ToSet(wire') \cup ToSet(stream'.queue)
<1>1. /\ stream \in Stream /\ stream.queue \in Seq(Event) /\ wire \in Seq(Event \cup {"hello"}) /\ Len(wire) <= MaxWire
      /\ StreamFits /\ MaxWire \in Nat /\ MaxWire >= 1
  BY LiveAssumption DEF LiveInv, LiveFits, LiveTypeOK, Stream
<1>2. CASE stream.phase # "open"
  BY <1>1, <1>2 DEF Publish, StreamFits
<1>3. CASE stream.phase = "open" /\ ~stream.blocked
  <2>1. wire' = Append(wire, e) /\ \E b \in Blocks(wire') : stream' = [stream EXCEPT !.blocked = b]
    BY <1>3 DEF Publish
  <2>2. PICK b \in Blocks(wire') : stream' = [stream EXCEPT !.blocked = b]
    BY <2>1
  <2>3. Len(wire) < MaxWire /\ Len(wire) \in Nat
    BY <1>1, <1>3 DEF StreamFits
  <2>4. /\ wire' \in Seq(Event \cup {"hello"}) /\ Len(wire') = Len(wire) + 1
        /\ \A i \in 1 .. Len(wire) : wire'[i] = wire[i]
        /\ wire'[Len(wire) + 1] = e
    BY <1>1, <2>1, AppendProperties
  <2>5. b \in BOOLEAN /\ (~b => Len(wire') < MaxWire) /\ Len(wire') <= MaxWire
    <3>1. b \in BOOLEAN /\ (~b => Len(wire') # MaxWire)
      BY BlocksWhenFull
    <3>2. Len(wire') <= MaxWire /\ Len(wire') \in Nat
      BY <2>3, <2>4, <1>1
    <3> QED
      BY <3>1, <3>2, <1>1
  <2>6. stream' \in Stream /\ stream'.phase = "open" /\ stream'.blocked = b /\ stream'.queue = stream.queue
    BY <2>2, <2>5, <1>1, <1>3 DEF Stream
  <2>7. \A x \in ToSet(wire) \cup {e} : x \in ToSet(wire')
    <3>1. DOMAIN wire' = 1 .. Len(wire) + 1 /\ DOMAIN wire = 1 .. Len(wire)
      BY <1>1, <2>4
    <3>2. \A i \in 1 .. Len(wire) : i \in 1 .. Len(wire) + 1
      BY <2>3
    <3>3. Len(wire) + 1 \in 1 .. Len(wire) + 1
      BY <2>3
    <3> QED
      BY <3>1, <3>2, <3>3, <2>4 DEF ToSet
  <2>8. StreamFits'
    BY <1>1, <1>3, <2>5, <2>6 DEF StreamFits
  <2> QED
    BY <1>3, <2>4, <2>5, <2>6, <2>7, <2>8
<1>4. CASE stream.phase = "open" /\ stream.blocked
  <2>1. /\ stream' = IF Len(Waiting(e)) > MaxQueued THEN [NoStream EXCEPT !.phase = "ended"]
                     ELSE [stream EXCEPT !.queue = Waiting(e)]
        /\ wire' = wire
    BY <1>4 DEF Publish
  <2>2. Waiting(e) \in Seq(Event) /\ \A x \in ToSet(stream.queue) \cup {e} : x \in ToSet(Waiting(e))
    <3>1. CASE Contains(stream.queue, e)
      <4>1. Waiting(e) = stream.queue
        BY <3>1 DEF Waiting, With
      <4>2. e \in ToSet(stream.queue)
        BY <3>1, <1>1 DEF Contains, ToSet
      <4> QED
        BY <4>1, <4>2, <1>1
    <3>2. CASE ~Contains(stream.queue, e)
      <4>1. Waiting(e) = Append(stream.queue, e)
        BY <3>2 DEF Waiting, With
      <4> DEFINE s == stream.queue
                 w == Append(s, e)
      <4>2. s \in Seq(Event)
        BY <1>1
      <4> HIDE DEF s
      <4>3. /\ w \in Seq(Event) /\ Len(w) = Len(s) + 1 /\ Len(s) \in Nat
            /\ \A i \in 1 .. Len(s) : w[i] = s[i]
            /\ w[Len(s) + 1] = e
        BY <4>2, AppendProperties
      <4> HIDE DEF w
      <4>4. DOMAIN w = 1 .. Len(s) + 1 /\ DOMAIN s = 1 .. Len(s)
        BY <4>2, <4>3
      <4>5. \A i \in 1 .. Len(s) : i \in 1 .. Len(s) + 1
        BY <4>3
      <4>6. Len(s) + 1 \in 1 .. Len(s) + 1
        BY <4>3
      <4>7. \A x \in ToSet(s) \cup {e} : x \in ToSet(w)
        BY <4>3, <4>4, <4>5, <4>6 DEF ToSet
      <4> QED
        BY <4>1, <4>3, <4>7 DEF s, w
    <3> QED
      BY <3>1, <3>2
  <2>3. <<>> \in Seq(Event)
    OBVIOUS
  <2>4. CASE Len(Waiting(e)) > MaxQueued
    <3>1. stream' = [phase |-> "ended", blocked |-> FALSE, queue |-> <<>>]
      BY <2>1, <2>4 DEF NoStream
    <3> QED
      BY <3>1, <2>1, <2>3, <1>1, <1>4 DEF Stream, StreamFits
  <2>5. CASE ~(Len(Waiting(e)) > MaxQueued)
    <3>1. stream' = [stream EXCEPT !.queue = Waiting(e)]
      BY <2>1, <2>5
    <3>2. stream' \in Stream /\ stream'.phase = "open" /\ stream'.blocked = stream.blocked /\ stream'.queue = Waiting(e)
      BY <3>1, <2>2, <1>1, <1>4 DEF Stream
    <3> QED
      BY <3>2, <2>1, <2>2, <1>1, <1>4 DEF StreamFits
  <2> QED
    BY <2>4, <2>5
<1> QED
  BY <1>2, <1>3, <1>4

(* A change makes the screen stale and announces it, or the page had no stream yet. *)
LEMMA ChangeKeeps ==
  ASSUME LiveInv, NEW e \in Event, Change(e)
  PROVE  LiveInv' /\ screen' = screen
<1>1. Publish(e) /\ source' = source /\ UNCHANGED <<page, fetches, snapshot, screen, disturbances>>
  BY DEF Change, pageVars
<1>2. /\ stream' \in Stream /\ wire' \in Seq(Event \cup {"hello"}) /\ Len(wire') <= MaxWire
      /\ StreamFits'
      /\ stream.phase # "open" => UNCHANGED <<stream, wire>>
      /\ stream'.phase = "ended" \/ stream'.phase = stream.phase
      /\ stream.phase = "open" /\ stream'.phase # "ended" =>
           \A x \in ToSet(wire) \cup ToSet(stream.queue) \cup {e} : x \in ToSet(wire') \cup ToSet(stream'.queue)
  BY <1>1, PublishTells
<1>3. Dirties[e] \in Seq(Target) /\ MaxChanges \in Nat
  BY LiveAssumption
<1>4. \A t \in Target : /\ published[t] \in Version /\ screen[t] \in Version
                        /\ published'[t] = IF Contains(Dirties[e], t) THEN published[t] + 1 ELSE published[t]
                        /\ published'[t] <= MaxChanges
  BY DEF Change, LiveInv, LiveTypeOK
<1>5. published' \in [Target -> Version]
  <2>1. \A t \in Target : published'[t] \in Version
    BY <1>3, <1>4 DEF Version
  <2> QED
    BY <2>1 DEF Change
<1>6. unseen' \subseteq Target
  <2>1. ToSet(Dirties[e]) \subseteq Target
    BY <1>3 DEF ToSet
  <2> QED
    BY <2>1 DEF Change, LiveInv, LiveTypeOK
<1>7. LiveTypeOK'
  BY <1>1, <1>2, <1>5, <1>6 DEF LiveInv, LiveTypeOK
<1>8. FetchesFit' /\ RecoveryFits' /\ page' \in Pages
  BY <1>1 DEF LiveInv, LiveFits, FetchesFit, RecoveryFits
<1>9. VersionsFit'
  <2>1. \A t \in Target : published[t] <= published'[t] /\ published[t] \in Int /\ published'[t] \in Int /\ screen[t] \in Int
    BY <1>3, <1>4 DEF Version
  <2>2. \A t \in Target : fetches[t].value \in Int /\ (snapshot.values)[t] \in Int
    BY <1>3 DEF LiveInv, LiveTypeOK, Fetch, Snapshot, Version
  <2> QED
    BY <1>1, <2>1, <2>2 DEF LiveInv, LiveFits, VersionsFit
<1>10. ASSUME NEW t \in Target PROVE Current(t)'
  <2>1. CASE Contains(Dirties[e], t)
    <3>1. CASE stream.phase = "open"
      <4>1. CASE stream'.phase = "ended"
        BY <4>1 DEF Current, Reconciled
      <4>2. CASE stream'.phase # "ended"
        <5>1. e \in ToSet(wire') \cup ToSet(stream'.queue) /\ e # "hello"
          BY <3>1, <4>2, <1>2, LiveAssumption
        <5> QED
          BY <5>1, <2>1 DEF Current, Announced
      <4> QED
        BY <4>1, <4>2
    <3>2. CASE stream.phase = "ended"
      BY <3>2, <1>2 DEF Current, Reconciled
    <3>3. CASE stream.phase = "none"
      <4>1. source.phase # "open" /\ source.phase \in {"connecting", "open", "waiting"}
        BY <3>3 DEF LiveInv, LiveFits, LiveTypeOK, StreamFits, Source
      <4>2. CASE source.phase = "waiting" \/ source.reconnecting
        BY <4>2, <1>1 DEF Current, Reconciled
      <4>3. CASE source.phase = "connecting" /\ ~source.reconnecting
        <5>1. t \in ToSet(Dirties[e])
          BY <2>1, <1>3 DEF Contains, ToSet
        <5>2. t \in unseen'
          BY <5>1, <3>3, <4>3 DEF Change
        <5> QED
          BY <5>2 DEF Current
      <4> QED
        BY <4>1, <4>2, <4>3
    <3> QED
      BY <3>1, <3>2, <3>3 DEF LiveInv, LiveTypeOK, Stream
  <2>2. CASE ~Contains(Dirties[e], t)
    <3>1. published'[t] = published[t]
      BY <2>2, <1>4
    <3>2. t \notin ToSet(Dirties[e])
      BY <2>2, <1>3 DEF Contains, ToSet
    <3>3. t \in unseen => t \in unseen'
      BY <3>2 DEF Change
    <3>4. Announced(t) => Announced(t)' \/ Reconciled(t)'
      <4>1. CASE stream'.phase = "ended"
        BY <4>1 DEF Reconciled
      <4>2. CASE stream'.phase # "ended" /\ stream.phase = "open"
        BY <4>2, <1>2 DEF Announced
      <4>3. CASE stream.phase # "open"
        BY <4>3, <1>2 DEF Announced
      <4> QED
        BY <4>1, <4>2, <4>3
    <3>5. Refetched(t) => Refetched(t)'
      BY <3>1, <1>1 DEF Refetched
    <3>6. Reconciled(t) => Reconciled(t)'
      BY <3>1, <1>1, <1>2 DEF Reconciled
    <3>7. Current(t)
      BY DEF LiveInv
    <3> QED
      BY <3>1, <3>3, <3>4, <3>5, <3>6, <3>7, <1>1 DEF Current
  <2> QED
    BY <2>1, <2>2
<1> QED
  BY <1>1, <1>2, <1>7, <1>8, <1>9, <1>10 DEF LiveInv, LiveFits

-------------------------------------------------------------------------------
(* The page *)

(* What becomes of the requests: those that are kept stay and are outdated by a recovery, new *)
(* ones are asked, and there is none for a target that does not run.                          *)
LEMMA RequestsFollow ==
  ASSUME LiveInv, NEW q \in Pages, NEW ended \in SUBSET Target, Becomes(q, ended)
  PROVE  /\ page' = q /\ fetches' \in [Target -> Fetch] /\ FetchesFit'
         /\ \A u \in (page.running \ ended) \cap q.running :
              /\ fetches'[u].phase = fetches[u].phase /\ fetches'[u].value = fetches[u].value
              /\ fetches'[u].outdated <=> (fetches[u].outdated \/ q.recovering)
         /\ \A u \in q.running \ (page.running \ ended) : fetches'[u] = Asked
         /\ \A u \in Target \ q.running : fetches'[u] = NoFetch
<1>1. page' = q /\ fetches' = FetchesOf(q, ended) /\ q \in Page
  BY DEF Becomes, Pages
<1>2. fetches \in [Target -> Fetch] /\ page.running \subseteq Target /\ q.running \subseteq Target
      /\ q.recovering \in BOOLEAN /\ FetchesFit
  BY <1>1 DEF LiveInv, LiveFits, LiveTypeOK, Page
<1>3. 0 \in Version
  BY LiveAssumption DEF Version
<1>4. NoFetch \in Fetch /\ Asked \in Fetch /\ NoFetch.phase = "none" /\ Asked.phase = "asked"
      /\ ~NoFetch.outdated /\ ~Asked.outdated
  BY <1>3 DEF NoFetch, Asked, Fetch
<1>5. \A u \in Target :
        fetches'[u] = IF u \notin q.running THEN NoFetch
                      ELSE IF u \notin page.running \ ended THEN Asked
                      ELSE [fetches[u] EXCEPT !.outdated = @ \/ q.recovering]
  BY <1>1 DEF FetchesOf
<1>6. ASSUME NEW u \in Target
      PROVE  LET f == [fetches[u] EXCEPT !.outdated = @ \/ q.recovering]
             IN  /\ f \in Fetch /\ f.phase = fetches[u].phase /\ f.value = fetches[u].value
                 /\ f.outdated <=> (fetches[u].outdated \/ q.recovering)
  BY <1>2 DEF Fetch
<1>7. fetches' \in [Target -> Fetch]
  <2>1. \A u \in Target : fetches'[u] \in Fetch
    BY <1>4, <1>5, <1>6
  <2> QED
    BY <1>1, <2>1 DEF FetchesOf
<1>8. \A u \in (page.running \ ended) \cap q.running :
        /\ fetches'[u].phase = fetches[u].phase /\ fetches'[u].value = fetches[u].value
        /\ fetches'[u].outdated <=> (fetches[u].outdated \/ q.recovering)
  BY <1>2, <1>5, <1>6
<1>9. /\ \A u \in q.running \ (page.running \ ended) : fetches'[u] = Asked
      /\ \A u \in Target \ q.running : fetches'[u] = NoFetch
  BY <1>2, <1>5
<1>10. FetchesFit'
  <2> SUFFICES ASSUME NEW u \in Target
               PROVE  /\ fetches'[u].phase # "none" <=> u \in q.running
                      /\ fetches'[u].phase = "none" => ~fetches'[u].outdated
    BY <1>1 DEF FetchesFit
  <2>1. CASE u \notin q.running
    BY <2>1, <1>4, <1>9
  <2>2. CASE u \in q.running \ (page.running \ ended)
    BY <2>2, <1>4, <1>9
  <2>3. CASE u \in (page.running \ ended) \cap q.running
    <3>1. fetches[u].phase # "none"
      BY <2>3, <1>2 DEF FetchesFit
    <3> QED
      BY <2>3, <3>1, <1>8
  <2> QED
    BY <2>1, <2>2, <2>3
<1> QED
  BY <1>1, <1>7, <1>8, <1>9, <1>10

(* What a page knew to be dirty it still knows, or it asks for it; and a request that does not *)
(* end is still out.                                                                          *)
LEMMA RefetchesFollow ==
  ASSUME LiveInv, NEW q \in Pages, NEW ended \in SUBSET Target, Becomes(q, ended), published' = published,
         page.running \ ended \subseteq q.running
  PROVE  /\ \A u \in Target : Dirty(q, u) \/ u \in q.running \ (page.running \ ended) =>
                                Refetched(u)' \/ page'.again
         /\ \A u \in Target \ ended :
              fetches[u].phase = "asked" \/ fetches[u].outdated
                \/ (fetches[u].phase = "answered" /\ fetches[u].value = published[u])
              => Refetched(u)'
<1>1. /\ page' = q
      /\ \A u \in (page.running \ ended) \cap q.running :
           /\ fetches'[u].phase = fetches[u].phase /\ fetches'[u].value = fetches[u].value
           /\ fetches'[u].outdated <=> (fetches[u].outdated \/ q.recovering)
      /\ \A u \in q.running \ (page.running \ ended) : fetches'[u] = Asked
  BY RequestsFollow
<1>2. Asked.phase = "asked"
  BY DEF Asked, NoFetch
<1>3. \A u \in Target : Dirty(q, u) \/ u \in q.running \ (page.running \ ended) => Refetched(u)' \/ page'.again
  BY <1>1, <1>2 DEF Dirty, Refetched
<1>4. ASSUME NEW u \in Target \ ended,
             fetches[u].phase = "asked" \/ fetches[u].outdated
               \/ (fetches[u].phase = "answered" /\ fetches[u].value = published[u])
      PROVE  Refetched(u)'
  <2>1. u \in page.running
    BY <1>4 DEF LiveInv, LiveFits, FetchesFit
  <2>2. u \in (page.running \ ended) \cap q.running
    BY <2>1
  <2> QED
    BY <2>2, <1>1, <1>4 DEF Refetched
<1> QED
  BY <1>3, <1>4

(* What a step of the page keeps: it leaves the server and the stream alone, and says of the *)
(* queue, the snapshot and the screen what the invariant asks.                                *)
LEMMA PageMoves ==
  ASSUME LiveInv, NEW q \in Pages, NEW ended \in SUBSET Target, Becomes(q, ended),
         page.running \ ended \subseteq q.running,
         q.recovering => q.running \subseteq page.running \ ended,
         q.recovering <=> snapshot'.phase # "none",
         published' = published, stream' = stream,
         source' \in Source, wire' \in Seq(Event \cup {"hello"}), Len(wire') <= MaxWire, StreamFits',
         snapshot' \in Snapshot, screen' \in [Target -> Version], unseen' \subseteq Target,
         disturbances' \in 0 .. MaxDisturbances,
         \A u \in Target : /\ screen'[u] <= published[u]
                           /\ u \in ended \/ q.recovering \/ fetches[u].outdated \/ screen'[u] = screen[u]
                           /\ snapshot'.phase = "answered" =>
                                screen'[u] <= snapshot'.values[u] /\ snapshot'.values[u] <= published[u]
  PROVE  LiveTypeOK' /\ page' \in Pages /\ LiveFits'
<1>1. /\ page' = q /\ fetches' \in [Target -> Fetch] /\ FetchesFit'
      /\ \A u \in (page.running \ ended) \cap q.running :
           /\ fetches'[u].phase = fetches[u].phase /\ fetches'[u].value = fetches[u].value
           /\ fetches'[u].outdated <=> (fetches[u].outdated \/ q.recovering)
      /\ \A u \in q.running \ (page.running \ ended) : fetches'[u] = Asked
      /\ \A u \in Target \ q.running : fetches'[u] = NoFetch
  BY RequestsFollow
<1>2. LiveTypeOK'
  BY <1>1 DEF LiveInv, LiveTypeOK, Pages
<1>3. RecoveryFits'
  BY <1>1 DEF RecoveryFits
<1>4. VersionsFit'
  <2> SUFFICES ASSUME NEW u \in Target, fetches'[u].phase = "answered", ~fetches'[u].outdated
               PROVE  screen'[u] <= fetches'[u].value /\ fetches'[u].value <= published[u]
    BY DEF VersionsFit
  <2>1. u \in (page.running \ ended) \cap q.running
    <3>1. Asked.phase = "asked" /\ NoFetch.phase = "none"
      BY DEF Asked, NoFetch
    <3> QED
      BY <3>1, <1>1
  <2>2. fetches[u].phase = "answered" /\ ~fetches[u].outdated /\ ~q.recovering /\ fetches'[u].value = fetches[u].value
    BY <1>1, <2>1
  <2>3. screen'[u] = screen[u]
    BY <2>1, <2>2
  <2> QED
    BY <2>2, <2>3 DEF LiveInv, LiveFits, VersionsFit
<1> QED
  BY <1>1, <1>2, <1>3, <1>4 DEF LiveFits

(* A claim of the invariant that the page does not touch. *)
LEMMA FitNumbers ==
  ASSUME LiveInv
  PROVE  /\ disturbances \in 0 .. MaxDisturbances
         /\ Disturbed => disturbances' \in 0 .. MaxDisturbances
         /\ \A u \in Target : /\ screen[u] \in Int /\ published[u] \in Int
                              /\ fetches[u].value \in Int /\ snapshot.values[u] \in Int
         /\ \A u \in Target : screen[u] \in Version /\ published[u] \in Version /\ fetches[u].value \in Version
<1>1. MaxChanges \in Nat /\ MaxDisturbances \in Nat
  BY LiveAssumption
<1>2. disturbances \in 0 .. MaxDisturbances /\ (Disturbed => disturbances' \in 0 .. MaxDisturbances)
  BY <1>1 DEF LiveInv, LiveTypeOK, Disturbed
<1>3. \A u \in Target : screen[u] \in Version /\ published[u] \in Version /\ fetches[u].value \in Version
                        /\ snapshot.values[u] \in Version
  BY DEF LiveInv, LiveTypeOK, Fetch, Snapshot
<1> QED
  BY <1>1, <1>2, <1>3 DEF Version

(* A step of the page that leaves the hub's frames alone. *)
LEMMA HubStays ==
  ASSUME LiveInv, UNCHANGED <<hubVars, source>>
  PROVE  /\ published' = published /\ stream' = stream /\ wire' = wire
         /\ source' \in Source /\ wire' \in Seq(Event \cup {"hello"}) /\ Len(wire') <= MaxWire /\ StreamFits'
BY DEF LiveInv, LiveFits, LiveTypeOK, hubVars, StreamFits

(* A frame is read. *)
LEMMA FrameRead ==
  ASSUME LiveInv, wire # <<>>, wire' = Tail(wire), stream' = stream, source' = source \/ source'.phase = "open"
  PROVE  /\ wire' \in Seq(Event \cup {"hello"}) /\ Len(wire') <= MaxWire /\ StreamFits'
         /\ Head(wire) \in Event \cup {"hello"}
         /\ \A e \in ToSet(wire) : e = Head(wire) \/ e \in ToSet(wire')
<1>1. wire \in Seq(Event \cup {"hello"}) /\ Len(wire) <= MaxWire /\ StreamFits /\ MaxWire \in Nat
  BY LiveAssumption DEF LiveInv, LiveFits, LiveTypeOK
<1> DEFINE w == wire
<1>2. /\ Head(w) \in Event \cup {"hello"} /\ Head(w) = w[1]
      /\ Tail(w) \in Seq(Event \cup {"hello"}) /\ Len(Tail(w)) = Len(w) - 1 /\ Len(w) \in Nat
      /\ \A i \in 1 .. Len(Tail(w)) : Tail(w)[i] = w[i + 1]
  BY <1>1, HeadTailProperties
<1>3. Len(wire') <= MaxWire /\ Len(wire') < Len(wire) /\ Len(wire') \in Nat
  BY <1>1, <1>2
<1>4. StreamFits'
  BY <1>1, <1>3 DEF StreamFits
<1>5. ASSUME NEW e \in ToSet(wire) PROVE e = Head(wire) \/ e \in ToSet(wire')
  <2>1. PICK i \in 1 .. Len(w) : w[i] = e
    BY <1>1 DEF ToSet
  <2>2. CASE i = 1
    BY <2>1, <2>2, <1>2
  <2>3. CASE i # 1
    <3>1. i - 1 \in 1 .. Len(Tail(w)) /\ (i - 1) + 1 = i
      BY <2>1, <2>3, <1>2
    <3>2. Tail(w)[i - 1] = e
      BY <2>1, <3>1, <1>2
    <3>3. i - 1 \in DOMAIN wire'
      BY <3>1, <1>2
    <3> QED
      BY <3>2, <3>3 DEF ToSet
  <2> QED
    BY <2>2, <2>3
<1> QED
  BY <1>2, <1>3, <1>4, <1>5

(* What the invariant says of a page. *)
LEMMA PageIs ==
  ASSUME LiveInv
  PROVE  /\ page \in Pages /\ page \in Page /\ page.running \subseteq Target
         /\ page.recovering \in BOOLEAN /\ page.again \in BOOLEAN
         /\ page.recovering <=> snapshot.phase # "none"
         /\ \A t \in page.running : page.recovering => fetches[t].outdated
         /\ \A t \in Target : fetches[t].phase # "none" \/ fetches[t].outdated => t \in page.running
         /\ snapshot \in Snapshot /\ screen \in [Target -> Version] /\ published \in [Target -> Version]
         /\ unseen \subseteq Target
BY DEF LiveInv, LiveFits, LiveTypeOK, FetchesFit, RecoveryFits, Page

(* A recovery begins: requests that are out are outdated, and everything is asked for. *)
LEMMA StartIs ==
  ASSUME LiveInv
  PROVE  LET q == StartRecovery(page)
         IN  /\ q \in Pages /\ q.running = page.running /\ q.recovering /\ q.again = page.recovering
             /\ q.queued = page.queued /\ q.held = page.held /\ q.rerun = page.rerun
<1> DEFINE q == StartRecovery(page)
<1>1. page \in Page /\ page \in Pages /\ page.recovering \in BOOLEAN
  BY PageIs
<1>2. /\ q \in Page /\ q.running = page.running /\ q.recovering /\ q.again = page.recovering
      /\ q.queued = page.queued /\ q.held = page.held /\ q.rerun = page.rerun
  BY <1>1 DEF StartRecovery, Page
<1>3. q \in Pages
  BY <1>1, <1>2 DEF Pages
<1> QED
  BY <1>2, <1>3

(* While a recovery lasts, every target is going to be fetched. *)
LEMMA RecoverKeeps ==
  ASSUME LiveInv, NEW q \in Pages, NEW ended \in SUBSET Target, Recover(q, ended),
         q.running = page.running \ ended, q.recovering, page.recovering => q.again,
         published' = published, stream' = stream, screen' = screen, unseen' = unseen,
         source' \in Source, wire' \in Seq(Event \cup {"hello"}), Len(wire') <= MaxWire, StreamFits',
         disturbances' \in 0 .. MaxDisturbances
  PROVE  LiveInv'
<1>1. Becomes(q, ended) /\ page' = q
  BY DEF Recover, Becomes
<1> DEFINE asked == [NoSnapshot EXCEPT !.phase = "asked"]
<1>2. snapshot' = IF page.recovering THEN snapshot ELSE asked
  BY DEF Recover
<1>3. asked \in Snapshot /\ asked.phase = "asked"
  <2>1. 0 \in Version
    BY LiveAssumption DEF Version
  <2> QED
    BY <2>1 DEF NoSnapshot, Snapshot
<1> HIDE DEF asked
<1>4. /\ snapshot' \in Snapshot /\ snapshot'.phase # "none"
      /\ snapshot'.phase = "answered" => snapshot' = snapshot
      /\ page.recovering \/ snapshot'.phase = "asked"
  BY <1>2, <1>3, PageIs
<1>5. \A u \in Target : /\ screen'[u] <= published[u]
                        /\ screen'[u] = screen[u]
                        /\ snapshot'.phase = "answered" =>
                             screen'[u] <= snapshot'.values[u] /\ snapshot'.values[u] <= published[u]
  BY <1>4 DEF LiveInv, LiveFits, VersionsFit
<1>6. LiveTypeOK' /\ page' \in Pages /\ LiveFits'
  BY <1>1, <1>4, <1>5, PageMoves, PageIs
<1>7. ASSUME NEW t \in Target PROVE Current(t)'
  BY <1>1, <1>4 DEF Current, Reconciled
<1> QED
  BY <1>6, <1>7 DEF LiveInv

(* The page hears that it has a stream: after a lost one it recovers. *)
LEMMA OpenedKeeps ==
  ASSUME LiveInv, Opened
  PROVE  LiveInv' /\ screen' = screen
<1>1. /\ wire # <<>> /\ Head(wire) = "hello" /\ wire' = Tail(wire)
      /\ source' = [phase |-> "open", reconnecting |-> FALSE]
      /\ published' = published /\ stream' = stream /\ screen' = screen /\ unseen' = unseen
      /\ disturbances' = disturbances
  BY DEF Opened
<1>2. /\ wire' \in Seq(Event \cup {"hello"}) /\ Len(wire') <= MaxWire /\ StreamFits'
      /\ \A e \in ToSet(wire) : e = Head(wire) \/ e \in ToSet(wire')
  <2>1. source'.phase = "open"
    BY <1>1
  <2> QED
    BY <1>1, <2>1, FrameRead
<1>3. source' \in Source /\ disturbances' \in 0 .. MaxDisturbances
  BY <1>1, FitNumbers DEF Source
<1>4. CASE source.reconnecting
  <2> DEFINE q == StartRecovery(page)
  <2>1. /\ q \in Pages /\ q.running = page.running /\ q.recovering /\ q.again = page.recovering
    BY StartIs
  <2>2. Recover(q, {})
    BY <1>4 DEF Opened
  <2> HIDE DEF q
  <2>3. q.running = page.running \ {} /\ {} \in SUBSET Target
    BY <2>1
  <2>4. LiveInv'
    BY <1>1, <1>2, <1>3, <2>1, <2>2, <2>3, RecoverKeeps
  <2> QED
    BY <1>1, <2>4
<1>5. CASE ~source.reconnecting
  <2>1. UNCHANGED <<page, fetches, snapshot>>
    BY <1>5 DEF Opened
  <2>2. LiveTypeOK'
    BY <1>1, <1>2, <1>3, <2>1 DEF LiveInv, LiveTypeOK
  <2>3. LiveFits' /\ page' \in Pages
    BY <1>1, <1>2, <2>1 DEF LiveInv, LiveFits, FetchesFit, RecoveryFits, VersionsFit
  <2>4. ASSUME NEW t \in Target PROVE Current(t)'
    <3>1. Current(t)
      BY DEF LiveInv
    <3>2. Announced(t) => Announced(t)'
      BY <1>1, <1>2 DEF Announced
    <3>3. Refetched(t) => Refetched(t)'
      BY <1>1, <2>1 DEF Refetched
    <3>4. source.phase # "waiting"
      BY <1>1 DEF LiveInv, LiveFits, StreamFits
    <3>5. Reconciled(t) => Reconciled(t)'
      BY <1>1, <1>5, <2>1, <3>4 DEF Reconciled
    <3> QED
      BY <1>1, <3>1, <3>2, <3>3, <3>5 DEF Current
  <2> QED
    BY <1>1, <2>2, <2>3, <2>4 DEF LiveInv
<1> QED
  BY <1>4, <1>5

(* Targets get dirty: nothing is forgotten and nothing ends. *)
LEMMA DirtyKeeps ==
  ASSUME LiveInv, NEW q, Later(page, q), Becomes(q, {}),
         published' = published, stream' = stream, source' = source, snapshot' = snapshot,
         screen' = screen, unseen' = unseen,
         wire' \in Seq(Event \cup {"hello"}), Len(wire') <= MaxWire, StreamFits',
         disturbances' \in 0 .. MaxDisturbances,
         \A t \in Target : Announced(t) => Announced(t)' \/ Noted(page, q, t)
  PROVE  LiveInv'
<1>1. /\ q \in Pages /\ page' = q /\ page.running \subseteq q.running /\ q.recovering = page.recovering
      /\ page.recovering => q.running = page.running
      /\ \A t \in Target : Dirty(page, t) => Noted(page, q, t)
  BY DEF Later, Becomes
<1>2. {} \in SUBSET Target /\ page.running \ {} = page.running /\ \A t \in Target : t \in Target \ {}
  OBVIOUS
<1>3. source' \in Source
  BY DEF LiveInv, LiveTypeOK
<1>4. \A u \in Target : /\ screen'[u] <= published[u]
                        /\ screen'[u] = screen[u]
                        /\ snapshot'.phase = "answered" =>
                             screen'[u] <= snapshot'.values[u] /\ snapshot'.values[u] <= published[u]
  BY DEF LiveInv, LiveFits, VersionsFit
<1>5. LiveTypeOK' /\ page' \in Pages /\ LiveFits'
  <2>1. q.recovering => q.running \subseteq page.running \ {}
    BY <1>1
  <2>2. q.recovering <=> snapshot'.phase # "none"
    BY <1>1, PageIs
  <2>3. snapshot' \in Snapshot /\ screen' \in [Target -> Version] /\ unseen' \subseteq Target
    BY PageIs
  <2>4. page.running \ {} \subseteq q.running
    BY <1>1
  <2> QED
    BY <1>1, <1>2, <1>3, <1>4, <2>1, <2>2, <2>3, <2>4, PageMoves
<1>6. /\ \A t \in Target : Noted(page, q, t) => Refetched(t)' \/ page'.again
      /\ \A t \in Target :
           fetches[t].phase = "asked" \/ fetches[t].outdated
             \/ (fetches[t].phase = "answered" /\ fetches[t].value = published[t])
           => Refetched(t)'
  <2>1. /\ \A t \in Target : Dirty(q, t) \/ t \in q.running \ (page.running \ {}) => Refetched(t)' \/ page'.again
        /\ \A t \in Target \ {} :
             fetches[t].phase = "asked" \/ fetches[t].outdated
               \/ (fetches[t].phase = "answered" /\ fetches[t].value = published[t])
             => Refetched(t)'
    BY <1>1, <1>2, RefetchesFollow
  <2> QED
    BY <1>2, <2>1 DEF Noted
<1>7. ASSUME NEW t \in Target PROVE Current(t)'
  <2>1. Current(t)
    BY DEF LiveInv
  <2>2. Refetched(t) \/ page.again => Refetched(t)' \/ page'.again
    <3>1. Refetched(t) \/ page.again =>
            Dirty(page, t) \/ fetches[t].phase = "asked" \/ fetches[t].outdated
              \/ (fetches[t].phase = "answered" /\ fetches[t].value = published[t])
      BY DEF Refetched, Dirty
    <3>2. Dirty(page, t) => Noted(page, q, t)
      BY <1>1
    <3> QED
      BY <3>1, <3>2, <1>6
  <2>3. Reconciled(t) => Reconciled(t)' \/ page.again
    BY DEF Reconciled
  <2>4. page'.again => Reconciled(t)'
    BY DEF Reconciled
  <2>5. Announced(t) => Announced(t)' \/ Refetched(t)' \/ page'.again
    BY <1>6
  <2> QED
    BY <2>1, <2>2, <2>3, <2>4, <2>5 DEF Current
<1> QED
  BY <1>5, <1>7 DEF LiveInv

(* An event is read: it was the announcement of what is dirty now. *)
LEMMA DeliverKeeps ==
  ASSUME LiveInv, Deliver
  PROVE  LiveInv' /\ screen' = screen
<1> DEFINE s == Dirties[Head(wire)]
           q == FoldLeft(QueueDirty, page, s)
<1>1. /\ wire # <<>> /\ Head(wire) # "hello" /\ wire' = Tail(wire) /\ Becomes(q, {})
      /\ published' = published /\ stream' = stream /\ source' = source /\ snapshot' = snapshot
      /\ screen' = screen /\ unseen' = unseen /\ disturbances' = disturbances
  BY DEF Deliver
<1>2. /\ wire' \in Seq(Event \cup {"hello"}) /\ Len(wire') <= MaxWire /\ StreamFits'
      /\ Head(wire) \in Event \cup {"hello"}
      /\ \A e \in ToSet(wire) : e = Head(wire) \/ e \in ToSet(wire')
  BY <1>1, FrameRead
<1>3. s \in Seq(Target)
  BY <1>1, <1>2, LiveAssumption
<1>4. Later(page, q) /\ \A i \in DOMAIN s : Noted(page, q, s[i])
  BY <1>3, QueuesAllDirty, PageIs
<1>5. disturbances' \in 0 .. MaxDisturbances
  BY <1>1, FitNumbers
<1> HIDE DEF q
<1>6. ASSUME NEW t \in Target, Announced(t)
      PROVE  Announced(t)' \/ Noted(page, q, t)
  <2>1. PICK e \in ToSet(wire) \cup ToSet(stream.queue) : e # "hello" /\ Contains(Dirties[e], t)
    BY <1>6 DEF Announced
  <2>2. CASE e = Head(wire)
    <3>1. PICK i \in DOMAIN s : s[i] = t
      BY <2>1, <2>2, <1>3 DEF Contains
    <3> QED
      BY <3>1, <1>4
  <2>3. CASE e # Head(wire)
    BY <2>1, <2>3, <1>1, <1>2 DEF Announced
  <2> QED
    BY <2>2, <2>3
<1>7. LiveInv'
  BY <1>1, <1>2, <1>4, <1>5, <1>6, DirtyKeeps
<1> QED
  BY <1>1, <1>7

(* A target gets dirty with no event. *)
LEMMA NudgeKeeps ==
  ASSUME LiveInv, NEW t \in Target, Nudge(t)
  PROVE  LiveInv' /\ screen' = screen
<1> DEFINE q == QueueDirty(page, t)
<1>1. /\ Disturbed /\ Becomes(q, {}) /\ UNCHANGED <<hubVars, source>> /\ source' = source
      /\ snapshot' = snapshot /\ screen' = screen /\ unseen' = unseen
  BY DEF Nudge
<1>2. Later(page, q)
  BY QueuesDirty, PageIs
<1>3. /\ published' = published /\ stream' = stream /\ wire' = wire
      /\ wire' \in Seq(Event \cup {"hello"}) /\ Len(wire') <= MaxWire /\ StreamFits'
  BY <1>1, HubStays
<1>4. disturbances' \in 0 .. MaxDisturbances
  BY <1>1, FitNumbers
<1> HIDE DEF q
<1>5. \A u \in Target : Announced(u) => Announced(u)' \/ Noted(page, q, u)
  BY <1>3 DEF Announced
<1>6. LiveInv'
  BY <1>1, <1>2, <1>3, <1>4, <1>5, DirtyKeeps
<1> QED
  BY <1>1, <1>6

-------------------------------------------------------------------------------
(* Answers *)

(* A request is answered with what the server has now. *)
LEMMA AnswerFetchKeeps ==
  ASSUME LiveInv, NEW t \in Target, AnswerFetch(t)
  PROVE  LiveInv' /\ screen' = screen
<1>1. /\ fetches[t].phase = "asked"
      /\ fetches' = [fetches EXCEPT ![t].phase = "answered", ![t].value = published[t]]
      /\ UNCHANGED <<hubVars, source>> /\ published' = published /\ stream' = stream /\ wire' = wire
      /\ source' = source /\ page' = page /\ snapshot' = snapshot /\ screen' = screen
      /\ unseen' = unseen /\ disturbances' = disturbances
  BY DEF AnswerFetch, hubVars
<1>2. fetches \in [Target -> Fetch] /\ published \in [Target -> Version]
  BY DEF LiveInv, LiveTypeOK
<1>3. /\ fetches[t] \in Fetch /\ published[t] \in Version
      /\ fetches'[t].phase = "answered" /\ fetches'[t].value = published[t]
      /\ fetches'[t].outdated = fetches[t].outdated
      /\ \A u \in Target : u # t => fetches'[u] = fetches[u]
  BY <1>1, <1>2 DEF Fetch
<1>4. fetches' \in [Target -> Fetch]
  <2>1. fetches'[t] \in Fetch
    BY <1>1, <1>2, <1>3 DEF Fetch
  <2> QED
    BY <1>1, <1>2, <1>3, <2>1
<1>5. LiveTypeOK' /\ page' \in Pages
  BY <1>1, <1>4 DEF LiveInv, LiveTypeOK
<1>6. FetchesFit' /\ RecoveryFits'
  <2>1. \A u \in Target : /\ fetches'[u].phase # "none" <=> fetches[u].phase # "none"
                          /\ fetches'[u].outdated = fetches[u].outdated
    BY <1>1, <1>3
  <2>2. page.running \subseteq Target
    BY PageIs
  <2> QED
    BY <1>1, <2>1, <2>2 DEF LiveInv, LiveFits, FetchesFit, RecoveryFits
<1>7. StreamFits'
  BY <1>1 DEF LiveInv, LiveFits, StreamFits
<1>8. VersionsFit'
  <2>1. screen[t] <= published[t] /\ published[t] <= published[t]
    BY FitNumbers DEF LiveInv, LiveFits, VersionsFit
  <2> QED
    BY <1>1, <1>3, <2>1 DEF LiveInv, LiveFits, VersionsFit
<1>9. ASSUME NEW u \in Target PROVE Current(u)'
  <2>1. Current(u)
    BY DEF LiveInv
  <2>2. Refetched(u) => Refetched(u)'
    <3>1. CASE u = t
      BY <3>1, <1>1, <1>3 DEF Refetched
    <3>2. CASE u # t
      BY <3>2, <1>1, <1>3 DEF Refetched
    <3> QED
      BY <3>1, <3>2
  <2> QED
    BY <1>1, <2>1, <2>2 DEF Current, Announced, Reconciled
<1> QED
  BY <1>1, <1>5, <1>6, <1>7, <1>8, <1>9 DEF LiveInv, LiveFits

(* The snapshot changes, and everything it says is bounded. *)
LEMMA AnswerSnapshotKeeps ==
  ASSUME LiveInv, AnswerSnapshot \/ FailSnapshot
  PROVE  LiveInv' /\ screen' = screen
<1>1. /\ snapshot.phase \in {"asked", "answered"}
      /\ published' = published /\ stream' = stream /\ wire' = wire /\ fetches' = fetches
      /\ source' = source /\ page' = page /\ screen' = screen /\ unseen' = unseen
      /\ disturbances' = disturbances \/ Disturbed
      /\ \/ snapshot' = [phase |-> "answered", values |-> published]
         \/ snapshot' = [NoSnapshot EXCEPT !.phase = "pause"]
      /\ snapshot'.phase = "pause" \/ (snapshot.phase = "asked" /\ snapshot' = [phase |-> "answered", values |-> published])
  BY DEF AnswerSnapshot, FailSnapshot, hubVars, NoSnapshot
<1>2. 0 \in Version /\ published \in [Target -> Version]
  BY LiveAssumption DEF Version, LiveInv, LiveTypeOK
<1>3. snapshot' \in Snapshot /\ snapshot'.phase \in {"answered", "pause"}
  BY <1>1, <1>2 DEF Snapshot, NoSnapshot
<1>4. disturbances' \in 0 .. MaxDisturbances
  BY <1>1, FitNumbers
<1>5. LiveTypeOK' /\ page' \in Pages
  BY <1>1, <1>3, <1>4 DEF LiveInv, LiveTypeOK
<1>6. FetchesFit' /\ RecoveryFits' /\ StreamFits'
  BY <1>1, <1>3 DEF LiveInv, LiveFits, FetchesFit, RecoveryFits, StreamFits
<1>7. VersionsFit'
  <2>1. \A u \in Target : published[u] <= published[u]
    BY FitNumbers
  <2>2. snapshot'.phase = "answered" => snapshot'.values = published
    BY <1>1
  <2> QED
    BY <1>1, <2>1, <2>2 DEF LiveInv, LiveFits, VersionsFit
<1>8. ASSUME NEW u \in Target PROVE Current(u)'
  <2>1. CASE snapshot'.phase = "pause"
    BY <2>1 DEF Current, Reconciled
  <2>2. CASE snapshot'.phase # "pause"
    BY <2>2, <1>1 DEF Current, Reconciled
  <2> QED
    BY <2>1, <2>2
<1> QED
  BY <1>1, <1>5, <1>6, <1>7, <1>8 DEF LiveInv, LiveFits

(* The page stops asking once more, because it asks for everything again. *)
LEMMA AskOnce ==
  ASSUME LiveInv
  PROVE  LET q == [page EXCEPT !.again = FALSE]
         IN  q \in Pages /\ q.running = page.running /\ q.recovering = page.recovering
<1> DEFINE q == [page EXCEPT !.again = FALSE]
<1>1. page \in Page /\ page \in Pages
  BY PageIs
<1>2. q \in Page /\ q.running = page.running /\ q.recovering = page.recovering
      /\ q.queued = page.queued /\ q.rerun = page.rerun
  BY <1>1 DEF Page
<1>3. q \in Pages
  BY <1>1, <1>2 DEF Pages
<1> QED
  BY <1>2, <1>3

(* Everything is asked for once more. *)
LEMMA AskAgainKeeps ==
  ASSUME LiveInv, Becomes([page EXCEPT !.again = FALSE], {}), snapshot' = [NoSnapshot EXCEPT !.phase = "asked"],
         snapshot.phase # "none",
         UNCHANGED <<hubVars, source, disturbances>>, unseen' \subseteq Target, screen' \in [Target -> Version],
         \A u \in Target : screen'[u] <= published[u]
  PROVE  LiveInv'
<1> DEFINE q == [page EXCEPT !.again = FALSE]
<1>1. q \in Pages /\ q.running = page.running /\ q.recovering = page.recovering /\ page' = q
  BY AskOnce DEF Becomes
<1>2. page.recovering
  BY PageIs
<1>3. /\ published' = published /\ stream' = stream /\ source' \in Source
      /\ wire' \in Seq(Event \cup {"hello"}) /\ Len(wire') <= MaxWire /\ StreamFits'
  BY HubStays
<1>4. disturbances' \in 0 .. MaxDisturbances
  BY FitNumbers
<1>5. snapshot' \in Snapshot /\ snapshot'.phase = "asked"
  <2>1. 0 \in Version
    BY LiveAssumption DEF Version
  <2> QED
    BY <2>1 DEF NoSnapshot, Snapshot
<1>6. Becomes(q, {}) /\ {} \in SUBSET Target /\ page.running \ {} \subseteq q.running
      /\ (q.recovering => q.running \subseteq page.running \ {})
      /\ (q.recovering <=> snapshot'.phase # "none")
  BY <1>1, <1>2, <1>5
<1> HIDE DEF q
<1>7. \A u \in Target : /\ screen'[u] <= published[u]
                        /\ u \in {} \/ q.recovering \/ fetches[u].outdated \/ screen'[u] = screen[u]
                        /\ snapshot'.phase = "answered" =>
                             screen'[u] <= snapshot'.values[u] /\ snapshot'.values[u] <= published[u]
  BY <1>1, <1>2, <1>5
<1>8. LiveTypeOK' /\ page' \in Pages /\ LiveFits'
  BY <1>1, <1>3, <1>4, <1>5, <1>6, <1>7, PageMoves
<1>9. ASSUME NEW u \in Target PROVE Current(u)'
  BY <1>5 DEF Current, Reconciled
<1> QED
  BY <1>8, <1>9 DEF LiveInv

(* A failed snapshot is asked for again. *)
LEMMA RetryKeeps ==
  ASSUME LiveInv, RetrySnapshot
  PROVE  LiveInv' /\ screen' = screen
<1>1. /\ Becomes([page EXCEPT !.again = FALSE], {}) /\ snapshot' = [NoSnapshot EXCEPT !.phase = "asked"]
      /\ snapshot.phase # "none" /\ UNCHANGED <<hubVars, source, disturbances>> /\ unseen' = unseen
      /\ screen' = screen
  BY DEF RetrySnapshot
<1>2. unseen' \subseteq Target /\ screen' \in [Target -> Version]
  BY <1>1, PageIs
<1>3. \A u \in Target : screen'[u] <= published[u]
  BY <1>1 DEF LiveInv, LiveFits, VersionsFit
<1>4. LiveInv'
  BY <1>1, <1>2, <1>3, AskAgainKeeps
<1> QED
  BY <1>1, <1>4

(* The authoritative answer: nothing it shows is older, and what it does not show the page still learns. *)
LEMMA ReconcileKeeps ==
  ASSUME LiveInv, Reconcile
  PROVE  LiveInv' /\ ScreenNeverOlder
<1>1. /\ snapshot.phase = "answered" /\ screen' = snapshot.values
      /\ unseen' = {t \in unseen : screen'[t] # published[t]}
      /\ UNCHANGED <<hubVars, source, disturbances>>
  BY DEF Reconcile
<1>2. /\ page \in Pages /\ page.recovering /\ page.running \subseteq Target
      /\ \A t \in page.running : fetches[t].outdated
      /\ \A t \in Target : fetches[t].phase # "none" \/ fetches[t].outdated => t \in page.running
      /\ unseen' \subseteq Target /\ screen' \in [Target -> Version]
  BY <1>1, PageIs DEF Snapshot
<1>3. \A u \in Target : screen[u] <= screen'[u] /\ screen'[u] <= published[u]
  BY <1>1 DEF LiveInv, LiveFits, VersionsFit
<1>4. ScreenNeverOlder
  BY <1>3, <1>1, FitNumbers DEF ScreenNeverOlder
<1>5. CASE page.again
  <2>1. Becomes([page EXCEPT !.again = FALSE], {}) /\ snapshot' = [NoSnapshot EXCEPT !.phase = "asked"]
    BY <1>5 DEF Reconcile
  <2>2. LiveInv'
    BY <1>1, <1>2, <1>3, <2>1, AskAgainKeeps
  <2> QED
    BY <1>4, <2>2
<1>6. CASE ~page.again
  <2> DEFINE q == EndRecovery(page)
  <2>1. Becomes(q, {}) /\ snapshot' = NoSnapshot
    BY <1>6 DEF Reconcile
  <2>2. /\ q \in Pages /\ page.running \subseteq q.running /\ ~q.recovering
        /\ \A u \in Target : Dirty(page, u) => Noted(page, q, u)
    BY <1>2, EndsRecovery
  <2> HIDE DEF q
  <2>3. /\ published' = published /\ stream' = stream /\ source' \in Source /\ wire' = wire
        /\ wire' \in Seq(Event \cup {"hello"}) /\ Len(wire') <= MaxWire /\ StreamFits'
    BY <1>1, HubStays
  <2>4. disturbances' \in 0 .. MaxDisturbances
    BY <1>1, FitNumbers
  <2>5. snapshot' \in Snapshot /\ snapshot'.phase = "none"
    <3>1. 0 \in Version
      BY LiveAssumption DEF Version
    <3> QED
      BY <2>1, <3>1 DEF NoSnapshot, Snapshot
  <2>6. {} \in SUBSET Target /\ page.running \ {} = page.running /\ \A u \in Target : u \in Target \ {}
    OBVIOUS
  <2>7. ASSUME NEW u \in Target PROVE fetches[u].outdated \/ fetches[u].phase = "none"
    BY <1>2
  <2>8. LiveTypeOK' /\ page' \in Pages /\ FetchesFit' /\ RecoveryFits' /\ VersionsFit'
    <3>1. /\ page' = q /\ fetches' \in [Target -> Fetch] /\ FetchesFit'
          /\ \A u \in (page.running \ {}) \cap q.running : fetches'[u].outdated <=> (fetches[u].outdated \/ q.recovering)
          /\ \A u \in q.running \ (page.running \ {}) : fetches'[u] = Asked
          /\ \A u \in Target \ q.running : fetches'[u] = NoFetch
      BY <2>1, <2>2, <2>6, RequestsFollow
    <3>2. LiveTypeOK'
      BY <1>1, <1>2, <2>2, <2>3, <2>4, <2>5, <3>1 DEF LiveInv, LiveTypeOK, Pages, hubVars
    <3>3. RecoveryFits'
      BY <2>2, <2>5, <3>1 DEF RecoveryFits
    <3>4. \A u \in Target : ~(fetches'[u].phase = "answered" /\ ~fetches'[u].outdated)
      <4>1. Asked.phase = "asked" /\ NoFetch.phase = "none"
        BY DEF Asked, NoFetch
      <4> QED
        BY <4>1, <1>2, <2>6, <3>1
    <3>5. VersionsFit'
      BY <1>3, <2>3, <2>5, <3>4 DEF VersionsFit
    <3> QED
      BY <2>2, <3>1, <3>2, <3>3, <3>5
  <2>9. /\ \A u \in Target : Noted(page, q, u) => Refetched(u)' \/ page'.again
        /\ \A u \in Target : fetches[u].phase = "asked" \/ fetches[u].outdated => Refetched(u)'
    <3>1. /\ \A u \in Target : Dirty(q, u) \/ u \in q.running \ (page.running \ {}) => Refetched(u)' \/ page'.again
          /\ \A u \in Target \ {} :
               fetches[u].phase = "asked" \/ fetches[u].outdated
                 \/ (fetches[u].phase = "answered" /\ fetches[u].value = published[u])
               => Refetched(u)'
      BY <2>1, <2>2, <2>3, <2>6, RefetchesFollow
    <3> QED
      BY <2>6, <3>1 DEF Noted
  <2>10. ASSUME NEW u \in Target PROVE Current(u)'
    <3>1. Current(u)
      BY DEF LiveInv
    <3>2. CASE screen'[u] = published[u]
      BY <3>2, <2>3 DEF Current
    <3>3. CASE screen'[u] # published[u]
      <4>1. screen[u] # published[u]
        <5>1. screen'[u] \in Int /\ published[u] \in Int /\ screen[u] \in Int
          BY <1>1, FitNumbers
        <5> QED
          BY <1>3, <3>3, <5>1
      <4>2. u \in unseen => u \in unseen'
        BY <1>1, <3>3
      <4>3. Announced(u) => Announced(u)'
        BY <2>3 DEF Announced
      <4>4. Refetched(u) => Refetched(u)' \/ page'.again
        <5>1. fetches[u].phase = "answered" => fetches[u].outdated
          BY <1>2
        <5>2. Refetched(u) => Dirty(page, u) \/ fetches[u].phase = "asked" \/ fetches[u].outdated
          BY <5>1 DEF Refetched, Dirty
        <5>3. Dirty(page, u) => Noted(page, q, u)
          BY <2>2
        <5> QED
          BY <5>2, <5>3, <2>9
      <4>5. Reconciled(u) => Reconciled(u)'
        BY <1>1, <1>6, <2>3, <3>3 DEF Reconciled
      <4>6. page'.again => Reconciled(u)'
        BY DEF Reconciled
      <4> QED
        BY <3>1, <4>1, <4>2, <4>3, <4>4, <4>5, <4>6 DEF Current
    <3> QED
      BY <3>2, <3>3
  <2> QED
    BY <1>4, <2>3, <2>8, <2>10 DEF LiveInv, LiveFits
<1> QED
  BY <1>5, <1>6

(* A request ends: what the page knew it still knows, whatever its screen shows of that target. *)
LEMMA EndKeeps ==
  ASSUME LiveInv, NEW t \in page.running, NEW q, Without(page, q, t), Becomes(q, {t}),
         UNCHANGED <<hubVars, source>>, snapshot' = snapshot, unseen' = unseen,
         disturbances' \in 0 .. MaxDisturbances, screen' \in [Target -> Version],
         \A u \in Target : u # t => screen'[u] = screen[u],
         screen'[t] <= published[t], snapshot.phase = "answered" => screen'[t] = screen[t],
         Dirty(q, t) \/ t \in q.running \/ screen'[t] = published[t]
           \/ (screen[t] # published[t] /\ ~Refetched(t))
  PROVE  LiveInv'
<1>1. /\ q \in Pages /\ page.running \ {t} \subseteq q.running /\ q.recovering = page.recovering
      /\ page.recovering => q.running = page.running \ {t}
      /\ \A u \in Target : Dirty(page, u) => Dirty(q, u) \/ u \in q.running \ (page.running \ {t})
      /\ page' = q
  BY DEF Without, Becomes
<1>2. {t} \in SUBSET Target /\ t \in Target
  BY PageIs
<1>3. /\ published' = published /\ stream' = stream /\ source' \in Source /\ wire' = wire /\ source' = source
      /\ wire' \in Seq(Event \cup {"hello"}) /\ Len(wire') <= MaxWire /\ StreamFits'
  BY HubStays
<1>4. \A u \in Target : /\ screen'[u] <= published[u]
                        /\ u \in {t} \/ q.recovering \/ fetches[u].outdated \/ screen'[u] = screen[u]
                        /\ snapshot'.phase = "answered" =>
                             screen'[u] <= snapshot'.values[u] /\ snapshot'.values[u] <= published[u]
  <2> SUFFICES ASSUME NEW u \in Target
               PROVE  /\ screen'[u] <= published[u]
                      /\ u \in {t} \/ screen'[u] = screen[u]
                      /\ snapshot'.phase = "answered" =>
                           screen'[u] <= snapshot'.values[u] /\ snapshot'.values[u] <= published[u]
    OBVIOUS
  <2>1. /\ screen[u] <= published[u]
        /\ snapshot.phase = "answered" =>
             screen[u] <= snapshot.values[u] /\ snapshot.values[u] <= published[u]
    BY DEF LiveInv, LiveFits, VersionsFit
  <2>2. snapshot.phase = "answered" => screen'[u] = screen[u]
    OBVIOUS
  <2> QED
    BY <2>1, <2>2
<1>5. LiveTypeOK' /\ page' \in Pages /\ LiveFits'
  <2>1. q.recovering => q.running \subseteq page.running \ {t}
    BY <1>1
  <2>2. q.recovering <=> snapshot'.phase # "none"
    BY <1>1, PageIs
  <2>3. snapshot' \in Snapshot /\ unseen' \subseteq Target
    BY PageIs
  <2> QED
    BY <1>1, <1>2, <1>3, <1>4, <2>1, <2>2, <2>3, PageMoves
<1>6. /\ \A u \in Target : Dirty(q, u) \/ u \in q.running \ (page.running \ {t}) => Refetched(u)' \/ page'.again
      /\ \A u \in Target \ {t} :
           fetches[u].phase = "asked" \/ fetches[u].outdated
             \/ (fetches[u].phase = "answered" /\ fetches[u].value = published[u])
           => Refetched(u)'
  BY <1>1, <1>2, <1>3, RefetchesFollow
<1>7. ASSUME NEW u \in Target PROVE Current(u)'
  <2>1. Current(u)
    BY DEF LiveInv
  <2>2. page'.again => Reconciled(u)'
    BY DEF Reconciled
  <2>3. Announced(u) => Announced(u)'
    BY <1>3 DEF Announced
  <2>4. Dirty(page, u) => Refetched(u)' \/ page'.again
    BY <1>1, <1>6
  <2>5. page.again => Dirty(page, u)
    BY DEF Dirty
  <2>6. Reconciled(u) => Reconciled(u)' \/ page.again
    BY <1>3 DEF Reconciled
  <2>7. Refetched(u) =>
          Dirty(page, u) \/ fetches[u].phase = "asked" \/ fetches[u].outdated
            \/ (fetches[u].phase = "answered" /\ fetches[u].value = published[u])
    BY DEF Refetched, Dirty
  <2>8. CASE u # t
    <3>1. screen'[u] = screen[u]
      BY <2>8
    <3>2. Refetched(u) => Refetched(u)' \/ page'.again
      BY <2>4, <2>7, <2>8, <1>6
    <3> QED
      BY <2>1, <2>2, <2>3, <2>4, <2>5, <2>6, <3>1, <3>2, <1>3 DEF Current
  <2>9. CASE u = t
    <3>1. CASE Dirty(q, t) \/ t \in q.running
      <4>1. t \in q.running => t \in q.running \ (page.running \ {t})
        OBVIOUS
      <4>2. Refetched(t)' \/ page'.again
        BY <3>1, <4>1, <1>2, <1>6
      <4> QED
        BY <4>2, <2>2, <2>9 DEF Current
    <3>2. CASE screen'[t] = published[t]
      BY <3>2, <2>9, <1>3 DEF Current
    <3>3. CASE screen[t] # published[t] /\ ~Refetched(t)
      BY <3>3, <2>1, <2>2, <2>3, <2>4, <2>5, <2>6, <2>9 DEF Current
    <3> QED
      BY <3>1, <3>2, <3>3
  <2> QED
    BY <2>8, <2>9
<1> QED
  BY <1>5, <1>7 DEF LiveInv

(* What was fetched is shown: it is not older, and if it is not the latest, the page still learns that. *)
LEMMA PatchKeeps ==
  ASSUME LiveInv, NEW t \in Target, Patch(t)
  PROVE  LiveInv' /\ ScreenNeverOlder
<1> DEFINE q == RunEnds(page, t)
<1>1. /\ fetches[t].phase = "answered" /\ ~fetches[t].outdated
      /\ screen' = [screen EXCEPT ![t] = fetches[t].value]
      /\ Becomes(q, {t}) /\ UNCHANGED <<hubVars, source>> /\ snapshot' = snapshot /\ unseen' = unseen
      /\ disturbances' = disturbances
  BY DEF Patch
<1>2. t \in page.running /\ screen \in [Target -> Version]
  BY <1>1, PageIs
<1>3. ~page.recovering /\ snapshot.phase # "answered"
  BY <1>1, <1>2, PageIs
<1>4. Without(page, q, t)
  BY RunEndsWithout, PageIs
<1> HIDE DEF q
<1>5. /\ screen'[t] = fetches[t].value /\ \A u \in Target : u # t => screen'[u] = screen[u]
      /\ screen' \in [Target -> Version]
  BY <1>1, <1>2, FitNumbers
<1>6. screen[t] <= screen'[t] /\ screen'[t] <= published[t]
  BY <1>1, <1>5 DEF LiveInv, LiveFits, VersionsFit
<1>7. ScreenNeverOlder
  <2>1. \A u \in Target : screen[u] \in Int
    BY FitNumbers
  <2>2. screen'[t] \in Int
    BY <1>5, FitNumbers
  <2> QED
    BY <1>5, <1>6, <2>1, <2>2 DEF ScreenNeverOlder
<1>8. disturbances' \in 0 .. MaxDisturbances
  BY <1>1, FitNumbers
<1>9. Dirty(q, t) \/ t \in q.running \/ screen'[t] = published[t]
        \/ (screen[t] # published[t] /\ ~Refetched(t))
  <2>1. CASE Dirty(page, t)
    BY <2>1, <1>4 DEF Without
  <2>2. CASE ~Dirty(page, t) /\ screen'[t] # published[t]
    <3>1. ~Refetched(t)
      BY <2>2, <1>1, <1>5 DEF Refetched, Dirty
    <3>2. screen[t] # published[t]
      <4>1. screen[t] \in Int /\ published[t] \in Int /\ screen'[t] \in Int
        BY <1>5, FitNumbers
      <4> QED
        BY <4>1, <1>6, <2>2
    <3> QED
      BY <2>2, <3>1, <3>2
  <2> QED
    BY <2>1, <2>2
<1>10. LiveInv'
  <2>1. snapshot.phase = "answered" => screen'[t] = screen[t]
    BY <1>3
  <2> QED
    BY <1>1, <1>2, <1>4, <1>5, <1>6, <1>8, <1>9, <2>1, EndKeeps
<1> QED
  BY <1>7, <1>10

(* An answer older than a recovery is dropped, and its target is dirty again. *)
LEMMA DropKeeps ==
  ASSUME LiveInv, NEW t \in Target, DropOutdated(t)
  PROVE  LiveInv' /\ screen' = screen
<1> DEFINE q == RunEnds(QueueDirty(page, t), t)
<1>1. /\ fetches[t].outdated
      /\ disturbances' = disturbances \/ Disturbed
      /\ Becomes(q, {t}) /\ UNCHANGED <<hubVars, source>> /\ snapshot' = snapshot /\ unseen' = unseen
      /\ screen' = screen
  BY DEF DropOutdated
<1>2. t \in page.running /\ screen' \in [Target -> Version]
  BY <1>1, PageIs
<1>3. Without(page, q, t) /\ (Dirty(q, t) \/ t \in q.running)
  BY <1>2, DropsWithout, PageIs
<1> HIDE DEF q
<1>4. disturbances' \in 0 .. MaxDisturbances
  BY <1>1, FitNumbers
<1>5. screen'[t] <= published[t]
  BY <1>1 DEF LiveInv, LiveFits, VersionsFit
<1>6. LiveInv'
  BY <1>1, <1>2, <1>3, <1>4, <1>5, EndKeeps
<1> QED
  BY <1>1, <1>6

(* A request that fails begins a recovery. *)
LEMMA FailKeeps ==
  ASSUME LiveInv, NEW t \in Target, FailFetch(t)
  PROVE  LiveInv' /\ screen' = screen
<1> DEFINE p == StartRecovery(page)
           q == RunEnds(p, t)
<1>1. /\ fetches[t].phase # "none" /\ ~fetches[t].outdated /\ Disturbed
      /\ Recover(q, {t}) /\ UNCHANGED <<hubVars, source>> /\ screen' = screen /\ unseen' = unseen
  BY DEF FailFetch
<1>2. t \in page.running /\ ~page.recovering /\ {t} \in SUBSET Target
  BY <1>1, PageIs
<1>3. p \in Pages /\ p.running = page.running /\ p.recovering
  BY StartIs
<1> HIDE DEF p
<1>4. Without(p, q, t)
  BY <1>3, RunEndsWithout
<1> HIDE DEF q
<1>5. q \in Pages /\ q.running = page.running \ {t} /\ q.recovering
  BY <1>3, <1>4 DEF Without
<1>6. /\ published' = published /\ stream' = stream /\ source' \in Source
      /\ wire' \in Seq(Event \cup {"hello"}) /\ Len(wire') <= MaxWire /\ StreamFits'
  BY <1>1, HubStays
<1>7. disturbances' \in 0 .. MaxDisturbances
  BY <1>1, FitNumbers
<1>8. LiveInv'
  BY <1>1, <1>2, <1>5, <1>6, <1>7, RecoverKeeps
<1> QED
  BY <1>1, <1>8

(* Every step. *)
LEMMA LiveInvNext == LiveInv /\ [LiveNext]_liveVars => LiveInv' /\ [ScreenNeverOlder]_liveVars
<1> SUFFICES ASSUME LiveInv, [LiveNext]_liveVars
             PROVE  LiveInv' /\ [ScreenNeverOlder]_liveVars
  OBVIOUS
<1>1. screen' = screen => ScreenNeverOlder
  <2>1. \A t \in Target : screen[t] \in Int
    BY FitNumbers
  <2> QED
    BY <2>1 DEF ScreenNeverOlder
<1>2. CASE StreamProgress
  BY <1>1, <1>2, ConnectKeeps, OpenedKeeps, DeliverKeeps, EndedKeeps, DrainKeeps DEF StreamProgress
<1>3. CASE SnapshotProgress
  BY <1>1, <1>3, AnswerSnapshotKeeps, ReconcileKeeps, RetryKeeps DEF SnapshotProgress
<1>4. CASE \E t \in Target : FetchProgress(t)
  BY <1>1, <1>4, AnswerFetchKeeps, PatchKeeps, DropKeeps DEF FetchProgress
<1>5. CASE \E e \in Event : Change(e)
  BY <1>1, <1>5, ChangeKeeps
<1>6. CASE Refuse \/ Cut \/ FailSnapshot
  BY <1>1, <1>6, EndedKeeps, AnswerSnapshotKeeps
<1>7. CASE \E t \in Target : FailFetch(t) \/ Nudge(t)
  BY <1>1, <1>7, FailKeeps, NudgeKeeps
<1>8. CASE UNCHANGED liveVars
  <2>1. /\ published' = published /\ stream' = stream /\ wire' = wire /\ source' = source /\ page' = page
        /\ fetches' = fetches /\ snapshot' = snapshot /\ screen' = screen /\ unseen' = unseen
        /\ disturbances' = disturbances
    BY <1>8 DEF liveVars, hubVars, pageVars
  <2>2. LiveTypeOK' /\ page' \in Pages
    BY <2>1 DEF LiveInv, LiveTypeOK
  <2>3. LiveFits'
    BY <2>1 DEF LiveInv, LiveFits, FetchesFit, RecoveryFits, StreamFits, VersionsFit
  <2>4. \A t \in Target : Current(t)'
    BY <2>1 DEF LiveInv, Current, Announced, Refetched, Reconciled
  <2> QED
    BY <1>8, <2>2, <2>3, <2>4 DEF LiveInv
<1> QED
  BY <1>2, <1>3, <1>4, <1>5, <1>6, <1>7, <1>8 DEF LiveNext

(* LiveUpdates.ScreenSound: what the page shows of a target is what the server has, or the   *)
(* page was rendered without hearing of it yet, or a message, a request or a recovery that   *)
(* will bring it is still under way (hub.ts, sse.js, dirty-targets.js, dashboard.js).        *)
THEOREM ScreenIsSound == LiveSpec => []ScreenSound
<1>1. LiveInv => ScreenSound
  BY DEF LiveInv, Current, ScreenSound, ScreenCurrent
<1>2. LiveInv /\ [LiveNext]_liveVars => LiveInv'
  BY LiveInvNext
<1> QED
  BY <1>1, <1>2, LiveInvInit, PTL DEF LiveSpec

(* LiveUpdates.NeverOlder: no step shows a target in an older version than before, though     *)
(* answers to single requests and to a recovery are applied in any order: a recovery outdates *)
(* the requests that are out, and dashboard.js drops their answers.                          *)
THEOREM ScreenNeverGoesBack == LiveSpec => NeverOlder
<1>1. LiveInv /\ [LiveNext]_liveVars => LiveInv' /\ [ScreenNeverOlder]_liveVars
  BY LiveInvNext
<1> QED
  BY <1>1, LiveInvInit, PTL DEF LiveSpec, NeverOlder
===============================================================================
