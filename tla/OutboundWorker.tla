---------------------------- MODULE OutboundWorker ----------------------------
(***************************************************************************)
(* The outbound worker (src/features/outbound/worker.ts): polls, sends in  *)
(* flight, probes, stop, crash and restart, over the outbox.               *)
(*                                                                         *)
(* One action is one turn of the event loop: what the code does between    *)
(* two awaits.  The outbox is reduced to what the worker sees of it, with  *)
(* the passing of time as the flag `due`; OutboxDelivery has the clocks.   *)
(* A compare-and-set on a revision is a flag of the reader (`holds` for    *)
(* the delivery row, `fresh` for the destination profile) that every       *)
(* later write of that revision clears.                                    *)
(***************************************************************************)
EXTENDS Integers, FiniteSets

CONSTANTS
  Delivery, Destination,
  DestinationOf,      \* the destination of each delivery
  HomeAssistant,      \* destinations with a connection that can be probed
  Concurrency,        \* sends at a time
  MaxCycle,           \* MAX_CYCLE_ATTEMPTS
  MaxGeneration,      \* bound on stops and crashes
  MaxVersion          \* bound on configuration versions and on credentials

ASSUME WorkerAssumption ==
  /\ DestinationOf \in [Delivery -> Destination] /\ IsFiniteSet(Destination)
  /\ HomeAssistant \subseteq Destination
  /\ Concurrency \in Nat \ {0} /\ MaxCycle \in Nat \ {0}
  /\ MaxGeneration \in Nat /\ MaxVersion \in Nat \ {0}

VARIABLES
  row,          \* outbound_deliveries
  enabled,      \* the destination is switched on
  secrets,      \* the secrets its configuration needs: usable, stored under a
                \* key that does not open them, or absent
  version,      \* current_version_id
  connectedFrom,\* first version with the present address and headers
  credential,   \* readDestinationCredentialRevision
  health,       \* connectivity_state and the evidence it rests on
  running, stopRequested, generation, polling, inFlight, \* the worker object
  tasks,        \* processClaim calls that have not settled
  probes        \* probeHomeAssistant calls that have not settled

destinationVars == <<enabled, secrets, version, connectedFrom, credential>>
workerVars == <<running, stopRequested, generation, polling, inFlight>>
vars == <<row, destinationVars, health, workerVars, tasks, probes>>

None == -1
Unfinished == {"pending", "retry", "leased"}
Ended == {"succeeded", "terminal"}
Secrets == {"usable", "unreadable", "absent"}
Row == [state : {"none"} \cup Unfinished \cup Ended, due : BOOLEAN, cycle : 0 .. MaxCycle,
        failed : BOOLEAN, version : 0 .. MaxVersion]
Reading == [generation : 0 .. MaxGeneration, fresh : BOOLEAN,
            version : 1 .. MaxVersion, credential : 1 .. MaxVersion]
Probe == [destination : Destination, read : Reading]
Task == [delivery : Delivery, phase : {"sending", "probing"}, awaited : BOOLEAN,
         holds : BOOLEAN, outdated : BOOLEAN, read : Reading]
Health == [state : {"unknown", "healthy", "failing"}, version : 1 .. MaxVersion,
           credential : 1 .. MaxVersion]

TypeOK ==
  /\ row \in [Delivery -> Row]
  /\ enabled \in [Destination -> BOOLEAN] /\ secrets \in [Destination -> Secrets]
  /\ version \in [Destination -> 1 .. MaxVersion]
  /\ connectedFrom \in [Destination -> 1 .. MaxVersion]
  /\ credential \in [Destination -> 1 .. MaxVersion]
  /\ health \in [Destination -> Health]
  /\ running \in BOOLEAN /\ stopRequested \in BOOLEAN
  /\ generation \in 0 .. MaxGeneration
  /\ polling \in {None} \cup 0 .. MaxGeneration
  /\ inFlight \in [Destination -> {None} \cup 0 .. MaxGeneration]
  /\ tasks \subseteq Task /\ probes \subseteq Probe

Usable(d) == secrets[d] = "usable"
NoWork == [d \in Destination |-> None]

(* Destinations not in `used` were set up earlier, lost their secrets and are  *)
(* switched off.                                                               *)
InitWith(used) ==
  /\ row = [x \in Delivery |-> [state |-> "none", due |-> FALSE, cycle |-> 0,
                                failed |-> FALSE, version |-> 0]]
  /\ enabled = [d \in Destination |-> d \in used]
  /\ secrets = [d \in Destination |-> IF d \in used THEN "usable" ELSE "absent"]
  /\ version = [d \in Destination |-> IF d \in used THEN 1 ELSE MaxVersion]
  /\ connectedFrom = [d \in Destination |-> 1]
  /\ credential = [d \in Destination |-> IF d \in used THEN 1 ELSE MaxVersion]
  /\ health = [d \in Destination |-> [state |-> "unknown", version |-> 1, credential |-> 1]]
  /\ running = FALSE /\ stopRequested = FALSE /\ generation = 0
  /\ polling = None /\ inFlight = NoWork
  /\ tasks = {} /\ probes = {}
Init == InitWith(Destination)

-------------------------------------------------------------------------------
(* Rows, and the readers that a write makes stale *)

Of(d) == {x \in Delivery : DestinationOf[x] = d}

Released(r) == [r EXCEPT !.state = "retry", !.due = TRUE]
Leased(r) == [r EXCEPT !.state = "leased", !.due = FALSE, !.cycle = @ + 1]
Paused(r) == IF r.state \in Unfinished
             THEN [r EXCEPT !.state = IF @ = "leased" THEN "retry" ELSE @, !.due = TRUE]
             ELSE r
Closed(r, state) == [r EXCEPT !.state = state, !.due = FALSE]

(* Tasks after the rows X and the profiles of the destinations D moved on. *)
TasksPast(S, X, D) ==
  {[t EXCEPT !.holds = @ /\ t.delivery \notin X,
             !.read.fresh = @ /\ DestinationOf[t.delivery] \notin D] : t \in S}
ProbesPast(S, D) == {[p EXCEPT !.read.fresh = @ /\ p.destination \notin D] : p \in S}

(* A change of the connection state may itself be an event to deliver. *)
Admitted(rows, S) ==
  [x \in Delivery |->
     IF x \in S THEN [rows[x] EXCEPT !.state = "pending", !.due = TRUE,
                                     !.version = version[DestinationOf[x]]]
     ELSE rows[x]]
Admissible == {x \in Delivery : row[x].state = "none" /\ enabled[DestinationOf[x]]}

Admit ==
  /\ \E S \in SUBSET Admissible \ {{}} : row' = Admitted(row, S)
  /\ UNCHANGED <<destinationVars, health, workerVars, tasks, probes>>

LeaseExpires(x) ==
  /\ row[x].state = "leased" /\ ~row[x].due
  /\ row' = [row EXCEPT ![x].due = TRUE]
  /\ UNCHANGED <<destinationVars, health, workerVars, tasks, probes>>

BackoffElapses(x) ==
  /\ row[x].state = "retry" /\ ~row[x].due
  /\ row' = [row EXCEPT ![x].due = TRUE]
  /\ UNCHANGED <<destinationVars, health, workerVars, tasks, probes>>

-------------------------------------------------------------------------------
(* Evidence of the connection: recordTransportStatus *)

IsCurrent(g) == ~stopRequested /\ g = generation
ReadNow(d, v) == [generation |-> generation, fresh |-> TRUE, version |-> v,
                  credential |-> credential[d]]

Counts(read, d) ==
  /\ IsCurrent(read.generation)
  /\ read.credential = credential[d]
  /\ read.fresh /\ read.version = version[d]

Verdict == {"success", "failure"}
Recorded(read, outcome) ==
  [state |-> IF outcome = "success" THEN "healthy" ELSE "failing",
   version |-> read.version, credential |-> read.credential]

(* Ends or starts a probe; the probe's own writes make the others stale. *)
ProbeStart(d) == \* the synchronous part of probeHomeAssistant
  IF d \in HomeAssistant /\ ~stopRequested
  THEN {[destination |-> d, read |-> ReadNow(d, version[d])]} ELSE {}

ProbeEnds(p, outcome) ==
  /\ p \in probes
  /\ LET d == p.destination
         counts == Counts(p.read, d)
     IN  /\ health' = IF counts THEN [health EXCEPT ![d] = Recorded(p.read, outcome)] ELSE health
         /\ tasks' = IF counts THEN TasksPast(tasks, {}, {d}) ELSE tasks
         /\ probes' = IF counts THEN ProbesPast(probes \ {p}, {d}) ELSE probes \ {p}
         /\ \/ row' = row
            \/ counts /\ \E S \in SUBSET Admissible : row' = Admitted(row, S)
  /\ UNCHANGED <<destinationVars, workerVars>>

(* The persistent connection reports its own state. *)
ConnectionEvidence(d, read, outcome) ==
  /\ d \in HomeAssistant /\ enabled[d]
  /\ Counts(read, d)
  /\ health' = [health EXCEPT ![d] = Recorded(read, outcome)]
  /\ tasks' = TasksPast(tasks, {}, {d})
  /\ probes' = ProbesPast(probes, {d})
  /\ \E S \in SUBSET Admissible : row' = Admitted(row, S)
  /\ UNCHANGED <<destinationVars, workerVars>>

-------------------------------------------------------------------------------
(* pollOnce: one claim transaction, then the synchronous part of every         *)
(* processClaim                                                                *)

Busy(d) == \E x \in Of(d) : row[x].state = "leased" /\ ~row[x].due
ClaimableWhenSpent == \* mutant
  {x \in Delivery : /\ enabled[DestinationOf[x]] /\ ~Busy(DestinationOf[x])
                    /\ row[x].state \in Unfinished /\ row[x].due}
Claimable == {x \in Delivery : /\ enabled[DestinationOf[x]] /\ ~Busy(DestinationOf[x])
                               /\ row[x].state \in Unfinished /\ row[x].due
                               /\ row[x].cycle < MaxCycle}
Reclaimable == {x \in Delivery :
                  /\ enabled[DestinationOf[x]]
                  /\ row[x].state = "retry" \/ (row[x].state = "leased" /\ row[x].due)}
Spent == {x \in Reclaimable : row[x].cycle >= MaxCycle}
WindowOver == {x \in Reclaimable : row[x].failed} \* may be past the failure window

Least(a, b) == IF a < b THEN a ELSE b
Capacity == Concurrency - Cardinality({d \in Destination : inFlight[d] # None})

(* What one claimDue may give up (T) and claim (C). *)
Batches ==
  {batch \in (SUBSET (Spent \cup WindowOver)) \X (SUBSET Claimable) :
     LET T == batch[1]
         C == batch[2]
     IN  /\ Cardinality(T) <= Capacity
         /\ Spent \subseteq T \/ Cardinality(T) = Capacity
         /\ C \cap T = {}
         /\ \A x, y \in C : DestinationOf[x] = DestinationOf[y] => x = y
         /\ Cardinality(C) =
              Least(Capacity, Cardinality({DestinationOf[x] : x \in Claimable \ T}))}

AlreadyInFlight(d) == inFlight[d] # None

NewTask(x) ==
  [delivery |-> x, phase |-> "sending", awaited |-> TRUE, holds |-> TRUE,
   outdated |-> DestinationOf[x] \in HomeAssistant /\ row[x].version # version[DestinationOf[x]],
   read |-> ReadNow(DestinationOf[x], row[x].version)]

(* T given up, C claimed.  Of C: those handed back because a send to their     *)
(* destination is still in flight, those whose secrets are gone (which         *)
(* switches the destination off), those whose processing threw, and the rest,  *)
(* which are sent.                                                             *)
Claims(T, C, broken) ==
  LET back == {x \in C : AlreadyInFlight(DestinationOf[x])}
      threw == broken \ back
      bare == {x \in C \ (back \cup threw) : ~Usable(DestinationOf[x])}
      sent == C \ (back \cup threw \cup bare)
      off == {DestinationOf[x] : x \in bare}
      moved == T \cup C \cup UNION {Of(d) : d \in off}
  IN  /\ row' = [x \in Delivery |->
                   IF x \in T THEN Closed(row[x], "terminal")
                   ELSE IF x \in back THEN Released(Leased(row[x]))
                   ELSE IF x \in C
                     THEN IF DestinationOf[x] \in off THEN Paused(Leased(row[x]))
                                                      ELSE Leased(row[x])
                   ELSE IF DestinationOf[x] \in off THEN Paused(row[x]) ELSE row[x]]
      /\ enabled' = [d \in Destination |-> enabled[d] /\ d \notin off]
      /\ health' = [d \in Destination |->
                      IF d \in off THEN [health[d] EXCEPT !.state = "failing"] ELSE health[d]]
      /\ tasks' = {[t EXCEPT !.awaited = @ /\ threw = {}] :
                     t \in TasksPast(tasks, moved, off) \cup {NewTask(x) : x \in sent}}
      /\ probes' = ProbesPast(probes, off)
      /\ inFlight' = [d \in Destination |->
                        IF d \in {DestinationOf[x] : x \in sent} THEN generation
                        ELSE inFlight[d]]
      /\ polling' = IF sent # {} /\ threw = {} THEN generation ELSE None

Poll ==
  /\ running /\ ~stopRequested /\ polling # generation /\ Capacity >= 1
  /\ \E batch \in Batches : \E broken \in SUBSET batch[2] :
       batch[1] \cup batch[2] # {} /\ Claims(batch[1], batch[2], broken)
  /\ UNCHANGED <<secrets, version, connectedFrom, credential, running, stopRequested,
                 generation>>

-------------------------------------------------------------------------------
(* The rest of processClaim *)

(* The `finally` of pollOnce for a task that settles; `threw` rejects the      *)
(* whole Promise.all, and the poll ends while its other sends go on.           *)
FinishUnlessThrown(t, remaining, threw) == \* mutant: an error leaves the poll open
  LET d == DestinationOf[t.delivery]
      last == t.awaited /\ ~threw /\ ~\E u \in remaining :
                u.awaited /\ u.read.generation = t.read.generation
  IN  /\ inFlight' = IF inFlight[d] = t.read.generation
                     THEN [inFlight EXCEPT ![d] = None] ELSE inFlight
      /\ polling' = IF last /\ polling = t.read.generation THEN None ELSE polling
      /\ tasks' = remaining
Finish(t, remaining, threw) ==
  LET ends == t.awaited /\ (threw \/ ~\E u \in remaining :
                                        u.awaited /\ u.read.generation = t.read.generation)
      d == DestinationOf[t.delivery]
  IN  /\ inFlight' = IF inFlight[d] = t.read.generation
                     THEN [inFlight EXCEPT ![d] = None] ELSE inFlight
      /\ polling' = IF ends /\ polling = t.read.generation THEN None ELSE polling
      /\ tasks' = IF ends
                  THEN {[u EXCEPT !.awaited = @ /\ u.read.generation # t.read.generation] :
                          u \in remaining}
                  ELSE remaining

Outcome == {"success", "retry", "permanent"}

(* applyDeliveryResult; a retryable failure may be past the failure window. *)
SettledStates(r, outcome) ==
  CASE outcome = "success" -> {"succeeded"}
    [] outcome = "permanent" -> {"terminal"}
    [] outcome = "retry" -> IF r.cycle >= MaxCycle THEN {"terminal"} ELSE {"retry", "terminal"}

Answered(r, state, outcome) ==
  [r EXCEPT !.state = state, !.due = FALSE, !.failed = @ \/ outcome # "success"]

AppliesAfterStop(t) == t.holds /\ ~row[t.delivery].due \* mutant
Applies(t) ==
  /\ IsCurrent(t.read.generation)
  /\ t.holds /\ ~row[t.delivery].due

SendAnswers(t, outcome) ==
  LET x == t.delivery
      d == DestinationOf[x]
      counts == Applies(t) /\ Counts(t.read, d)
      rest == TasksPast(tasks \ {t}, IF Applies(t) THEN {x} ELSE {}, IF counts THEN {d} ELSE {})
  IN  /\ t \in tasks /\ t.phase = "sending"
      /\ \E S \in SUBSET Admissible :
           /\ counts \/ S = {}
           /\ IF Applies(t)
              THEN \E state \in SettledStates(row[x], outcome) :
                     row' = Admitted([row EXCEPT ![x] = Answered(@, state, outcome)], S)
              ELSE row' = row
      /\ health' = IF counts THEN [health EXCEPT ![d] = Recorded(t.read, outcome)] ELSE health
      /\ probes' = IF counts THEN ProbesPast(probes, {d}) ELSE probes
      /\ IF t.outdated /\ IsCurrent(t.read.generation) /\ enabled[d]
         THEN \* probe the current version before the task settles
              /\ tasks' = rest \cup {[t EXCEPT !.phase = "probing", !.holds = FALSE,
                                               !.read = ReadNow(d, version[d])]}
              /\ UNCHANGED <<inFlight, polling>>
         ELSE Finish(t, rest, FALSE)
      /\ UNCHANGED <<destinationVars, running, stopRequested, generation>>

(* The probe at the end of a task *)
TaskProbeEnds(t, outcome) ==
  LET d == DestinationOf[t.delivery]
      counts == Counts(t.read, d)
  IN  /\ t \in tasks /\ t.phase = "probing"
      /\ health' = IF counts THEN [health EXCEPT ![d] = Recorded(t.read, outcome)] ELSE health
      /\ probes' = IF counts THEN ProbesPast(probes, {d}) ELSE probes
      /\ \/ row' = row
         \/ counts /\ \E S \in SUBSET Admissible : row' = Admitted(row, S)
      /\ Finish(t, TasksPast(tasks \ {t}, {}, IF counts THEN {d} ELSE {}), FALSE)
      /\ UNCHANGED <<destinationVars, running, stopRequested, generation>>

(* A database error after the send; nothing is recorded of the answer. *)
TaskThrows(t) ==
  /\ t \in tasks /\ IsCurrent(t.read.generation)
  /\ Finish(t, tasks \ {t}, TRUE)
  /\ UNCHANGED <<row, destinationVars, health, running, stopRequested, generation, probes>>

-------------------------------------------------------------------------------
(* Life of the worker; the poll that `start` issues at once is a Poll. *)

Start ==
  /\ ~running
  /\ running' = TRUE /\ stopRequested' = FALSE
  /\ LET off == {d \in HomeAssistant : enabled[d] /\ ~Usable(d)} \* token missing
         probed == {d \in HomeAssistant : enabled[d] /\ Usable(d)}
     IN  /\ enabled' = [d \in Destination |-> enabled[d] /\ d \notin off]
         /\ row' = [x \in Delivery |-> IF DestinationOf[x] \in off THEN Paused(row[x]) ELSE row[x]]
         /\ health' = [d \in Destination |->
                         IF d \in off THEN [health[d] EXCEPT !.state = "failing"] ELSE health[d]]
         /\ tasks' = TasksPast(tasks, UNION {Of(d) : d \in off}, off)
         /\ probes' = ProbesPast(probes, off) \cup
                        {[destination |-> d, read |-> ReadNow(d, version[d])] : d \in probed}
  /\ UNCHANGED <<secrets, version, connectedFrom, credential, generation, polling, inFlight>>

StopKeepingMarks == \* mutant: destinations stay marked in flight
  /\ ~stopRequested /\ generation < MaxGeneration
  /\ stopRequested' = TRUE /\ running' = FALSE
  /\ generation' = generation + 1
  /\ polling' = None
  /\ UNCHANGED <<row, destinationVars, health, inFlight, tasks, probes>>
Stop ==
  /\ ~stopRequested /\ generation < MaxGeneration
  /\ stopRequested' = TRUE /\ running' = FALSE
  /\ generation' = generation + 1
  /\ polling' = None /\ inFlight' = NoWork
  /\ UNCHANGED <<row, destinationVars, health, tasks, probes>>

(* The process dies and a new one is built. *)
Crash ==
  /\ generation < MaxGeneration
  /\ stopRequested' = FALSE /\ running' = FALSE
  /\ generation' = generation + 1
  /\ polling' = None /\ inFlight' = NoWork
  /\ tasks' = {} /\ probes' = {}
  /\ UNCHANGED <<row, destinationVars, health>>

-------------------------------------------------------------------------------
(* The operator *)

PausedRows(d) == [x \in Delivery |-> IF x \in Of(d) THEN Paused(row[x]) ELSE row[x]]

(* Switching off, also by removing a secret that the configuration needs. *)
SwitchOff(d) ==
  /\ enabled' = [enabled EXCEPT ![d] = FALSE]
  /\ row' = PausedRows(d)
  /\ tasks' = TasksPast(tasks, Of(d), {d})
  /\ probes' = ProbesPast(probes, {d})
  /\ UNCHANGED <<version, connectedFrom, workerVars>>

Disable(d) ==
  /\ enabled[d]
  /\ SwitchOff(d)
  /\ UNCHANGED <<secrets, credential, health>>

RemoveSecret(d) ==
  /\ Usable(d) /\ credential[d] < MaxVersion
  /\ secrets' = [secrets EXCEPT ![d] = "absent"]
  /\ credential' = [credential EXCEPT ![d] = @ + 1]
  /\ SwitchOff(d)
  /\ health' = IF d \in HomeAssistant THEN [health EXCEPT ![d].state = "failing"] ELSE health

Enable(d) ==
  /\ ~enabled[d] /\ Usable(d)
  /\ enabled' = [enabled EXCEPT ![d] = TRUE]
  /\ row' = row
  /\ tasks' = TasksPast(tasks, {}, {d})
  /\ probes' = ProbesPast(probes, {d}) \cup ProbeStart(d)
  /\ UNCHANGED <<secrets, version, connectedFrom, credential, health, workerVars>>

Reset(h) == [h EXCEPT !.state = IF @ = "healthy" THEN "unknown" ELSE @]

(* setToken, setHeaderSecret: the probe follows the commit in the same turn. *)
ReplaceSecret(d) ==
  /\ credential[d] < MaxVersion
  /\ secrets' = [secrets EXCEPT ![d] = "usable"]
  /\ credential' = [credential EXCEPT ![d] = @ + 1]
  /\ health' = [health EXCEPT ![d] = Reset(@)]
  /\ tasks' = TasksPast(tasks, {}, {d})
  /\ probes' = ProbesPast(probes, {d}) \cup
                 IF d \in HomeAssistant /\ enabled[d] /\ ~stopRequested
                 THEN {[destination |-> d,
                        read |-> [ReadNow(d, version[d]) EXCEPT !.credential = @ + 1]]}
                 ELSE {}
  /\ UNCHANGED <<row, enabled, version, connectedFrom, workerVars>>

(* The key of the secret store becomes unusable, or usable again. *)
SecretStoreChanges(d) ==
  /\ ~running /\ ~stopRequested /\ secrets[d] # "absent"
  /\ secrets' = [secrets EXCEPT ![d] = IF @ = "usable" THEN "unreadable" ELSE "usable"]
  /\ UNCHANGED <<row, enabled, version, connectedFrom, credential, health, workerVars, tasks,
                 probes>>

(* An edit at the same origin; a changed address or header resets the state. *)
Edit(d, reconnects) ==
  /\ version[d] < MaxVersion
  /\ version' = [version EXCEPT ![d] = @ + 1]
  /\ connectedFrom' = IF reconnects THEN [connectedFrom EXCEPT ![d] = version[d] + 1]
                      ELSE connectedFrom
  /\ health' = IF reconnects THEN [health EXCEPT ![d] = Reset(@)] ELSE health
  /\ tasks' = TasksPast(tasks, {}, {d})
  /\ probes' = ProbesPast(probes, {d})
  /\ UNCHANGED <<row, enabled, secrets, credential, workerVars>>

-------------------------------------------------------------------------------
SendEnds == \E t \in tasks, outcome \in Outcome : SendAnswers(t, outcome)
TaskProbeSettles == \E t \in tasks, outcome \in Verdict : TaskProbeEnds(t, outcome)

Next ==
  \/ Admit \/ Poll \/ Start \/ Stop \/ Crash
  \/ \E x \in Delivery : LeaseExpires(x) \/ BackoffElapses(x)
  \/ SendEnds \/ TaskProbeSettles
  \/ \E t \in tasks : TaskThrows(t)
  \/ \E p \in probes, outcome \in Verdict : ProbeEnds(p, outcome)
  \/ \E d \in Destination, outcome \in Verdict, v, cr \in 1 .. MaxVersion :
       ConnectionEvidence(d, [ReadNow(d, v) EXCEPT !.credential = cr], outcome)
  \/ \E d \in Destination : Disable(d) \/ Enable(d) \/ RemoveSecret(d) \/ ReplaceSecret(d)
                              \/ SecretStoreChanges(d)
  \/ \E d \in Destination, reconnects \in BOOLEAN : Edit(d, reconnects)

Spec == Init /\ [][Next]_vars

(* The poll timer fires every second while the worker runs; a started worker   *)
(* exists after every boot; transports answer or time out (webhook.ts: 30 s,   *)
(* home-assistant.ts: request and connection timers); clocks advance.          *)
Fairness ==
  /\ WF_vars(Poll) /\ WF_vars(Start)
  /\ WF_vars(SendEnds) /\ WF_vars(TaskProbeSettles)
  /\ \A x \in Delivery : WF_vars(LeaseExpires(x)) /\ WF_vars(BackoffElapses(x))
FairSpec == Spec /\ Fairness

-------------------------------------------------------------------------------
(* Properties *)

Mine == {t \in tasks : t.read.generation = generation}

(* ADR 0007, one in-flight delivery per logical destination: within one life   *)
(* of the worker a destination never has two sends at once, even when a lease  *)
(* runs out during the send and an error ended the poll that started it.       *)
OneSendPerDestination ==
  \A t, u \in Mine : DestinationOf[t.delivery] = DestinationOf[u.delivery] => t = u

(* No more sends than the configured concurrency. *)
CapacityRespected == Cardinality(Mine) <= Concurrency

(* The bookkeeping of the worker never outlives the work: a destination is     *)
(* marked in flight exactly while one of its tasks runs, so none is locked out *)
(* for good after a stop, a restart or an error.                               *)
InFlightExact ==
  \A d \in Destination :
    inFlight[d] # None <=> \E t \in Mine : DestinationOf[t.delivery] = d

(* The poll flag is set only while a task of that poll is still running;       *)
(* otherwise no later poll would ever start.                                   *)
PollNotWedged == polling = generation => \E t \in Mine : t.awaited

(* A destination shown healthy has answered at its present address with its    *)
(* present credentials, although sends and probes overlap edits and secret     *)
(* replacement.                                                                *)
HealthyIsCurrent ==
  \A d \in Destination :
    enabled[d] /\ health[d].state = "healthy" =>
      health[d].version >= connectedFrom[d] /\ health[d].credential = credential[d]

SendsSound ==
  /\ OneSendPerDestination /\ CapacityRespected /\ InFlightExact /\ PollNotWedged
  /\ HealthyIsCurrent

(* Shutdown is not evidence of a delivery failure: a live lease is settled     *)
(* only by the send of this life of the worker that holds it, never by the     *)
(* answer to a send from before a stop.                                        *)
SettledByOwnSend ==
  [][\A x \in Delivery :
       row[x].state = "leased" /\ ~row[x].due /\ row'[x].state \in Ended =>
         \E t \in Mine : t.delivery = x /\ t.holds /\ t \notin tasks']_vars

(* Every admitted delivery ends or its destination is switched off, whatever   *)
(* crashes, restarts, lost answers and database errors happen on the way.      *)
EveryDeliveryEnds ==
  \A x \in Delivery :
    row[x].state \in Unfinished ~> row[x].state \in Ended \/ ~enabled[DestinationOf[x]]
===============================================================================
