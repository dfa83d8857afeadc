----------------------------- MODULE PourDetector -----------------------------
(***************************************************************************)
(* The pour detector (src/features/telemetry/detector-service.ts and       *)
(* detector.ts): an interpretation epoch per Tap, the phase machine driven *)
(* by accepted samples and by the maintenance timer, and the arbitration   *)
(* between the Taps of one hardware group.                                 *)
(*                                                                         *)
(* Volumes are reduced to what the phases ask of them: whether a sample    *)
(* jumps, completes a flat window, shows a loss or more flow, ends a        *)
(* settled window.  The loss is kept until a candidate is activated, the    *)
(* time of the last flow from then on: the code reads them only there.      *)
(* Times are kept: the time a sample was measured, which may be late or     *)
(* ahead of the clock, and the logical time of every deadline.              *)
(***************************************************************************)
EXTENDS Integers, FiniteSets

CONSTANTS
  Tap,
  Loss,            \* losses a sample can show; negative when there is more beer
  CandidateLoss, ArbitrationMinimum, DominanceRatio,
  Arbitration, Quiet, Timeout, Cooldown, History, SettledSpan, \* durations
  Skew,            \* how far ahead of the clock a measurement may be
  Measured,        \* the times at which the source of each Tap measures
  MaxTurns,        \* turns of the loop of one processDue
  MaxRows,         \* LIMIT of listDueDetectorStates
  MaxTime          \* bound on the clock

ASSUME DetectorAssumption ==
  /\ Loss \subseteq Int /\ CandidateLoss \in Int /\ CandidateLoss > 0
  /\ ArbitrationMinimum \in Int /\ ArbitrationMinimum > 0
  /\ DominanceRatio \in Nat \ {0}
  /\ {Arbitration, Quiet, Timeout, Cooldown, History, SettledSpan, Skew, MaxTime}
       \subseteq Nat
  /\ Measured \in [Tap -> SUBSET (0 .. MaxTime + Skew)]
  /\ MaxTurns \in Nat \ {0} /\ MaxRows \in Nat \ {0} /\ IsFiniteSet(Tap)
  /\ Timeout > 0 /\ Quiet <= Timeout /\ SettledSpan <= History

VARIABLES
  now,      \* wall clock
  member,   \* the Taps of the arbitration group
  det,      \* telemetry_epochs and telemetry_epoch_state of each Tap
  samples,  \* telemetry_epoch_samples of the open epoch of each Tap
  after,    \* the epoch of the Tap takes samples measured after this moment
  pours,    \* completed pours of the open epochs, and whether a jump came after them
  pass,     \* the clock the running processDue was called with, or None
  turns     \* the turns its loop has taken

vars == <<now, member, det, samples, after, pours, pass, turns>>

None == -1
Time == 0 .. MaxTime
Horizon == MaxTime + Skew + Arbitration + Quiet + Timeout + Cooldown
Moment == {None} \cup 0 .. Horizon
Phase == {"waiting", "ready", "candidate", "pouring", "cooldown", "warning", "closed"}
Detector == [grouped : BOOLEAN, phase : Phase,
             start : Moment, loss : Loss \cup {0}, deadline : Moment, flow : Moment,
             timeout : Moment, until : Moment]
Sample == [at : 0 .. MaxTime + Skew, settled : BOOLEAN]
Pour == [tap : Tap, start : Moment, active : Moment, end : Moment, jumped : BOOLEAN]

(* The columns of telemetry_epoch_state that its CHECKs tie to the phase. *)
RowLegal(d) ==
  /\ (d.start # None) = (d.phase \in {"candidate", "pouring"})
  /\ (d.timeout # None) = (d.phase = "pouring")
  /\ (d.until # None) = (d.phase = "cooldown")

TypeOK ==
  /\ now \in Time /\ member \subseteq Tap
  /\ det \in [Tap -> Detector] /\ \A t \in Tap : RowLegal(det[t])
  /\ samples \in [Tap -> SUBSET Sample]
  /\ after \in [Tap -> {None} \cup 0 .. MaxTime + Skew]
  /\ pours \subseteq Pour
  /\ pass \in {None} \cup Time /\ turns \in 0 .. MaxTurns

-----------------------------------------------------------------------------
(* Epochs *)

Cleared(d, phase) ==
  [d EXCEPT !.phase = phase, !.start = None, !.loss = 0, !.deadline = None, !.flow = None,
            !.timeout = None, !.until = None]
Opened(d, grouped) == [Cleared(d, "waiting") EXCEPT !.grouped = grouped]
Closed(d) == [Cleared(d, "closed") EXCEPT !.grouped = FALSE]

NoEpoch == [grouped |-> FALSE, phase |-> "closed", start |-> None,
            loss |-> 0, deadline |-> None, flow |-> None, timeout |-> None, until |-> None]

Init ==
  /\ now = 0 /\ member \in SUBSET Tap
  /\ det = [t \in Tap |-> NoEpoch] /\ samples = [t \in Tap |-> {}]
  /\ after = [t \in Tap |-> None] /\ pours = {} /\ pass = None /\ turns = 0

(* New epochs: each takes samples measured from now on, and none that ingestion *)
(* would find out of order.                                                     *)
Transition(S, inGroup) ==
  /\ det' = [t \in Tap |-> IF t \in S THEN Opened(det[t], t \in inGroup) ELSE det[t]]
  /\ samples' = [t \in Tap |-> IF t \in S THEN {} ELSE samples[t]]
  /\ after' = [t \in Tap |-> IF t \in S /\ after[t] < now - 1 THEN now - 1 ELSE after[t]]
  /\ pours' = {p \in pours : p.tap \notin S}

(* An assignment is opened, or start-up finds one that has no epoch. *)
OpenEpoch(t) ==
  /\ pass = None /\ det[t].phase = "closed"
  /\ Transition({t}, member)
  /\ UNCHANGED <<now, member, pass, turns>>

(* Unassign, move or the end of the Fill. *)
CloseEpoch(t) ==
  /\ pass = None /\ det[t].phase # "closed"
  /\ det' = [det EXCEPT ![t] = Closed(det[t])]
  /\ samples' = [samples EXCEPT ![t] = {}]
  /\ pours' = {p \in pours : p.tap # t}
  /\ UNCHANGED <<now, member, after, pass, turns>>

(* Source, Keg, density, configuration or manual rebaseline: a new epoch. *)
ReopenEpoch(t) ==
  /\ pass = None /\ det[t].phase # "closed"
  /\ Transition({t}, member)
  /\ UNCHANGED <<now, member, pass, turns>>

ReplaceGroupMembers(S) ==
  LET moved == {t \in Tap : det[t].phase # "closed" /\ det[t].grouped # (t \in S)}
  IN /\ pass = None /\ S # member
     /\ member' = S
     /\ Transition(moved, S)
     /\ UNCHANGED <<now, pass, turns>>

-----------------------------------------------------------------------------
(* Transitions that fall due *)

Least(S) == CHOOSE x \in S : \A y \in S : x <= y
Activated(d, at) ==
  [d EXCEPT !.phase = "pouring", !.loss = 0, !.deadline = None, !.flow = at,
            !.timeout = at + Timeout]
(* Mutant: cooldown() forgets the timeout of the pour it ends. *)
CooledKeepingTimeout(d, at) ==
  [Cleared(d, "cooldown") EXCEPT !.until = at + Cooldown, !.timeout = d.timeout]
Cooled(d, at) == [Cleared(d, "cooldown") EXCEPT !.until = at + Cooldown]

(* A settled window ends at the last of the samples up to a time, and none of *)
(* its samples has been pruned.                                              *)
LastUpTo(h, at) == {x \in h : x.at <= at /\ \A y \in h : y.at <= at => y.at <= x.at}
Settled(h, at) ==
  {x \in LastUpTo(h, at) :
     x.settled /\ \A y \in h : x.at - SettledSpan >= y.at - History}

(* The times by `clock` at which a pour can be seen to have come to rest. *)
Checkpoints(d, h, clock) ==
  {c \in {d.flow + Quiet} \cup {x.at : x \in h} :
     d.flow + Quiet <= c /\ c <= clock /\ c <= d.timeout}
Rests(d, h, clock) == {c \in Checkpoints(d, h, clock) : Settled(h, c) # {}}

DueAt(d, h, clock) ==
  CASE d.phase = "candidate" /\ d.deadline <= clock -> d.deadline
    [] d.phase = "pouring" /\ Rests(d, h, clock) # {} -> Least(Rests(d, h, clock))
    [] d.phase = "pouring" /\ Rests(d, h, clock) = {} /\ d.timeout <= clock -> d.timeout
    [] OTHER -> None

Advanced(d, h, clock) ==
  LET at == DueAt(d, h, clock) IN
  CASE at = None -> d
    [] at # None /\ d.phase = "candidate" -> Activated(d, at)
    [] OTHER -> Cooled(d, at)

(* The pour that advancing completes: none on a timeout. *)
Completed(t, d, h, clock) ==
  LET rests == Rests(d, h, clock) IN
  {p \in {[tap |-> t, start |-> d.start, active |-> d.timeout - Timeout,
           end |-> DueAt(d, h, clock), jumped |-> FALSE]} :
     d.phase = "pouring" /\ rests # {}}

(* The working copy of one transaction. *)
Work == [det |-> det, pours |-> pours]

AdvanceOnce(w, S, h, clock) ==
  [det |-> [t \in Tap |-> IF t \in S THEN Advanced(w.det[t], h[t], clock) ELSE w.det[t]],
   pours |-> w.pours \cup UNION {Completed(t, w.det[t], h[t], clock) : t \in S}]

(* The loop of #advanceEpoch: a candidate can be activated and come to rest. *)
Advance(w, S, h, clock) == AdvanceOnce(AdvanceOnce(w, S, h, clock), S, h, clock)

-----------------------------------------------------------------------------
(* Arbitration *)

Rivals(w, phase) == {t \in Tap : w.det[t].grouped /\ w.det[t].phase = phase}
RunnersUp(w, S, t) == {u \in S \ {t} : \A v \in S \ {t} : w.det[v].loss <= w.det[u].loss}

Dominates(w, S, t) ==
  /\ w.det[t].loss >= ArbitrationMinimum
  /\ \A u \in S : w.det[u].loss <= w.det[t].loss
  /\ \A u \in RunnersUp(w, S, t) :
       /\ w.det[t].loss - w.det[u].loss >= ArbitrationMinimum
       /\ w.det[u].loss >= 0 /\ w.det[t].loss >= DominanceRatio * w.det[u].loss

Overdue(w, clock) == {t \in Rivals(w, "candidate") : w.det[t].deadline <= clock}
DecisionAt(w, clock) == Least({w.det[t].deadline : t \in Overdue(w, clock)})
Eligible(w, at) == {t \in Rivals(w, "candidate") : w.det[t].start <= at}

(* A member that is pouring suppresses every candidate. *)
Winners(w, S) ==
  IF Rivals(w, "pouring") # {} THEN {} ELSE {t \in S : Dominates(w, S, t)}

(* Mutant: the candidates that lose are left as they are. *)
DecidedKeepingLosers(w, S, at) ==
  [w EXCEPT !.det = [t \in Tap |-> IF t \notin Winners(w, S) THEN w.det[t]
                                   ELSE Activated(w.det[t], at)]]
Decided(w, S, at) ==
  LET won == Winners(w, S) IN
  [w EXCEPT !.det = [t \in Tap |-> IF t \notin S THEN w.det[t]
                                   ELSE IF t \in won THEN Activated(w.det[t], at)
                                   ELSE Cooled(w.det[t], at)]]

Arbitrated(w, h, clock) ==
  LET at == DecisionAt(w, clock)
      rested == AdvanceOnce(w, Rivals(w, "pouring"), h, at)
      decided == Decided(rested, Eligible(rested, at), at)
  IN Advance(decided, Winners(rested, Eligible(rested, at)), h, clock)

(* #advanceEpoch *)
Awaits(d, clock) == d.phase = "candidate" /\ d.grouped /\ d.deadline <= clock
AdvanceEpoch(w, t, h, clock) ==
  IF ~Awaits(w.det[t], clock) THEN Advance(w, {t}, h, clock)
  ELSE LET arbitrated == Arbitrated(w, h, clock)
       IN IF arbitrated.det[t].phase = "candidate" THEN arbitrated
          ELSE Advance(arbitrated, {t}, h, clock)

-----------------------------------------------------------------------------
(* Samples *)

Alarmed(d) == Cleared(d, "warning")

(* Mutant: a flat window ends the cooldown whenever it was measured. *)
ReductionsUncooled(d, m) ==
  {d} \cup
  CASE d.phase \in {"waiting", "warning", "cooldown"} -> {Cleared(d, "ready")}
    [] d.phase = "ready" ->
         {[d EXCEPT !.phase = "candidate", !.start = m, !.loss = l,
                    !.deadline = m + Arbitration] : l \in {x \in Loss : x >= CandidateLoss}}
    [] OTHER -> {}
(* reduceDetector: what a valid sample measured at m may make of the state. *)
Reductions(d, m) ==
  LET calm == Cleared(d, "ready")
      jump == IF d.phase \in {"waiting", "warning", "closed"} THEN {} ELSE {Alarmed(d)}
  IN {d} \cup jump \cup
     CASE d.phase \in {"waiting", "warning"} -> {calm}
       [] d.phase = "cooldown" -> {x \in {calm} : m >= d.until}
       [] d.phase = "ready" ->
            {[d EXCEPT !.phase = "candidate", !.start = m, !.loss = l,
                       !.deadline = m + Arbitration] : l \in {x \in Loss : x >= CandidateLoss}}
       [] d.phase = "candidate" -> {[d EXCEPT !.loss = l] : l \in Loss}
       [] d.phase = "pouring" -> {[d EXCEPT !.flow = m]}
       [] OTHER -> {}

(* Below the tare, negative or above the capacity: only a jump counts. *)
InvalidReductions(d) ==
  IF d.phase \in {"waiting", "warning", "closed"} THEN {d} ELSE {d, Alarmed(d)}

Acceptable(t, m) == pass = None /\ m > after[t] /\ m <= now + Skew

(* The transaction commits; a pour below the minimum was a rebound and is dropped. *)
Committed(w) ==
  /\ det' = w.det
  /\ \E rebounds \in SUBSET (w.pours \ pours) :
       pours' = {[p EXCEPT !.jumped = @ \/ w.det[p.tap].phase = "warning"] :
                   p \in w.pours \ rebounds}

IgnoredSample(t, m) ==
  /\ Acceptable(t, m) /\ det[t].phase = "closed"
  /\ after' = [after EXCEPT ![t] = m]
  /\ UNCHANGED <<now, member, det, samples, pours, pass, turns>>

InvalidSample(t, m) ==
  /\ Acceptable(t, m) /\ det[t].phase # "closed"
  /\ after' = [after EXCEPT ![t] = m]
  /\ LET w == AdvanceEpoch(Work, t, samples, m) IN
     \E d \in InvalidReductions(w.det[t]) : Committed([w EXCEPT !.det[t] = d])
  /\ UNCHANGED <<now, member, samples, pass, turns>>

Kept(h, x) == {y \in h : y.at >= x.at - History} \cup {x}

ValidSample(t, m) ==
  /\ Acceptable(t, m) /\ det[t].phase # "closed"
  /\ after' = [after EXCEPT ![t] = m]
  /\ \E settled \in BOOLEAN :
       samples' = [samples EXCEPT ![t] = Kept(@, [at |-> m, settled |-> settled])]
  /\ LET w == AdvanceEpoch(Work, t, samples, m) IN
     \E d \in Reductions(w.det[t], m) :
       LET reduced == [w EXCEPT !.det[t] = d] IN
       Committed(IF d.phase = "candidate" /\ d.deadline <= m
                 THEN AdvanceEpoch(reduced, t, samples', m) ELSE reduced)
  /\ UNCHANGED <<now, member, pass, turns>>

-----------------------------------------------------------------------------
(* processDue: nothing else runs between its first and its last step. *)

(* listDueDetectorStates: the rows that may have fallen due, the oldest MaxRows of *)
(* them.  A pour is listed once its quiet period is over, at rest or not; the ids  *)
(* that order rows of one moment are left open.                                    *)
ListedAt(d) ==
  CASE d.phase = "candidate" -> d.deadline
    [] d.phase = "pouring" -> IF d.timeout <= d.flow + Quiet THEN d.timeout ELSE d.flow + Quiet
    [] OTHER -> None
Rows == {t \in Tap : ListedAt(det[t]) # None /\ ListedAt(det[t]) <= pass}

(* Of two moments the earlier goes first; at one moment, a pour. *)
Precedes(t, a, u, b) ==
  a < b \/ (a = b /\ (det[t].phase = "pouring" \/ det[u].phase # "pouring"))
Listings ==
  {L \in SUBSET Rows :
     /\ Cardinality(L) = IF Cardinality(Rows) < MaxRows THEN Cardinality(Rows) ELSE MaxRows
     /\ \A t \in L : \A u \in Rows \ L : Precedes(t, ListedAt(det[t]), u, ListedAt(det[u]))}

Due(t) == DueAt(det[t], samples[t], pass)
DueTaps(L) == {t \in L : Due(t) # None}
Firsts(L) == {t \in DueTaps(L) : \A u \in DueTaps(L) : Precedes(t, Due(t), u, Due(u))}
Processed(t) ==
  IF Awaits(det[t], Due(t)) THEN Arbitrated(Work, samples, Due(t))
  ELSE AdvanceEpoch(Work, t, samples, Due(t))

StartPass ==
  /\ pass = None /\ \E t \in Tap : DueAt(det[t], samples[t], now) # None
  /\ pass' = now
  /\ UNCHANGED <<now, member, det, samples, after, pours, turns>>

ProcessNext ==
  /\ pass # None /\ turns < MaxTurns
  /\ \E L \in Listings : \E t \in Firsts(L) : Committed(Processed(t))
  /\ turns' = turns + 1
  /\ UNCHANGED <<now, member, samples, after, pass>>

(* Nothing that is listed is due, or the turns are used up. *)
EndPass ==
  /\ pass # None
  /\ turns = MaxTurns \/ \E L \in Listings : DueTaps(L) = {}
  /\ pass' = None /\ turns' = 0
  /\ UNCHANGED <<now, member, det, samples, after, pours>>

Tick ==
  /\ pass = None /\ now < MaxTime
  /\ now' = now + 1
  /\ UNCHANGED <<member, det, samples, after, pours, pass, turns>>

Next ==
  \/ \E t \in Tap : OpenEpoch(t) \/ CloseEpoch(t) \/ ReopenEpoch(t)
  \/ \E S \in SUBSET Tap : ReplaceGroupMembers(S)
  \/ \E t \in Tap : \E m \in Measured[t] :
       IgnoredSample(t, m) \/ InvalidSample(t, m) \/ ValidSample(t, m)
  \/ StartPass \/ ProcessNext \/ EndPass \/ Tick

Spec == Init /\ [][Next]_vars

-----------------------------------------------------------------------------
(* In a hardware group only one Tap pours at a time, however samples, the     *)
(* timer, new epochs and changes of the group interleave.                     *)
OnePourPerGroup ==
  \A t, u \in Tap :
    det[t].grouped /\ det[u].grouped /\ det[t].phase = "pouring" /\ det[u].phase = "pouring"
      => t = u

(* A pour's beer is counted once: after a pour was completed at its logical   *)
(* time, no sample measured before the end of its cooldown, however late it   *)
(* arrives, begins another session of the same epoch.  Only an implausible    *)
(* jump, whose warning replaces the cooldown, can end it sooner.              *)
SessionsApart ==
  \A p \in pours :
    det[p.tap].phase \in {"candidate", "pouring"} /\ ~p.jumped => det[p.tap].start >= p.end + Cooldown

(* A recorded pour ends after it began and within the hard timeout of its     *)
(* activation, even when late samples move the time of the last flow back.    *)
PourTimesSound ==
  \A p \in pours : p.start <= p.active /\ p.start <= p.end /\ p.end <= p.active + Timeout

(* Every call of processDue ends: an epoch found due by the clock of the call  *)
(* moves on when it is advanced at its own, earlier, due time, so it is never  *)
(* found due again and again while the others wait.                            *)
PassProgresses ==
  pass # None => \A L \in Listings : \A t \in Firsts(L) : Processed(t).det # det

PoursSound == OnePourPerGroup /\ SessionsApart /\ PourTimesSound /\ PassProgresses

(* processDue gives up after so many turns and sees so many rows at a time.  *)
(* With at most that many open epochs, and two turns for each, it still       *)
(* returns only when no candidate has outlived its arbitration, no pour its   *)
(* hard timeout, and none has come to rest: an epoch takes at most two turns  *)
(* and none is given back, whatever arbitration does to the others.           *)
OpenEpochs == {t \in Tap : det[t].phase # "closed"}
WithinReach == Cardinality(OpenEpochs) <= MaxRows /\ 2 * Cardinality(OpenEpochs) <= MaxTurns
NothingOverdue ==
  [][pass # None /\ pass' = None /\ WithinReach =>
       \A t \in Tap : /\ det[t].phase = "candidate" => det[t].deadline > pass
                      /\ det[t].phase = "pouring" =>
                           det[t].timeout > pass /\ Rests(det[t], samples[t], pass) = {}]_vars

(* architecture.md: "an already-pouring member suppresses a later due          *)
(* candidate".  When a member's pour is completed, no candidate of the group   *)
(* that fell due before its end is still waiting to be decided.                *)
SuppressedByPour ==
  [][\A p \in pours' \ pours : \A t \in Tap \ {p.tap} :
       det[p.tap].start = p.start
         /\ det[p.tap].grouped /\ det[t].grouped /\ det[t].phase = "candidate"
         /\ p.active <= det[t].deadline /\ det[t].deadline < p.end
       => det'[t].phase # "candidate"]_vars
=============================================================================
