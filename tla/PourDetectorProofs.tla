-------------------------- MODULE PourDetectorProofs --------------------------
(***************************************************************************)
(* Theorems about PourDetector, for every set of Taps, every group, every  *)
(* duration and every bound on the clock: in a group one Tap pours, a      *)
(* pour's cooldown is respected by whatever samples follow, the times of a *)
(* recorded pour are in order, and a call of processDue leaves nothing     *)
(* overdue as long as its turns and its rows are enough for the epochs     *)
(* that are open.                                                          *)
(*                                                                         *)
(* The invariant ties the times of an epoch's state to each other and to   *)
(* its newest sample, and says of each pour that its cooldown is kept by   *)
(* the phase the epoch is in now.  It is stated of a working copy, because *)
(* one transaction advances, arbitrates and reduces in turn; each of those *)
(* steps has a lemma that it keeps the copy sound.  Only an epoch that is  *)
(* not waiting for its arbitration may be advanced alone (Alone): that is  *)
(* why one Tap of a group pours at a time.                                 *)
(***************************************************************************)
EXTENDS PourDetector, FiniteSetTheorems, WellFoundedInduction, TLAPS

Newest == MaxTime + Skew
Mark == {None} \cup 0 .. Newest

(* What holds of the state of an epoch whose newest sample was measured at a. *)
Consistent(d, a) ==
  /\ d \in Detector /\ RowLegal(d)
  /\ d.phase = "candidate" =>
       /\ 0 <= d.start /\ d.start <= a /\ d.deadline = d.start + Arbitration
  /\ d.phase = "pouring" =>
       /\ 0 <= d.start /\ d.start <= a /\ d.start <= d.flow
       /\ d.start <= d.timeout - Timeout
       /\ d.timeout <= Newest + Arbitration + Timeout

PourSound(p) == p.start <= p.active /\ p.start <= p.end /\ p.end <= p.active + Timeout

(* The cooldown of pour p is being kept, or was. *)
Apart(d, a, p) ==
  /\ d.phase \in {"ready", "candidate", "pouring", "cooldown"}
  /\ d.phase = "ready" => a >= p.end + Cooldown
  /\ d.phase \in {"candidate", "pouring"} => d.start >= p.end + Cooldown
  /\ d.phase = "cooldown" => d.until >= p.end + Cooldown

-----------------------------------------------------------------------------
(* Least: the natural numbers are well founded. *)

LEMMA LeastIsFirst ==
  ASSUME NEW S \in SUBSET Nat, S # {}
  PROVE  Least(S) \in S /\ \A y \in S : Least(S) <= y
<1> DEFINE R == OpToRel(<, Nat)
<1>1. IsWellFoundedOn(R, Nat)  BY NatLessThanWellFounded
<1>2. PICK x \in S : \A y \in S : ~(<<y, x>> \in R)
  <2> HIDE DEF R
  <2> QED BY <1>1, WFMin
<1>3. \A y \in S : x <= y
  <2> TAKE y \in S
  <2>1. ~(<<y, x>> \in R)  BY <1>2
  <2>2. <<y, x>> \in Nat \X Nat /\ <<y, x>>[1] = y /\ <<y, x>>[2] = x  OBVIOUS
  <2> QED BY <2>1, <2>2 DEF OpToRel
<1> QED BY <1>3 DEF Least

-----------------------------------------------------------------------------
(* The state of one epoch. *)

LEMMA Constants ==
  /\ Arbitration \in Nat /\ Quiet \in Nat /\ Timeout \in Nat /\ Cooldown \in Nat
  /\ MaxTime \in Nat /\ Skew \in Nat /\ Newest \in Nat /\ Horizon \in Nat
  /\ Newest + Arbitration + Timeout + Cooldown <= Horizon
  /\ Loss \subseteq Int /\ CandidateLoss \in Int
  /\ ArbitrationMinimum \in Int /\ ArbitrationMinimum > 0
  /\ MaxTurns \in Nat /\ MaxRows \in Nat /\ IsFiniteSet(Tap)
BY DetectorAssumption DEF Newest, Horizon

LEMMA ActivatedKeeps ==
  ASSUME NEW d, NEW a \in Mark, Consistent(d, a), d.phase = "candidate",
         NEW at \in Int, d.start <= at, at <= Newest + Arbitration
  PROVE  LET x == Activated(d, at) IN
         /\ Consistent(x, a) /\ x.phase = "pouring"
         /\ x.start = d.start /\ x.grouped = d.grouped
<1> DEFINE x == Activated(d, at)
<1>1. /\ d \in Detector /\ RowLegal(d) /\ 0 <= d.start /\ d.start <= a
      /\ d.start \in Int
  BY DEF Consistent, Detector, Moment, None
<1>2. at \in Moment /\ at + Timeout \in Moment /\ at + Timeout # None
  BY <1>1, Constants DEF Moment, None
<1>3. x \in Detector  BY <1>1, <1>2 DEF Activated, Detector, Phase, Moment, None
<1>4. /\ x.phase = "pouring" /\ x.start = d.start /\ x.grouped = d.grouped
      /\ x.flow = at /\ x.timeout = at + Timeout /\ x.until = d.until
  BY <1>1 DEF Activated, Detector
<1>5. RowLegal(x)  BY <1>1, <1>2, <1>4 DEF RowLegal
<1> HIDE DEF x
<1>6. Consistent(x, a)  BY <1>1, <1>3, <1>4, <1>5, Constants DEF Consistent
<1> QED BY <1>4, <1>6 DEF x

LEMMA CooledKeeps ==
  ASSUME NEW d, NEW a \in Mark, Consistent(d, a),
         NEW at \in Int, 0 <= at, at <= Newest + Arbitration + Timeout
  PROVE  LET x == Cooled(d, at) IN
         /\ Consistent(x, a) /\ x.phase = "cooldown"
         /\ x.until = at + Cooldown /\ x.grouped = d.grouped
<1> DEFINE x == Cooled(d, at)
<1>1. d \in Detector  BY DEF Consistent
<1>2. at + Cooldown \in Moment /\ at + Cooldown # None  BY Constants DEF Moment, None
<1>3. x \in Detector
  BY <1>1, <1>2 DEF Cooled, Cleared, Detector, Phase, Moment, None
<1>4. /\ x.phase = "cooldown" /\ x.start = None /\ x.timeout = None
      /\ x.until = at + Cooldown /\ x.grouped = d.grouped
  BY <1>1 DEF Cooled, Cleared, Detector
<1>5. Consistent(x, a)  BY <1>2, <1>3, <1>4 DEF Consistent, RowLegal
<1> QED BY <1>4, <1>5

LEMMA RestsFall ==
  ASSUME NEW d, NEW a \in Mark, Consistent(d, a), d.phase = "pouring",
         NEW h \in SUBSET Sample, NEW clock \in Int, Rests(d, h, clock) # {}
  PROVE  /\ Least(Rests(d, h, clock)) \in Rests(d, h, clock)
         /\ Least(Rests(d, h, clock)) \in Int
         /\ d.start <= Least(Rests(d, h, clock)) /\ Least(Rests(d, h, clock)) <= d.timeout
<1>1. \A c \in Rests(d, h, clock) : c \in Nat /\ d.start <= c /\ c <= d.timeout
  <2> TAKE c \in Rests(d, h, clock)
  <2>1. /\ c \in {d.flow + Quiet} \cup {x.at : x \in h}
        /\ d.flow + Quiet <= c /\ c <= d.timeout
    BY DEF Rests, Checkpoints
  <2>2. d.flow \in Int /\ d.start \in Int /\ 0 <= d.start /\ d.start <= d.flow
    BY Constants DEF Consistent, Detector, Moment, None
  <2>3. c \in Int  BY <2>1, <2>2, Constants DEF Sample, Newest
  <2> QED BY <2>1, <2>2, <2>3, Constants
<1>2. Rests(d, h, clock) \in SUBSET Nat  BY <1>1
<1> HIDE DEF Rests
<1> QED BY <1>1, <1>2, LeastIsFirst

LEMMA DueAtFalls ==
  ASSUME NEW d, NEW a \in Mark, Consistent(d, a),
         NEW h \in SUBSET Sample, NEW clock \in Int
  PROVE  LET at == DueAt(d, h, clock) IN
         \/ at = None
         \/ /\ d.phase = "candidate" /\ at = d.deadline /\ d.deadline <= clock
            /\ at \in Int /\ d.start <= at /\ at <= Newest + Arbitration
         \/ /\ d.phase = "pouring"
            /\ at \in Int /\ d.start <= at /\ at <= d.timeout
<1>1. CASE d.phase = "candidate"
  BY <1>1, Constants DEF DueAt, Consistent, Detector, Moment, None, Mark
<1>2. CASE d.phase = "pouring" /\ Rests(d, h, clock) # {}
  <2>1. DueAt(d, h, clock) = Least(Rests(d, h, clock))  BY <1>2 DEF DueAt
  <2> QED BY <1>2, <2>1, RestsFall
<1>3. CASE d.phase = "pouring" /\ Rests(d, h, clock) = {}
  BY <1>3, Constants DEF DueAt, Consistent, Detector, Moment, None
<1>4. CASE d.phase \notin {"candidate", "pouring"}  BY <1>4 DEF DueAt
<1> QED BY <1>1, <1>2, <1>3, <1>4

(* What advancing an epoch to a clock makes of its state. *)
LEMMA AdvancedKeeps ==
  ASSUME NEW d, NEW a \in Mark, Consistent(d, a),
         NEW h \in SUBSET Sample, NEW clock \in Int
  PROVE  LET x == Advanced(d, h, clock) IN
         /\ Consistent(x, a) /\ x.grouped = d.grouped
         /\ x.phase \in {d.phase, "pouring", "cooldown"}
         /\ x.phase = "pouring" =>
              d.phase = "pouring" \/ (d.phase = "candidate" /\ d.deadline <= clock)
         /\ \A p \in Pour : Apart(d, a, p) => Apart(x, a, p)
<1> DEFINE at == DueAt(d, h, clock)  x == Advanced(d, h, clock)
<1>1. CASE at = None
  <2>1. x = d  BY <1>1 DEF Advanced
  <2> QED BY <2>1
<1>2. CASE at # None /\ d.phase = "candidate"
  <2>1. x = Activated(d, at)  BY <1>2 DEF Advanced
  <2>2. /\ d.deadline <= clock
        /\ at \in Int /\ d.start <= at /\ at <= Newest + Arbitration
    BY <1>2, DueAtFalls
  <2> HIDE DEF at
  <2>3. /\ Consistent(x, a) /\ x.phase = "pouring"
        /\ x.start = d.start /\ x.grouped = d.grouped
    BY <1>2, <2>1, <2>2, ActivatedKeeps
  <2> QED BY <1>2, <2>2, <2>3 DEF Apart
<1>3. CASE at # None /\ d.phase # "candidate"
  <2>1. x = Cooled(d, at)  BY <1>3 DEF Advanced
  <2>2. /\ d.phase = "pouring"
        /\ at \in Int /\ d.start <= at /\ at <= d.timeout
    BY <1>3, DueAtFalls
  <2>3. /\ d.start \in Int /\ 0 <= at /\ at <= Newest + Arbitration + Timeout
    BY <2>2, Constants DEF Consistent, Detector, Moment, None
  <2> HIDE DEF at
  <2>4. /\ Consistent(x, a) /\ x.phase = "cooldown"
        /\ x.until = at + Cooldown /\ x.grouped = d.grouped
    BY <2>1, <2>2, <2>3, CooledKeeps
  <2>5. \A p \in Pour : Apart(d, a, p) => Apart(x, a, p)
    BY <2>2, <2>3, <2>4, Constants DEF Apart, Pour, Moment, None
  <2> QED BY <2>2, <2>4, <2>5
<1> QED BY <1>1, <1>2, <1>3

(* A turn can only bring an epoch nearer to the end of its session. *)
Falls(d, x) ==
  \/ x.phase = d.phase
  \/ d.phase = "candidate" /\ x.phase \in {"pouring", "cooldown"}
  \/ d.phase = "pouring" /\ x.phase = "cooldown"

LEMMA AdvancedFalls ==
  ASSUME NEW d \in Detector, NEW h, NEW clock
  PROVE  Falls(d, Advanced(d, h, clock))
<1> DEFINE at == DueAt(d, h, clock)
<1>1. at # None => d.phase \in {"candidate", "pouring"}  BY DEF DueAt
<1> HIDE DEF at
<1>2. CASE at = None  BY <1>2 DEF Advanced, Falls, at
<1>3. CASE at # None /\ d.phase = "candidate"
  <2>1. Advanced(d, h, clock) = Activated(d, at)  BY <1>3 DEF Advanced, at
  <2>2. Activated(d, at).phase = "pouring"  BY DEF Activated, Detector
  <2> QED BY <1>3, <2>1, <2>2 DEF Falls
<1>4. CASE at # None /\ d.phase = "pouring"
  <2>1. Advanced(d, h, clock) = Cooled(d, at)  BY <1>4 DEF Advanced, at
  <2>2. Cooled(d, at).phase = "cooldown"  BY DEF Cooled, Cleared, Detector
  <2> QED BY <1>4, <2>1, <2>2 DEF Falls
<1> QED BY <1>1, <1>2, <1>3, <1>4

LEMMA CompletedSound ==
  ASSUME NEW t \in Tap, NEW d, NEW a \in Mark, Consistent(d, a),
         NEW h \in SUBSET Sample, NEW clock \in Int,
         NEW p \in Completed(t, d, h, clock)
  PROVE  /\ p \in Pour /\ p.tap = t /\ PourSound(p)
         /\ Apart(Advanced(d, h, clock), a, p)
<1> DEFINE at == DueAt(d, h, clock)
<1>1. /\ d.phase = "pouring" /\ Rests(d, h, clock) # {}
      /\ p = [tap |-> t, start |-> d.start, active |-> d.timeout - Timeout,
              end |-> at, jumped |-> FALSE]
  BY DEF Completed
<1>2. at = Least(Rests(d, h, clock))  BY <1>1 DEF DueAt
<1>3. at \in Int /\ d.start <= at /\ at <= d.timeout  BY <1>1, <1>2, RestsFall
<1> HIDE DEF at
<1>4. /\ d.start \in Moment /\ d.timeout \in Moment /\ 0 <= d.start
      /\ d.start <= d.timeout - Timeout /\ d.timeout <= Newest + Arbitration + Timeout
  BY <1>1 DEF Consistent, Detector
<1>5. d.timeout - Timeout \in Moment /\ at \in Moment /\ 0 <= at /\ at # None
  BY <1>3, <1>4, Constants DEF Moment, None
<1>6. p \in Pour /\ p.tap = t /\ PourSound(p) /\ p.end = at
  BY <1>1, <1>3, <1>4, <1>5, Constants DEF Pour, PourSound, Moment, None
<1>7. Advanced(d, h, clock) = Cooled(d, at)  BY <1>1, <1>5 DEF Advanced, at
<1>8. /\ Cooled(d, at).phase = "cooldown" /\ Cooled(d, at).until = at + Cooldown
  BY <1>3, <1>4, <1>5, CooledKeeps, Constants DEF Moment, None
<1> QED BY <1>3, <1>6, <1>7, <1>8, Constants DEF Apart

-----------------------------------------------------------------------------
(* The working copy. *)

WorkSet == [det : [Tap -> Detector], pours : SUBSET Pour]
Histories == [Tap -> SUBSET Sample]

OneIn(f) ==
  \A t, u \in Tap :
    f[t].grouped /\ f[u].grouped /\ f[t].phase = "pouring" /\ f[u].phase = "pouring"
      => t = u

Sound(w, marks) ==
  /\ w \in WorkSet
  /\ \A t \in Tap : Consistent(w.det[t], marks[t])
  /\ \A p \in w.pours :
       PourSound(p) /\ (p.jumped \/ Apart(w.det[p.tap], marks[p.tap], p))
  /\ OneIn(w.det)

(* Nobody in S is a candidate that only arbitration may activate. *)
Alone(w, S, clock) == \A t \in S : ~Awaits(w.det[t], clock)

LEMMA AdvanceOnceKeeps ==
  ASSUME NEW w, NEW marks \in [Tap -> Mark], Sound(w, marks),
         NEW S \in SUBSET Tap, NEW h \in Histories, NEW clock \in Int,
         Alone(w, S, clock)
  PROVE  LET x == AdvanceOnce(w, S, h, clock) IN
         /\ Sound(x, marks) /\ Alone(x, S, clock)
         /\ \A t \in Tap :
              /\ x.det[t].grouped = w.det[t].grouped
              /\ x.det[t].phase \in {w.det[t].phase, "pouring", "cooldown"}
              /\ t \notin S => x.det[t] = w.det[t]
              /\ x.det[t].grouped /\ x.det[t].phase = "pouring"
                   => w.det[t].phase = "pouring"
<1> DEFINE x == AdvanceOnce(w, S, h, clock)
           done == UNION {Completed(t, w.det[t], h[t], clock) : t \in S}
<1>1. /\ w \in WorkSet /\ OneIn(w.det)
      /\ \A t \in Tap : /\ Consistent(w.det[t], marks[t])
                        /\ marks[t] \in Mark /\ h[t] \in SUBSET Sample
  BY DEF Sound, Histories
<1>2. /\ x.det = [t \in Tap |-> IF t \in S THEN Advanced(w.det[t], h[t], clock)
                                ELSE w.det[t]]
      /\ x.pours = w.pours \cup done
      /\ x = [det |-> x.det, pours |-> x.pours]
  BY DEF AdvanceOnce
<1> HIDE DEF x
<1>3. \A t \in Tap :
        /\ Consistent(x.det[t], marks[t])
        /\ x.det[t].grouped = w.det[t].grouped
        /\ x.det[t].phase \in {w.det[t].phase, "pouring", "cooldown"}
        /\ t \notin S => x.det[t] = w.det[t]
        /\ x.det[t].phase = "pouring" =>
             w.det[t].phase = "pouring"
               \/ (t \in S /\ w.det[t].phase = "candidate" /\ w.det[t].deadline <= clock)
        /\ \A p \in Pour : Apart(w.det[t], marks[t], p) => Apart(x.det[t], marks[t], p)
  <2> TAKE t \in Tap
  <2>1. CASE t \in S
    <3>1. x.det[t] = Advanced(w.det[t], h[t], clock)  BY <1>2, <2>1
    <3>2. Consistent(w.det[t], marks[t]) /\ marks[t] \in Mark /\ h[t] \in SUBSET Sample
      BY <1>1
    <3>3. /\ Consistent(x.det[t], marks[t]) /\ x.det[t].grouped = w.det[t].grouped
          /\ x.det[t].phase \in {w.det[t].phase, "pouring", "cooldown"}
          /\ x.det[t].phase = "pouring" =>
               w.det[t].phase = "pouring"
                 \/ (w.det[t].phase = "candidate" /\ w.det[t].deadline <= clock)
      BY <3>1, <3>2, AdvancedKeeps
    <3>4. \A p \in Pour : Apart(w.det[t], marks[t], p) => Apart(x.det[t], marks[t], p)
      BY <3>1, <3>2, AdvancedKeeps
    <3> QED BY <2>1, <3>3, <3>4
  <2>2. CASE t \notin S
    <3>1. x.det[t] = w.det[t]  BY <1>2, <2>2
    <3> QED BY <1>1, <2>2, <3>1
  <2> QED BY <2>1, <2>2
<1>4. \A t \in Tap :
        x.det[t].grouped /\ x.det[t].phase = "pouring" => w.det[t].phase = "pouring"
  BY <1>3 DEF Alone, Awaits
<1>5. Alone(x, S, clock)
  <2> SUFFICES ASSUME NEW t \in S PROVE ~Awaits(x.det[t], clock)  BY DEF Alone
  <2>1. CASE x.det[t].phase = "candidate"
    <3>1. DueAt(w.det[t], h[t], clock) = None
      <4>1. x.det[t] = Advanced(w.det[t], h[t], clock)  BY <1>2
      <4>2. w.det[t].phase = "candidate"  BY <1>3, <2>1
      <4>3. SUFFICES ASSUME DueAt(w.det[t], h[t], clock) # None PROVE FALSE  OBVIOUS
      <4>4. x.det[t] = Activated(w.det[t], DueAt(w.det[t], h[t], clock))
        BY <4>1, <4>2, <4>3 DEF Advanced
      <4>5. w.det[t] \in Detector  BY <1>1 DEF Consistent
      <4>6. x.det[t].phase = "pouring"  BY <4>4, <4>5 DEF Activated, Detector
      <4> QED BY <2>1, <4>6
    <3>2. x.det[t] = w.det[t]  BY <1>2, <3>1 DEF Advanced
    <3> QED BY <3>2 DEF Alone
  <2>2. CASE x.det[t].phase # "candidate"  BY <2>2 DEF Awaits
  <2> QED BY <2>1, <2>2
<1>6. OneIn(x.det)  BY <1>1, <1>3, <1>4 DEF OneIn
<1>7. \A p \in done : /\ p \in Pour /\ PourSound(p)
                      /\ Apart(x.det[p.tap], marks[p.tap], p)
  <2> TAKE p \in done
  <2>1. PICK t \in S : p \in Completed(t, w.det[t], h[t], clock)  OBVIOUS
  <2>2. x.det[t] = Advanced(w.det[t], h[t], clock)  BY <1>2, <2>1
  <2>3. /\ p \in Pour /\ p.tap = t /\ PourSound(p)
        /\ Apart(Advanced(w.det[t], h[t], clock), marks[t], p)
    <3> HIDE DEF done
    <3> QED BY <1>1, <2>1, CompletedSound
  <2> QED BY <2>2, <2>3
<1> HIDE DEF done
<1>8. x \in WorkSet
  <2>1. x.det \in [Tap -> Detector]  BY <1>2, <1>3 DEF Consistent
  <2>2. x.pours \subseteq Pour  BY <1>1, <1>2, <1>7 DEF WorkSet
  <2> QED BY <1>2, <2>1, <2>2 DEF WorkSet
<1>9. \A p \in x.pours :
        PourSound(p) /\ (p.jumped \/ Apart(x.det[p.tap], marks[p.tap], p))
  <2> TAKE p \in x.pours
  <2>1. CASE p \in done  BY <1>7, <2>1
  <2>2. CASE p \in w.pours
    <3>1. p \in Pour /\ p.tap \in Tap  BY <1>1, <2>2 DEF WorkSet, Pour
    <3>2. PourSound(p) /\ (p.jumped \/ Apart(w.det[p.tap], marks[p.tap], p))
      BY <2>2 DEF Sound
    <3> QED BY <1>3, <3>1, <3>2
  <2> QED BY <1>2, <2>1, <2>2
<1> QED BY <1>3, <1>4, <1>5, <1>6, <1>8, <1>9 DEF Sound, x

LEMMA AdvanceKeeps ==
  ASSUME NEW w, NEW marks \in [Tap -> Mark], Sound(w, marks),
         NEW S \in SUBSET Tap, NEW h \in Histories, NEW clock \in Int,
         Alone(w, S, clock)
  PROVE  /\ Sound(Advance(w, S, h, clock), marks)
         /\ \A t \in Tap : w.det[t].phase # "candidate"
                           => Advance(w, S, h, clock).det[t].phase # "candidate"
<1> DEFINE x == AdvanceOnce(w, S, h, clock)
           y == AdvanceOnce(x, S, h, clock)
<1>1. /\ Sound(x, marks) /\ Alone(x, S, clock)
      /\ \A t \in Tap : x.det[t].phase \in {w.det[t].phase, "pouring", "cooldown"}
  BY AdvanceOnceKeeps
<1> HIDE DEF x
<1>2. /\ Sound(y, marks)
      /\ \A t \in Tap : y.det[t].phase \in {x.det[t].phase, "pouring", "cooldown"}
  BY <1>1, AdvanceOnceKeeps
<1>3. Advance(w, S, h, clock) = y  BY DEF Advance, x
<1> HIDE DEF y
<1> QED BY <1>1, <1>2, <1>3

LEMMA OnceFalls ==
  ASSUME NEW w \in WorkSet, NEW S, NEW h, NEW clock, NEW t \in Tap
  PROVE  Falls(w.det[t], AdvanceOnce(w, S, h, clock).det[t])
<1>1. w.det[t] \in Detector  BY DEF WorkSet
<1>2. AdvanceOnce(w, S, h, clock).det[t] =
        IF t \in S THEN Advanced(w.det[t], h[t], clock) ELSE w.det[t]
  BY DEF AdvanceOnce
<1>3. Falls(w.det[t], Advanced(w.det[t], h[t], clock))  BY <1>1, AdvancedFalls
<1> QED BY <1>2, <1>3 DEF Falls

LEMMA AdvanceFalls ==
  ASSUME NEW w, NEW marks \in [Tap -> Mark], Sound(w, marks),
         NEW S \in SUBSET Tap, NEW h \in Histories, NEW clock \in Int,
         Alone(w, S, clock), NEW t \in Tap
  PROVE  Falls(w.det[t], Advance(w, S, h, clock).det[t])
<1> DEFINE x == AdvanceOnce(w, S, h, clock)
           y == AdvanceOnce(x, S, h, clock)
<1>1. x \in WorkSet /\ w \in WorkSet  BY AdvanceOnceKeeps DEF Sound
<1>2. Falls(w.det[t], x.det[t])  BY <1>1, OnceFalls
<1> HIDE DEF x
<1>3. Falls(x.det[t], y.det[t])  BY <1>1, OnceFalls
<1>4. Advance(w, S, h, clock) = y  BY DEF Advance, x
<1> HIDE DEF y
<1> QED BY <1>2, <1>3, <1>4 DEF Falls

(* Two winners would each be the other's runner-up. *)
LEMMA OneWinner ==
  ASSUME NEW w \in WorkSet, NEW S \in SUBSET Tap,
         NEW t \in S, NEW u \in S, Dominates(w, S, t), Dominates(w, S, u)
  PROVE  t = u
<1> SUFFICES ASSUME t # u PROVE FALSE  OBVIOUS
<1>1. \A v \in Tap : w.det[v].loss \in Int
  <2> TAKE v \in Tap
  <2>1. w.det[v] \in Detector  BY DEF WorkSet
  <2>2. w.det[v].loss \in Loss \cup {0}  BY <2>1 DEF Detector
  <2>3. Loss \cup {0} \subseteq Int  BY Constants
  <2> QED BY <2>2, <2>3
<1>2. w.det[t].loss = w.det[u].loss
  <2>1. w.det[u].loss <= w.det[t].loss /\ w.det[t].loss <= w.det[u].loss
    BY Zenon DEF Dominates
  <2>2. w.det[t].loss \in Int /\ w.det[u].loss \in Int  BY <1>1
  <2> QED BY <2>1, <2>2
<1>3. u \in RunnersUp(w, S, t)
  BY <1>2 DEF RunnersUp, Dominates
<1>4. w.det[t].loss - w.det[u].loss >= ArbitrationMinimum  BY <1>3 DEF Dominates
<1> QED BY <1>1, <1>2, <1>4, Constants

LEMMA DecidedKeeps ==
  ASSUME NEW w, NEW marks \in [Tap -> Mark], Sound(w, marks),
         NEW at \in Int, 0 <= at, at <= Newest + Arbitration
  PROVE  LET x == Decided(w, Eligible(w, at), at) IN
         /\ Sound(x, marks)
         /\ \A t \in Winners(w, Eligible(w, at)) : x.det[t].phase = "pouring"
         /\ \A t \in Eligible(w, at) : x.det[t].phase # "candidate"
<1> DEFINE S == Eligible(w, at)
           won == Winners(w, S)
           x == Decided(w, S, at)
<1>1. /\ w \in WorkSet /\ OneIn(w.det)
      /\ \A t \in Tap : Consistent(w.det[t], marks[t]) /\ marks[t] \in Mark
  BY DEF Sound
<1>2. \A t \in S : t \in Tap /\ w.det[t].phase = "candidate" /\ w.det[t].start <= at
  BY DEF Eligible, Rivals
<1>3. /\ won \subseteq S
      /\ won # {} => Rivals(w, "pouring") = {}
      /\ \A t \in won : Dominates(w, S, t)
  BY DEF Winners
<1>4. /\ x.det = [t \in Tap |-> IF t \notin S THEN w.det[t]
                                ELSE IF t \in won THEN Activated(w.det[t], at)
                                ELSE Cooled(w.det[t], at)]
      /\ x.pours = w.pours
      /\ x = [det |-> x.det, pours |-> x.pours]
  <2> DEFINE f == [t \in Tap |-> IF t \notin S THEN w.det[t]
                                ELSE IF t \in won THEN Activated(w.det[t], at)
                                ELSE Cooled(w.det[t], at)]
  <2>1. x = [w EXCEPT !.det = f]  BY DEF Decided
  <2> HIDE DEF f
  <2>2. x.det = f /\ x.pours = w.pours /\ x = [det |-> x.det, pours |-> x.pours]
    <3> HIDE DEF x
    <3> QED BY <1>1, <2>1 DEF WorkSet
  <2> QED BY <2>2 DEF f
<1> HIDE DEF x, S, won
<1>5. \A t \in Tap :
        /\ Consistent(x.det[t], marks[t]) /\ x.det[t].grouped = w.det[t].grouped
        /\ t \in won => x.det[t].phase = "pouring"
        /\ t \in S => x.det[t].phase # "candidate"
        /\ x.det[t].phase = "pouring" => t \in won \/ x.det[t] = w.det[t]
        /\ \A p \in Pour : Apart(w.det[t], marks[t], p) => Apart(x.det[t], marks[t], p)
  <2> TAKE t \in Tap
  <2>1. Consistent(w.det[t], marks[t]) /\ marks[t] \in Mark  BY <1>1
  <2>2. CASE t \notin S
    <3>1. x.det[t] = w.det[t]  BY <1>4, <2>2
    <3> QED BY <1>3, <2>1, <2>2, <3>1
  <2>3. CASE t \in won
    <3>1. x.det[t] = Activated(w.det[t], at)  BY <1>3, <1>4, <2>3
    <3>2. w.det[t].phase = "candidate" /\ w.det[t].start <= at  BY <1>2, <1>3, <2>3
    <3>3. /\ Consistent(x.det[t], marks[t]) /\ x.det[t].phase = "pouring"
          /\ x.det[t].start = w.det[t].start /\ x.det[t].grouped = w.det[t].grouped
      BY <2>1, <3>1, <3>2, ActivatedKeeps
    <3> QED BY <2>3, <3>2, <3>3 DEF Apart
  <2>4. CASE t \in S \ won
    <3>1. x.det[t] = Cooled(w.det[t], at)  BY <1>4, <2>4
    <3>2. w.det[t].phase = "candidate" /\ w.det[t].start <= at  BY <1>2, <2>4
    <3>3. at <= Newest + Arbitration + Timeout  BY Constants
    <3>4. /\ Consistent(x.det[t], marks[t]) /\ x.det[t].phase = "cooldown"
          /\ x.det[t].until = at + Cooldown /\ x.det[t].grouped = w.det[t].grouped
      BY <2>1, <3>1, <3>3, CooledKeeps
    <3>5. w.det[t].start \in Int  BY <2>1 DEF Consistent, Detector, Moment, None
    <3>6. \A p \in Pour : Apart(w.det[t], marks[t], p) => Apart(x.det[t], marks[t], p)
      BY <3>2, <3>4, <3>5, Constants DEF Apart, Pour, Moment, None
    <3> QED BY <2>4, <3>4, <3>6
  <2> QED BY <2>2, <2>3, <2>4
<1>6. OneIn(x.det)
  <2> SUFFICES ASSUME NEW t \in Tap, NEW u \in Tap,
                      x.det[t].grouped, x.det[u].grouped,
                      x.det[t].phase = "pouring", x.det[u].phase = "pouring"
               PROVE  t = u
    BY DEF OneIn
  <2>1. CASE t \in won /\ u \in won
    <3>1. S \subseteq Tap  BY <1>2
    <3> QED BY <1>1, <1>3, <2>1, <3>1, OneWinner
  <2>2. CASE t \notin won /\ u \notin won  BY <1>1, <1>5, <2>2 DEF OneIn
  <2>3. CASE t \in won /\ u \notin won
    <3>1. u \in Rivals(w, "pouring")  BY <1>5, <2>3 DEF Rivals
    <3> QED BY <1>3, <2>3, <3>1
  <2>4. CASE t \notin won /\ u \in won
    <3>1. t \in Rivals(w, "pouring")  BY <1>5, <2>4 DEF Rivals
    <3> QED BY <1>3, <2>4, <3>1
  <2> QED BY <2>1, <2>2, <2>3, <2>4
<1>7. x \in WorkSet
  <2>1. x.det \in [Tap -> Detector]  BY <1>4, <1>5 DEF Consistent
  <2>2. x.pours \subseteq Pour  BY <1>1, <1>4 DEF WorkSet
  <2> QED BY <1>4, <2>1, <2>2 DEF WorkSet
<1>8. \A p \in x.pours :
        PourSound(p) /\ (p.jumped \/ Apart(x.det[p.tap], marks[p.tap], p))
  <2> TAKE p \in x.pours
  <2>1. p \in w.pours /\ p \in Pour /\ p.tap \in Tap  BY <1>1, <1>4 DEF WorkSet, Pour
  <2>2. PourSound(p) /\ (p.jumped \/ Apart(w.det[p.tap], marks[p.tap], p))
    BY <2>1 DEF Sound
  <2> QED BY <1>5, <2>1, <2>2
<1>9. /\ \A t \in won : x.det[t].phase = "pouring"
      /\ \A t \in S : x.det[t].phase # "candidate"
  BY <1>2, <1>3, <1>5
<1> QED BY <1>5, <1>6, <1>7, <1>8, <1>9 DEF Sound, x, S, won

LEMMA DecidedFalls ==
  ASSUME NEW w \in WorkSet, NEW at, NEW t \in Tap
  PROVE  Falls(w.det[t], Decided(w, Eligible(w, at), at).det[t])
<1> DEFINE S == Eligible(w, at)
           f == [u \in Tap |-> IF u \notin S THEN w.det[u]
                               ELSE IF u \in Winners(w, S) THEN Activated(w.det[u], at)
                               ELSE Cooled(w.det[u], at)]
<1>1. w.det[t] \in Detector  BY DEF WorkSet
<1>2. t \in S => w.det[t].phase = "candidate"  BY DEF Eligible, Rivals
<1>3. Decided(w, S, at).det = f
  <2>1. Decided(w, S, at) = [w EXCEPT !.det = f]  BY DEF Decided
  <2> HIDE DEF f
  <2> QED BY <2>1 DEF WorkSet
<1> HIDE DEF S
<1>4. /\ Activated(w.det[t], at).phase = "pouring"
      /\ Cooled(w.det[t], at).phase = "cooldown"
  BY <1>1 DEF Activated, Cooled, Cleared, Detector
<1>5. f[t] \in {w.det[t]} \/ (t \in S /\ f[t] \in {Activated(w.det[t], at), Cooled(w.det[t], at)})
  OBVIOUS
<1> HIDE DEF f
<1>6. Falls(w.det[t], f[t])  BY <1>2, <1>4, <1>5 DEF Falls
<1> QED BY <1>3, <1>6 DEF S

LEMMA ArbitratedKeeps ==
  ASSUME NEW w, NEW marks \in [Tap -> Mark], Sound(w, marks),
         NEW h \in Histories, NEW clock \in Int, NEW t \in Tap, Awaits(w.det[t], clock)
  PROVE  /\ Sound(Arbitrated(w, h, clock), marks)
         /\ \A u \in Tap :
              Awaits(w.det[u], clock) /\ w.det[u].start <= DecisionAt(w, clock)
                => Arbitrated(w, h, clock).det[u].phase # "candidate"
         /\ \A u \in Tap : Falls(w.det[u], Arbitrated(w, h, clock).det[u])
<1> DEFINE at == DecisionAt(w, clock)
           rested == AdvanceOnce(w, Rivals(w, "pouring"), h, at)
           S == Eligible(rested, at)
           decided == Decided(rested, S, at)
<1>1. at \in Int /\ 0 <= at /\ at <= Newest + Arbitration
  <2> DEFINE due == {w.det[u].deadline : u \in Overdue(w, clock)}
  <2>1. \A u \in Overdue(w, clock) :
          /\ w.det[u].deadline \in Nat /\ w.det[u].deadline <= Newest + Arbitration
    <3> TAKE u \in Overdue(w, clock)
    <3>1. u \in Tap /\ w.det[u].phase = "candidate"  BY DEF Overdue, Rivals
    <3>2. Consistent(w.det[u], marks[u]) /\ marks[u] \in Mark  BY <3>1 DEF Sound
    <3>3. w.det[u].start \in Int  BY <3>2 DEF Consistent, Detector, Moment, None
    <3> QED BY <3>1, <3>2, <3>3, Constants DEF Consistent, Mark, None
  <2>2. t \in Overdue(w, clock)  BY DEF Awaits, Overdue, Rivals
  <2>3. due \in SUBSET Nat /\ due # {}  BY <2>1, <2>2
  <2>4. Least(due) \in due
    <3> HIDE DEF due
    <3> QED BY <2>3, LeastIsFirst
  <2> QED BY <2>1, <2>4 DEF DecisionAt
<1>2. /\ Sound(rested, marks)
      /\ \A u \in Tap \ Rivals(w, "pouring") : rested.det[u] = w.det[u]
  <2>1. Rivals(w, "pouring") \in SUBSET Tap /\ Alone(w, Rivals(w, "pouring"), at)
    BY DEF Rivals, Alone, Awaits
  <2> HIDE DEF at
  <2> QED BY <1>1, <2>1, AdvanceOnceKeeps
<1>3. \A u \in Tap :
        Awaits(w.det[u], clock) /\ w.det[u].start <= at => u \in S
  <2> HIDE DEF rested, at
  <2> QED BY <1>2 DEF Awaits, Rivals, Eligible
<1>4. \A u \in Tap : Falls(w.det[u], rested.det[u])  BY OnceFalls DEF Sound
<1> HIDE DEF rested, at
<1>5. \A u \in Tap : Falls(rested.det[u], decided.det[u])  BY <1>2, DecidedFalls DEF Sound
<1>6. /\ Sound(decided, marks)
      /\ \A u \in Winners(rested, S) : decided.det[u].phase = "pouring"
      /\ \A u \in S : decided.det[u].phase # "candidate"
  BY <1>1, <1>2, DecidedKeeps
<1>7. Winners(rested, S) \in SUBSET Tap  BY DEF Winners, Eligible, Rivals
<1>8. Alone(decided, Winners(rested, S), clock)  BY <1>6 DEF Alone, Awaits
<1> HIDE DEF decided, S
<1> DEFINE x == Advance(decided, Winners(rested, S), h, clock)
<1>9. /\ Sound(x, marks)
      /\ \A u \in Tap : decided.det[u].phase # "candidate" => x.det[u].phase # "candidate"
  BY <1>6, <1>7, <1>8, AdvanceKeeps
<1>10. \A u \in Tap : Falls(decided.det[u], x.det[u])  BY <1>6, <1>7, <1>8, AdvanceFalls
<1>11. Arbitrated(w, h, clock) = x  BY DEF Arbitrated, decided, S, rested, at
<1>12. at = DecisionAt(w, clock)  BY DEF at
<1> HIDE DEF x
<1>13. \A u \in Tap : Falls(w.det[u], x.det[u])  BY <1>4, <1>5, <1>10 DEF Falls
<1> QED BY <1>3, <1>6, <1>9, <1>11, <1>12, <1>13

LEMMA AdvanceEpochKeeps ==
  ASSUME NEW w, NEW marks \in [Tap -> Mark], Sound(w, marks),
         NEW h \in Histories, NEW clock \in Int, NEW t \in Tap
  PROVE  LET y == AdvanceEpoch(w, t, h, clock) IN
         Sound(y, marks) /\ \A u \in Tap : Falls(w.det[u], y.det[u])
<1> DEFINE x == Arbitrated(w, h, clock)
           y == AdvanceEpoch(w, t, h, clock)
<1>1. CASE ~Awaits(w.det[t], clock)
  <2>1. y = Advance(w, {t}, h, clock)  BY <1>1 DEF AdvanceEpoch
  <2>2. Alone(w, {t}, clock)  BY <1>1 DEF Alone
  <2> HIDE DEF y
  <2>3. Sound(y, marks)  BY <2>1, <2>2, AdvanceKeeps
  <2>4. \A u \in Tap : Falls(w.det[u], y.det[u])  BY <2>1, <2>2, AdvanceFalls
  <2> QED BY <2>3, <2>4 DEF y
<1>2. CASE Awaits(w.det[t], clock)
  <2>1. Sound(x, marks) /\ \A u \in Tap : Falls(w.det[u], x.det[u])
    BY <1>2, ArbitratedKeeps
  <2>2. y = IF x.det[t].phase = "candidate" THEN x ELSE Advance(x, {t}, h, clock)
    BY <1>2 DEF AdvanceEpoch
  <2> HIDE DEF x, y
  <2>3. CASE x.det[t].phase = "candidate"  BY <2>1, <2>2, <2>3 DEF y
  <2>4. CASE x.det[t].phase # "candidate"
    <3>1. y = Advance(x, {t}, h, clock)  BY <2>2, <2>4
    <3>2. Alone(x, {t}, clock)  BY <2>4 DEF Alone, Awaits
    <3>3. Sound(y, marks)  BY <2>1, <3>1, <3>2, AdvanceKeeps
    <3>4. \A u \in Tap : Falls(x.det[u], y.det[u])  BY <2>1, <3>1, <3>2, AdvanceFalls
    <3>5. \A u \in Tap : Falls(w.det[u], y.det[u])  BY <2>1, <3>4 DEF Falls
    <3> QED BY <3>3, <3>5 DEF y
  <2> QED BY <2>3, <2>4
<1> QED BY <1>1, <1>2

-----------------------------------------------------------------------------
(* Samples. *)

LEMMA ClearedKeeps ==
  ASSUME NEW d \in Detector, NEW a \in Mark,
         NEW phase \in {"waiting", "ready", "warning", "closed"}
  PROVE  LET x == Cleared(d, phase) IN
         Consistent(x, a) /\ x.phase = phase /\ x.grouped = d.grouped
<1> DEFINE x == Cleared(d, phase)
<1>1. None \in Moment  BY DEF Moment
<1>2. x \in Detector  BY <1>1 DEF Cleared, Detector, Phase
<1>3. /\ x.phase = phase /\ x.grouped = d.grouped
      /\ x.start = None /\ x.timeout = None /\ x.until = None
  BY DEF Cleared, Detector
<1> QED BY <1>2, <1>3 DEF Consistent, RowLegal

(* The interpretation of a sample newer than all others of the epoch.  Only a *)
(* warning lets go of the cooldown of an earlier pour.                         *)
LEMMA ReductionsKeep ==
  ASSUME NEW d, NEW a \in Mark, Consistent(d, a),
         NEW m \in 0 .. Newest, a < m, NEW x \in Reductions(d, m)
  PROVE  /\ Consistent(x, m) /\ x.grouped = d.grouped
         /\ x.phase = "pouring" => d.phase = "pouring"
         /\ \A p \in Pour : Apart(d, a, p) => Apart(x, m, p) \/ x.phase = "warning"
<1>1. /\ d \in Detector /\ RowLegal(d) /\ m \in Mark /\ m \in Int /\ a \in Int
      /\ \A p \in Pour : p.end \in Int
      /\ d.start \in Int /\ d.until \in Int
  BY Constants DEF Consistent, Detector, Mark, Moment, None, Pour
<1>2. CASE x = d
  <2>1. Consistent(d, m)  BY <1>1 DEF Consistent
  <2>2. \A p \in Pour : Apart(d, a, p) => Apart(d, m, p)
    BY <1>1, Constants DEF Apart
  <2> QED BY <1>2, <2>1, <2>2
<1>3. CASE x = Alarmed(d)
  BY <1>1, <1>3, ClearedKeeps DEF Alarmed
<1>4. CASE x = Cleared(d, "ready") /\ d.phase \in {"waiting", "warning"}
  <2>1. Consistent(x, m) /\ x.phase = "ready" /\ x.grouped = d.grouped
    BY <1>1, <1>4, ClearedKeeps
  <2> QED BY <1>4, <2>1 DEF Apart
<1>5. CASE x = Cleared(d, "ready") /\ d.phase = "cooldown" /\ m >= d.until
  <2>1. Consistent(x, m) /\ x.phase = "ready" /\ x.grouped = d.grouped
    BY <1>1, <1>5, ClearedKeeps
  <2>2. \A p \in Pour : Apart(d, a, p) => Apart(x, m, p)
    BY <1>1, <1>5, <2>1, Constants DEF Apart
  <2> QED BY <2>1, <2>2
<1>6. CASE /\ d.phase = "ready"
           /\ \E l \in Loss : x = [d EXCEPT !.phase = "candidate", !.start = m,
                                            !.loss = l, !.deadline = m + Arbitration]
  <2>1. PICK l \in Loss : x = [d EXCEPT !.phase = "candidate", !.start = m,
                                        !.loss = l, !.deadline = m + Arbitration]
    BY <1>6
  <2>2. m \in Moment /\ m + Arbitration \in Moment /\ m # None
    BY Constants DEF Moment, None
  <2>3. x \in Detector  BY <1>1, <2>1, <2>2 DEF Detector, Phase
  <2>4. /\ x.phase = "candidate" /\ x.start = m /\ x.deadline = m + Arbitration
        /\ x.grouped = d.grouped /\ x.timeout = d.timeout /\ x.until = d.until
    BY <1>1, <2>1 DEF Detector
  <2>5. RowLegal(x)  BY <1>1, <1>6, <2>2, <2>4 DEF RowLegal
  <2>6. Consistent(x, m)  BY <1>1, <2>3, <2>4, <2>5 DEF Consistent
  <2>7. \A p \in Pour : Apart(d, a, p) => Apart(x, m, p)
    BY <1>1, <1>6, <2>4, Constants DEF Apart
  <2> QED BY <2>4, <2>6, <2>7
<1>7. CASE d.phase = "candidate" /\ \E l \in Loss : x = [d EXCEPT !.loss = l]
  <2>1. PICK l \in Loss : x = [d EXCEPT !.loss = l]  BY <1>7
  <2>2. x \in Detector  BY <1>1, <2>1 DEF Detector
  <2>3. /\ x.phase = "candidate" /\ x.start = d.start /\ x.deadline = d.deadline
        /\ x.grouped = d.grouped /\ x.timeout = d.timeout /\ x.until = d.until
    BY <1>1, <1>7, <2>1 DEF Detector
  <2>4. RowLegal(x)  BY <1>1, <1>7, <2>3 DEF RowLegal
  <2>5. Consistent(x, m)  BY <1>1, <1>7, <2>2, <2>3, <2>4 DEF Consistent
  <2>6. \A p \in Pour : Apart(d, a, p) => Apart(x, m, p)
    BY <1>7, <2>3 DEF Apart
  <2> QED BY <1>7, <2>3, <2>5, <2>6
<1>8. CASE d.phase = "pouring" /\ x = [d EXCEPT !.flow = m]
  <2>1. m \in Moment  BY Constants DEF Moment
  <2>2. x \in Detector  BY <1>1, <1>8, <2>1 DEF Detector
  <2>3. /\ x.phase = "pouring" /\ x.start = d.start /\ x.flow = m
        /\ x.grouped = d.grouped /\ x.timeout = d.timeout /\ x.until = d.until
    BY <1>1, <1>8 DEF Detector
  <2>4. RowLegal(x)  BY <1>1, <1>8, <2>3 DEF RowLegal
  <2>5. Consistent(x, m)  BY <1>1, <1>8, <2>2, <2>3, <2>4 DEF Consistent
  <2>6. \A p \in Pour : Apart(d, a, p) => Apart(x, m, p)
    BY <1>8, <2>3 DEF Apart
  <2> QED BY <1>8, <2>3, <2>5, <2>6
<1>9. \/ x = d \/ x = Alarmed(d)
      \/ x = Cleared(d, "ready") /\ d.phase \in {"waiting", "warning"}
      \/ x = Cleared(d, "ready") /\ d.phase = "cooldown" /\ m >= d.until
      \/ /\ d.phase = "ready"
         /\ \E l \in Loss : x = [d EXCEPT !.phase = "candidate", !.start = m,
                                          !.loss = l, !.deadline = m + Arbitration]
      \/ d.phase = "candidate" /\ \E l \in Loss : x = [d EXCEPT !.loss = l]
      \/ d.phase = "pouring" /\ x = [d EXCEPT !.flow = m]
  BY DEF Reductions
<1> QED BY <1>2, <1>3, <1>4, <1>5, <1>6, <1>7, <1>8, <1>9

(* Sound, but for the pours of an epoch that a jump has just put into warning. *)
Loose(w, marks) ==
  /\ w \in WorkSet
  /\ \A t \in Tap : Consistent(w.det[t], marks[t])
  /\ \A p \in w.pours :
       /\ PourSound(p)
       /\ \/ p.jumped \/ w.det[p.tap].phase = "warning"
          \/ Apart(w.det[p.tap], marks[p.tap], p)
  /\ OneIn(w.det)

LEMMA SoundIsLoose ==
  ASSUME NEW w, NEW marks, Sound(w, marks)
  PROVE  Loose(w, marks)
BY DEF Sound, Loose

LEMMA ReducedKeeps ==
  ASSUME NEW w, NEW marks \in [Tap -> Mark], Sound(w, marks), NEW t \in Tap,
         NEW m \in 0 .. Newest, marks[t] < m, NEW d \in Reductions(w.det[t], m)
  PROVE  LET x == [w EXCEPT !.det[t] = d]
             newMarks == [marks EXCEPT ![t] = m] IN
         Loose(x, newMarks) /\ (d.phase # "warning" => Sound(x, newMarks))
<1> DEFINE x == [w EXCEPT !.det[t] = d]
           newMarks == [marks EXCEPT ![t] = m]
<1>1. /\ w \in WorkSet /\ OneIn(w.det)
      /\ \A u \in Tap : Consistent(w.det[u], marks[u]) /\ marks[u] \in Mark
  BY DEF Sound
<1>2. /\ Consistent(d, m) /\ d.grouped = w.det[t].grouped
      /\ d.phase = "pouring" => w.det[t].phase = "pouring"
      /\ \A p \in Pour : Apart(w.det[t], marks[t], p) => Apart(d, m, p) \/ d.phase = "warning"
  BY <1>1, ReductionsKeep
<1>3. /\ x.det = [w.det EXCEPT ![t] = d] /\ x.pours = w.pours
      /\ x = [det |-> x.det, pours |-> x.pours]
  BY <1>1 DEF WorkSet
<1>4. /\ newMarks[t] = m /\ \A u \in Tap \ {t} : newMarks[u] = marks[u]
      /\ x.det[t] = d /\ \A u \in Tap \ {t} : x.det[u] = w.det[u]
  BY <1>1, <1>3 DEF WorkSet
<1> HIDE DEF x, newMarks
<1>5. \A u \in Tap : Consistent(x.det[u], newMarks[u])  BY <1>1, <1>2, <1>4
<1>6. OneIn(x.det)  BY <1>1, <1>2, <1>4 DEF OneIn
<1>7. x \in WorkSet
  <2>1. x.det \in [Tap -> Detector]  BY <1>1, <1>2, <1>3 DEF WorkSet, Consistent
  <2> QED BY <1>1, <1>3, <2>1 DEF WorkSet
<1>8. \A p \in x.pours :
        /\ PourSound(p)
        /\ \/ p.jumped \/ Apart(x.det[p.tap], newMarks[p.tap], p)
           \/ (p.tap = t /\ d.phase = "warning")
  <2> TAKE p \in x.pours
  <2>1. p \in w.pours /\ p \in Pour /\ p.tap \in Tap  BY <1>1, <1>3 DEF WorkSet, Pour
  <2>2. PourSound(p) /\ (p.jumped \/ Apart(w.det[p.tap], marks[p.tap], p))
    BY <2>1 DEF Sound
  <2>3. CASE p.tap = t  BY <1>2, <1>4, <2>1, <2>2, <2>3
  <2>4. CASE p.tap # t  BY <1>4, <2>1, <2>2, <2>4
  <2> QED BY <2>3, <2>4
<1> QED BY <1>4, <1>5, <1>6, <1>7, <1>8 DEF Sound, Loose, x, newMarks

-----------------------------------------------------------------------------
(* The invariant and its preservation. *)

Rest ==
  /\ now \in Time /\ member \subseteq Tap /\ samples \in Histories
  /\ after \in [Tap -> Mark] /\ pass \in {None} \cup Time /\ turns \in 0 .. MaxTurns

IInv == Rest /\ Sound(Work, after)

LEMMA WorkIs == Work.det = det /\ Work.pours = pours
BY DEF Work

LEMMA Initially == Init => IInv
<1> SUFFICES ASSUME Init PROVE IInv  OBVIOUS
<1>1. NoEpoch \in Detector /\ NoEpoch.phase = "closed"
      /\ NoEpoch.start = None /\ NoEpoch.timeout = None /\ NoEpoch.until = None
  BY DEF NoEpoch, Detector, Phase, Moment
<1>2. Rest  BY Constants DEF Init, Rest, Time, Histories, Mark
<1>3. /\ det = [t \in Tap |-> NoEpoch] /\ pours = {}
      /\ Work = [det |-> det, pours |-> pours]
  BY DEF Init, Work
<1>4. Work \in WorkSet /\ Work.det = det /\ Work.pours = {}  BY <1>1, <1>3 DEF WorkSet
<1>5. \A t \in Tap : Consistent(det[t], after[t])
  BY <1>1, <1>3 DEF Consistent, RowLegal
<1>6. OneIn(det)  BY <1>1, <1>3 DEF OneIn
<1> QED BY <1>2, <1>4, <1>5, <1>6 DEF IInv, Sound

LEMMA CommittedKeeps ==
  ASSUME NEW w, NEW marks \in [Tap -> Mark], Loose(w, marks), Committed(w), after' = marks
  PROVE  Sound(Work, after)'
<1>1. /\ w \in WorkSet /\ OneIn(w.det) /\ det' = w.det
      /\ \A t \in Tap : Consistent(w.det[t], marks[t])
  BY DEF Loose, Committed
<1>2. PICK rebounds \in SUBSET (w.pours \ pours) :
        pours' = {[p EXCEPT !.jumped = @ \/ w.det[p.tap].phase = "warning"] :
                    p \in w.pours \ rebounds}
  BY DEF Committed
<1>3. \A q \in pours' :
        /\ q \in Pour /\ PourSound(q)
        /\ q.jumped \/ Apart(det'[q.tap], marks[q.tap], q)
  <2> TAKE q \in pours'
  <2>1. PICK p \in w.pours : q = [p EXCEPT !.jumped = @ \/ w.det[p.tap].phase = "warning"]
    BY <1>2
  <2> DEFINE j == p.jumped \/ w.det[p.tap].phase = "warning"
  <2>2. p \in Pour  BY <1>1 DEF WorkSet
  <2>3. j \in BOOLEAN  BY <2>2 DEF Pour
  <2>4. q = [p EXCEPT !.jumped = j]  BY <2>1, <2>2 DEF Pour
  <2>5. PourSound(p) /\ (j \/ Apart(w.det[p.tap], marks[p.tap], p))  BY DEF Loose
  <2> HIDE DEF j
  <2>6. /\ q \in Pour /\ q.tap = p.tap /\ q.start = p.start /\ q.active = p.active
        /\ q.end = p.end /\ q.jumped = j
    BY <2>2, <2>3, <2>4 DEF Pour
  <2> QED BY <1>1, <2>5, <2>6 DEF PourSound, Apart
<1>4. /\ (Work \in WorkSet)' /\ (Work.det)' = w.det /\ (Work.pours)' = pours'
  <2>1. Work' = [det |-> det', pours |-> pours'] /\ pours' \subseteq Pour
    BY <1>3 DEF Work
  <2> QED BY <1>1, <2>1 DEF WorkSet
<1>5. (\A t \in Tap : Consistent(Work.det[t], after[t]))'  BY <1>1, <1>4
<1>6. (\A p \in Work.pours :
         PourSound(p) /\ (p.jumped \/ Apart(Work.det[p.tap], after[p.tap], p)))'
  BY <1>1, <1>3, <1>4
<1>7. OneIn(Work.det)'  BY <1>1, <1>4
<1> QED BY <1>4, <1>5, <1>6, <1>7 DEF Sound

(* New epochs of the Taps of S, or their end. *)
LEMMA RestartedKeeps ==
  ASSUME IInv, NEW S \in SUBSET Tap, NEW f \in [Tap -> Detector],
         \A t \in S : f[t].phase \notin {"candidate", "pouring"} /\ RowLegal(f[t]),
         \A t \in Tap \ S : f[t] = det[t],
         det' = f, pours' = {p \in pours : p.tap \notin S},
         after' \in [Tap -> Mark], \A t \in Tap \ S : after'[t] = after[t]
  PROVE  Sound(Work, after)'
<1>1. /\ Work \in WorkSet /\ OneIn(det)
      /\ \A t \in Tap : Consistent(det[t], after[t])
      /\ \A p \in pours : /\ p \in Pour /\ PourSound(p)
                          /\ p.jumped \/ Apart(det[p.tap], after[p.tap], p)
  BY WorkIs DEF IInv, Sound, WorkSet
<1>2. /\ Work' = [det |-> f, pours |-> pours']
      /\ (Work.det)' = f /\ (Work.pours)' = pours'
  BY DEF Work
<1>3. (Work \in WorkSet)'  BY <1>1, <1>2 DEF WorkSet
<1>4. \A t \in Tap : Consistent(f[t], after'[t])  BY <1>1 DEF Consistent
<1>5. OneIn(f)  BY <1>1 DEF OneIn
<1>6. \A p \in pours' :
        PourSound(p) /\ (p.jumped \/ Apart(f[p.tap], after'[p.tap], p))
  BY <1>1 DEF Pour
<1> QED BY <1>2, <1>3, <1>4, <1>5, <1>6 DEF Sound

LEMMA TransitionKeeps ==
  ASSUME IInv, NEW S \in SUBSET Tap, NEW g, Transition(S, g)
  PROVE  Sound(Work, after)' /\ samples' \in Histories /\ after' \in [Tap -> Mark]
<1>1. /\ det \in [Tap -> Detector] /\ samples \in Histories
      /\ after \in [Tap -> Mark] /\ now \in Time
  BY WorkIs DEF IInv, Rest, Sound, WorkSet
<1>2. \A t \in Tap : /\ Opened(det[t], t \in g) \in Detector
                     /\ RowLegal(Opened(det[t], t \in g))
                     /\ Opened(det[t], t \in g).phase = "waiting"
  <2> TAKE t \in Tap
  <2> DEFINE c == Cleared(det[t], "waiting")
  <2>1. c \in Detector /\ RowLegal(c) /\ c.phase = "waiting"
    BY <1>1, ClearedKeeps DEF Consistent, Mark
  <2> HIDE DEF c
  <2>2. (t \in g) \in BOOLEAN  OBVIOUS
  <2>3. Opened(det[t], t \in g) = [c EXCEPT !.grouped = (t \in g)]  BY DEF Opened, c
  <2> QED BY <2>1, <2>2, <2>3 DEF Detector, RowLegal
<1>3. /\ det' = [t \in Tap |-> IF t \in S THEN Opened(det[t], t \in g) ELSE det[t]]
      /\ samples' = [t \in Tap |-> IF t \in S THEN {} ELSE samples[t]]
      /\ after' = [t \in Tap |-> IF t \in S /\ after[t] < now - 1 THEN now - 1 ELSE after[t]]
      /\ pours' = {p \in pours : p.tap \notin S}
  BY DEF Transition
<1>4. det' \in [Tap -> Detector]  BY <1>1, <1>2, <1>3
<1>5. samples' \in Histories  BY <1>1, <1>3 DEF Histories
<1>6. after' \in [Tap -> Mark]
  <2>1. now - 1 \in Mark  BY <1>1, Constants DEF Time, Mark, None, Newest
  <2> QED BY <1>1, <1>3, <2>1
<1>7. Sound(Work, after)'
  <2>1. \A t \in S : det'[t].phase \notin {"candidate", "pouring"} /\ RowLegal(det'[t])
    BY <1>2, <1>3
  <2>2. \A t \in Tap \ S : det'[t] = det[t] /\ after'[t] = after[t]  BY <1>3
  <2> QED BY <1>3, <1>4, <1>6, <2>1, <2>2, RestartedKeeps
<1> QED BY <1>5, <1>6, <1>7

LEMMA SampleKeeps ==
  ASSUME IInv, NEW t \in Tap, NEW m \in 0 .. Newest, Acceptable(t, m),
         after' = [after EXCEPT ![t] = m],
         NEW d \in Reductions(AdvanceEpoch(Work, t, samples, m).det[t], m)
  PROVE  LET w == AdvanceEpoch(Work, t, samples, m)
             x == [w EXCEPT !.det[t] = d] IN
         /\ after' \in [Tap -> Mark]
         /\ Loose(x, after') /\ (d.phase # "warning" => Sound(x, after'))
<1> DEFINE w == AdvanceEpoch(Work, t, samples, m)
<1>1. Rest /\ Sound(Work, after)  BY DEF IInv
<1>2. after \in [Tap -> Mark] /\ samples \in Histories /\ m \in Int /\ after[t] < m
  BY <1>1, Constants DEF Rest, Acceptable, Mark, None
<1>3. Sound(w, after)  BY <1>1, <1>2, AdvanceEpochKeeps
<1>4. after' \in [Tap -> Mark]  BY <1>2 DEF Mark
<1> HIDE DEF w
<1>5. /\ Loose([w EXCEPT !.det[t] = d], after')
      /\ d.phase # "warning" => Sound([w EXCEPT !.det[t] = d], after')
  BY <1>2, <1>3, ReducedKeeps DEF w
<1> QED BY <1>4, <1>5 DEF w

LEMMA InvalidSampleKeeps ==
  ASSUME IInv, NEW t \in Tap, NEW m \in 0 .. Newest, InvalidSample(t, m)
  PROVE  IInv'
<1> DEFINE w == AdvanceEpoch(Work, t, samples, m)
<1>1. /\ Acceptable(t, m) /\ after' = [after EXCEPT ![t] = m]
      /\ UNCHANGED <<now, member, samples, pass, turns>>
  BY DEF InvalidSample
<1>2. PICK d \in InvalidReductions(w.det[t]) : Committed([w EXCEPT !.det[t] = d])
  BY DEF InvalidSample
<1>3. d \in Reductions(w.det[t], m)
  <2> HIDE DEF w
  <2> QED BY <1>2 DEF InvalidReductions, Reductions
<1>4. after' \in [Tap -> Mark] /\ Loose([w EXCEPT !.det[t] = d], after')
  BY <1>1, <1>3, SampleKeeps
<1> HIDE DEF w
<1>5. Sound(Work, after)'  BY <1>2, <1>4, CommittedKeeps
<1> QED BY <1>1, <1>4, <1>5 DEF IInv, Rest

LEMMA ValidSampleKeeps ==
  ASSUME IInv, NEW t \in Tap, NEW m \in 0 .. Newest, ValidSample(t, m)
  PROVE  IInv'
<1> DEFINE w == AdvanceEpoch(Work, t, samples, m)
<1>1. /\ Acceptable(t, m) /\ after' = [after EXCEPT ![t] = m]
      /\ UNCHANGED <<now, member, pass, turns>>
  BY DEF ValidSample
<1>2. samples' \in Histories
  <2>1. PICK s \in BOOLEAN :
          samples' = [samples EXCEPT ![t] = Kept(@, [at |-> m, settled |-> s])]
    BY DEF ValidSample
  <2>2. samples \in Histories  BY DEF IInv, Rest
  <2>3. [at |-> m, settled |-> s] \in Sample  BY DEF Sample, Newest
  <2> QED BY <2>1, <2>2, <2>3 DEF Kept, Histories
<1>3. PICK d \in Reductions(w.det[t], m) :
        Committed(IF d.phase = "candidate" /\ d.deadline <= m
                  THEN AdvanceEpoch([w EXCEPT !.det[t] = d], t, samples', m)
                  ELSE [w EXCEPT !.det[t] = d])
  BY DEF ValidSample
<1> DEFINE x == [w EXCEPT !.det[t] = d]
<1>4. /\ after' \in [Tap -> Mark]
      /\ Loose(x, after') /\ (d.phase # "warning" => Sound(x, after'))
  BY <1>1, <1>3, SampleKeeps
<1> HIDE DEF x, w
<1>5. Sound(Work, after)'
  <2>1. CASE d.phase = "candidate" /\ d.deadline <= m
    <3>1. Committed(AdvanceEpoch(x, t, samples', m))  BY <1>3, <2>1 DEF x
    <3>2. m \in Int  BY Constants
    <3>3. Sound(AdvanceEpoch(x, t, samples', m), after')
      BY <1>2, <1>4, <2>1, <3>2, AdvanceEpochKeeps
    <3>4. Loose(AdvanceEpoch(x, t, samples', m), after')  BY <3>3, SoundIsLoose
    <3> QED BY <1>4, <3>1, <3>4, CommittedKeeps
  <2>2. CASE ~(d.phase = "candidate" /\ d.deadline <= m)
    <3>1. Committed(x)  BY <1>3, <2>2 DEF x
    <3> QED BY <1>4, <3>1, CommittedKeeps
  <2> QED BY <2>1, <2>2
<1> QED BY <1>1, <1>2, <1>4, <1>5 DEF IInv, Rest

LEMMA ProcessNextKeeps ==
  ASSUME IInv, ProcessNext
  PROVE  IInv'
<1>1. Rest /\ Sound(Work, after) /\ samples \in Histories /\ after \in [Tap -> Mark]
  BY DEF IInv, Rest
<1>2. /\ UNCHANGED <<now, member, samples, after, pass>> /\ pass \in Int
      /\ turns' \in 0 .. MaxTurns
  BY <1>1, Constants DEF ProcessNext, Rest, Time, None
<1>3. PICK t \in UNION {Firsts(L) : L \in Listings} : Committed(Processed(t))
  BY DEF ProcessNext
<1> DEFINE at == Due(t)
<1>4. t \in Tap /\ at # None  BY DEF Listings, Rows, Firsts, DueTaps
<1>5. at \in Int
  <2>1. /\ Consistent(det[t], after[t]) /\ after[t] \in Mark
        /\ samples[t] \in SUBSET Sample
    BY <1>1, <1>4, WorkIs DEF Sound, Histories
  <2> QED BY <1>2, <1>4, <2>1, DueAtFalls DEF Due
<1>6. Processed(t) = IF Awaits(det[t], at) THEN Arbitrated(Work, samples, at)
                     ELSE AdvanceEpoch(Work, t, samples, at)
  BY DEF Processed
<1> HIDE DEF at
<1>7. Sound(Processed(t), after)
  <2>1. CASE Awaits(det[t], at)
    <3>1. Sound(Arbitrated(Work, samples, at), after)
      BY <1>1, <1>4, <1>5, <2>1, WorkIs, ArbitratedKeeps
    <3> QED BY <1>6, <2>1, <3>1
  <2>2. CASE ~Awaits(det[t], at)
    <3>1. Sound(AdvanceEpoch(Work, t, samples, at), after)
      BY <1>1, <1>4, <1>5, AdvanceEpochKeeps
    <3> QED BY <1>6, <2>2, <3>1
  <2> QED BY <2>1, <2>2
<1>8. Loose(Processed(t), after) /\ after' = after  BY <1>2, <1>7, SoundIsLoose
<1>9. Sound(Work, after)'  BY <1>1, <1>3, <1>8, CommittedKeeps
<1> QED BY <1>1, <1>2, <1>9 DEF IInv, Rest

LEMMA EpochsKeep ==
  ASSUME IInv, NEW t \in Tap, OpenEpoch(t) \/ CloseEpoch(t) \/ ReopenEpoch(t)
  PROVE  IInv'
<1>1. Rest /\ UNCHANGED <<now, member, pass, turns>>
  BY DEF IInv, OpenEpoch, CloseEpoch, ReopenEpoch
<1>2. CASE Transition({t}, member)
  <2>1. Sound(Work, after)' /\ samples' \in Histories /\ after' \in [Tap -> Mark]
    BY <1>2, TransitionKeeps
  <2> QED BY <1>1, <2>1 DEF IInv, Rest
<1>3. CASE CloseEpoch(t)
  <2> DEFINE c == Closed(det[t])
  <2>1. det \in [Tap -> Detector] /\ samples \in Histories /\ after \in [Tap -> Mark]
    BY WorkIs DEF IInv, Rest, Sound, WorkSet
  <2>2. c \in Detector /\ RowLegal(c) /\ c.phase = "closed"
    <3> DEFINE x == Cleared(det[t], "closed")
    <3>1. x \in Detector /\ RowLegal(x) /\ x.phase = "closed"
      BY <2>1, ClearedKeeps DEF Consistent, Mark
    <3> HIDE DEF x
    <3>2. c = [x EXCEPT !.grouped = FALSE]  BY DEF Closed, x
    <3> QED BY <3>1, <3>2 DEF Detector, RowLegal
  <2> HIDE DEF c
  <2>3. /\ det' = [det EXCEPT ![t] = c] /\ samples' = [samples EXCEPT ![t] = {}]
        /\ pours' = {p \in pours : p.tap # t} /\ after' = after
    BY <1>3 DEF CloseEpoch, c
  <2>4. /\ det' \in [Tap -> Detector] /\ samples' \in Histories
        /\ \A u \in {t} : det'[u].phase \notin {"candidate", "pouring"} /\ RowLegal(det'[u])
        /\ \A u \in Tap \ {t} : det'[u] = det[u] /\ after'[u] = after[u]
        /\ pours' = {p \in pours : p.tap \notin {t}}
        /\ {t} \in SUBSET Tap /\ after' \in [Tap -> Mark]
    BY <2>1, <2>2, <2>3 DEF Histories
  <2>5. Sound(Work, after)'
    <3> DEFINE S == {t}
    <3>1. /\ S \in SUBSET Tap
          /\ \A u \in S : det'[u].phase \notin {"candidate", "pouring"} /\ RowLegal(det'[u])
          /\ \A u \in Tap \ S : det'[u] = det[u]
          /\ \A u \in Tap \ S : after'[u] = after[u]
          /\ pours' = {p \in pours : p.tap \notin S}
      BY <2>4
    <3> HIDE DEF S
    <3> QED BY <2>4, <3>1, RestartedKeeps
  <2> QED BY <1>1, <2>1, <2>3, <2>4, <2>5 DEF IInv, Rest
<1> QED BY <1>2, <1>3 DEF OpenEpoch, ReopenEpoch

LEMMA Invariance == IInv /\ [Next]_vars => IInv'
<1> SUFFICES ASSUME IInv, [Next]_vars PROVE IInv'  OBVIOUS
<1>1. Rest /\ Sound(Work, after)  BY DEF IInv
<1>2. ASSUME UNCHANGED <<det, pours, after>> PROVE Sound(Work, after)'
  <2>1. Work' = Work /\ after' = after  BY <1>2 DEF Work
  <2> QED BY <1>1, <2>1 DEF Sound, WorkSet
<1>3. ASSUME NEW t \in Tap, OpenEpoch(t) \/ CloseEpoch(t) \/ ReopenEpoch(t) PROVE IInv'
  BY <1>3, EpochsKeep
<1>4. ASSUME NEW S \in SUBSET Tap, ReplaceGroupMembers(S) PROVE IInv'
  <2> DEFINE moved == {t \in Tap : det[t].phase # "closed" /\ det[t].grouped # (t \in S)}
  <2>1. Transition(moved, S) /\ member' = S /\ UNCHANGED <<now, pass, turns>>
    BY <1>4 DEF ReplaceGroupMembers
  <2>2. moved \in SUBSET Tap  OBVIOUS
  <2> HIDE DEF moved
  <2>3. Sound(Work, after)' /\ samples' \in Histories /\ after' \in [Tap -> Mark]
    BY <2>1, <2>2, TransitionKeeps
  <2> QED BY <1>1, <2>1, <2>3 DEF IInv, Rest
<1>5. ASSUME NEW t \in Tap, NEW m \in 0 .. Newest, IgnoredSample(t, m) PROVE IInv'
  <2>1. /\ after' = [after EXCEPT ![t] = m] /\ det[t].phase = "closed"
        /\ UNCHANGED <<now, member, det, samples, pours, pass, turns>>
    BY <1>5 DEF IgnoredSample
  <2>2. after' \in [Tap -> Mark]  BY <1>1, <2>1 DEF Rest, Mark
  <2>3. det[t].phase # "ready"  BY <2>1
  <2>4. /\ Work' = Work /\ Work.det = det
        /\ \A u \in Tap : after'[u] = IF u = t THEN m ELSE after[u]
    BY <1>1, <2>1, WorkIs DEF Work, Rest
  <2>5. \A u \in Tap : Consistent(det[u], after'[u])
    BY <1>1, <2>1, <2>4 DEF Sound, Consistent
  <2>6. \A p \in Work.pours : p.tap \in Tap
    BY <1>1 DEF Sound, WorkSet, Pour
  <2>7. \A p \in Work.pours :
          PourSound(p) /\ (p.jumped \/ Apart(det[p.tap], after'[p.tap], p))
    BY <1>1, <2>1, <2>4, <2>6 DEF Sound, Apart
  <2>8. Sound(Work, after')  BY <1>1, <2>4, <2>5, <2>7 DEF Sound
  <2>9. Sound(Work, after)'  BY <2>4, <2>8 DEF Sound, WorkSet
  <2> QED BY <1>1, <2>1, <2>2, <2>9 DEF IInv, Rest
<1>6. ASSUME NEW t \in Tap, NEW m \in 0 .. Newest, InvalidSample(t, m) PROVE IInv'
  BY <1>6, InvalidSampleKeeps
<1>7. ASSUME NEW t \in Tap, NEW m \in 0 .. Newest, ValidSample(t, m) PROVE IInv'
  BY <1>7, ValidSampleKeeps
<1>8. CASE StartPass
  <2>1. pass' \in {None} \cup Time /\ UNCHANGED <<now, member, det, samples, after, pours, turns>>
    BY <1>1, <1>8 DEF StartPass, Rest
  <2> QED BY <1>1, <1>2, <2>1 DEF IInv, Rest
<1>9. CASE ProcessNext  BY <1>9, ProcessNextKeeps
<1>10. CASE EndPass
  <2>1. /\ pass' = None /\ turns' \in 0 .. MaxTurns
        /\ UNCHANGED <<now, member, det, samples, after, pours>>
    BY <1>10, Constants DEF EndPass
  <2> QED BY <1>1, <1>2, <2>1 DEF IInv, Rest
<1>11. CASE Tick
  <2>1. now' \in Time /\ UNCHANGED <<member, det, samples, after, pours, pass, turns>>
    BY <1>1, <1>11, Constants DEF Tick, Rest, Time
  <2> QED BY <1>1, <1>2, <2>1 DEF IInv, Rest
<1>12. CASE UNCHANGED vars
  <2>1. UNCHANGED <<now, member, det, samples, after, pours, pass, turns>>  BY <1>12 DEF vars
  <2> QED BY <1>1, <1>2, <2>1 DEF IInv, Rest
<1>13. \A t \in Tap : Measured[t] \subseteq 0 .. Newest
  BY DetectorAssumption DEF Newest
<1> QED
  BY <1>3, <1>4, <1>5, <1>6, <1>7, <1>8, <1>9, <1>10, <1>11, <1>12, <1>13 DEF Next

LEMMA Inductive == Spec => []IInv
BY Initially, Invariance, PTL DEF Spec

-----------------------------------------------------------------------------

(* In every reachable state the rows have the types and obey the CHECKs the  *)
(* migration gives telemetry_epoch_state.                                    *)
THEOREM TypeCorrect == Spec => []TypeOK
<1>1. IInv => TypeOK
  BY WorkIs DEF IInv, Rest, Sound, WorkSet, Consistent, Histories, Mark, Newest, TypeOK
<1> QED BY <1>1, Inductive, PTL

(* Of the Taps in the group, #arbitrateGroup and #advanceEpoch never let two *)
(* pour at once.                                                             *)
THEOREM OnePour == Spec => []OnePourPerGroup
<1>1. IInv => OnePourPerGroup
  BY WorkIs DEF IInv, Sound, OneIn, OnePourPerGroup
<1> QED BY <1>1, Inductive, PTL

(* Whatever order samples and timer come in, a candidate starts only after   *)
(* the cooldown of every earlier pour of its epoch, unless a jump ended it.  *)
THEOREM CooldownRespected == Spec => []SessionsApart
<1>1. IInv => SessionsApart
  BY WorkIs DEF IInv, Sound, Apart, SessionsApart
<1> QED BY <1>1, Inductive, PTL

(* The times #persist records for a pour are in order and span at most the   *)
(* hard timeout.                                                             *)
THEOREM RecordedTimes == Spec => []PourTimesSound
<1>1. IInv => PourTimesSound
  BY WorkIs DEF IInv, Sound, PourSound, PourTimesSound
<1> QED BY <1>1, Inductive, PTL

-----------------------------------------------------------------------------
(* processDue *)

(* What is due by the clock of a pass is due by its own due time as well. *)
LEMMA DueAtItsOwnTime ==
  ASSUME NEW d, NEW a \in Mark, Consistent(d, a),
         NEW h \in SUBSET Sample, NEW clock \in Int, DueAt(d, h, clock) # None
  PROVE  DueAt(d, h, DueAt(d, h, clock)) # None
<1> DEFINE at == DueAt(d, h, clock)
<1>1. /\ at \in Int /\ at # None /\ d.phase \in {"candidate", "pouring"}
      /\ d.phase = "candidate" => at = d.deadline
  BY DueAtFalls
<1>2. CASE d.phase = "candidate"
  <2> HIDE DEF at
  <2>1. DueAt(d, h, at) = d.deadline  BY <1>1, <1>2 DEF DueAt
  <2> QED BY <1>1, <1>2, <2>1 DEF at
<1>3. CASE d.phase = "pouring" /\ Rests(d, h, at) # {}
  <2>1. DueAt(d, h, at) = Least(Rests(d, h, at))
    <3> HIDE DEF at
    <3> QED BY <1>3 DEF DueAt
  <2>2. Least(Rests(d, h, at)) \in Int /\ d.start <= Least(Rests(d, h, at))
    <3> HIDE DEF at
    <3> QED BY <1>1, <1>3, RestsFall
  <2>3. 0 <= d.start /\ d.start \in Int
    BY <1>3 DEF Consistent, Detector, Moment, None
  <2> HIDE DEF at
  <2>4. DueAt(d, h, at) # None  BY <2>1, <2>2, <2>3 DEF None
  <2> QED BY <2>4 DEF at
<1>4. CASE d.phase = "pouring" /\ Rests(d, h, at) = {}
  <2>1. Rests(d, h, clock) = {}
    <3> SUFFICES ASSUME Rests(d, h, clock) # {} PROVE FALSE  OBVIOUS
    <3>1. at = Least(Rests(d, h, clock))  BY <1>4 DEF DueAt
    <3>2. at \in Rests(d, h, clock)
      <4>1. Least(Rests(d, h, clock)) \in Rests(d, h, clock)  BY <1>4, RestsFall
      <4> HIDE DEF at
      <4> QED BY <3>1, <4>1
    <3> HIDE DEF at
    <3>3. at \in Rests(d, h, at)  BY <1>1, <3>2 DEF Rests, Checkpoints
    <3> QED BY <1>4, <3>3 DEF at
  <2>2. at = d.timeout
    BY <1>1, <1>4, <2>1 DEF DueAt
  <2> HIDE DEF at
  <2>3. DueAt(d, h, at) = d.timeout  BY <1>1, <1>4, <2>2 DEF DueAt
  <2> QED BY <1>1, <2>2, <2>3 DEF at
<1> QED BY <1>1, <1>2, <1>3, <1>4

LEMMA ProcessedMoves ==
  ASSUME IInv, pass # None, NEW L \in Listings, NEW t \in Firsts(L)
  PROVE  /\ Processed(t).det[t].phase # det[t].phase
         /\ \A u \in Tap : Falls(det[u], Processed(t).det[u])
<1> DEFINE at == Due(t)
<1>1. /\ Rest /\ Sound(Work, after) /\ samples \in Histories /\ after \in [Tap -> Mark]
      /\ pass \in Int
  BY Constants DEF IInv, Rest, Time, None
<1>2. /\ t \in L /\ t \in Tap /\ at # None
      /\ \A u \in L : Due(u) # None => Precedes(t, at, u, Due(u))
      /\ \A u \in Rows \ L : Precedes(t, ListedAt(det[t]), u, ListedAt(det[u]))
  BY DEF Listings, Rows, Firsts, DueTaps
<1>3. \A u \in Tap : /\ Consistent(det[u], after[u]) /\ after[u] \in Mark
                     /\ samples[u] \in SUBSET Sample
  BY <1>1, WorkIs DEF Sound, Histories
<1>4. /\ at \in Int /\ det[t].phase \in {"candidate", "pouring"}
      /\ det[t].phase = "candidate" =>
           at = det[t].deadline /\ det[t].start <= at /\ at <= pass
  BY <1>1, <1>2, <1>3, DueAtFalls DEF Due
<1>5. DueAt(det[t], samples[t], at) # None  BY <1>1, <1>2, <1>3, DueAtItsOwnTime DEF Due
<1>6. Processed(t) = IF Awaits(det[t], at) THEN Arbitrated(Work, samples, at)
                     ELSE AdvanceEpoch(Work, t, samples, at)
  BY DEF Processed
<1>7. ASSUME Awaits(det[t], at) PROVE Processed(t).det[t].phase # det[t].phase
  <2>1. det[t].phase = "candidate"  BY <1>7 DEF Awaits
  <2>2. DecisionAt(Work, at) = at
    <3> DEFINE due == {det[u].deadline : u \in Overdue(Work, at)}
    <3>1. \A u \in Overdue(Work, at) : det[u].deadline \in Nat /\ at <= det[u].deadline
      <4> TAKE u \in Overdue(Work, at)
      <4>1. u \in Tap /\ det[u].phase = "candidate" /\ det[u].deadline <= at
        BY WorkIs DEF Overdue, Rivals
      <4>2. /\ det[u].start \in Int /\ 0 <= det[u].start
            /\ det[u].deadline = det[u].start + Arbitration
        BY <1>3, <4>1 DEF Consistent, Detector, Moment, None
      <4>3. det[u].deadline \in Nat /\ det[u].deadline # None
        BY <4>2, Constants DEF None
      <4>4. det[u].deadline <= pass  BY <1>1, <1>4, <2>1, <4>1, <4>3
      <4>5. Due(u) = det[u].deadline /\ ListedAt(det[u]) = det[u].deadline
        BY <4>1, <4>4 DEF Due, DueAt, ListedAt
      <4>6. u \in Rows  BY <4>1, <4>3, <4>4, <4>5 DEF Rows
      <4>7. ListedAt(det[t]) = at  BY <1>4, <2>1 DEF ListedAt
      <4>8. Precedes(t, at, u, det[u].deadline)
        BY <1>2, <4>3, <4>5, <4>6, <4>7
      <4>9. at <= det[u].deadline
        <5> HIDE DEF at
        <5>1. at < det[u].deadline \/ at = det[u].deadline  BY <4>8 DEF Precedes
        <5> QED BY <1>4, <4>3, <5>1
      <4> QED BY <4>3, <4>9
    <3>2. t \in Overdue(Work, at)  BY <1>2, <1>7, WorkIs DEF Awaits, Overdue, Rivals
    <3>3. due \in SUBSET Nat /\ due # {} /\ at \in due  BY <1>4, <2>1, <3>1, <3>2
    <3>4. Least(due) \in due /\ Least(due) <= at
      <4> HIDE DEF due, at
      <4> QED BY <3>3, LeastIsFirst
    <3>5. at <= Least(due)  BY <3>1, <3>4
    <3>6. Least(due) = at
      <4> HIDE DEF at
      <4> QED BY <1>4, <3>1, <3>4, <3>5
    <3> QED BY <3>6, WorkIs DEF DecisionAt
  <2> HIDE DEF at
  <2>3. Arbitrated(Work, samples, at).det[t].phase # "candidate"
    BY <1>1, <1>2, <1>4, <1>7, <2>1, <2>2, WorkIs, ArbitratedKeeps
  <2> QED BY <1>6, <1>7, <2>1, <2>3
<1>8. ASSUME ~Awaits(det[t], at) PROVE Processed(t).det[t].phase # det[t].phase
  <2> DEFINE once == AdvanceOnce(Work, {t}, samples, at)
             twice == AdvanceOnce(once, {t}, samples, at)
             d == once.det[t]
  <2> HIDE DEF at
  <2>1. Processed(t) = twice
    BY <1>6, <1>8, WorkIs DEF AdvanceEpoch, Advance
  <2>2. Alone(Work, {t}, at) /\ {t} \in SUBSET Tap  BY <1>2, <1>8, WorkIs DEF Alone
  <2>3. Sound(once, after) /\ Alone(once, {t}, at)
    BY <1>1, <1>4, <2>2, AdvanceOnceKeeps
  <2>4. d = Advanced(det[t], samples[t], at)  BY <1>2, WorkIs DEF AdvanceOnce
  <2>5. /\ det[t].phase = "candidate" => d.phase = "pouring"
        /\ det[t].phase = "pouring" => d.phase = "cooldown"
    <3>1. det[t] \in Detector  BY <1>2, <1>3 DEF Consistent
    <3> QED BY <1>4, <1>5, <2>4, <3>1
         DEF Advanced, Activated, Cooled, Cleared, Detector
  <2> HIDE DEF once
  <2>6. Consistent(d, after[t])  BY <1>2, <2>3 DEF Sound
  <2>7. twice.det[t] = Advanced(d, samples[t], at)  BY <1>2 DEF AdvanceOnce
  <2> HIDE DEF d, twice
  <2>8. /\ twice.det[t].phase \in {d.phase, "pouring", "cooldown"}
        /\ twice.det[t].phase = "pouring" => d.phase \in {"pouring", "candidate"}
    <3>1. after[t] \in Mark /\ samples[t] \in SUBSET Sample /\ at \in Int  BY <1>2, <1>3, <1>4
    <3>2. /\ Advanced(d, samples[t], at).phase \in {d.phase, "pouring", "cooldown"}
          /\ Advanced(d, samples[t], at).phase = "pouring" =>
               d.phase \in {"pouring", "candidate"}
      BY <2>6, <3>1, AdvancedKeeps
    <3> QED BY <2>7, <3>2
  <2> QED BY <1>4, <2>1, <2>5, <2>8
<1>9. \A u \in Tap : Falls(det[u], Processed(t).det[u])
  <2> HIDE DEF at
  <2>1. CASE Awaits(det[t], at)
    <3>1. \A u \in Tap : Falls(det[u], Arbitrated(Work, samples, at).det[u])
      BY <1>1, <1>2, <1>4, <2>1, WorkIs, ArbitratedKeeps
    <3> QED BY <1>6, <2>1, <3>1
  <2>2. CASE ~Awaits(det[t], at)
    <3>1. \A u \in Tap : Falls(det[u], AdvanceEpoch(Work, t, samples, at).det[u])
      BY <1>1, <1>2, <1>4, WorkIs, AdvanceEpochKeeps
    <3> QED BY <1>6, <2>2, <3>1
  <2> QED BY <2>1, <2>2
<1> QED BY <1>7, <1>8, <1>9

(* Each turn of processDue's loop moves the epoch it takes: the call ends.   *)
THEOREM EveryPassEnds == Spec => []PassProgresses
<1>1. IInv => PassProgresses
  <2> SUFFICES ASSUME IInv, pass # None, NEW L \in Listings, NEW t \in Firsts(L)
               PROVE  Processed(t).det # det
    BY DEF PassProgresses
  <2> QED BY ProcessedMoves
<1> QED BY <1>1, Inductive, PTL

(* The four together, as the run checks them. *)
THEOREM PoursAreSound == Spec => []PoursSound
<1>1. OnePourPerGroup /\ SessionsApart /\ PourTimesSound /\ PassProgresses => PoursSound
  BY DEF PoursSound
<1> QED BY <1>1, OnePour, CooldownRespected, RecordedTimes, EveryPassEnds, PTL

-----------------------------------------------------------------------------
(* What a call of processDue still has to do: two turns for a candidate, one *)
(* for a pour.                                                               *)
Candidates(f) == {t \in Tap : f[t].phase = "candidate"}
Pending(f) == {t \in Tap : f[t].phase \in {"candidate", "pouring"}}
Left(f) == Cardinality(Candidates(f)) + Cardinality(Pending(f))

LEMMA TapsCounted ==
  ASSUME NEW S \in SUBSET Tap
  PROVE  IsFiniteSet(S) /\ Cardinality(S) \in Nat
<1>1. IsFiniteSet(S)  BY Constants, FS_Subset
<1> QED BY <1>1, FS_CardinalityType

LEMMA FewerTaps ==
  ASSUME NEW S \in SUBSET Tap, NEW R \in SUBSET S
  PROVE  /\ Cardinality(R) <= Cardinality(S)
         /\ \A t \in S \ R : Cardinality(R) + 1 <= Cardinality(S)
         /\ Cardinality(R) = Cardinality(S) => R = S
<1>1. /\ IsFiniteSet(S) /\ Cardinality(S) \in Nat
      /\ R \in SUBSET Tap /\ Cardinality(R) \in Nat
  BY TapsCounted
<1>2. /\ Cardinality(R) <= Cardinality(S)
      /\ Cardinality(S) = Cardinality(R) => S = R
  BY <1>1, FS_Subset
<1>3. \A t \in S \ R : Cardinality(S) # Cardinality(R)  BY <1>2
<1> QED BY <1>1, <1>2, <1>3

LEMMA LeftFalls ==
  ASSUME NEW f, NEW g, \A u \in Tap : Falls(f[u], g[u]),
         NEW t \in Tap, g[t].phase # f[t].phase
  PROVE  Left(g) + 1 <= Left(f)
<1>1. /\ Candidates(f) \in SUBSET Tap /\ Pending(f) \in SUBSET Tap
      /\ Candidates(g) \in SUBSET Candidates(f) /\ Pending(g) \in SUBSET Pending(f)
  BY DEF Candidates, Pending, Falls
<1>2. t \in Candidates(f) \ Candidates(g) \/ t \in Pending(f) \ Pending(g)
  BY DEF Candidates, Pending, Falls
<1>3. /\ Cardinality(Candidates(f)) \in Nat /\ Cardinality(Candidates(g)) \in Nat
      /\ Cardinality(Pending(f)) \in Nat /\ Cardinality(Pending(g)) \in Nat
  <2>1. Candidates(g) \in SUBSET Tap /\ Pending(g) \in SUBSET Tap  BY DEF Candidates, Pending
  <2> QED BY <1>1, <2>1, TapsCounted
<1>4. /\ Cardinality(Candidates(g)) <= Cardinality(Candidates(f))
      /\ Cardinality(Pending(g)) <= Cardinality(Pending(f))
  BY <1>1, FewerTaps
<1>5. \/ Cardinality(Candidates(g)) + 1 <= Cardinality(Candidates(f))
      \/ Cardinality(Pending(g)) + 1 <= Cardinality(Pending(f))
  <2>1. CASE t \in Candidates(f) \ Candidates(g)
    <3>1. \A u \in Candidates(f) \ Candidates(g) :
            Cardinality(Candidates(g)) + 1 <= Cardinality(Candidates(f))
      BY <1>1, FewerTaps
    <3> QED BY <2>1, <3>1
  <2>2. CASE t \in Pending(f) \ Pending(g)
    <3>1. \A u \in Pending(f) \ Pending(g) :
            Cardinality(Pending(g)) + 1 <= Cardinality(Pending(f))
      BY <1>1, FewerTaps
    <3> QED BY <2>2, <3>1
  <2> QED BY <1>2, <2>1, <2>2
<1> QED BY <1>3, <1>4, <1>5 DEF Left

LEMMA LeftWithin ==
  /\ Left(det) \in Nat /\ Cardinality(OpenEpochs) \in Nat
  /\ Left(det) <= 2 * Cardinality(OpenEpochs)
  /\ Left(det) = 0 => Pending(det) = {}
<1>1. /\ OpenEpochs \in SUBSET Tap /\ Candidates(det) \in SUBSET OpenEpochs
      /\ Pending(det) \in SUBSET OpenEpochs
      /\ Candidates(det) \in SUBSET Tap /\ Pending(det) \in SUBSET Tap
  BY DEF OpenEpochs, Candidates, Pending
<1>2. /\ Cardinality(OpenEpochs) \in Nat /\ Cardinality(Candidates(det)) \in Nat
      /\ Cardinality(Pending(det)) \in Nat /\ IsFiniteSet(Pending(det))
  BY <1>1, TapsCounted
<1>3. /\ Cardinality(Candidates(det)) <= Cardinality(OpenEpochs)
      /\ Cardinality(Pending(det)) <= Cardinality(OpenEpochs)
  BY <1>1, FewerTaps
<1>4. Cardinality(Pending(det)) = 0 => Pending(det) = {}  BY <1>2, FS_EmptySet
<1> QED BY <1>2, <1>3, <1>4 DEF Left

(* No turn of the running call was wasted: each took something off Left.      *)
TurnsInv ==
  IF pass = None THEN turns = 0
  ELSE turns + Left(det) <= 2 * Cardinality(OpenEpochs)

LEMMA TurnsCounted == IInv /\ TurnsInv /\ [Next]_vars => TurnsInv'
<1> SUFFICES ASSUME IInv, TurnsInv, [Next]_vars PROVE TurnsInv'  OBVIOUS
<1>1. turns \in Nat /\ Left(det) \in Nat /\ Cardinality(OpenEpochs) \in Nat
  BY LeftWithin, Constants DEF IInv, Rest
<1>2. CASE StartPass
  <2>1. /\ pass = None /\ turns = 0 /\ turns' = 0 /\ det' = det
        /\ pass' # None
    BY <1>2, Constants DEF StartPass, TurnsInv, IInv, Rest, Time, None
  <2>2. Left(det') = Left(det) /\ OpenEpochs' = OpenEpochs  BY <2>1 DEF OpenEpochs
  <2>3. Left(det) <= 2 * Cardinality(OpenEpochs)  BY LeftWithin
  <2>4. turns' + Left(det') <= 2 * Cardinality(OpenEpochs')  BY <1>1, <2>1, <2>2, <2>3
  <2> QED BY <2>1, <2>4 DEF TurnsInv
<1>3. CASE ProcessNext
  <2>1. pass # None /\ pass' = pass /\ turns' = turns + 1  BY <1>3 DEF ProcessNext
  <2>2. PICK L \in Listings : \E t \in Firsts(L) : Committed(Processed(t))
    BY <1>3 DEF ProcessNext
  <2>3. PICK t \in Firsts(L) : Committed(Processed(t))  BY <2>2
  <2>4. t \in Tap  BY DEF Listings, Rows, Firsts, DueTaps
  <2>5. det' = Processed(t).det  BY <2>3 DEF Committed
  <2>6. det'[t].phase # det[t].phase /\ \A u \in Tap : Falls(det[u], det'[u])
    BY <2>1, <2>5, ProcessedMoves
  <2>7. Left(det') + 1 <= Left(det)  BY <2>4, <2>6, LeftFalls
  <2>8. OpenEpochs' = OpenEpochs  BY <2>6 DEF OpenEpochs, Falls
  <2>9. turns + Left(det) <= 2 * Cardinality(OpenEpochs)  BY <2>1 DEF TurnsInv
  <2>10. Left(det') \in Nat
    <3>1. Candidates(det') \in SUBSET Tap /\ Pending(det') \in SUBSET Tap
      BY DEF Candidates, Pending
    <3>2. Cardinality(Candidates(det')) \in Nat /\ Cardinality(Pending(det')) \in Nat
      BY <3>1, TapsCounted
    <3> QED BY <3>2 DEF Left
  <2>11. turns' + Left(det') <= 2 * Cardinality(OpenEpochs')
    BY <1>1, <2>1, <2>7, <2>8, <2>9, <2>10
  <2> QED BY <2>1, <2>11 DEF TurnsInv
<1>4. CASE EndPass
  <2>1. pass' = None /\ turns' = 0  BY <1>4 DEF EndPass
  <2> QED BY <2>1 DEF TurnsInv
<1>5. CASE UNCHANGED vars
  <2>1. UNCHANGED <<pass, turns, det>>  BY <1>5 DEF vars
  <2>2. Left(det') = Left(det) /\ OpenEpochs' = OpenEpochs  BY <2>1 DEF OpenEpochs
  <2> QED BY <2>1, <2>2 DEF TurnsInv
<1>6. CASE pass = None /\ UNCHANGED <<pass, turns>>  BY <1>6 DEF TurnsInv
<1>7. \/ StartPass \/ ProcessNext \/ EndPass \/ UNCHANGED vars
      \/ (pass = None /\ UNCHANGED <<pass, turns>>)
  BY DEF Next, OpenEpoch, CloseEpoch, ReopenEpoch, ReplaceGroupMembers,
         IgnoredSample, InvalidSample, ValidSample, Acceptable, Tick
<1> QED BY <1>2, <1>3, <1>4, <1>5, <1>6, <1>7

LEMMA TurnsInductive == Spec => [](IInv /\ TurnsInv)
<1>1. Init => IInv /\ TurnsInv  BY Initially DEF Init, TurnsInv
<1>2. IInv /\ TurnsInv /\ [Next]_vars => (IInv /\ TurnsInv)'
  BY Invariance, TurnsCounted
<1> QED BY <1>1, <1>2, PTL DEF Spec

(* What is overdue, or a pour that has come to rest, is listed and due. *)
LEMMA OverdueIsListed ==
  ASSUME IInv, pass # None, NEW t \in Tap,
         \/ det[t].phase = "candidate" /\ det[t].deadline <= pass
         \/ det[t].phase = "pouring" /\ det[t].timeout <= pass
         \/ det[t].phase = "pouring" /\ Rests(det[t], samples[t], pass) # {}
  PROVE  t \in Rows /\ Due(t) # None
<1>1. /\ Consistent(det[t], after[t]) /\ after[t] \in Mark
      /\ samples[t] \in SUBSET Sample /\ pass \in Int
  BY WorkIs, Constants DEF IInv, Rest, Sound, Histories, Time, None
<1>2. CASE det[t].phase = "candidate" /\ det[t].deadline <= pass
  <2>1. det[t].deadline \in Nat
    BY <1>1, <1>2, Constants DEF Consistent, Detector, Moment, None
  <2>2. ListedAt(det[t]) = det[t].deadline /\ Due(t) = det[t].deadline
    BY <1>2 DEF ListedAt, Due, DueAt
  <2> QED BY <1>2, <2>1, <2>2 DEF Rows, None
<1>3. CASE det[t].phase = "pouring"
  <2>1. det[t].timeout \in Nat /\ det[t].flow \in Nat /\ det[t].start \in Nat
    BY <1>1, <1>3, Constants DEF Consistent, RowLegal, Detector, Moment, None
  <2>2. det[t].timeout <= pass \/ det[t].flow + Quiet <= pass
    <3>1. CASE det[t].timeout <= pass  BY <3>1
    <3>2. CASE Rests(det[t], samples[t], pass) # {}
      <4>1. PICK c \in Rests(det[t], samples[t], pass) : TRUE  BY <3>2
      <4>2. /\ c \in {det[t].flow + Quiet} \cup {x.at : x \in samples[t]}
            /\ det[t].flow + Quiet <= c /\ c <= pass
        BY <4>1 DEF Rests, Checkpoints
      <4>3. c \in Int  BY <1>1, <2>1, <4>2, Constants DEF Sample, Newest
      <4> QED BY <1>1, <2>1, <4>2, <4>3, Constants
    <3> QED BY <1>3, <3>1, <3>2
  <2>3. ListedAt(det[t]) \in Nat /\ ListedAt(det[t]) <= pass
    BY <1>1, <1>3, <2>1, <2>2, Constants DEF ListedAt
  <2>4. Due(t) # None
    <3>1. CASE Rests(det[t], samples[t], pass) # {}
      <4>1. Due(t) = Least(Rests(det[t], samples[t], pass))  BY <1>3, <3>1 DEF Due, DueAt
      <4>2. Least(Rests(det[t], samples[t], pass)) # None
        BY <1>1, <1>3, <2>1, <3>1, RestsFall DEF None
      <4> QED BY <4>1, <4>2
    <3>2. CASE Rests(det[t], samples[t], pass) = {}
      <4>1. det[t].timeout <= pass  BY <1>3, <3>2
      <4>2. Due(t) = det[t].timeout  BY <1>3, <3>2, <4>1 DEF Due, DueAt
      <4> QED BY <2>1, <4>2 DEF None
    <3> QED BY <3>1, <3>2
  <2> QED BY <2>3, <2>4 DEF Rows, None
<1> QED BY <1>2, <1>3

(* Of a listing with room for every open epoch, every row is a member. *)
LEMMA NothingCutOff ==
  ASSUME Cardinality(OpenEpochs) <= MaxRows, NEW L \in Listings
  PROVE  L = Rows
<1>1. OpenEpochs \in SUBSET Tap /\ Rows \in SUBSET OpenEpochs /\ Rows \in SUBSET Tap
  BY DEF OpenEpochs, Rows, ListedAt
<1>2. Cardinality(OpenEpochs) \in Nat /\ Cardinality(Rows) \in Nat  BY <1>1, TapsCounted
<1>3. Cardinality(Rows) <= Cardinality(OpenEpochs)  BY <1>1, FewerTaps
<1>4. /\ L \in SUBSET Rows
      /\ Cardinality(L) = IF Cardinality(Rows) < MaxRows THEN Cardinality(Rows) ELSE MaxRows
  BY DEF Listings
<1>5. Cardinality(L) = Cardinality(Rows)  BY <1>2, <1>3, <1>4, Constants
<1> QED BY <1>1, <1>4, <1>5, FewerTaps

(* processDue stops after 500 turns and looks at 500 rows at a time, yet, with *)
(* no more than MaxRows epochs open and two turns for each, it leaves no       *)
(* candidate and no pour that was overdue by the clock it was called with.     *)
(* Every turn moves one epoch and moves none back, so Left falls: when the     *)
(* turns are used up nothing is pending, and otherwise the listing was whole.  *)
THEOREM NoneLeftOverdue == Spec => NothingOverdue
<1> DEFINE A == pass # None /\ pass' = None /\ WithinReach =>
                  \A t \in Tap :
                    /\ det[t].phase = "candidate" => det[t].deadline > pass
                    /\ det[t].phase = "pouring" =>
                         det[t].timeout > pass /\ Rests(det[t], samples[t], pass) = {}
<1>1. IInv /\ TurnsInv /\ [Next]_vars => [A]_vars
  <2> SUFFICES ASSUME IInv, TurnsInv, Next, pass # None, pass' = None, WithinReach,
                      NEW t \in Tap
               PROVE  /\ det[t].phase = "candidate" => det[t].deadline > pass
                      /\ det[t].phase = "pouring" =>
                           det[t].timeout > pass /\ Rests(det[t], samples[t], pass) = {}
    OBVIOUS
  <2>1. turns = MaxTurns \/ \E L \in Listings : DueTaps(L) = {}
    BY DEF Next, EndPass, OpenEpoch, CloseEpoch, ReopenEpoch, ReplaceGroupMembers,
           IgnoredSample, InvalidSample, ValidSample, Acceptable, StartPass, ProcessNext, Tick
  <2>2. /\ det[t].phase = "candidate" => det[t].deadline \in Int
        /\ det[t].phase = "pouring" => det[t].timeout \in Int
        /\ pass \in Int
    <3>1. Consistent(det[t], after[t]) /\ pass \in Int
      BY WorkIs, Constants DEF IInv, Rest, Sound, Time, None
    <3> QED BY <3>1, Constants DEF Consistent, Detector, Moment, None
  <2>3. SUFFICES ~(t \in Rows /\ Due(t) # None)
    BY <2>2, OverdueIsListed
  <2>4. CASE turns = MaxTurns
    <3>1. /\ turns + Left(det) <= 2 * Cardinality(OpenEpochs)
          /\ 2 * Cardinality(OpenEpochs) <= MaxTurns
      BY DEF TurnsInv, WithinReach
    <3>2. Left(det) = 0  BY <2>4, <3>1, LeftWithin, Constants
    <3>3. det[t].phase \notin {"candidate", "pouring"}
      BY <3>2, LeftWithin DEF Pending
    <3> QED BY <3>3 DEF Rows, ListedAt
  <2>5. CASE \E L \in Listings : DueTaps(L) = {}
    <3>1. PICK L \in Listings : DueTaps(L) = {}  BY <2>5
    <3>2. L = Rows  BY NothingCutOff DEF WithinReach
    <3> QED BY <3>1, <3>2 DEF DueTaps
  <2> QED BY <2>1, <2>4, <2>5
<1> QED BY <1>1, TurnsInductive, PTL DEF Spec, NothingOverdue
===============================================================================
