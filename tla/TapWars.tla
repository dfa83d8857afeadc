-------------------------------- MODULE TapWars --------------------------------
(***************************************************************************)
(* Tap Wars (src/features/tap-wars): two assignments compete for anonymous *)
(* votes.  A war is paused when a competitor leaves, never resumed by      *)
(* itself, and freezes its counters when it is stopped.  This module has   *)
(* the table and the service's operations; what other services do to a war *)
(* through hooks is stated as operators that House applies.                *)
(* Times, the reason of a pause and completion titles are left out.        *)
(***************************************************************************)
EXTENDS KegLine

CONSTANTS
  MaxWars,       \* bound: wars ever started
  MaxVotes       \* bound: votes of one side

ASSUME WarsAssumption == MaxWars \in Nat /\ MaxVotes \in Nat

War == 1..MaxWars
Side == {1, 2}

VARIABLE wars    \* tap_wars with its two tap_war_competitors

(* `named` says whether public_title_fallback is the name of the Beverage or   *)
(* the title of a mystery Tap; final is -1 until the count is frozen.          *)
WarRow ==
  [status : {"new", "active", "paused", "completed"}, dismissed : BOOLEAN,
   entry : [Side -> Assignment], named : [Side -> BOOLEAN],
   votes : [Side -> 0..MaxVotes], final : [Side -> -1..MaxVotes],
   result : {"none", "side1", "side2", "tie"}]

NewWar ==
  [status |-> "new", dismissed |-> FALSE, entry |-> [s \in Side |-> 1],
   named |-> [s \in Side |-> FALSE], votes |-> [s \in Side |-> 0],
   final |-> [s \in Side |-> -1], result |-> "none"]

WarsInit == wars = [w \in War |-> NewWar]

-------------------------------------------------------------------------------
Unfinished(w) == wars[w].status \in {"active", "paused"}   \* currentWar
Published(w) == wars[w].status = "completed" /\ ~wars[w].dismissed   \* publishedWar
Visible(w) == Unfinished(w) \/ Published(w)   \* getVisible

(* getEligibility, of the tables given *)
EligibleIn(tapRows, fillRows, asgRows, a) ==
  /\ asgRows[a].state = "open"
  /\ tapRows[asgRows[a].tap].enabled /\ ~tapRows[asgRows[a].tap].retired
  /\ fillRows[asgRows[a].fill].state = "active"
Eligible(a) == EligibleIn(taps, fills, assignments, a)
BothEligible(w) == \A s \in Side : Eligible(wars[w].entry[s])

Named(a) == ~assignments[a].mystery   \* getTitleForAssignment of an open assignment
PausedWar(w) == [wars EXCEPT ![w].status = "paused"]

MayStart(a, b) ==
  /\ ~\E w \in War : Unfinished(w)
  /\ Eligible(a) /\ Eligible(b) /\ assignments[a].tap # assignments[b].tap

Dismissed == [w \in War |-> IF Published(w) THEN [wars[w] EXCEPT !.dismissed = TRUE] ELSE wars[w]]

Start(a, b) ==
  /\ MayStart(a, b)
  /\ \E w \in War :
       /\ wars[w].status = "new" /\ \A v \in War : v < w => wars[v].status # "new"
       /\ wars' = [Dismissed EXCEPT ![w] =
                     [NewWar EXCEPT !.status = "active", !.entry = <<a, b>>,
                                    !.named = <<Named(a), Named(b)>>]]

CountedUnchecked(w, side) == [wars EXCEPT ![w].votes[side] = @ + 1] \* mutant
Counted(w, side) ==
  IF BothEligible(w) THEN [wars EXCEPT ![w].votes[side] = @ + 1] ELSE PausedWar(w)

Vote(w, side) ==
  /\ wars[w].status = "active" /\ wars[w].votes[side] < MaxVotes
  /\ wars' = Counted(w, side)

Resume(w) ==
  /\ wars[w].status = "paused" /\ BothEligible(w)
  /\ wars' = [wars EXCEPT ![w].status = "active"]

Outcome(votes) ==
  IF votes[1] = votes[2] THEN "tie" ELSE IF votes[1] > votes[2] THEN "side1" ELSE "side2"

Completed(w) ==   \* freezeWarVoteCount, completeWar
  [wars EXCEPT ![w].status = "completed", ![w].final = wars[w].votes,
               ![w].result = Outcome(wars[w].votes)]

Stop(w) == Unfinished(w) /\ wars' = Completed(w)

DismissPublicResult(w) == Published(w) /\ wars' = [wars EXCEPT ![w].dismissed = TRUE]

-------------------------------------------------------------------------------
(* What the hooks leave of the table *)

PausedIfIn(chosen) ==
  [w \in War |-> IF wars[w].status = "active" /\ \E s \in Side : wars[w].entry[s] \in chosen
                 THEN [wars[w] EXCEPT !.status = "paused"] ELSE wars[w]]

AfterClose(closing) == PausedIfIn(closing)   \* pauseForAssignmentClose
AfterUnavailable(t) ==   \* pauseForTapUnavailable
  [w \in War |-> IF /\ wars[w].status = "active"
                    /\ \E s \in Side : assignments[wars[w].entry[s]].tap = t
                 THEN [wars[w] EXCEPT !.status = "paused"] ELSE wars[w]]

(* reconcileEligibility, after a commit that left the tables given *)
AfterCommit(tapRows, fillRows, asgRows) ==
  PausedIfIn({a \in Assignment : ~EligibleIn(tapRows, fillRows, asgRows, a)})

(* refreshPublicTitleFallback for assignment a, now a mystery or not *)
TitlesNotRefreshed(a, mystery) == wars \* mutant
TitlesRefreshed(a, mystery) ==
  [w \in War |-> IF Visible(w)
     THEN [wars[w] EXCEPT !.named = [s \in Side |-> IF wars[w].entry[s] = a
                                                    THEN ~mystery ELSE wars[w].named[s]]]
     ELSE wars[w]]

-------------------------------------------------------------------------------
WarsTypeOK == wars \in [War -> WarRow]

(* At most one war is on display: unfinished, or a published result.  The      *)
(* hooks that pause a war or refresh its titles look at one war only and rely  *)
(* on it.                                                                      *)
OneVisibleWar == \A v, w \in War : Visible(v) /\ Visible(w) => v = w

(* What the public sees instead of a competitor's present title never names a  *)
(* Beverage that was a mystery when its assignment ended, or still is.         *)
TitlesSafe ==
  \A w \in War, s \in Side :
    Visible(w) /\ assignments[wars[w].entry[s]].mystery => ~wars[w].named[s]

(* Votes are counted one by one, only while the war is active and both         *)
(* original assignments can be poured; and what was completed keeps its        *)
(* competitors, frozen counts and result for good.                             *)
FairCount ==
  \A w \in War :
    /\ \A s \in Side :
         wars[w].status # "new" /\ wars'[w].votes[s] # wars[w].votes[s] =>
           /\ wars'[w].votes[s] = wars[w].votes[s] + 1
           /\ wars[w].status = "active" /\ BothEligible(w)
    /\ wars'[w].status = "completed" =>
         wars'[w].final = wars'[w].votes /\ wars'[w].result = Outcome(wars'[w].final)
    /\ wars[w].status = "completed" =>
         [wars'[w] EXCEPT !.dismissed = wars[w].dismissed, !.named = wars[w].named] = wars[w]
===============================================================================
