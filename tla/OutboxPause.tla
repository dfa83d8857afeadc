------------------------------ MODULE OutboxPause ------------------------------
(***************************************************************************)
(* OutboxDelivery with two history variables that remember, for a delivery *)
(* waiting to be retried when its destination is switched off, how long it *)
(* still had to wait and how much of its failure window was spent.  Used   *)
(* to compare the code with what ADR 0007 says of disabling.               *)
(***************************************************************************)
EXTENDS OutboxDelivery

VARIABLES
  waitLeft,    \* next_attempt_at - now at the moment of disabling, or Null
  windowSpent  \* now - active_failure_started_at at that moment, or Null

pauseVars == <<vars, waitLeft, windowSpent>>

Unmarked == [x \in Delivery |-> Null]
PauseInit == Init /\ waitLeft = Unmarked /\ windowSpent = Unmarked

SwitchedOff(d) == enabled[d] /\ ~enabled'[d]

(* The marks of a delivery live as long as its destination stays off and the *)
(* delivery stays in its retry state.                                        *)
Marked(mark, value(_)) ==
  [x \in Delivery |->
     IF row[x].state # "retry" \/ row'[x].state # "retry" \/ enabled'[DestinationOf(x)]
     THEN Null
     ELSE IF SwitchedOff(DestinationOf(x)) THEN value(x) ELSE mark[x]]

PauseNext ==
  /\ Next
  /\ waitLeft' = Marked(waitLeft, LAMBDA x : IF row[x].nextAt > now THEN row[x].nextAt - now
                                             ELSE Null)
  /\ windowSpent' = Marked(windowSpent, LAMBDA x : IF row[x].failStart = Null THEN Null
                                                   ELSE now - row[x].failStart)

PauseSpec == PauseInit /\ [][PauseNext]_pauseVars

SwitchedOn(x) == ~enabled[DestinationOf(x)] /\ enabled'[DestinationOf(x)]

(* After re-enabling, the delivery waits what was left of its backoff. *)
WaitKept(x) == waitLeft[x] # Null /\ row'[x].nextAt = now + waitLeft[x]

(* After re-enabling, as much of the failure window is spent as before. *)
WindowKept(x) == windowSpent[x] # Null /\ now - row'[x].failStart = windowSpent[x]

(* ADR 0007: "Disabling a destination pauses due and failure-window clocks,  *)
(* and re-enabling shifts them forward".  The weakest reading: re-enabling a *)
(* destination restores at least one of the two clocks of a delivery that    *)
(* was waiting to be retried.  A violation shows both clocks lost at once.   *)
ClocksPaused ==
  [][\A x \in Delivery :
       SwitchedOn(x) /\ waitLeft[x] # Null /\ windowSpent[x] # Null
         /\ row'[x].state = "retry"
       => WaitKept(x) \/ WindowKept(x)]_pauseVars
===============================================================================
