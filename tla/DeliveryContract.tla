--------------------------- MODULE DeliveryContract ---------------------------
(***************************************************************************)
(* What the outbox promises of each delivery, without leases, clocks or    *)
(* attempts.  A delivery admitted while its destination is live is owed;   *)
(* it is delivered, or given up, only while the destination is live; a     *)
(* failed one may be owed again or dropped by the operator; delivered and  *)
(* dropped are final; an owed delivery disappears only when a newer event  *)
(* is admitted for the same destinations in the same step; a retired       *)
(* destination never owes anything again.                                  *)
(***************************************************************************)
CONSTANTS Event, Destination

VARIABLES status, mode

contractVars == <<status, mode>>
Delivery == Event \X Destination

Status == {"none", "owed", "delivered", "failed", "dropped", "superseded"}
Mode == {"live", "paused", "retired"}

ContractTypeOK ==
  /\ status \in [Delivery -> Status]
  /\ mode \in [Destination -> Mode]

ContractInit ==
  /\ status = [x \in Delivery |-> "none"]
  /\ mode = [d \in Destination |-> "live"]

Moves(x, from, to) == status[x] = from /\ status'[x] = to

Admitted(x) == Moves(x, "none", "owed") /\ mode'[x[2]] = "live"
Delivered(x) == Moves(x, "owed", "delivered") /\ mode[x[2]] = "live"
GivenUp(x) == Moves(x, "owed", "failed") /\ mode[x[2]] = "live"
Reopened(x) == Moves(x, "failed", "owed") /\ mode[x[2]] # "retired"
Dropped(x) ==
  /\ status[x] \in {"owed", "failed"} /\ status'[x] = "dropped"
  /\ mode[x[2]] # "retired"

(* A newer event is admitted for exactly the destinations that lose this one. *)
Replaced(x) == Moves(x, "owed", "superseded")
Superseded(x) ==
  /\ Replaced(x)
  /\ \E e \in Event :
       \A d \in Destination : Replaced(<<x[1], d>>) <=> Admitted(<<e, d>>)

ContractNext ==
  /\ \A x \in Delivery :
       \/ status'[x] = status[x]
       \/ Admitted(x) \/ Delivered(x) \/ GivenUp(x) \/ Reopened(x) \/ Dropped(x)
       \/ Superseded(x)
  /\ \A x, y \in {z \in Delivery : Delivered(z)} : x = y
  /\ \A d \in Destination : mode[d] = "retired" => mode'[d] = "retired"

ContractSpec == ContractInit /\ [][ContractNext]_contractVars
===============================================================================
