--------------------------- MODULE MCOutboxDelivery ---------------------------
(***************************************************************************)
(* OutboxDelivery on small instances, and its refinement of                *)
(* DeliveryContract.  `focus` says what varies: two deliveries of one      *)
(* destination, the other being retired, through time, attempts and edits; *)
(* or two destinations at one instant, with fan-out, coalescing, pruning.  *)
(***************************************************************************)
EXTENDS OutboxDelivery, TLC

CONSTANTS e1, e2, d1, d2, w

VARIABLE focus

MCEvent == {e1, e2}
MCDestination == {d1, d2}
MCOwner == {w}
MCSymmetry == Permutations({e1, e2})

MCInit == Init /\ focus \in {"queue", "fanout"}
MCNext ==
  /\ UNCHANGED focus
  /\ \/ focus = "queue" /\ IF retired[d2] THEN Next ELSE Retire(d2)
     \/ /\ focus = "fanout" /\ now = 0
        /\ IF \A x \in Delivery : row[x].revision < 2 THEN Next ELSE Admit \/ PruneTerminal
        /\ now' = 0 /\ \A d \in Destination : version'[d] = version[d]
MCSpec == MCInit /\ [][MCNext]_<<vars, focus>>
===============================================================================
