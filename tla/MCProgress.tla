------------------------------ MODULE MCProgress ------------------------------
(***************************************************************************)
(* What must come to an end: the deliveries of the outbound worker, and    *)
(* the catching up of a dashboard with the server.  `focus` says which     *)
(* moves; only that one is treated fairly.                                 *)
(***************************************************************************)
EXTENDS OutboundWorker, LiveUpdates

CONSTANTS x1, x2, d1

VARIABLE focus
progressVars == <<vars, liveVars, focus>>

(* Two deliveries of one destination. *)
Shared == [x \in {x1, x2} |-> d1]

(* A Tap's card and the header; the header is also what the page asks for at once. *)
TwoEvents == [e \in {"card", "status"} |->
                IF e = "card" THEN <<"tap", "header">> ELSE <<"header">>]

MCInit == focus \in {"worker", "live"} /\ Init /\ LiveInit
MCNext ==
  /\ UNCHANGED focus
  /\ \/ focus = "worker" /\ Next /\ UNCHANGED liveVars
     \/ focus = "live" /\ LiveNext /\ published'["tap"] <= 1 /\ UNCHANGED vars

Worker == focus = "worker"
WorkerFairness ==
  /\ WF_vars(Worker /\ Poll) /\ WF_vars(Worker /\ Start)
  /\ WF_vars(Worker /\ SendEnds) /\ WF_vars(Worker /\ TaskProbeSettles)
  /\ \A x \in Delivery : WF_vars(Worker /\ LeaseExpires(x)) /\ WF_vars(Worker /\ BackoffElapses(x))
Live == focus = "live"
LiveFairness ==
  /\ WF_liveVars(Live /\ StreamProgress) /\ WF_liveVars(Live /\ SnapshotProgress)
  /\ WF_liveVars(Live /\ \E t \in Target : FetchProgress(t))
MCSpec == MCInit /\ [][MCNext]_progressVars /\ WorkerFairness /\ LiveFairness
===============================================================================
