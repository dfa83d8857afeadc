--------------------------- MODULE MCOutboundWorker ---------------------------
(***************************************************************************)
(* Instances of OutboundWorker for TLC.  `focus` says which destinations   *)
(* are used: three without probes, one delivery each, or the one Home      *)
(* Assistant with changing versions and credentials.                       *)
(***************************************************************************)
EXTENDS OutboundWorker, TLC

CONSTANTS x1, x2, x3, x4, d1, d2, d3, d4

VARIABLE focus

MaxProbes == 2

(* One delivery for each of four destinations. *)
Four == (x1 :> d1) @@ (x2 :> d2) @@ (x3 :> d3) @@ (x4 :> d4)

(* The pairs of a delivery and its destination can be exchanged. *)
OwnerOf(d) == CHOOSE x \in Delivery : DestinationOf[x] = d
Pairs == {x1, x2, x3}
PairsExchanged ==
  {[v \in Pairs \cup {d1, d2, d3} |->
      IF v \in Pairs THEN p[v] ELSE DestinationOf[p[OwnerOf(v)]]] : p \in Permutations(Pairs)}

MCInit ==
  \/ focus = "sends" /\ InitWith({d1, d2, d3})
  \/ focus = "evidence" /\ InitWith({d4})
MCNext ==
  /\ UNCHANGED focus /\ Next
  /\ focus = "sends" => UNCHANGED <<version, credential, secrets>>
  /\ Cardinality(probes') <= MaxProbes
MCSpec == MCInit /\ [][MCNext]_<<vars, focus>>
===============================================================================
