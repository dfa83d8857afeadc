------------------------- MODULE MCTelemetryIngestion -------------------------
(***************************************************************************)
(* TelemetryIngestion for TLC.  `focus` says what varies: retries, alone   *)
(* or in batches, under horizons that change, with receipts kept one       *)
(* future skew longer than the longest; or the order of what is accepted,  *)
(* with assignments, receipts that go early and single samples that need   *)
(* no identity of their own.                                               *)
(***************************************************************************)
EXTENDS TelemetryIngestion

CONSTANTS s1, c1, t1, v1, v2

VARIABLE focus

Mixed == {[id |-> c1, tap |-> t1, at |-> 1, value |-> v] : v \in {v1, v2}}
           \cup {[id |-> NoClientId, tap |-> t1, at |-> a, value |-> v1] : a \in 1 .. 2}
Set(h, s, raw, r) == [horizon |-> h, skew |-> s, raw |-> raw, receipts |-> r]
Covering == Set(1, 1, 1, 2)
Narrow == Set(0, 0, 0, 2)
Short == Set(1, 0, 0, 1)
Long == Set(2, 0, 1, 2)
MCSettings == {Covering, Narrow, Short, Long}
Scope == [retries |-> {Covering, Narrow}, order |-> {Short, Long}]

MCInit == focus \in DOMAIN Scope /\ Init /\ settings \in Scope[focus]
MCNext ==
  /\ UNCHANGED focus /\ Next /\ settings' \in Scope[focus]
  /\ focus = "retries" => /\ \A x \in tx'.todo : x.id # NoClientId \/ x.at = 2
                          /\ assignments' = <<>>
  /\ focus = "order" => /\ \A x \in tx'.todo : x.id = NoClientId
                        /\ Cardinality(tx'.todo) <= 1 /\ retired' = {}
MCSpec == MCInit /\ [][MCNext]_<<vars, focus>>
=============================================================================
