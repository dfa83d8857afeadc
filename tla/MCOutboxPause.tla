----------------------------- MODULE MCOutboxPause -----------------------------
(* One delivery, two ticks of backoff: enough to see what a pause preserves. *)
EXTENDS OutboxPause

CONSTANTS e1, d1, w

MCEvent == {e1}
MCDestination == {d1}
MCOwner == {w}
===============================================================================
