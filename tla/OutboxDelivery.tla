---------------------------- MODULE OutboxDelivery ----------------------------
(***************************************************************************)
(* The delivery half of the transactional outbox                           *)
(* (src/features/outbox/repository.ts) with the destination lifecycle      *)
(* writes of src/features/outbound/repository.ts and service.ts.           *)
(*                                                                         *)
(* One row of outbound_deliveries per <<event, destination>> (the schema   *)
(* makes that pair unique).  Every action is one BEGIN IMMEDIATE           *)
(* transaction of the code; `claims` holds the claims handed to workers    *)
(* whose result has not come back, including those whose lease has long    *)
(* expired.                                                                *)
(***************************************************************************)
EXTENDS Integers, FiniteSets

CONSTANTS
  Event, Destination, \* identities of outbound events and logical destinations
  Owner,              \* lease owners (worker names)
  MaxCycleAttempts,   \* MAX_CYCLE_ATTEMPTS
  FailureWindow,      \* ACTIVE_FAILURE_WINDOW_MS
  LeaseTtl,           \* ttlMs of claimDue
  BaseBackoff,        \* the 5 s first retry delay
  MaxRetryBackoff,    \* MAX_RETRY_BACKOFF_MS
  ClaimLimits,        \* values of claimDue's limit
  MaxTime, MaxRevision, MaxVersion  \* bounds on the clock and the counters

Null == -1
NoOwner == "none"
Delivery == Event \X Destination
DestinationOf(x) == x[2]

(* Backoff of a failed attempt: 5 s doubled per attempt of the cycle, capped. *)
RetryDelay(cycle) ==
  LET raw == BaseBackoff * 2 ^ (IF cycle > 0 THEN cycle - 1 ELSE 0)
  IN  IF raw < MaxRetryBackoff THEN raw ELSE MaxRetryBackoff

ASSUME ConstantsAssumption ==
  /\ MaxCycleAttempts \in Nat \ {0}
  /\ FailureWindow \in Nat /\ LeaseTtl \in Nat \ {0}
  /\ MaxTime \in Nat /\ MaxRevision \in Nat /\ MaxVersion \in Nat
  /\ ClaimLimits \subseteq Nat \ {0}
  /\ NoOwner \notin Owner
ASSUME BackoffAssumption ==
  \A cycle \in 0 .. MaxCycleAttempts : RetryDelay(cycle) \in Nat \ {0}

VARIABLES
  row,         \* outbound_deliveries; kept = FALSE: not inserted, or deleted
  enabled,     \* outbound_destinations.enabled
  disabledAt,  \* outbound_destination_profiles.disabled_at
  retired,     \* retired_at IS NOT NULL
  version,     \* version_number of current_version_id
  originSince, \* first version at the present transport and origin
  claims,      \* DeliveryClaims whose result is outstanding
  now          \* wall clock

destinationVars == <<enabled, disabledAt, retired, version, originSince>>
vars == <<row, destinationVars, claims, now>>

Unfinished == {"pending", "retry", "leased"}
Final == {"succeeded", "dismissed"}
Ended == Final \cup {"terminal"}
State == {"none", "superseded"} \cup Unfinished \cup Ended

Row == [state : State, kept : BOOLEAN, version : Nat, attempts : Nat, cycle : Nat,
        nextAt : Nat, owner : Owner \cup {NoOwner}, leaseUntil : Nat \cup {Null},
        revision : Nat, failStart : Nat \cup {Null}, terminalAt : Nat \cup {Null}]
Claim == [delivery : Delivery, owner : Owner, revision : Nat]

TypeOK ==
  /\ row \in [Delivery -> Row]
  /\ enabled \in [Destination -> BOOLEAN]
  /\ disabledAt \in [Destination -> Nat \cup {Null}]
  /\ retired \in [Destination -> BOOLEAN]
  /\ version \in [Destination -> Nat]
  /\ originSince \in [Destination -> Nat]
  /\ claims \subseteq Claim
  /\ now \in Nat

Absent == [state |-> "none", kept |-> FALSE, version |-> 0, attempts |-> 0, cycle |-> 0,
           nextAt |-> 0, owner |-> NoOwner, leaseUntil |-> Null, revision |-> 0,
           failStart |-> Null, terminalAt |-> Null]
Deleted(state) == [Absent EXCEPT !.state = state] \* remembers how it ended

Init ==
  /\ row = [x \in Delivery |-> Absent]
  /\ enabled = [d \in Destination |-> TRUE]
  /\ disabledAt = [d \in Destination |-> Null]
  /\ retired = [d \in Destination |-> FALSE]
  /\ version = [d \in Destination |-> 1]
  /\ originSince = [d \in Destination |-> 1]
  /\ claims = {}
  /\ now = 0

-------------------------------------------------------------------------------
(* Row updates *)

Unleased(r) == [r EXCEPT !.owner = NoOwner, !.leaseUntil = Null,
                         !.revision = @ + 1]
Closed(r, state) == [Unleased(r) EXCEPT !.state = state, !.terminalAt = now]
LeasedSameRevision(r, owner) == \* mutant: the claim does not move the revision
  [r EXCEPT !.state = "leased", !.attempts = @ + 1, !.cycle = @ + 1,
            !.owner = owner, !.leaseUntil = now + LeaseTtl]
Leased(r, owner) ==
  [r EXCEPT !.state = "leased", !.attempts = @ + 1, !.cycle = @ + 1,
            !.revision = @ + 1, !.owner = owner, !.leaseUntil = now + LeaseTtl]
Requeued(r) == [Unleased(r) EXCEPT !.state = "retry", !.nextAt = now]
Revived(r) ==
  [Requeued(r) EXCEPT !.cycle = 0, !.failStart = Null, !.terminalAt = Null]

(* pauseDestinationDeliveries *)
Paused(r) ==
  IF r.state \in Unfinished
  THEN [Unleased(r) EXCEPT !.state = IF @ = "leased" THEN "retry" ELSE @,
                           !.nextAt = now]
  ELSE r

(* dismissDestinationDeliveries *)
Dismissed(r) == IF r.state \in Unfinished THEN Closed(r, "dismissed") ELSE r

(* dismissDestinationDeliveries and dismissFailedDestinationDeliveries *)
DismissedKeepingFailed(r) == Dismissed(r) \* mutant
DismissedForMove(r) ==
  IF r.state = "terminal" /\ r.kept THEN [r EXCEPT !.state = "dismissed", !.revision = @ + 1]
                          ELSE Dismissed(r)

(* shiftDestinationDeliveries: both clocks move past the disabled interval *)
Earlier(t, start) == (IF t > start THEN t ELSE start) - (now - start) \* mutant
Later(t, start) == (IF t > start THEN t ELSE start) + (now - start)
Shifted(r, start) ==
  IF r.state \in {"pending", "retry"} /\ start # Null
  THEN [r EXCEPT !.nextAt = Later(@, start),
                 !.failStart = IF @ = Null THEN Null ELSE Later(@, start)]
  ELSE r

(* Apply an update to every delivery of one destination. *)
OfDestination(d, Update(_)) ==
  [x \in Delivery |-> IF DestinationOf(x) = d THEN Update(row[x]) ELSE row[x]]

RevisionBound == \A x \in Delivery : row[x].revision < MaxRevision

-------------------------------------------------------------------------------
(* mutateAndAdmit: inside the transaction of a business change, one pending   *)
(* delivery per subscribed live destination.  It may first delete ended rows  *)
(* to make room and replace an older event of the same kind and targets that  *)
(* nobody has attempted; without room nothing is queued.  Which destinations  *)
(* subscribe, what counts as the same kind and how much fits is left open     *)
(* here (OutboxAdmission has the quotas).  `rows` is the table after the      *)
(* change that the event reports.                                             *)

Live(d) == enabled[d] /\ ~retired[d] /\ disabledAt[d] = Null

Queued(d) == [Absent EXCEPT !.state = "pending", !.kept = TRUE, !.nextAt = now, !.version = version'[d]]
Prunable(rows) == {x \in Delivery : rows[x].kept /\ rows[x].state \in Ended}
Unused(e) == \A d \in Destination : row[<<e, d>>].state = "none"
CoalescibleAnyTarget(rows, old, targets) == \* mutant
  \A d \in Destination : rows[<<old, d>>].kept => rows[<<old, d>>].state = "pending"
Coalescible(rows, old, targets) ==
  /\ {d \in Destination : rows[<<old, d>>].kept} = targets
  /\ \A d \in targets : /\ rows[<<old, d>>].state = "pending"
                        /\ rows[<<old, d>>].version = version'[d]

Pruned(rows, S) == [x \in Delivery |-> IF x \in S THEN Deleted(rows[x].state) ELSE rows[x]]
Superseded(rows, old) ==
  [x \in Delivery |-> IF x[1] = old /\ rows[x].kept THEN Deleted("superseded") ELSE rows[x]]
Inserted(rows, e, targets) ==
  [x \in Delivery |-> IF x[1] = e /\ DestinationOf(x) \in targets THEN Queued(DestinationOf(x))
                      ELSE rows[x]]

AdmitInto(rows) ==
  \/ row' = rows                                     \* nothing to report, or no target
  \/ \E S \in SUBSET Prunable(rows) : row' = Pruned(rows, S) \* not_queued_capacity
  \/ \E e \in Event, targets \in SUBSET {d \in Destination : Live(d)'},
        S \in SUBSET Prunable(rows) :
       /\ targets # {} /\ Unused(e)
       /\ \/ row' = Inserted(Pruned(rows, S), e, targets)
          \/ \E old \in Event \ {e} :
               /\ Coalescible(Pruned(rows, S), old, targets)
               /\ row' = Inserted(Superseded(Pruned(rows, S), old), e, targets)

Admit ==
  /\ UNCHANGED <<destinationVars, claims, now>>
  /\ AdmitInto(row)

(* pruneTerminalOutbox; its cutoff and order are OutboxAdmission's subject *)
PruneTerminal ==
  /\ \E pruned \in SUBSET Prunable(row) \ {{}} :
       row' = Pruned(row, pruned)
  /\ UNCHANGED <<destinationVars, claims, now>>

-------------------------------------------------------------------------------
(* claimDue *)

LeaseExpired(x) == row[x].state = "leased" /\ row[x].leaseUntil <= now
LeaseLive(x) == row[x].state = "leased" /\ row[x].leaseUntil > now
WindowElapsed(failStart) == failStart # Null /\ failStart <= now - FailureWindow

Exhausted ==
  {x \in Delivery :
     /\ enabled[DestinationOf(x)]
     /\ row[x].state = "retry" \/ LeaseExpired(x)
     /\ row[x].cycle >= MaxCycleAttempts \/ WindowElapsed(row[x].failStart)}

DueAt == [x \in Delivery |-> IF row[x].state = "leased" THEN row[x].leaseUntil
                                                        ELSE row[x].nextAt]
Due(x) == \/ row[x].state \in {"pending", "retry"} /\ row[x].nextAt <= now
          \/ LeaseExpired(x)
DestinationBusy(x) ==
  \E y \in Delivery \ {x} : DestinationOf(y) = DestinationOf(x) /\ LeaseLive(y)

Claimable ==
  {x \in Delivery :
     /\ enabled[DestinationOf(x)]
     /\ row[x].cycle < MaxCycleAttempts
     /\ Due(x) /\ ~DestinationBusy(x)}

(* ORDER BY due LIMIT n; rows with equal due times are ordered by random id. *)
Earliest(S, n) ==
  {T \in SUBSET S :
     /\ Cardinality(T) = IF Cardinality(S) < n THEN Cardinality(S) ELSE n
     /\ \A t \in T, u \in S \ T : DueAt[t] <= DueAt[u]}

(* destination_rank = 1: the first due row of each destination *)
FirstPerDestination(S) ==
  {R \in SUBSET S :
     /\ \A x \in S : \E y \in R : DestinationOf(y) = DestinationOf(x)
     /\ \A y \in R, x \in S : DestinationOf(x) = DestinationOf(y) =>
          /\ DueAt[y] <= DueAt[x]
          /\ x \in R => x = y}

ClaimDue(owner, limit) ==
  /\ RevisionBound
  /\ \E T \in Earliest(Exhausted, limit) :
     \E R \in FirstPerDestination(Claimable \ T) :
     \E C \in Earliest(R, limit) :
       /\ row' = [x \in Delivery |->
                    IF x \in T THEN Closed(row[x], "terminal")
                    ELSE IF x \in C THEN Leased(row[x], owner) ELSE row[x]]
       /\ claims' = claims \cup
            {[delivery |-> x, owner |-> owner, revision |-> row[x].revision + 1] : x \in C}
  /\ UNCHANGED <<destinationVars, now>>

-------------------------------------------------------------------------------
(* applyDeliveryResult, releaseClaim and the loss of a worker *)

HoldsAnyRevision(c) == \* mutant
  row[c.delivery].state = "leased" /\ row[c.delivery].owner = c.owner
Holds(c) ==
  /\ row[c.delivery].state = "leased"
  /\ row[c.delivery].owner = c.owner
  /\ row[c.delivery].revision = c.revision

Outcome == {"success", "retry", "permanent"}

(* "failure" is handled exactly as "retry" *)
Settled(r, outcome) ==
  LET failStart == IF r.failStart = Null THEN now ELSE r.failStart
      givenUp == \/ outcome = "permanent"
                 \/ r.cycle >= MaxCycleAttempts
                 \/ WindowElapsed(failStart)
  IN  IF outcome = "success" THEN Closed(r, "succeeded")
      ELSE IF givenUp THEN [Closed(r, "terminal") EXCEPT !.failStart = failStart]
      ELSE [Unleased(r) EXCEPT !.state = "retry", !.failStart = failStart,
                               !.nextAt = now + RetryDelay(r.cycle)]

Applies(c) == Holds(c) /\ row[c.delivery].leaseUntil > now

(* A result that changes the connection state is itself an admitted event; a  *)
(* result that does not apply reports nothing.                                *)
ApplyDeliveryResult(c, outcome) ==
  /\ c \in claims
  /\ claims' = claims \ {c}
  /\ UNCHANGED <<destinationVars, now>>
  /\ \/ Applies(c) /\ AdmitInto([row EXCEPT ![c.delivery] = Settled(@, outcome)])
     \/ ~Applies(c) /\ UNCHANGED row

(* The worker hands a claim back unsent; an expired lease may be released too. *)
ReleaseClaim(c) ==
  /\ c \in claims
  /\ row' = [row EXCEPT ![c.delivery] = IF Holds(c) THEN Requeued(@) ELSE @]
  /\ claims' = claims \ {c}
  /\ UNCHANGED <<destinationVars, now>>

(* Stop or crash: the result of a claim will never be reported. *)
LoseClaim(c) ==
  /\ c \in claims
  /\ claims' = claims \ {c}
  /\ UNCHANGED <<row, destinationVars, now>>

-------------------------------------------------------------------------------
(* Operator commands of OutboundService *)

Retriable(x) == row[x].kept /\ row[x].state = "terminal"

RetryDelivery(x) ==
  /\ RevisionBound
  /\ ~retired[DestinationOf(x)] /\ Retriable(x)
  /\ row' = [row EXCEPT ![x] = Revived(@)]
  /\ UNCHANGED <<destinationVars, claims, now>>

DismissDelivery(x) ==
  /\ ~retired[DestinationOf(x)] /\ Retriable(x)
  /\ row' = [row EXCEPT ![x] = [Unleased(@) EXCEPT !.state = "dismissed"]]
  /\ UNCHANGED <<destinationVars, claims, now>>

(* coalesce(disabled_at, now) *)
DisabledSince(d) == IF disabledAt[d] = Null THEN now ELSE disabledAt[d]

(* Switching off (operator, lost token or header secret, removed header slot) *)
(* and switching on; one edit of the Admin form may do both in turn.          *)
Switched(r, d, off, on) ==
  LET paused == IF off THEN Paused(r) ELSE r
      since == IF off THEN DisabledSince(d) ELSE disabledAt[d]
  IN  IF on THEN Shifted(paused, since) ELSE paused

SwitchTo(d, off, on) ==
  /\ RevisionBound
  /\ ~retired[d]
  /\ enabled' = [enabled EXCEPT ![d] = IF on THEN TRUE ELSE IF off THEN FALSE ELSE @]
  /\ disabledAt' = [disabledAt EXCEPT ![d] = IF on THEN Null
                                             ELSE IF off THEN DisabledSince(d) ELSE @]
  /\ UNCHANGED <<retired, originSince, claims, now>>

Disable(d) ==
  /\ SwitchTo(d, TRUE, FALSE)
  /\ UNCHANGED version
  /\ AdmitInto(OfDestination(d, LAMBDA r : Switched(r, d, TRUE, FALSE)))

Enable(d) ==
  /\ SwitchTo(d, FALSE, TRUE)
  /\ UNCHANGED version
  /\ AdmitInto(OfDestination(d, LAMBDA r : Switched(r, d, FALSE, TRUE)))

(* An edit at the same origin appends a version. *)
EditConfiguration(d, off, on) ==
  /\ version[d] < MaxVersion
  /\ SwitchTo(d, off, on)
  /\ version' = [version EXCEPT ![d] = @ + 1]
  /\ AdmitInto(OfDestination(d, LAMBDA r : Switched(r, d, off, on)))

(* An edit that changes transport or origin; the same transaction may store   *)
(* new credentials and leave the destination enabled.                         *)
MoveOrigin(d, enabledAfter) ==
  /\ RevisionBound
  /\ ~retired[d] /\ version[d] < MaxVersion
  /\ version' = [version EXCEPT ![d] = @ + 1]
  /\ originSince' = [originSince EXCEPT ![d] = version[d] + 1]
  /\ enabled' = [enabled EXCEPT ![d] = enabledAfter]
  /\ disabledAt' = [disabledAt EXCEPT ![d] = IF enabledAfter THEN Null ELSE DisabledSince(d)]
  /\ UNCHANGED <<retired, claims, now>>
  /\ AdmitInto(OfDestination(d, DismissedForMove))

Retire(d) ==
  /\ RevisionBound
  /\ ~retired[d]
  /\ enabled' = [enabled EXCEPT ![d] = FALSE]
  /\ disabledAt' = [disabledAt EXCEPT ![d] = DisabledSince(d)]
  /\ retired' = [retired EXCEPT ![d] = TRUE]
  /\ UNCHANGED <<version, originSince, claims, now>>
  /\ AdmitInto(OfDestination(d, Dismissed))

Tick ==
  /\ now < MaxTime
  /\ now' = now + 1
  /\ UNCHANGED <<row, destinationVars, claims>>

Next ==
  \/ Admit \/ PruneTerminal
  \/ \E owner \in Owner, limit \in ClaimLimits : ClaimDue(owner, limit)
  \/ \E c \in claims, outcome \in Outcome : ApplyDeliveryResult(c, outcome)
  \/ \E c \in claims : ReleaseClaim(c) \/ LoseClaim(c)
  \/ \E x \in Delivery : RetryDelivery(x) \/ DismissDelivery(x)
  \/ \E d \in Destination : Disable(d) \/ Enable(d) \/ Retire(d)
  \/ \E d \in Destination, off, on \in BOOLEAN : EditConfiguration(d, off, on)
  \/ \E d \in Destination, enabledAfter \in BOOLEAN : MoveOrigin(d, enabledAfter)
  \/ Tick

Spec == Init /\ [][Next]_vars

-------------------------------------------------------------------------------
(* Properties *)

(* The CHECK constraints of outbound_deliveries hold for every row that the   *)
(* transactions above can leave behind, so none of them ever rolls back on a  *)
(* constraint: lease columns exactly on leased rows, terminal_at exactly on   *)
(* ended rows, a pending row never attempted, no more attempts in a cycle      *)
(* than MAX_CYCLE_ATTEMPTS, whatever LIMIT the sweep of exhausted rows had     *)
(* (schema of migration 19).                                                   *)
RowsWellFormed ==
  \A x \in Delivery :
    /\ (row[x].owner # NoOwner) <=> (row[x].state = "leased")
    /\ (row[x].leaseUntil # Null) <=> (row[x].state = "leased")
    /\ row[x].kept => (row[x].terminalAt # Null) <=> (row[x].state \in Ended)
    /\ row[x].state = "pending" => row[x].cycle = 0 /\ row[x].failStart = Null
    /\ row[x].cycle <= row[x].attempts /\ row[x].cycle <= MaxCycleAttempts

(* ADR 0007: at most one unexpired in-flight claim per logical destination,   *)
(* whatever claimDue, disabling and re-enabling do to each other's leases.    *)
OneLiveLease ==
  \A x, y \in Delivery :
    DestinationOf(x) = DestinationOf(y) /\ LeaseLive(x) /\ LeaseLive(y) => x = y

(* No delivery is leased for a destination that is switched off: every path   *)
(* that disables (operator, lost secret, removed header slot, new origin)     *)
(* takes the lease back in the same transaction.                              *)
NoLeaseWhileDisabled ==
  \A x \in Delivery : row[x].state = "leased" => enabled[DestinationOf(x)]

(* A retired destination is off for good and owes nothing: retirement         *)
(* dismisses its queue and nothing queues or revives a delivery afterwards.   *)
RetiredHasNoWork ==
  \A x \in Delivery :
    retired[DestinationOf(x)] =>
      ~enabled[DestinationOf(x)] /\ row[x].state \notin Unfinished

(* Secrets never follow a destination to a new origin: a delivery that is     *)
(* queued, or failed and still open to Retry, was admitted for a version at   *)
(* the present transport and origin (edit of OutboundService).                *)
ResendableMatchesOrigin ==
  \A x \in Delivery :
    row[x].kept /\ row[x].state \in Unfinished \cup {"terminal"} =>
      originSince[DestinationOf(x)] <= row[x].version

(* At most one outstanding claim of a delivery can still settle it, and its   *)
(* revision is the newest one given out for that delivery.                    *)
NewestClaimHolds ==
  \A b, c \in claims :
    b.delivery = c.delivery /\ Holds(c) => b.revision <= c.revision /\ (Holds(b) => b = c)

(* What a destination may have under way: one lease, none while it is         *)
(* switched off, nothing once retired, nothing queued for an earlier origin.  *)
DestinationsSound ==
  OneLiveLease /\ NoLeaseWhileDisabled /\ RetiredHasNoWork /\ ResendableMatchesOrigin

(* Rows the schema accepts, and one claim of a row that can settle it.        *)
ClaimsSound == RowsWellFormed /\ NewestClaimHolds

(* A result reported for a claim after a newer claim of the same delivery was *)
(* given out leaves that delivery as it is.                                   *)
SupersededResultIgnored ==
  [][\A b, c \in claims :
       /\ claims' = claims \ {b}
       /\ c.delivery = b.delivery /\ c.revision > b.revision
       => row'[b.delivery] = row[b.delivery]]_vars

-------------------------------------------------------------------------------
(* Refinement of DeliveryContract *)

StatusOf(r) ==
  CASE r.state \in {"none", "superseded"} -> r.state
    [] r.state \in Unfinished -> "owed"
    [] r.state = "succeeded" -> "delivered"
    [] r.state = "terminal" -> "failed"
    [] r.state = "dismissed" -> "dropped"

ContractStatus == [x \in Delivery |-> StatusOf(row[x])]
ContractMode ==
  [d \in Destination |-> IF retired[d] THEN "retired"
                         ELSE IF enabled[d] THEN "live" ELSE "paused"]

Contract == INSTANCE DeliveryContract WITH status <- ContractStatus, mode <- ContractMode

(* Every history of outbox rows, leases and destination switches is one the   *)
(* contract allows; above all, nothing is delivered or given up while its     *)
(* destination is paused or retired.                                          *)
ImplementsContract == Contract!ContractSpec
===============================================================================
