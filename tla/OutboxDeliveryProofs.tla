------------------------- MODULE OutboxDeliveryProofs -------------------------
(***************************************************************************)
(* Proofs about OutboxDelivery for every set of events, destinations and   *)
(* owners and every value of the limits.                                   *)
(***************************************************************************)
EXTENDS OutboxDelivery, TLAPS

(* The safety invariants, stated of any table `rows` and any destination      *)
(* switches, so that they can be asked of the table between the change a      *)
(* handler makes and the event it admits.                                     *)
LeasedIsEnabled(rows, on) ==
  \A x \in Delivery : rows[x].state = "leased" => on[DestinationOf(x)]
RetiredIsIdle(rows, gone) ==
  \A x \in Delivery : gone[DestinationOf(x)] => rows[x].state \notin Unfinished
SameOrigin(rows, since) ==
  \A x \in Delivery :
    rows[x].kept /\ rows[x].state \in Unfinished \cup {"terminal"} =>
      since[DestinationOf(x)] <= rows[x].version
SingleLease(rows, t) ==
  \A x, y \in Delivery :
    /\ DestinationOf(x) = DestinationOf(y)
    /\ rows[x].state = "leased" /\ rows[x].leaseUntil > t
    /\ rows[y].state = "leased" /\ rows[y].leaseUntil > t
    => x = y
RowsOK(rows, on, gone, since, t) ==
  /\ rows \in [Delivery -> Row]
  /\ LeasedIsEnabled(rows, on)
  /\ RetiredIsIdle(rows, gone)
  /\ SameOrigin(rows, since)
  /\ SingleLease(rows, t)

DestinationsOK ==
  /\ enabled \in [Destination -> BOOLEAN]
  /\ disabledAt \in [Destination -> Nat \cup {Null}]
  /\ retired \in [Destination -> BOOLEAN]
  /\ version \in [Destination -> Nat]
  /\ originSince \in [Destination -> Nat]
  /\ \A d \in Destination : retired[d] => ~enabled[d]
  /\ \A d \in Destination : originSince[d] <= version[d]

(* The inductive invariant.  RetiredHasNoWork is not inductive alone: a       *)
(* retired destination must also stay off, or claimDue could lease a row of   *)
(* it; ResendableMatchesOrigin needs originSince <= version for new rows.     *)
IInv ==
  /\ RowsOK(row, enabled, retired, originSince, now)
  /\ DestinationsOK
  /\ claims \subseteq Claim
  /\ now \in Nat

-------------------------------------------------------------------------------
(* Row updates keep the type of a row. *)

LEMMA UpdatesTyped ==
  ASSUME NEW r \in Row, now \in Nat, NEW start \in Nat \cup {Null}
  PROVE  /\ Unleased(r) \in Row /\ Closed(r, "terminal") \in Row
         /\ \A owner \in Owner : Leased(r, owner) \in Row
         /\ Requeued(r) \in Row /\ Revived(r) \in Row
         /\ Paused(r) \in Row /\ Dismissed(r) \in Row /\ DismissedForMove(r) \in Row
         /\ Shifted(r, start) \in Row
<1> USE DEF Row, State, Ended, Final, Unfinished, Null, NoOwner
<1>1. /\ r.revision + 1 \in Nat /\ r.cycle + 1 \in Nat /\ r.attempts + 1 \in Nat
      /\ now + LeaseTtl \in Nat
  BY ConstantsAssumption
<1>2. Unleased(r) \in Row
  BY <1>1 DEF Unleased
<1>3. Closed(r, "terminal") \in Row /\ Closed(r, "succeeded") \in Row /\ Closed(r, "dismissed") \in Row
  BY <1>1 DEF Closed, Unleased
<1>4. \A owner \in Owner : Leased(r, owner) \in Row
  BY <1>1 DEF Leased
<1>5. Requeued(r) \in Row
  BY <1>1 DEF Requeued, Unleased
<1>6. Revived(r) \in Row
  BY <1>1 DEF Revived, Requeued, Unleased
<1>7. Paused(r) \in Row
  BY <1>1 DEF Paused, Unleased
<1>8. Dismissed(r) \in Row
  BY <1>3 DEF Dismissed
<1>9. DismissedForMove(r) \in Row
  <2>1. [r EXCEPT !.state = "dismissed", !.revision = @ + 1] \in Row
    BY <1>1
  <2>2. \/ DismissedForMove(r) = [r EXCEPT !.state = "dismissed", !.revision = @ + 1]
        \/ DismissedForMove(r) = Dismissed(r)
    BY ONLY Zenon DEF DismissedForMove
  <2> QED
    BY ONLY <1>8, <2>1, <2>2, Zenon
<1>10. Shifted(r, start) \in Row
  <2>1. CASE start = Null
    BY <2>1 DEF Shifted
  <2>2. CASE start # Null
    <3>1. \A t \in Nat : Later(t, start) \in Nat
      BY <2>2 DEF Later
    <3>2. Later(r.nextAt, start) \in Nat
      BY <3>1
    <3>3. (IF r.failStart = Null THEN Null ELSE Later(r.failStart, start)) \in Nat \cup {Null}
      BY <3>1
    <3> QED
      BY <3>2, <3>3 DEF Shifted
  <2> QED
    BY <2>1, <2>2
<1> QED
  BY <1>2, <1>3, <1>4, <1>5, <1>6, <1>7, <1>8, <1>9, <1>10

(* What the updates do to the columns the invariants read. *)
LEMMA UpdateEffects ==
  ASSUME NEW r \in Row, now \in Nat
  PROVE  /\ Requeued(r) \in Row /\ Requeued(r).state = "retry"
         /\ Requeued(r).kept = r.kept /\ Requeued(r).version = r.version
         /\ Revived(r) \in Row /\ Revived(r).state = "retry"
         /\ Revived(r).kept = r.kept /\ Revived(r).version = r.version
         /\ [Unleased(r) EXCEPT !.state = "dismissed"] \in Row
         /\ [Unleased(r) EXCEPT !.state = "dismissed"].state = "dismissed"
         /\ [Unleased(r) EXCEPT !.state = "dismissed"].kept = r.kept
         /\ [Unleased(r) EXCEPT !.state = "dismissed"].version = r.version
<1>1. r.revision + 1 \in Nat
  BY DEF Row
<1>2. Requeued(r).state = "retry" /\ Requeued(r).kept = r.kept /\ Requeued(r).version = r.version
  BY DEF Requeued, Unleased, Row
<1>3. Revived(r).state = "retry" /\ Revived(r).kept = r.kept /\ Revived(r).version = r.version
  BY DEF Revived, Requeued, Unleased, Row
<1>4. [Unleased(r) EXCEPT !.state = "dismissed"] \in Row
  BY <1>1 DEF Unleased, Row, State, Ended, Final, Null, NoOwner
<1>5. /\ [Unleased(r) EXCEPT !.state = "dismissed"].state = "dismissed"
      /\ [Unleased(r) EXCEPT !.state = "dismissed"].kept = r.kept
      /\ [Unleased(r) EXCEPT !.state = "dismissed"].version = r.version
  BY DEF Unleased, Row
<1> QED
  BY <1>2, <1>3, <1>4, <1>5, UpdatesTyped

LEMMA SettledTyped ==
  ASSUME NEW r \in Row, now \in Nat, NEW outcome \in Outcome
  PROVE  Settled(r, outcome) \in Row
<1> DEFINE failStart == IF r.failStart = Null THEN now ELSE r.failStart
           givenUp == \/ outcome = "permanent"
                      \/ r.cycle >= MaxCycleAttempts
                      \/ WindowElapsed(failStart)
<1> USE DEF Row, State, Ended, Final, Unfinished, Null, NoOwner
<1>1. failStart \in Nat
  OBVIOUS
<1>2. r.revision + 1 \in Nat
  OBVIOUS
<1>3. Closed(r, "succeeded") \in Row
  BY <1>2 DEF Unleased, Closed
<1>4. CASE outcome = "success"
  BY <1>3, <1>4 DEF Settled
<1>5. CASE outcome # "success" /\ givenUp
  <2>1. Settled(r, outcome) = [Closed(r, "terminal") EXCEPT !.failStart = failStart]
    BY <1>5 DEF Settled
  <2> HIDE DEF failStart, givenUp
  <2> QED
    BY <2>1, <1>1, <1>2 DEF Closed, Unleased
<1>6. CASE outcome # "success" /\ ~givenUp
  <2>1. Settled(r, outcome) = [Unleased(r) EXCEPT !.state = "retry", !.failStart = failStart,
                                                   !.nextAt = now + RetryDelay(r.cycle)]
    BY <1>6 DEF Settled
  <2>2. r.cycle \in 0 .. MaxCycleAttempts
    BY <1>6, ConstantsAssumption
  <2>3. now + RetryDelay(r.cycle) \in Nat
    BY <2>2, BackoffAssumption
  <2> HIDE DEF failStart, givenUp
  <2> QED
    BY <2>1, <2>3, <1>1, <1>2 DEF Unleased
<1> QED
  BY <1>4, <1>5, <1>6

-------------------------------------------------------------------------------
(* The event a handler admits at the end of its transaction.                  *)

LEMMA DeletedTyped ==
  ASSUME NEW state \in State
  PROVE  /\ Deleted(state) \in Row
         /\ Deleted(state).state = state /\ ~Deleted(state).kept
BY DEF Deleted, Absent, Row, Null, NoOwner

LEMMA QueuedTyped ==
  ASSUME NEW d \in Destination, now \in Nat, version' \in [Destination -> Nat]
  PROVE  /\ Queued(d) \in Row
         /\ Queued(d).state = "pending" /\ Queued(d).version = version'[d]
BY DEF Queued, Absent, Row, State, Unfinished, Null, NoOwner

(* What an admission can do to one row: nothing, delete it when it has ended, *)
(* delete it in favour of a newer event, or insert it for a live destination. *)
LEMMA AdmitIntoCases ==
  ASSUME NEW rows \in [Delivery -> Row], AdmitInto(rows), NEW x \in Delivery
  PROVE  \/ row'[x] = rows[x]
         \/ rows[x].state \in Ended /\ row'[x] = Deleted(rows[x].state)
         \/ rows[x].state = "pending" /\ rows[x].kept /\ row'[x] = Deleted("superseded")
         \/ /\ row[x].state = "none"
            /\ Live(DestinationOf(x))' /\ row'[x] = Queued(DestinationOf(x))
<1> DEFINE Result(new) ==
      \/ new[x] = rows[x]
      \/ rows[x].state \in Ended /\ new[x] = Deleted(rows[x].state)
      \/ rows[x].state = "pending" /\ rows[x].kept /\ new[x] = Deleted("superseded")
<1>1. ASSUME NEW S \in SUBSET Prunable(rows)
      PROVE  /\ \/ Pruned(rows, S)[x] = rows[x]
                \/ rows[x].state \in Ended /\ Pruned(rows, S)[x] = Deleted(rows[x].state)
             /\ Pruned(rows, S) \in [Delivery -> Row]
  <2>1. \A y \in Delivery : Deleted(rows[y].state) \in Row
    BY DeletedTyped DEF Row
  <2> QED
    BY <2>1 DEF Pruned, Prunable
<1>2. ASSUME NEW S \in SUBSET Prunable(rows), NEW old \in Event, NEW targets,
             Coalescible(Pruned(rows, S), old, targets)
      PROVE  Result(Superseded(Pruned(rows, S), old))
  <2> DEFINE p == Pruned(rows, S)
  <2>1. /\ p[x] = rows[x] \/ (rows[x].state \in Ended /\ p[x] = Deleted(rows[x].state))
        /\ p \in [Delivery -> Row]
    BY <1>1
  <2> HIDE DEF p
  <2>2. CASE x[1] = old /\ p[x].kept
    <3>1. x = <<old, DestinationOf(x)>> /\ DestinationOf(x) \in Destination
      BY <2>2 DEF Delivery, DestinationOf
    <3>2. p[x].state = "pending"
      BY <3>1, <2>2, <1>2 DEF Coalescible, p
    <3>3. p[x] = rows[x]
      BY <2>1, <3>2, DeletedTyped DEF Ended, Final, State
    <3>4. Superseded(p, old)[x] = Deleted("superseded")
      BY <2>2 DEF Superseded
    <3> QED
      BY <2>2, <3>2, <3>3, <3>4 DEF p
  <2>3. CASE ~(x[1] = old /\ p[x].kept)
    <3>1. Superseded(p, old)[x] = p[x]
      BY <2>3 DEF Superseded
    <3> QED
      BY <3>1, <2>1 DEF p
  <2> QED
    BY <2>2, <2>3
<1>3. ASSUME NEW base, Result(base), NEW e \in Event, Unused(e),
             NEW targets \in SUBSET {d \in Destination : Live(d)'},
             row' = Inserted(base, e, targets)
      PROVE  \/ row'[x] = base[x]
             \/ /\ row[x].state = "none"
                /\ Live(DestinationOf(x))' /\ row'[x] = Queued(DestinationOf(x))
  <2>1. CASE x[1] = e /\ DestinationOf(x) \in targets
    <3>1. x = <<e, DestinationOf(x)>> /\ DestinationOf(x) \in Destination
      BY <2>1 DEF Delivery, DestinationOf
    <3>2. row'[x] = Queued(DestinationOf(x))
      BY <1>3, <2>1 DEF Inserted
    <3> QED
      BY <1>3, <2>1, <3>1, <3>2 DEF Unused
  <2>2. CASE ~(x[1] = e /\ DestinationOf(x) \in targets)
    BY <1>3, <2>2 DEF Inserted
  <2> QED
    BY <2>1, <2>2
<1>4. \A S \in SUBSET Prunable(rows) : Result(Pruned(rows, S))
  BY <1>1
<1> HIDE DEF Result
<1>5. CASE row' = rows
  BY <1>5
<1>6. CASE \E S \in SUBSET Prunable(rows) : row' = Pruned(rows, S)
  BY <1>6, <1>4 DEF Result
<1>7. ASSUME NEW e \in Event, NEW targets \in SUBSET {d \in Destination : Live(d)'},
             NEW S \in SUBSET Prunable(rows), Unused(e),
             \/ row' = Inserted(Pruned(rows, S), e, targets)
             \/ \E old \in Event \ {e} :
                  /\ Coalescible(Pruned(rows, S), old, targets)
                  /\ row' = Inserted(Superseded(Pruned(rows, S), old), e, targets)
      PROVE  \E base : Result(base) /\ row' = Inserted(base, e, targets)
  BY <1>7, <1>2, <1>4
<1>8. QED
  <2>1. CASE \E e \in Event, targets \in SUBSET {d \in Destination : Live(d)'},
                S \in SUBSET Prunable(rows) :
               /\ targets # {} /\ Unused(e)
               /\ \/ row' = Inserted(Pruned(rows, S), e, targets)
                  \/ \E old \in Event \ {e} :
                       /\ Coalescible(Pruned(rows, S), old, targets)
                       /\ row' = Inserted(Superseded(Pruned(rows, S), old), e, targets)
    <3>1. PICK e \in Event, targets \in SUBSET {d \in Destination : Live(d)'} :
             Unused(e) /\ \E base : Result(base) /\ row' = Inserted(base, e, targets)
      BY <2>1, <1>7
    <3>2. PICK base : Result(base) /\ row' = Inserted(base, e, targets)
      BY <3>1
    <3> QED
      BY <3>1, <3>2, <1>3 DEF Result
  <2> QED
    BY <1>5, <1>6, <2>1 DEF AdmitInto

LEMMA AdmitIntoOK ==
  ASSUME NEW rows, RowsOK(rows, enabled', retired', originSince', now'),
         AdmitInto(rows), DestinationsOK', now \in Nat
  PROVE  RowsOK(row', enabled', retired', originSince', now')
<1> USE DEF DestinationOf
<1>0. rows \in [Delivery -> Row] /\ \A x \in Delivery : DestinationOf(x) \in Destination
  BY DEF RowsOK, Delivery
<1>1. \A x \in Delivery :
        \/ row'[x] = rows[x]
        \/ row'[x] \in Row /\ row'[x].state \notin Unfinished /\ ~row'[x].kept
        \/ /\ Live(DestinationOf(x))' /\ row'[x] \in Row
           /\ row'[x].state = "pending" /\ row'[x].version = version'[DestinationOf(x)]
  <2> TAKE x \in Delivery
  <2>1. rows[x].state \in State /\ Ended \subseteq State /\ "superseded" \in State
        /\ Ended \cap Unfinished = {} /\ "superseded" \notin Unfinished
    BY <1>0 DEF Row, State, Ended, Final, Unfinished
  <2>2. version' \in [Destination -> Nat]
    BY DEF DestinationsOK
  <2> QED
    BY <1>0, <2>1, <2>2, AdmitIntoCases, DeletedTyped, QueuedTyped
<1>2. row' \in [Delivery -> Row]
  <2>1. row' = [x \in Delivery |-> row'[x]]
    BY <1>0 DEF AdmitInto, Pruned, Inserted, Superseded
  <2> QED
    BY <1>0, <1>1, <2>1
<1>3. \A x \in Delivery : row'[x].state = "leased" => row'[x] = rows[x]
  BY <1>1 DEF Unfinished
<1>4. LeasedIsEnabled(row', enabled')
  BY <1>3 DEF RowsOK, LeasedIsEnabled
<1>5. RetiredIsIdle(row', retired')
  BY <1>1 DEF RowsOK, RetiredIsIdle, Live
<1>6. SameOrigin(row', originSince')
  BY <1>0, <1>1 DEF RowsOK, SameOrigin, DestinationsOK
<1>7. SingleLease(row', now')
  BY <1>3 DEF RowsOK, SingleLease
<1> QED
  BY <1>2, <1>4, <1>5, <1>6, <1>7 DEF RowsOK

-------------------------------------------------------------------------------
(* Each action preserves the inductive invariant. *)

LEMMA InitOK == Init => IInv
<1> SUFFICES ASSUME Init PROVE IInv
  OBVIOUS
<1>1. Absent \in Row
  BY DEF Absent, Row, State, Null, NoOwner
<1>2. row \in [Delivery -> Row] /\ \A x \in Delivery : row[x].state = "none"
  BY <1>1 DEF Init, Absent
<1>3. RowsOK(row, enabled, retired, originSince, now)
  BY <1>2 DEF RowsOK, LeasedIsEnabled, RetiredIsIdle, SameOrigin, SingleLease, Unfinished
<1>4. DestinationsOK
  BY DEF Init, DestinationsOK, Null
<1> QED
  BY <1>3, <1>4 DEF IInv, Init

LEMMA AdmitOK == IInv /\ Admit => IInv'
BY AdmitIntoOK DEF IInv, Admit, DestinationsOK, destinationVars

LEMMA PruneTerminalOK == IInv /\ PruneTerminal => IInv'
BY AdmitIntoOK DEF IInv, PruneTerminal, AdmitInto, DestinationsOK, destinationVars

(* A change of one row that neither leases it, nor reopens it for a retired   *)
(* destination, nor makes an older address current, keeps the table sound.    *)
LEMMA OneRowOK ==
  ASSUME NEW x \in Delivery, NEW r \in Row, IInv,
         r.state # "leased",
         r.state \in Unfinished => ~retired[DestinationOf(x)],
         r.kept /\ r.state \in Unfinished \cup {"terminal"} =>
           originSince[DestinationOf(x)] <= r.version
  PROVE  RowsOK([row EXCEPT ![x] = r], enabled, retired, originSince, now)
<1> DEFINE rows == [row EXCEPT ![x] = r]
<1>1. rows \in [Delivery -> Row] /\ rows[x] = r /\ \A y \in Delivery : y # x => rows[y] = row[y]
  BY DEF IInv, RowsOK
<1> HIDE DEF rows
<1>2. LeasedIsEnabled(rows, enabled)
  BY <1>1 DEF IInv, RowsOK, LeasedIsEnabled
<1>3. RetiredIsIdle(rows, retired)
  BY <1>1 DEF IInv, RowsOK, RetiredIsIdle
<1>4. SameOrigin(rows, originSince)
  BY <1>1 DEF IInv, RowsOK, SameOrigin
<1>5. SingleLease(rows, now)
  BY <1>1 DEF IInv, RowsOK, SingleLease
<1> QED
  BY <1>1, <1>2, <1>3, <1>4, <1>5 DEF RowsOK, rows

LEMMA ApplyDeliveryResultOK ==
  ASSUME IInv, NEW c \in claims, NEW outcome \in Outcome, ApplyDeliveryResult(c, outcome)
  PROVE  IInv'
<1> DEFINE x == c.delivery  r == Settled(row[c.delivery], outcome)
<1>1. x \in Delivery /\ row[x] \in Row
  BY DEF IInv, RowsOK, Claim
<1>2. UNCHANGED destinationVars /\ now' = now /\ now \in Nat /\ claims' \subseteq Claim
  BY DEF ApplyDeliveryResult, IInv
<1>3. DestinationsOK' /\ UNCHANGED <<enabled, retired, originSince>>
  BY <1>2 DEF IInv, DestinationsOK, destinationVars
<1>4. CASE Applies(c)
  <2>1. r \in Row
    BY <1>1, <1>2, SettledTyped
  <2>2. row[x].state = "leased"
    BY <1>4 DEF Applies, Holds
  <2>3. /\ r.state \in {"succeeded", "terminal", "retry"}
        /\ r.kept = row[x].kept /\ r.version = row[x].version
    BY <1>1 DEF Settled, Closed, Unleased, Row
  <2>4. ~retired[DestinationOf(x)] /\ (row[x].kept => originSince[DestinationOf(x)] <= row[x].version)
    BY <1>1, <2>2 DEF IInv, RowsOK, RetiredIsIdle, SameOrigin, Unfinished
  <2>5. RowsOK([row EXCEPT ![x] = r], enabled, retired, originSince, now)
    <3> HIDE DEF r, x
    <3> QED
      BY <1>1, <2>1, <2>3, <2>4, OneRowOK
  <2>6. AdmitInto([row EXCEPT ![x] = r])
    BY <1>4 DEF ApplyDeliveryResult
  <2> HIDE DEF r, x
  <2>7. RowsOK(row', enabled', retired', originSince', now')
    BY <1>2, <1>3, <2>5, <2>6, AdmitIntoOK
  <2> QED
    BY <1>2, <1>3, <2>7 DEF IInv
<1>5. CASE ~Applies(c)
  BY <1>2, <1>3, <1>5 DEF ApplyDeliveryResult, IInv
<1> QED
  BY <1>4, <1>5

LEMMA ReleaseClaimOK ==
  ASSUME IInv, NEW c \in claims, ReleaseClaim(c)
  PROVE  IInv'
<1> DEFINE x == c.delivery
<1>1. x \in Delivery /\ row[x] \in Row
  BY DEF IInv, RowsOK, Claim
<1>2. UNCHANGED destinationVars /\ now' = now /\ now \in Nat /\ claims' \subseteq Claim
  BY DEF ReleaseClaim, IInv
<1>3. DestinationsOK' /\ UNCHANGED <<enabled, retired, originSince>>
  BY <1>2 DEF IInv, DestinationsOK, destinationVars
<1>4. CASE Holds(c)
  <2> DEFINE r == Requeued(row[x])
  <2>1. r \in Row /\ r.state = "retry" /\ r.kept = row[x].kept /\ r.version = row[x].version
    BY <1>1, <1>2, UpdateEffects
  <2>2. ~retired[DestinationOf(x)] /\ (row[x].kept => originSince[DestinationOf(x)] <= row[x].version)
    BY <1>1, <1>4 DEF IInv, RowsOK, RetiredIsIdle, SameOrigin, Unfinished, Holds
  <2>3. row' = [row EXCEPT ![x] = r]
    BY <1>4 DEF ReleaseClaim
  <2> HIDE DEF r, x
  <2>4. RowsOK(row', enabled, retired, originSince, now)
    BY <1>1, <2>1, <2>2, <2>3, OneRowOK
  <2> QED
    BY <1>2, <1>3, <2>4 DEF IInv
<1>5. CASE ~Holds(c)
  <2>1. row' = row
    BY <1>1, <1>5 DEF ReleaseClaim, IInv, RowsOK
  <2> QED
    BY <1>2, <1>3, <2>1 DEF IInv
<1> QED
  BY <1>4, <1>5

LEMMA OperatorOK ==
  ASSUME IInv, NEW x \in Delivery, RetryDelivery(x) \/ DismissDelivery(x)
  PROVE  IInv'
<1>1. row[x] \in Row /\ row[x].state = "terminal" /\ ~retired[DestinationOf(x)]
  BY DEF IInv, RowsOK, RetryDelivery, DismissDelivery, Retriable
<1>2. UNCHANGED destinationVars /\ now' = now /\ now \in Nat /\ claims' \subseteq Claim
  BY DEF RetryDelivery, DismissDelivery, IInv
<1>3. DestinationsOK' /\ UNCHANGED <<enabled, retired, originSince>>
  BY <1>2 DEF IInv, DestinationsOK, destinationVars
<1>4. PICK r \in Row : /\ r.state \in {"retry", "dismissed"} /\ r.version = row[x].version
                       /\ r.kept = row[x].kept /\ row' = [row EXCEPT ![x] = r]
  <2>1. CASE RetryDelivery(x)
    <3>1. Revived(row[x]) \in Row /\ Revived(row[x]).state = "retry"
          /\ Revived(row[x]).version = row[x].version /\ Revived(row[x]).kept = row[x].kept
      BY <1>1, <1>2, UpdateEffects
    <3> QED
      BY <2>1, <3>1 DEF RetryDelivery
  <2>2. CASE DismissDelivery(x)
    <3> DEFINE r == [Unleased(row[x]) EXCEPT !.state = "dismissed"]
    <3>1. r \in Row /\ r.state = "dismissed" /\ r.version = row[x].version /\ r.kept = row[x].kept
      BY <1>1, <1>2, UpdateEffects
    <3>2. row' = [row EXCEPT ![x] = r]
      BY <2>2 DEF DismissDelivery
    <3> QED
      BY <3>1, <3>2
  <2> QED
    BY <2>1, <2>2
<1>5. row[x].kept => originSince[DestinationOf(x)] <= row[x].version
  BY <1>1 DEF IInv, RowsOK, SameOrigin
<1>6. RowsOK(row', enabled, retired, originSince, now)
  BY <1>1, <1>4, <1>5, OneRowOK
<1> QED
  BY <1>2, <1>3, <1>6 DEF IInv

LEMMA ClaimDueOK ==
  ASSUME IInv, NEW owner \in Owner, NEW limit \in ClaimLimits, ClaimDue(owner, limit)
  PROVE  IInv'
<1> DEFINE Taken(T, C) ==
      /\ row' = [x \in Delivery |->
                   IF x \in T THEN Closed(row[x], "terminal")
                   ELSE IF x \in C THEN Leased(row[x], owner) ELSE row[x]]
      /\ claims' = claims \cup
           {[delivery |-> x, owner |-> owner, revision |-> row[x].revision + 1] : x \in C}
<1>0a. PICK T \in Earliest(Exhausted, limit) :
         \E R \in FirstPerDestination(Claimable \ T) : \E C \in Earliest(R, limit) : Taken(T, C)
  BY DEF ClaimDue
<1>0b. PICK R \in FirstPerDestination(Claimable \ T) : \E C \in Earliest(R, limit) : Taken(T, C)
  BY <1>0a
<1>1. PICK C \in Earliest(R, limit) : Taken(T, C)
  BY <1>0b
<1>2. UNCHANGED destinationVars /\ now' = now /\ now \in Nat
  BY DEF ClaimDue, IInv
<1>3. DestinationsOK' /\ UNCHANGED <<enabled, retired, originSince>>
  BY <1>2 DEF IInv, DestinationsOK, destinationVars
<1>4. /\ T \subseteq Exhausted /\ C \subseteq Claimable
      /\ \A x, y \in C : DestinationOf(x) = DestinationOf(y) => x = y
  BY DEF Earliest, FirstPerDestination
<1>5. row \in [Delivery -> Row]
  BY DEF IInv, RowsOK
<1>6. \A x \in T : row[x].state \in {"retry", "leased"}
  BY <1>4 DEF Exhausted, LeaseExpired
<1>7. \A x \in C : /\ x \in Delivery /\ enabled[DestinationOf(x)]
                   /\ row[x].state \in Unfinished /\ ~DestinationBusy(x)
  BY <1>4 DEF Claimable, Due, LeaseExpired, Unfinished
<1>8. \A x \in Delivery :
        /\ x \in T => /\ row'[x] = Closed(row[x], "terminal") /\ row'[x].state = "terminal"
                      /\ row'[x].version = row[x].version /\ row'[x].kept = row[x].kept
        /\ x \in C \ T => /\ row'[x] = Leased(row[x], owner) /\ row'[x].state = "leased"
                          /\ row'[x].version = row[x].version /\ row'[x].kept = row[x].kept
        /\ x \notin C \cup T => row'[x] = row[x]
  <2>1. \A r \in Row : /\ Closed(r, "terminal").state = "terminal"
                       /\ Closed(r, "terminal").version = r.version
                       /\ Closed(r, "terminal").kept = r.kept
    BY DEF Closed, Unleased, Row
  <2>2. \A r \in Row : /\ Leased(r, owner).state = "leased"
                       /\ Leased(r, owner).version = r.version
                       /\ Leased(r, owner).kept = r.kept
    BY DEF Leased, Row
  <2> QED
    BY <1>1, <1>5, <2>1, <2>2
<1>9. row' \in [Delivery -> Row]
  <2>1. \A x \in Delivery : Closed(row[x], "terminal") \in Row /\ Leased(row[x], owner) \in Row
    BY <1>2, <1>5, UpdatesTyped DEF Null
  <2> QED
    BY <1>1, <1>5, <2>1
<1>10. LeasedIsEnabled(row', enabled)
  BY <1>7, <1>8 DEF IInv, RowsOK, LeasedIsEnabled
<1>11. RetiredIsIdle(row', retired)
  <2>1. \A d \in Destination : retired[d] => ~enabled[d]
    BY DEF IInv, DestinationsOK
  <2>2. \A x \in Delivery : DestinationOf(x) \in Destination
    BY DEF Delivery, DestinationOf
  <2> QED
    BY <1>7, <1>8, <2>1, <2>2 DEF IInv, RowsOK, RetiredIsIdle, Unfinished
<1>12. SameOrigin(row', originSince)
  BY <1>6, <1>7, <1>8 DEF IInv, RowsOK, SameOrigin, Unfinished
<1>13. SingleLease(row', now)
  <2> SUFFICES ASSUME NEW x \in Delivery, NEW y \in Delivery,
                      DestinationOf(x) = DestinationOf(y),
                      row'[x].state = "leased", row'[x].leaseUntil > now,
                      row'[y].state = "leased", row'[y].leaseUntil > now
               PROVE  x = y
    BY DEF SingleLease
  <2>1. \A z \in Delivery : row'[z].state = "leased" => z \in C \ T \/ row'[z] = row[z]
    BY <1>8
  <2>2. \A z \in C : \A w \in Delivery \ {z} :
          DestinationOf(w) = DestinationOf(z) => ~(row[w].state = "leased" /\ row[w].leaseUntil > now)
    BY <1>7 DEF DestinationBusy, LeaseLive
  <2>3. CASE x \in C
    BY <1>4, <2>1, <2>2, <2>3
  <2>4. CASE y \in C
    BY <1>4, <2>1, <2>2, <2>4
  <2>5. CASE x \notin C /\ y \notin C
    BY <2>1, <2>5 DEF IInv, RowsOK, SingleLease
  <2> QED
    BY <2>3, <2>4, <2>5
<1>14. claims' \subseteq Claim
  <2>1. \A x \in C : x \in Delivery /\ row[x].revision + 1 \in Nat
    BY <1>5, <1>7 DEF Row
  <2> QED
    BY <1>1, <2>1 DEF IInv, Claim
<1> QED
  BY <1>2, <1>3, <1>9, <1>10, <1>11, <1>12, <1>13, <1>14 DEF IInv, RowsOK

LEMMA TickOK == IInv /\ Tick => IInv'
<1> SUFFICES ASSUME IInv, Tick PROVE IInv'
  OBVIOUS
<1>1. /\ now \in Nat /\ now' = now + 1 /\ UNCHANGED <<row, claims>> /\ UNCHANGED destinationVars
  BY DEF IInv, Tick
<1>2. \A x \in Delivery : row[x].leaseUntil \in Int
  BY DEF IInv, RowsOK, Row, Null
<1>3. SingleLease(row', now')
  BY <1>1, <1>2 DEF IInv, RowsOK, SingleLease
<1> QED
  BY <1>1, <1>3 DEF IInv, RowsOK, DestinationsOK, destinationVars

-------------------------------------------------------------------------------
(* Updates of every delivery of one destination. *)

LEMMA DestinationRowsOK ==
  ASSUME IInv, NEW d \in Destination, NEW rows \in [Delivery -> Row],
         NEW on, NEW gone, NEW since,
         \A x \in Delivery :
           DestinationOf(x) # d =>
             /\ rows[x] = row[x]
             /\ on[DestinationOf(x)] = enabled[DestinationOf(x)]
             /\ gone[DestinationOf(x)] = retired[DestinationOf(x)]
             /\ since[DestinationOf(x)] = originSince[DestinationOf(x)],
         \A x \in Delivery :
           DestinationOf(x) = d =>
             /\ rows[x].state = "leased" => rows[x] = row[x] /\ on[d]
             /\ gone[d] => rows[x].state \notin Unfinished
             /\ rows[x].kept /\ rows[x].state \in Unfinished \cup {"terminal"} =>
                  since[d] <= rows[x].version
  PROVE  RowsOK(rows, on, gone, since, now)
<1>1. LeasedIsEnabled(rows, on)
  BY DEF IInv, RowsOK, LeasedIsEnabled
<1>2. RetiredIsIdle(rows, gone)
  BY DEF IInv, RowsOK, RetiredIsIdle
<1>3. SameOrigin(rows, since)
  BY DEF IInv, RowsOK, SameOrigin
<1>4. SingleLease(rows, now)
  <2>1. \A x \in Delivery : rows[x].state = "leased" => rows[x] = row[x]
    OBVIOUS
  <2> QED
    BY <2>1 DEF IInv, RowsOK, SingleLease
<1> QED
  BY <1>1, <1>2, <1>3, <1>4 DEF RowsOK

LEMMA SwitchedEffects ==
  ASSUME NEW r \in Row, NEW d \in Destination, NEW off \in BOOLEAN, NEW on \in BOOLEAN,
         now \in Nat, DestinationsOK
  PROVE  /\ Switched(r, d, off, on) \in Row
         /\ Switched(r, d, off, on).version = r.version
         /\ Switched(r, d, off, on).kept = r.kept
         /\ Switched(r, d, off, on).state \in Unfinished => r.state \in Unfinished
         /\ Switched(r, d, off, on).state = "terminal" => r.state = "terminal"
         /\ Switched(r, d, off, on).state = "leased" => ~off /\ Switched(r, d, off, on) = r
<1> DEFINE p == IF off THEN Paused(r) ELSE r
           since == IF off THEN DisabledSince(d) ELSE disabledAt[d]
<1>1. /\ Paused(r).version = r.version /\ Paused(r).kept = r.kept
      /\ Paused(r).state \in Unfinished => r.state \in Unfinished
      /\ Paused(r).state = "terminal" => r.state = "terminal"
      /\ Paused(r).state # "leased"
  BY DEF Paused, Unleased, Row, Unfinished
<1>2. p \in Row
  BY UpdatesTyped DEF Null
<1>3. /\ p.version = r.version /\ p.kept = r.kept
      /\ p.state \in Unfinished => r.state \in Unfinished
      /\ p.state = "terminal" => r.state = "terminal"
      /\ p.state = "leased" => ~off /\ p = r
  BY <1>1
<1>4. since \in Nat \cup {Null}
  BY DEF DisabledSince, DestinationsOK
<1>5. Switched(r, d, off, on) = IF on THEN Shifted(p, since) ELSE p
  BY DEF Switched
<1> HIDE DEF p, since
<1>6. Shifted(p, since) \in Row
  BY <1>2, <1>4, UpdatesTyped
<1>7. /\ Shifted(p, since).version = p.version /\ Shifted(p, since).kept = p.kept
      /\ Shifted(p, since).state = p.state
      /\ p.state = "leased" => Shifted(p, since) = p
  BY <1>2 DEF Shifted, Row
<1> QED
  BY <1>2, <1>3, <1>5, <1>6, <1>7

LEMMA SwitchOK ==
  ASSUME IInv, NEW d \in Destination, NEW off \in BOOLEAN, NEW on \in BOOLEAN,
         version' \in [Destination -> Nat], \A e \in Destination : version[e] <= version'[e],
         SwitchTo(d, off, on),
         AdmitInto([x \in Delivery |-> IF DestinationOf(x) = d THEN Switched(row[x], d, off, on)
                                                             ELSE row[x]])
  PROVE  IInv'
<1> DEFINE rows == [x \in Delivery |-> IF DestinationOf(x) = d THEN Switched(row[x], d, off, on)
                                                              ELSE row[x]]
<1>1. AdmitInto(rows)
  OBVIOUS
<1>2. /\ now \in Nat /\ DestinationsOK /\ row \in [Delivery -> Row] /\ claims \subseteq Claim
      /\ \A x \in Delivery : DestinationOf(x) \in Destination
  BY DEF IInv, RowsOK, Delivery, DestinationOf
<1>3. /\ UNCHANGED <<retired, originSince, claims, now>> /\ ~retired[d]
      /\ enabled' = [enabled EXCEPT ![d] = IF on THEN TRUE ELSE IF off THEN FALSE ELSE @]
      /\ disabledAt' = [disabledAt EXCEPT ![d] = IF on THEN Null
                                                 ELSE IF off THEN DisabledSince(d) ELSE @]
  BY DEF SwitchTo
<1>4. DestinationsOK'
  <2>1. DisabledSince(d) \in Nat \cup {Null}
    BY <1>2 DEF DisabledSince, DestinationsOK
  <2>2. enabled' \in [Destination -> BOOLEAN] /\ disabledAt' \in [Destination -> Nat \cup {Null}]
    BY <1>2, <1>3, <2>1 DEF DestinationsOK
  <2>3. \A e \in Destination : retired'[e] => ~enabled'[e]
    BY <1>2, <1>3 DEF DestinationsOK
  <2>4. \A e \in Destination : originSince'[e] <= version'[e]
    BY <1>2, <1>3 DEF DestinationsOK
  <2> QED
    BY <1>2, <1>3, <2>2, <2>3, <2>4 DEF DestinationsOK
<1>5. \A x \in Delivery : DestinationOf(x) = d => rows[x] = Switched(row[x], d, off, on)
  OBVIOUS
<1>6. \A x \in Delivery : DestinationOf(x) # d => rows[x] = row[x]
  OBVIOUS
<1>7. rows \in [Delivery -> Row]
  <2>1. \A x \in Delivery : Switched(row[x], d, off, on) \in Row
    BY <1>2, SwitchedEffects
  <2> QED
    BY <1>2, <2>1
<1> HIDE DEF rows
<1>8. \A x \in Delivery :
        DestinationOf(x) = d =>
          /\ rows[x].state = "leased" => rows[x] = row[x] /\ enabled'[d]
          /\ retired'[d] => rows[x].state \notin Unfinished
          /\ rows[x].kept /\ rows[x].state \in Unfinished \cup {"terminal"} =>
               originSince'[d] <= rows[x].version
  <2> SUFFICES ASSUME NEW x \in Delivery, DestinationOf(x) = d
               PROVE  /\ rows[x].state = "leased" => rows[x] = row[x] /\ enabled'[d]
                      /\ retired'[d] => rows[x].state \notin Unfinished
                      /\ rows[x].kept /\ rows[x].state \in Unfinished \cup {"terminal"} =>
                           originSince'[d] <= rows[x].version
    OBVIOUS
  <2>1. /\ rows[x].version = row[x].version /\ rows[x].kept = row[x].kept
        /\ rows[x].state \in Unfinished => row[x].state \in Unfinished
        /\ rows[x].state = "terminal" => row[x].state = "terminal"
        /\ rows[x].state = "leased" => ~off /\ rows[x] = row[x]
    BY <1>2, <1>5, SwitchedEffects
  <2>2. row[x].state = "leased" => enabled[d]
    BY DEF IInv, RowsOK, LeasedIsEnabled
  <2>3. ~off /\ enabled[d] => enabled'[d]
    BY <1>2, <1>3 DEF DestinationsOK
  <2>4. row[x].kept /\ row[x].state \in Unfinished \cup {"terminal"} => originSince[d] <= row[x].version
    BY DEF IInv, RowsOK, SameOrigin
  <2> QED
    BY <1>3, <2>1, <2>2, <2>3, <2>4
<1>9. \A x \in Delivery :
        DestinationOf(x) # d =>
          /\ rows[x] = row[x]
          /\ enabled'[DestinationOf(x)] = enabled[DestinationOf(x)]
          /\ retired'[DestinationOf(x)] = retired[DestinationOf(x)]
          /\ originSince'[DestinationOf(x)] = originSince[DestinationOf(x)]
  BY <1>2, <1>3, <1>6 DEF DestinationsOK
<1>10. RowsOK(rows, enabled', retired', originSince', now)
  BY ONLY IInv, <1>7, <1>8, <1>9, DestinationRowsOK
<1>11. RowsOK(row', enabled', retired', originSince', now')
  BY <1>1, <1>2, <1>3, <1>4, <1>10, AdmitIntoOK
<1> QED
  BY <1>2, <1>3, <1>4, <1>11 DEF IInv

LEMMA SwitchingOK ==
  ASSUME IInv, NEW d \in Destination,
         \/ Disable(d) \/ Enable(d)
         \/ \E off, on \in BOOLEAN : EditConfiguration(d, off, on)
  PROVE  IInv'
<1> DEFINE Rows(off, on) ==
      [x \in Delivery |-> IF DestinationOf(x) = d THEN Switched(row[x], d, off, on) ELSE row[x]]
<1>1. version \in [Destination -> Nat]
  BY DEF IInv, DestinationsOK
<1>2. CASE Disable(d)
  <2>1. SwitchTo(d, TRUE, FALSE) /\ version' = version /\ AdmitInto(Rows(TRUE, FALSE))
    BY <1>2 DEF Disable, OfDestination
  <2>2. \A e \in Destination : version[e] <= version'[e]
    BY <1>1, <2>1
  <2> QED
    BY <1>1, <2>1, <2>2, SwitchOK
<1>3. CASE Enable(d)
  <2>1. SwitchTo(d, FALSE, TRUE) /\ version' = version /\ AdmitInto(Rows(FALSE, TRUE))
    BY <1>3 DEF Enable, OfDestination
  <2>2. \A e \in Destination : version[e] <= version'[e]
    BY <1>1, <2>1
  <2> QED
    BY <1>1, <2>1, <2>2, SwitchOK
<1>4. ASSUME NEW off \in BOOLEAN, NEW on \in BOOLEAN, EditConfiguration(d, off, on)
      PROVE  IInv'
  <2>1. /\ SwitchTo(d, off, on) /\ AdmitInto(Rows(off, on))
        /\ version' = [version EXCEPT ![d] = @ + 1]
    BY <1>4 DEF EditConfiguration, OfDestination
  <2>2. version' \in [Destination -> Nat] /\ \A e \in Destination : version[e] <= version'[e]
    BY <1>1, <2>1
  <2> QED
    BY <2>1, <2>2, SwitchOK
<1> QED
  BY <1>2, <1>3, <1>4

LEMMA DismissedEffects ==
  ASSUME NEW r \in Row, now \in Nat
  PROVE  /\ Dismissed(r) \in Row /\ DismissedForMove(r) \in Row
         /\ Dismissed(r).state \notin Unfinished
         /\ Dismissed(r).version = r.version /\ Dismissed(r).kept = r.kept
         /\ Dismissed(r).state = "terminal" => r.state = "terminal"
         /\ DismissedForMove(r).state \notin Unfinished
         /\ DismissedForMove(r).kept => DismissedForMove(r).state # "terminal"
<1>1. /\ Dismissed(r).state \notin Unfinished
      /\ Dismissed(r).version = r.version /\ Dismissed(r).kept = r.kept
      /\ Dismissed(r).state = "terminal" => r.state = "terminal"
  BY DEF Dismissed, Closed, Unleased, Unfinished, Row
<1>2. /\ DismissedForMove(r).state \notin Unfinished
      /\ DismissedForMove(r).kept => DismissedForMove(r).state # "terminal"
  <2> DEFINE m == [r EXCEPT !.state = "dismissed", !.revision = @ + 1]
  <2>1. m.state = "dismissed"
    BY DEF Row
  <2>2. \/ DismissedForMove(r) = m
        \/ DismissedForMove(r) = Dismissed(r) /\ ~(r.state = "terminal" /\ r.kept)
    BY ONLY Zenon DEF DismissedForMove
  <2>3. CASE DismissedForMove(r) = m
    BY <2>1, <2>3 DEF Unfinished
  <2>4. CASE DismissedForMove(r) = Dismissed(r) /\ ~(r.state = "terminal" /\ r.kept)
    <3>1. Dismissed(r).state = "terminal" => ~Dismissed(r).kept
      BY ONLY <1>1, <2>4, Zenon
    <3> QED
      BY ONLY <1>1, <2>4, <3>1, Zenon
  <2> QED
    BY <2>2, <2>3, <2>4
<1> QED
  BY <1>1, <1>2, UpdatesTyped DEF Null

LEMMA MoveOriginOK ==
  ASSUME IInv, NEW d \in Destination, NEW enabledAfter \in BOOLEAN, MoveOrigin(d, enabledAfter)
  PROVE  IInv'
<1> DEFINE rows == [x \in Delivery |-> IF DestinationOf(x) = d THEN DismissedForMove(row[x])
                                                              ELSE row[x]]
<1>1. AdmitInto(rows)
  BY DEF MoveOrigin, OfDestination
<1>2. /\ now \in Nat /\ DestinationsOK /\ row \in [Delivery -> Row] /\ claims \subseteq Claim
      /\ \A x \in Delivery : DestinationOf(x) \in Destination
  BY DEF IInv, RowsOK, Delivery, DestinationOf
<1>3. /\ UNCHANGED <<retired, claims, now>> /\ ~retired[d]
      /\ version' = [version EXCEPT ![d] = @ + 1]
      /\ originSince' = [originSince EXCEPT ![d] = version[d] + 1]
      /\ enabled' = [enabled EXCEPT ![d] = enabledAfter]
      /\ disabledAt' = [disabledAt EXCEPT ![d] = IF enabledAfter THEN Null ELSE DisabledSince(d)]
  BY DEF MoveOrigin
<1>4. DestinationsOK'
  BY <1>2, <1>3 DEF DestinationsOK, DisabledSince
<1>5. rows \in [Delivery -> Row]
  <2>1. \A x \in Delivery : DismissedForMove(row[x]) \in Row
    BY <1>2, DismissedEffects
  <2> QED
    BY <1>2, <2>1
<1>6. \A x \in Delivery :
        DestinationOf(x) = d =>
          /\ rows[x].state \notin Unfinished
          /\ rows[x].kept => rows[x].state # "terminal"
  <2>1. \A x \in Delivery : /\ DismissedForMove(row[x]).state \notin Unfinished
                            /\ DismissedForMove(row[x]).kept =>
                                 DismissedForMove(row[x]).state # "terminal"
    BY <1>2, DismissedEffects
  <2> QED
    BY <2>1
<1>7. \A x \in Delivery :
        DestinationOf(x) # d =>
          /\ rows[x] = row[x]
          /\ enabled'[DestinationOf(x)] = enabled[DestinationOf(x)]
          /\ retired'[DestinationOf(x)] = retired[DestinationOf(x)]
          /\ originSince'[DestinationOf(x)] = originSince[DestinationOf(x)]
  BY <1>2, <1>3 DEF DestinationsOK
<1> HIDE DEF rows
<1>8. \A x \in Delivery :
        DestinationOf(x) = d =>
          /\ rows[x].state = "leased" => rows[x] = row[x] /\ enabled'[d]
          /\ retired'[d] => rows[x].state \notin Unfinished
          /\ rows[x].kept /\ rows[x].state \in Unfinished \cup {"terminal"} =>
               originSince'[d] <= rows[x].version
  BY ONLY <1>6, Zenon DEF Unfinished
<1>9. RowsOK(rows, enabled', retired', originSince', now)
  BY ONLY IInv, <1>5, <1>7, <1>8, DestinationRowsOK
<1>10. RowsOK(row', enabled', retired', originSince', now')
  BY <1>1, <1>2, <1>3, <1>4, <1>9, AdmitIntoOK
<1> QED
  BY <1>2, <1>3, <1>4, <1>10 DEF IInv

LEMMA RetireOK ==
  ASSUME IInv, NEW d \in Destination, Retire(d)
  PROVE  IInv'
<1> DEFINE rows == [x \in Delivery |-> IF DestinationOf(x) = d THEN Dismissed(row[x]) ELSE row[x]]
<1>1. AdmitInto(rows)
  BY DEF Retire, OfDestination
<1>2. /\ now \in Nat /\ DestinationsOK /\ row \in [Delivery -> Row] /\ claims \subseteq Claim
      /\ \A x \in Delivery : DestinationOf(x) \in Destination
  BY DEF IInv, RowsOK, Delivery, DestinationOf
<1>3. /\ UNCHANGED <<version, originSince, claims, now>>
      /\ enabled' = [enabled EXCEPT ![d] = FALSE]
      /\ retired' = [retired EXCEPT ![d] = TRUE]
      /\ disabledAt' = [disabledAt EXCEPT ![d] = DisabledSince(d)]
  BY DEF Retire
<1>4. DestinationsOK'
  BY <1>2, <1>3 DEF DestinationsOK, DisabledSince
<1>5. rows \in [Delivery -> Row]
  <2>1. \A x \in Delivery : Dismissed(row[x]) \in Row
    BY <1>2, DismissedEffects
  <2> QED
    BY <1>2, <2>1
<1>6. \A x \in Delivery :
        DestinationOf(x) = d =>
          /\ rows[x].state \notin Unfinished
          /\ rows[x].state = "terminal" => row[x].state = "terminal"
          /\ rows[x].kept = row[x].kept /\ rows[x].version = row[x].version
  <2>1. \A x \in Delivery :
          /\ Dismissed(row[x]).state \notin Unfinished
          /\ Dismissed(row[x]).state = "terminal" => row[x].state = "terminal"
          /\ Dismissed(row[x]).kept = row[x].kept /\ Dismissed(row[x]).version = row[x].version
    BY <1>2, DismissedEffects
  <2> QED
    BY <2>1
<1>7. \A x \in Delivery :
        DestinationOf(x) # d =>
          /\ rows[x] = row[x]
          /\ enabled'[DestinationOf(x)] = enabled[DestinationOf(x)]
          /\ retired'[DestinationOf(x)] = retired[DestinationOf(x)]
          /\ originSince'[DestinationOf(x)] = originSince[DestinationOf(x)]
  BY <1>2, <1>3 DEF DestinationsOK
<1> HIDE DEF rows
<1>8. \A x \in Delivery :
        row[x].kept /\ row[x].state = "terminal" => originSince[DestinationOf(x)] <= row[x].version
  BY DEF IInv, RowsOK, SameOrigin
<1>9. \A x \in Delivery :
        DestinationOf(x) = d =>
          /\ rows[x].state = "leased" => rows[x] = row[x] /\ enabled'[d]
          /\ retired'[d] => rows[x].state \notin Unfinished
          /\ rows[x].kept /\ rows[x].state \in Unfinished \cup {"terminal"} =>
               originSince'[d] <= rows[x].version
  BY <1>3, <1>6, <1>8 DEF Unfinished
<1>10. RowsOK(rows, enabled', retired', originSince', now)
  BY ONLY IInv, <1>5, <1>7, <1>9, DestinationRowsOK
<1>11. RowsOK(row', enabled', retired', originSince', now')
  BY <1>1, <1>2, <1>3, <1>4, <1>10, AdmitIntoOK
<1> QED
  BY <1>2, <1>3, <1>4, <1>11 DEF IInv

-------------------------------------------------------------------------------
(* The theorems *)

LEMMA NextOK == IInv /\ [Next]_vars => IInv'
<1> SUFFICES ASSUME IInv, [Next]_vars PROVE IInv'
  OBVIOUS
<1>1. CASE Admit
  BY <1>1, AdmitOK
<1>2. CASE PruneTerminal
  BY <1>2, PruneTerminalOK
<1>3. CASE \E owner \in Owner, limit \in ClaimLimits : ClaimDue(owner, limit)
  BY <1>3, ClaimDueOK
<1>4. CASE \E c \in claims, outcome \in Outcome : ApplyDeliveryResult(c, outcome)
  BY <1>4, ApplyDeliveryResultOK
<1>5. CASE \E c \in claims : ReleaseClaim(c)
  BY <1>5, ReleaseClaimOK
<1>6. CASE \E c \in claims : LoseClaim(c)
  BY <1>6 DEF LoseClaim, IInv, RowsOK, DestinationsOK, destinationVars
<1>7. CASE \E x \in Delivery : RetryDelivery(x) \/ DismissDelivery(x)
  BY <1>7, OperatorOK
<1>8. CASE \E d \in Destination : Disable(d) \/ Enable(d)
  BY <1>8, SwitchingOK
<1>9. CASE \E d \in Destination, off, on \in BOOLEAN : EditConfiguration(d, off, on)
  BY <1>9, SwitchingOK
<1>10. CASE \E d \in Destination : Retire(d)
  BY <1>10, RetireOK
<1>11. CASE \E d \in Destination, enabledAfter \in BOOLEAN : MoveOrigin(d, enabledAfter)
  BY <1>11, MoveOriginOK
<1>12. CASE Tick
  BY <1>12, TickOK
<1>13. CASE UNCHANGED vars
  BY <1>13 DEF vars, IInv, RowsOK, DestinationsOK, destinationVars
<1> QED
  BY <1>1, <1>2, <1>3, <1>4, <1>5, <1>6, <1>7, <1>8, <1>9, <1>10, <1>11, <1>12, <1>13 DEF Next

(* Every reachable state of the outbox and its destinations satisfies IInv.   *)
THEOREM Inductive == Spec => []IInv
BY InitOK, NextOK, PTL DEF Spec

(* Rows, switches, claims and the clock keep their types under every          *)
(* operation of the repository, for any number of events and destinations.    *)
THEOREM TypeCorrect == Spec => []TypeOK
<1>1. IInv => TypeOK
  BY DEF IInv, RowsOK, DestinationsOK, TypeOK
<1> QED
  BY <1>1, Inductive, PTL

(* One unexpired lease per destination: claimDue looks for another live lease *)
(* and takes the first due row of each destination, and no other operation    *)
(* makes or prolongs a lease.                                                 *)
THEOREM LeasesExclusive == Spec => []OneLiveLease
<1>1. IInv => OneLiveLease
  BY DEF IInv, RowsOK, SingleLease, OneLiveLease, LeaseLive
<1> QED
  BY <1>1, Inductive, PTL

(* Every transaction that switches a destination off takes its lease back.    *)
THEOREM DisabledHoldsNoLease == Spec => []NoLeaseWhileDisabled
<1>1. IInv => NoLeaseWhileDisabled
  BY DEF IInv, RowsOK, LeasedIsEnabled, NoLeaseWhileDisabled
<1> QED
  BY <1>1, Inductive, PTL

(* A retired destination stays off and never owes a delivery again.           *)
THEOREM RetiredIsDone == Spec => []RetiredHasNoWork
<1>1. IInv => RetiredHasNoWork
  BY DEF IInv, RowsOK, RetiredIsIdle, DestinationsOK, RetiredHasNoWork, Delivery, DestinationOf
<1> QED
  BY <1>1, Inductive, PTL

(* What may still be sent, or resent by an operator, was admitted for the     *)
(* origin the destination has now, after any sequence of edits, moves,        *)
(* failures and retries.                                                      *)
THEOREM SecretsKeepTheirOrigin == Spec => []ResendableMatchesOrigin
<1>1. IInv => ResendableMatchesOrigin
  BY DEF IInv, RowsOK, SameOrigin, ResendableMatchesOrigin
<1> QED
  BY <1>1, Inductive, PTL

(* The four together, as the runs check them.                                 *)
THEOREM DestinationsAreSound == Spec => []DestinationsSound
<1>1. OneLiveLease /\ NoLeaseWhileDisabled /\ RetiredHasNoWork /\ ResendableMatchesOrigin
        => DestinationsSound
  BY DEF DestinationsSound
<1> QED
  BY <1>1, LeasesExclusive, DisabledHoldsNoLease, RetiredIsDone, SecretsKeepTheirOrigin, PTL

-------------------------------------------------------------------------------
(* One row through one transaction.  Every handler first changes rows and     *)
(* then may admit an event, so a step is an evolution of each row followed by *)
(* an admission (AdmitIntoCases).                                             *)

(* The constraints of RowsWellFormed, of one row.                             *)
WellFormed(r) ==
  /\ (r.owner # NoOwner) <=> (r.state = "leased")
  /\ (r.leaseUntil # Null) <=> (r.state = "leased")
  /\ r.kept => ((r.terminalAt # Null) <=> (r.state \in Ended))
  /\ r.state = "pending" => r.cycle = 0 /\ r.failStart = Null
  /\ r.cycle <= r.attempts /\ r.cycle <= MaxCycleAttempts

(* What a handler may make of a row r of a destination that is `on`, or       *)
(* `gone`, before it admits its event.                                        *)
Evolves(r, m, on, gone) ==
  /\ m \in Row /\ WellFormed(m)
  /\ m.kept = r.kept /\ r.revision <= m.revision
  /\ \/ m.state = r.state
     \/ r.state \in Unfinished /\ m.state \in {"retry", "leased"}
     \/ r.state \in Unfinished /\ m.state \in {"succeeded", "terminal"} /\ on /\ ~gone
     \/ r.state = "terminal" /\ m.state = "retry" /\ r.kept /\ ~gone
     \/ r.state \in Unfinished \cup {"terminal"} /\ m.state = "dismissed" /\ ~gone

LEMMA StaysEvolves ==
  ASSUME NEW r \in Row, WellFormed(r), NEW on, NEW gone
  PROVE  Evolves(r, r, on, gone)
BY DEF Evolves, Row

LEMMA ClosedEvolves ==
  ASSUME NEW r \in Row, WellFormed(r), now \in Nat, NEW on \in BOOLEAN, NEW gone \in BOOLEAN,
         r.state \in Unfinished, on, ~gone
  PROVE  Evolves(r, Closed(r, "terminal"), on, gone)
<1> DEFINE m == Closed(r, "terminal")
<1>1. m \in Row
  BY UpdatesTyped DEF Null
<1>2. /\ m.owner = NoOwner /\ m.leaseUntil = Null /\ m.state = "terminal" /\ m.terminalAt = now
      /\ m.kept = r.kept /\ m.cycle = r.cycle /\ m.attempts = r.attempts
      /\ m.revision = r.revision + 1
  BY DEF Closed, Unleased, Row
<1> HIDE DEF m
<1>3. now # Null
  BY DEF Null
<1>4. WellFormed(m)
  BY <1>2, <1>3 DEF WellFormed, Ended
<1> QED
  BY <1>1, <1>2, <1>4 DEF Evolves, Row, m

LEMMA LeasedEvolves ==
  ASSUME NEW r \in Row, WellFormed(r), now \in Nat, NEW on, NEW gone,
         NEW owner \in Owner, r.state \in Unfinished, r.cycle < MaxCycleAttempts
  PROVE  Evolves(r, Leased(r, owner), on, gone)
<1> DEFINE m == Leased(r, owner)
<1>1. m \in Row
  BY UpdatesTyped DEF Null
<1>2. /\ m.owner = owner /\ m.leaseUntil = now + LeaseTtl /\ m.state = "leased"
      /\ m.terminalAt = r.terminalAt /\ m.kept = r.kept
      /\ m.cycle = r.cycle + 1 /\ m.attempts = r.attempts + 1 /\ m.revision = r.revision + 1
  BY DEF Leased, Row
<1> HIDE DEF m
<1>3. now + LeaseTtl # Null /\ owner # NoOwner
  BY ConstantsAssumption DEF Null
<1>4. /\ r.kept => r.terminalAt = Null
      /\ r.cycle + 1 <= r.attempts + 1 /\ r.cycle + 1 <= MaxCycleAttempts
  BY ConstantsAssumption DEF WellFormed, Unfinished, Ended, Final, Row
<1>5. WellFormed(m)
  BY <1>2, <1>3, <1>4 DEF WellFormed, Ended, Final
<1> QED
  BY <1>1, <1>2, <1>5 DEF Evolves, Row, m

LEMMA RequeuedEvolves ==
  ASSUME NEW r \in Row, WellFormed(r), now \in Nat, NEW on, NEW gone, r.state = "leased"
  PROVE  Evolves(r, Requeued(r), on, gone)
<1> DEFINE m == Requeued(r)
<1>1. m \in Row
  BY UpdatesTyped DEF Null
<1>2. /\ m.owner = NoOwner /\ m.leaseUntil = Null /\ m.state = "retry"
      /\ m.terminalAt = r.terminalAt /\ m.kept = r.kept
      /\ m.cycle = r.cycle /\ m.attempts = r.attempts /\ m.revision = r.revision + 1
  BY DEF Requeued, Unleased, Row
<1> HIDE DEF m
<1>3. WellFormed(m)
  BY <1>2 DEF WellFormed, Ended, Final
<1> QED
  BY <1>1, <1>2, <1>3 DEF Evolves, Row, Unfinished, m

LEMMA RevivedEvolves ==
  ASSUME NEW r \in Row, WellFormed(r), now \in Nat, NEW on, NEW gone \in BOOLEAN,
         r.state = "terminal", r.kept, ~gone
  PROVE  Evolves(r, Revived(r), on, gone)
<1> DEFINE m == Revived(r)
<1>1. m \in Row
  BY UpdatesTyped DEF Null
<1>2. /\ m.owner = NoOwner /\ m.leaseUntil = Null /\ m.state = "retry"
      /\ m.terminalAt = Null /\ m.kept = r.kept
      /\ m.cycle = 0 /\ m.attempts = r.attempts /\ m.revision = r.revision + 1
  BY DEF Revived, Requeued, Unleased, Row
<1> HIDE DEF m
<1>3. WellFormed(m)
  BY <1>2, ConstantsAssumption DEF WellFormed, Ended, Final, Row
<1> QED
  BY <1>1, <1>2, <1>3 DEF Evolves, Row, m

LEMMA DismissedDeliveryEvolves ==
  ASSUME NEW r \in Row, WellFormed(r), now \in Nat, NEW on, NEW gone \in BOOLEAN,
         r.state = "terminal", r.kept, ~gone
  PROVE  Evolves(r, [Unleased(r) EXCEPT !.state = "dismissed"], on, gone)
<1> DEFINE m == [Unleased(r) EXCEPT !.state = "dismissed"]
<1>1. m \in Row
  BY UpdateEffects
<1>2. /\ m.owner = NoOwner /\ m.leaseUntil = Null /\ m.state = "dismissed"
      /\ m.terminalAt = r.terminalAt /\ m.kept = r.kept
      /\ m.cycle = r.cycle /\ m.attempts = r.attempts /\ m.revision = r.revision + 1
  BY DEF Unleased, Row
<1> HIDE DEF m
<1>3. WellFormed(m)
  BY <1>2 DEF WellFormed, Ended, Final
<1>4. Evolves(r, m, on, gone)
  <2>1. m \in Row
    BY <1>1 DEF m
  <2>2. r.revision <= m.revision
    BY <1>2 DEF Row
  <2> QED
    BY <1>2, <1>3, <2>1, <2>2 DEF Evolves
<1> QED
  BY <1>4 DEF m

LEMMA SettledEvolves ==
  ASSUME NEW r \in Row, WellFormed(r), now \in Nat, NEW on \in BOOLEAN, NEW gone \in BOOLEAN,
         NEW outcome \in Outcome, r.state = "leased", on, ~gone
  PROVE  Evolves(r, Settled(r, outcome), on, gone)
<1> DEFINE m == Settled(r, outcome)
<1>1. m \in Row
  BY SettledTyped
<1>2. /\ m.owner = NoOwner /\ m.leaseUntil = Null
      /\ \/ m.state \in {"succeeded", "terminal"} /\ m.terminalAt = now
         \/ m.state = "retry" /\ m.terminalAt = r.terminalAt
      /\ m.kept = r.kept
      /\ m.cycle = r.cycle /\ m.attempts = r.attempts /\ m.revision = r.revision + 1
  <2> DEFINE failStart == IF r.failStart = Null THEN now ELSE r.failStart
  <2>1. \/ m = Closed(r, "succeeded")
        \/ m = [Closed(r, "terminal") EXCEPT !.failStart = failStart]
        \/ m = [Unleased(r) EXCEPT !.state = "retry", !.failStart = failStart,
                                   !.nextAt = now + RetryDelay(r.cycle)]
    BY ONLY Zenon DEF Settled
  <2> HIDE DEF m, failStart
  <2>2. CASE m = Closed(r, "succeeded")
    BY <2>2 DEF Closed, Unleased, Row
  <2>3. CASE m = [Closed(r, "terminal") EXCEPT !.failStart = failStart]
    BY <2>3 DEF Closed, Unleased, Row
  <2>4. CASE m = [Unleased(r) EXCEPT !.state = "retry", !.failStart = failStart,
                                     !.nextAt = now + RetryDelay(r.cycle)]
    BY <2>4 DEF Unleased, Row
  <2> QED
    BY <2>1, <2>2, <2>3, <2>4
<1> HIDE DEF m
<1>3. now # Null
  BY DEF Null
<1>4. WellFormed(m)
  BY <1>2, <1>3 DEF WellFormed, Ended, Final
<1> QED
  BY <1>1, <1>2, <1>4 DEF Evolves, Row, Unfinished, m

LEMMA DismissedEvolves ==
  ASSUME NEW r \in Row, WellFormed(r), now \in Nat, NEW on, NEW gone \in BOOLEAN, ~gone
  PROVE  Evolves(r, Dismissed(r), on, gone) /\ Evolves(r, DismissedForMove(r), on, gone)
<1>1. Evolves(r, Dismissed(r), on, gone)
  <2>1. CASE r.state \in Unfinished
    <3> DEFINE m == Closed(r, "dismissed")
    <3>1. Dismissed(r) = m /\ m \in Row
      BY <2>1, DismissedEffects DEF Dismissed
    <3>2. /\ m.owner = NoOwner /\ m.leaseUntil = Null /\ m.state = "dismissed" /\ m.terminalAt = now
          /\ m.kept = r.kept /\ m.cycle = r.cycle /\ m.attempts = r.attempts
          /\ m.revision = r.revision + 1
      BY DEF Closed, Unleased, Row
    <3> HIDE DEF m
    <3>3. now # Null
      BY DEF Null
    <3>4. WellFormed(m)
      BY <3>2, <3>3 DEF WellFormed, Ended, Final
    <3> QED
      BY <2>1, <3>1, <3>2, <3>4 DEF Evolves, Row
  <2>2. CASE r.state \notin Unfinished
    BY <2>2, StaysEvolves DEF Dismissed
  <2> QED
    BY <2>1, <2>2
<1>2. Evolves(r, DismissedForMove(r), on, gone)
  <2> DEFINE m == [r EXCEPT !.state = "dismissed", !.revision = @ + 1]
  <2>1. CASE r.state = "terminal" /\ r.kept
    <3>1. DismissedForMove(r) = m /\ m \in Row
      BY <2>1, DismissedEffects DEF DismissedForMove
    <3>2. /\ m.owner = r.owner /\ m.leaseUntil = r.leaseUntil /\ m.state = "dismissed"
          /\ m.terminalAt = r.terminalAt
          /\ m.kept = r.kept /\ m.cycle = r.cycle /\ m.attempts = r.attempts
          /\ m.revision = r.revision + 1
      BY DEF Row
    <3> HIDE DEF m
    <3>3. WellFormed(m)
      BY <2>1, <3>2 DEF WellFormed, Ended, Final
    <3> QED
      BY <2>1, <3>1, <3>2, <3>3 DEF Evolves, Row
  <2>2. CASE ~(r.state = "terminal" /\ r.kept)
    <3>1. DismissedForMove(r) = Dismissed(r)
      BY ONLY <2>2, Zenon DEF DismissedForMove
    <3> QED
      BY <1>1, <3>1
  <2> QED
    BY <2>1, <2>2
<1> QED
  BY <1>1, <1>2

LEMMA SwitchedEvolves ==
  ASSUME NEW r \in Row, WellFormed(r), DestinationsOK, now \in Nat, NEW d \in Destination,
         NEW off \in BOOLEAN, NEW on \in BOOLEAN, NEW gone
  PROVE  Evolves(r, Switched(r, d, off, on), enabled[d], gone)
<1> DEFINE p == IF off THEN Paused(r) ELSE r
           since == IF off THEN DisabledSince(d) ELSE disabledAt[d]
           m == Shifted(p, since)
<1>0. since \in Nat \cup {Null}
  BY DEF DisabledSince, DestinationsOK
<1>1. Evolves(r, Paused(r), enabled[d], gone)
  <2>1. CASE r.state \in Unfinished
    <3> DEFINE q == [Unleased(r) EXCEPT !.state = IF @ = "leased" THEN "retry" ELSE @, !.nextAt = now]
    <3>1. Paused(r) = q /\ q \in Row
      BY <2>1, UpdatesTyped DEF Paused, Null
    <3>2. /\ q.owner = NoOwner /\ q.leaseUntil = Null
          /\ q.state = IF r.state = "leased" THEN "retry" ELSE r.state
          /\ q.terminalAt = r.terminalAt /\ q.failStart = r.failStart
          /\ q.kept = r.kept /\ q.cycle = r.cycle /\ q.attempts = r.attempts
          /\ q.revision = r.revision + 1
      BY DEF Unleased, Row
    <3> HIDE DEF q
    <3>3. WellFormed(q)
      BY <2>1, <3>2 DEF WellFormed, Ended, Final, Unfinished
    <3> QED
      BY <2>1, <3>1, <3>2, <3>3 DEF Evolves, Row, Unfinished
  <2>2. CASE r.state \notin Unfinished
    BY <2>2, StaysEvolves DEF Paused
  <2> QED
    BY <2>1, <2>2
<1>2. Evolves(r, p, enabled[d], gone)
  BY <1>1, StaysEvolves
<1>3. p \in Row /\ WellFormed(p)
  BY <1>2 DEF Evolves
<1>4. Switched(r, d, off, on) = IF on THEN m ELSE p
  BY DEF Switched
<1> HIDE DEF p, since
<1>5. m \in Row
  BY <1>0, <1>3, UpdatesTyped
<1>6. /\ m.owner = p.owner /\ m.leaseUntil = p.leaseUntil /\ m.state = p.state
      /\ m.terminalAt = p.terminalAt /\ (p.failStart = Null => m.failStart = Null)
      /\ m.kept = p.kept /\ m.cycle = p.cycle /\ m.attempts = p.attempts
      /\ m.revision = p.revision
  BY <1>3 DEF Shifted, Row
<1> HIDE DEF m
<1>7. WellFormed(m)
  BY <1>3, <1>6 DEF WellFormed
<1>8. Evolves(r, m, enabled[d], gone)
  BY <1>2, <1>5, <1>6, <1>7 DEF Evolves
<1> QED
  BY <1>2, <1>4, <1>8

-------------------------------------------------------------------------------
(* One transaction: an evolution of every row, then perhaps an admission.     *)

(* Only one row can become succeeded, the one whose result is applied.        *)
OneSucceeds(rows) ==
  \A x, y \in Delivery :
    /\ row[x].state # "succeeded" /\ rows[x].state = "succeeded"
    /\ row[y].state # "succeeded" /\ rows[y].state = "succeeded"
    => x = y
Evolution(rows) ==
  /\ rows \in [Delivery -> Row]
  /\ \A x \in Delivery :
       Evolves(row[x], rows[x], enabled[DestinationOf(x)], retired[DestinationOf(x)])
  /\ OneSucceeds(rows)
  /\ row' = rows \/ AdmitInto(rows)
RowsFormed == \A x \in Delivery : WellFormed(row[x])

(* Handlers that change one row, or none. *)
LEMMA OneRowEvolution ==
  ASSUME IInv, RowsFormed, NEW x \in Delivery, NEW m,
         Evolves(row[x], m, enabled[DestinationOf(x)], retired[DestinationOf(x)]),
         \/ row' = [row EXCEPT ![x] = m]
         \/ AdmitInto([row EXCEPT ![x] = m])
  PROVE  \E rows : Evolution(rows)
<1> DEFINE rows == [row EXCEPT ![x] = m]
<1>1. row \in [Delivery -> Row] /\ m \in Row
  BY DEF IInv, RowsOK, Evolves
<1>2. rows \in [Delivery -> Row] /\ rows[x] = m /\ \A y \in Delivery : y # x => rows[y] = row[y]
  BY <1>1
<1>3. row' = rows \/ AdmitInto(rows)
  OBVIOUS
<1> HIDE DEF rows
<1>4. \A y \in Delivery :
        Evolves(row[y], rows[y], enabled[DestinationOf(y)], retired[DestinationOf(y)])
  BY <1>1, <1>2, StaysEvolves DEF RowsFormed
<1>5. OneSucceeds(rows)
  BY <1>2 DEF OneSucceeds
<1> QED
  BY <1>2, <1>3, <1>4, <1>5 DEF Evolution

LEMMA IdleEvolution ==
  ASSUME IInv, RowsFormed, row' = row \/ AdmitInto(row)
  PROVE  \E rows : Evolution(rows)
<1>1. row \in [Delivery -> Row]
  BY DEF IInv, RowsOK
<1>2. \A y \in Delivery :
        Evolves(row[y], row[y], enabled[DestinationOf(y)], retired[DestinationOf(y)])
  BY <1>1, StaysEvolves DEF RowsFormed
<1>3. OneSucceeds(row)
  BY DEF OneSucceeds
<1> QED
  BY <1>1, <1>2, <1>3 DEF Evolution

(* Handlers that change every row of a destination. *)
LEMMA DestinationEvolution ==
  ASSUME IInv, RowsFormed, NEW d \in Destination, NEW rows \in [Delivery -> Row],
         \A x \in Delivery : DestinationOf(x) # d => rows[x] = row[x],
         \A x \in Delivery :
           DestinationOf(x) = d =>
             /\ Evolves(row[x], rows[x], enabled[d], retired[d])
             /\ rows[x].state = "succeeded" => row[x].state = "succeeded",
         AdmitInto(rows)
  PROVE  \E evolved : Evolution(evolved)
<1>1. \A x \in Delivery : row[x] \in Row /\ WellFormed(row[x])
  BY DEF IInv, RowsOK, RowsFormed
<1>2. \A x \in Delivery :
        Evolves(row[x], rows[x], enabled[DestinationOf(x)], retired[DestinationOf(x)])
  BY <1>1, StaysEvolves
<1>3. OneSucceeds(rows)
  BY DEF OneSucceeds
<1> QED
  BY <1>2, <1>3 DEF Evolution

LEMMA UpdatesSucceed ==
  ASSUME NEW r \in Row, now \in Nat, NEW d \in Destination, DestinationsOK,
         NEW off \in BOOLEAN, NEW on \in BOOLEAN
  PROVE  /\ Switched(r, d, off, on).state = "succeeded" => r.state = "succeeded"
         /\ Dismissed(r).state = "succeeded" => r.state = "succeeded"
         /\ DismissedForMove(r).state = "succeeded" => r.state = "succeeded"
<1>1. \A q \in Row : /\ Paused(q) \in Row
                     /\ Paused(q).state = "succeeded" => q.state = "succeeded"
  <2>1. \A q \in Row : Paused(q) \in Row
    BY UpdatesTyped DEF Null
  <2>2. \A q \in Row : Paused(q).state = "succeeded" => q.state = "succeeded"
    BY DEF Paused, Unleased, Row
  <2> QED
    BY <2>1, <2>2
<1>2. \A q \in Row : \A start : Shifted(q, start).state = q.state
  BY DEF Shifted, Row
<1>3. Switched(r, d, off, on).state = "succeeded" => r.state = "succeeded"
  <2> DEFINE p == IF off THEN Paused(r) ELSE r
             since == IF off THEN DisabledSince(d) ELSE disabledAt[d]
  <2>1. Switched(r, d, off, on) = IF on THEN Shifted(p, since) ELSE p
    BY DEF Switched
  <2>2. p \in Row /\ (p.state = "succeeded" => r.state = "succeeded")
    BY <1>1
  <2> HIDE DEF p, since
  <2>3. Shifted(p, since).state = p.state
    BY <1>2, <2>2
  <2> QED
    BY <2>1, <2>2, <2>3
<1>4. Dismissed(r).state = "succeeded" => r.state = "succeeded"
  BY DEF Dismissed, Closed, Unleased, Row
<1>5. DismissedForMove(r).state = "succeeded" => r.state = "succeeded"
  <2> DEFINE m == [r EXCEPT !.state = "dismissed", !.revision = @ + 1]
  <2>1. m.state = "dismissed"
    BY DEF Row
  <2>2. DismissedForMove(r) = m \/ DismissedForMove(r) = Dismissed(r)
    BY ONLY Zenon DEF DismissedForMove
  <2> HIDE DEF m
  <2>3. CASE DismissedForMove(r) = m
    BY <2>1, <2>3
  <2>4. CASE DismissedForMove(r) = Dismissed(r)
    BY <1>4, <2>4
  <2> QED
    BY <2>2, <2>3, <2>4
<1> QED
  BY <1>3, <1>4, <1>5

LEMMA SwitchEvolution ==
  ASSUME IInv, RowsFormed, NEW d \in Destination, NEW off \in BOOLEAN, NEW on \in BOOLEAN,
         AdmitInto([x \in Delivery |-> IF DestinationOf(x) = d THEN Switched(row[x], d, off, on)
                                                             ELSE row[x]])
  PROVE  \E rows : Evolution(rows)
<1> DEFINE rows == [x \in Delivery |-> IF DestinationOf(x) = d THEN Switched(row[x], d, off, on)
                                                              ELSE row[x]]
<1>1. AdmitInto(rows)
  OBVIOUS
<1>2. now \in Nat /\ DestinationsOK
  BY DEF IInv
<1>3. \A x \in Delivery : row[x] \in Row /\ WellFormed(row[x])
  BY DEF IInv, RowsOK, RowsFormed
<1>4. \A x \in Delivery : /\ DestinationOf(x) = d => rows[x] = Switched(row[x], d, off, on)
                          /\ DestinationOf(x) # d => rows[x] = row[x]
  OBVIOUS
<1>5. \A x \in Delivery :
        Evolves(row[x], Switched(row[x], d, off, on), enabled[d], retired[d])
  BY <1>2, <1>3, SwitchedEvolves
<1>6. \A x \in Delivery : Switched(row[x], d, off, on) \in Row
  BY <1>5 DEF Evolves
<1>7. rows \in [Delivery -> Row]
  BY <1>3, <1>6
<1> HIDE DEF rows
<1>8. \A x \in Delivery :
        DestinationOf(x) = d =>
          /\ Evolves(row[x], rows[x], enabled[d], retired[d])
          /\ rows[x].state = "succeeded" => row[x].state = "succeeded"
  BY <1>2, <1>3, <1>4, <1>5, UpdatesSucceed
<1> QED
  BY <1>1, <1>4, <1>7, <1>8, DestinationEvolution

LEMMA MoveEvolution ==
  ASSUME IInv, RowsFormed, NEW d \in Destination, NEW enabledAfter \in BOOLEAN,
         MoveOrigin(d, enabledAfter)
  PROVE  \E rows : Evolution(rows)
<1> DEFINE rows == [x \in Delivery |-> IF DestinationOf(x) = d THEN DismissedForMove(row[x])
                                                              ELSE row[x]]
<1>1. AdmitInto(rows) /\ ~retired[d]
  BY DEF MoveOrigin, OfDestination
<1>2. now \in Nat /\ DestinationsOK /\ retired[d] \in BOOLEAN
  BY DEF IInv, DestinationsOK
<1>3. \A x \in Delivery : row[x] \in Row /\ WellFormed(row[x])
  BY DEF IInv, RowsOK, RowsFormed
<1>4. \A x \in Delivery : /\ DestinationOf(x) = d => rows[x] = DismissedForMove(row[x])
                          /\ DestinationOf(x) # d => rows[x] = row[x]
  OBVIOUS
<1>5. \A x \in Delivery : Evolves(row[x], DismissedForMove(row[x]), enabled[d], retired[d])
  BY <1>1, <1>2, <1>3, DismissedEvolves
<1>6. \A x \in Delivery : DismissedForMove(row[x]) \in Row
  BY <1>5 DEF Evolves
<1>7. rows \in [Delivery -> Row]
  BY <1>3, <1>6
<1> HIDE DEF rows
<1>8. \A x \in Delivery :
        DestinationOf(x) = d =>
          /\ Evolves(row[x], rows[x], enabled[d], retired[d])
          /\ rows[x].state = "succeeded" => row[x].state = "succeeded"
  <2>1. \A r \in Row : DismissedForMove(r).state = "succeeded" => r.state = "succeeded"
    BY <1>2, UpdatesSucceed
  <2> QED
    BY <1>3, <1>4, <1>5, <2>1
<1> QED
  BY <1>1, <1>4, <1>7, <1>8, DestinationEvolution

LEMMA RetireEvolution ==
  ASSUME IInv, RowsFormed, NEW d \in Destination, Retire(d)
  PROVE  \E rows : Evolution(rows)
<1> DEFINE rows == [x \in Delivery |-> IF DestinationOf(x) = d THEN Dismissed(row[x]) ELSE row[x]]
<1>1. AdmitInto(rows) /\ ~retired[d]
  BY DEF Retire, OfDestination
<1>2. now \in Nat /\ DestinationsOK /\ retired[d] \in BOOLEAN
  BY DEF IInv, DestinationsOK
<1>3. \A x \in Delivery : row[x] \in Row /\ WellFormed(row[x])
  BY DEF IInv, RowsOK, RowsFormed
<1>4. \A x \in Delivery : /\ DestinationOf(x) = d => rows[x] = Dismissed(row[x])
                          /\ DestinationOf(x) # d => rows[x] = row[x]
  OBVIOUS
<1>5. \A x \in Delivery : Evolves(row[x], Dismissed(row[x]), enabled[d], retired[d])
  BY <1>1, <1>2, <1>3, DismissedEvolves
<1>6. \A x \in Delivery : Dismissed(row[x]) \in Row
  BY <1>5 DEF Evolves
<1>7. rows \in [Delivery -> Row]
  BY <1>3, <1>6
<1> HIDE DEF rows
<1>8. \A x \in Delivery :
        DestinationOf(x) = d =>
          /\ Evolves(row[x], rows[x], enabled[d], retired[d])
          /\ rows[x].state = "succeeded" => row[x].state = "succeeded"
  <2>1. \A r \in Row : Dismissed(r).state = "succeeded" => r.state = "succeeded"
    BY <1>2, UpdatesSucceed
  <2> QED
    BY <1>3, <1>4, <1>5, <2>1
<1> QED
  BY <1>1, <1>4, <1>7, <1>8, DestinationEvolution

(* Of the claims, a step may drop some, or claimDue adds the newest of rows   *)
(* that nobody has finished.                                                  *)
ClaimsEvolve(rows) ==
  /\ \A c \in claims' \ claims :
       /\ c.delivery \in Delivery /\ row[c.delivery].state \in Unfinished
       /\ c.revision = row[c.delivery].revision + 1
       /\ c.revision = rows[c.delivery].revision
  /\ \A b, c \in claims' \ claims : b.delivery = c.delivery => b = c
ClaimDueStep ==
  \E owner \in Owner, limit \in ClaimLimits : ClaimDue(owner, limit)

LEMMA ClaimDueEvolution ==
  ASSUME IInv, RowsFormed, ClaimDueStep
  PROVE  \E rows : Evolution(rows) /\ ClaimsEvolve(rows) /\ row' = rows
<1> PICK owner \in Owner, limit \in ClaimLimits : ClaimDue(owner, limit)
  BY DEF ClaimDueStep
<1> DEFINE Taken(T, C) ==
      /\ row' = [x \in Delivery |->
                   IF x \in T THEN Closed(row[x], "terminal")
                   ELSE IF x \in C THEN Leased(row[x], owner) ELSE row[x]]
      /\ claims' = claims \cup
           {[delivery |-> x, owner |-> owner, revision |-> row[x].revision + 1] : x \in C}
<1>0a. PICK T \in Earliest(Exhausted, limit) :
         \E R \in FirstPerDestination(Claimable \ T) : \E C \in Earliest(R, limit) : Taken(T, C)
  BY DEF ClaimDue
<1>0b. PICK R \in FirstPerDestination(Claimable \ T) : \E C \in Earliest(R, limit) : Taken(T, C)
  BY <1>0a
<1>1. PICK C \in Earliest(R, limit) : Taken(T, C)
  BY <1>0b
<1>2. T \subseteq Exhausted /\ C \subseteq Claimable \ T
  BY DEF Earliest, FirstPerDestination
<1>3. /\ now \in Nat /\ row \in [Delivery -> Row]
      /\ enabled \in [Destination -> BOOLEAN] /\ retired \in [Destination -> BOOLEAN]
      /\ \A d \in Destination : retired[d] => ~enabled[d]
      /\ \A x \in Delivery : DestinationOf(x) \in Destination
  BY DEF IInv, RowsOK, DestinationsOK, Delivery, DestinationOf
<1>4. \A x \in T : x \in Delivery /\ enabled[DestinationOf(x)] /\ row[x].state \in Unfinished
  BY <1>2 DEF Exhausted, LeaseExpired, Unfinished
<1>5. \A x \in C : /\ x \in Delivery /\ x \notin T /\ row[x].state \in Unfinished
                  /\ row[x].cycle < MaxCycleAttempts
  BY <1>2 DEF Claimable, Due, LeaseExpired, Unfinished
<1>6. \A x \in Delivery :
        Evolves(row[x], row'[x], enabled[DestinationOf(x)], retired[DestinationOf(x)])
  <2> SUFFICES ASSUME NEW x \in Delivery
               PROVE  Evolves(row[x], row'[x], enabled[DestinationOf(x)], retired[DestinationOf(x)])
    OBVIOUS
  <2>1. row[x] \in Row /\ WellFormed(row[x])
    BY <1>3 DEF RowsFormed
  <2>2. CASE x \in T
    <3>1. row'[x] = Closed(row[x], "terminal")
      BY <1>1, <2>2
    <3>2. enabled[DestinationOf(x)] /\ ~retired[DestinationOf(x)] /\ row[x].state \in Unfinished
      BY <1>3, <1>4, <2>2
    <3>3. enabled[DestinationOf(x)] \in BOOLEAN /\ retired[DestinationOf(x)] \in BOOLEAN
      BY <1>3
    <3> QED
      BY <1>3, <2>1, <3>1, <3>2, <3>3, ClosedEvolves
  <2>3. CASE x \in C
    <3>1. row'[x] = Leased(row[x], owner)
      BY <1>1, <1>5, <2>3
    <3> QED
      BY <1>3, <1>5, <2>1, <2>3, <3>1, LeasedEvolves
  <2>4. CASE x \notin T \cup C
    <3>1. row'[x] = row[x]
      BY <1>1, <2>4
    <3> QED
      BY <2>1, <3>1, StaysEvolves
  <2> QED
    BY <2>2, <2>3, <2>4
<1>7. row' \in [Delivery -> Row]
  <2>1. \A x \in Delivery : row'[x] \in Row
    BY <1>6 DEF Evolves
  <2> QED
    BY <1>1, <2>1
<1>8. OneSucceeds(row')
  <2>1. \A r \in Row : /\ Closed(r, "terminal").state = "terminal"
                       /\ Leased(r, owner).state = "leased"
    BY DEF Closed, Unleased, Leased, Row
  <2>2. \A x \in Delivery : row'[x].state = "succeeded" => row[x].state = "succeeded"
    BY <1>1, <1>3, <2>1
  <2> QED
    BY <2>2 DEF OneSucceeds
<1>9. ClaimsEvolve(row')
  <2>1. \A x \in C : row'[x].revision = row[x].revision + 1
    <3>1. \A r \in Row : Leased(r, owner).revision = r.revision + 1
      BY DEF Leased, Row
    <3> QED
      BY <1>1, <1>3, <1>5, <3>1
  <2>2. \A c \in claims' \ claims :
          \E x \in C : c = [delivery |-> x, owner |-> owner, revision |-> row[x].revision + 1]
    BY <1>1
  <2> QED
    BY <1>5, <2>1, <2>2 DEF ClaimsEvolve
<1> QED
  BY <1>6, <1>7, <1>8, <1>9 DEF Evolution

(* Every step is an evolution followed by an admission, and claims move with  *)
(* the rows; nobody leaves retirement.                                        *)
LEMMA StepEvolution ==
  ASSUME IInv, RowsFormed, Next
  PROVE  \E rows : Evolution(rows) /\ ClaimsEvolve(rows)
<1>1. /\ row \in [Delivery -> Row] /\ now \in Nat /\ DestinationsOK
      /\ \A c \in claims : c.delivery \in Delivery
      /\ \A x \in Delivery : /\ row[x] \in Row /\ WellFormed(row[x])
                             /\ DestinationOf(x) \in Destination
  BY DEF IInv, RowsOK, RowsFormed, Claim, Delivery, DestinationOf
<1>2. ASSUME \E rows : Evolution(rows), claims' \subseteq claims
      PROVE  \E rows : Evolution(rows) /\ ClaimsEvolve(rows)
  BY <1>2 DEF ClaimsEvolve
<1>3. CASE Admit
  BY <1>2, <1>3, IdleEvolution DEF Admit
<1>4. CASE PruneTerminal
  <2>1. AdmitInto(row)
    BY <1>4 DEF PruneTerminal, AdmitInto
  <2> QED
    BY <1>2, <1>4, <2>1, IdleEvolution DEF PruneTerminal
<1>5. CASE ClaimDueStep
  BY <1>5, ClaimDueEvolution
<1>6. ASSUME NEW c \in claims, NEW outcome \in Outcome, ApplyDeliveryResult(c, outcome)
      PROVE  \E rows : Evolution(rows)
  <2>1. CASE Applies(c)
    <3> DEFINE x == c.delivery  m == Settled(row[x], outcome)
    <3>1. x \in Delivery /\ row[x] \in Row /\ WellFormed(row[x]) /\ row[x].state = "leased"
      BY <1>1, <2>1 DEF Applies, Holds
    <3>2. /\ enabled[DestinationOf(x)] /\ ~retired[DestinationOf(x)]
          /\ enabled[DestinationOf(x)] \in BOOLEAN /\ retired[DestinationOf(x)] \in BOOLEAN
      BY <1>1, <3>1 DEF IInv, RowsOK, LeasedIsEnabled, DestinationsOK
    <3>3. Evolves(row[x], m, enabled[DestinationOf(x)], retired[DestinationOf(x)])
      BY <1>1, <3>1, <3>2, SettledEvolves
    <3>4. AdmitInto([row EXCEPT ![x] = m])
      BY <1>6, <2>1 DEF ApplyDeliveryResult
    <3> HIDE DEF x, m
    <3> QED
      BY <3>1, <3>3, <3>4, OneRowEvolution
  <2>2. CASE ~Applies(c)
    BY <1>6, <2>2, IdleEvolution DEF ApplyDeliveryResult
  <2> QED
    BY <2>1, <2>2
<1>7. ASSUME NEW c \in claims, ReleaseClaim(c)
      PROVE  \E rows : Evolution(rows)
  <2>1. CASE Holds(c)
    <3> DEFINE x == c.delivery  m == Requeued(row[x])
    <3>1. x \in Delivery /\ row[x] \in Row /\ WellFormed(row[x]) /\ row[x].state = "leased"
      BY <1>1, <2>1 DEF Holds
    <3>2. Evolves(row[x], m, enabled[DestinationOf(x)], retired[DestinationOf(x)])
      BY <1>1, <3>1, RequeuedEvolves
    <3>3. row' = [row EXCEPT ![x] = m]
      BY <1>7, <2>1 DEF ReleaseClaim
    <3> HIDE DEF x, m
    <3> QED
      BY <3>1, <3>2, <3>3, OneRowEvolution
  <2>2. CASE ~Holds(c)
    <3>1. row' = row
      BY <1>1, <1>7, <2>2 DEF ReleaseClaim
    <3> QED
      BY <3>1, IdleEvolution
  <2> QED
    BY <2>1, <2>2
<1>8. CASE \E c \in claims, outcome \in Outcome : ApplyDeliveryResult(c, outcome)
  BY <1>2, <1>6, <1>8 DEF ApplyDeliveryResult
<1>9. CASE \E c \in claims : ReleaseClaim(c)
  BY <1>2, <1>7, <1>9 DEF ReleaseClaim
<1>10. CASE \E c \in claims : LoseClaim(c)
  BY <1>2, <1>10, IdleEvolution DEF LoseClaim
<1>11. CASE \E x \in Delivery : RetryDelivery(x)
  <2> PICK x \in Delivery : RetryDelivery(x)
    BY <1>11
  <2>1. /\ ~retired[DestinationOf(x)] /\ retired[DestinationOf(x)] \in BOOLEAN
        /\ row[x].state = "terminal" /\ row[x].kept
        /\ row' = [row EXCEPT ![x] = Revived(row[x])]
    BY <1>1 DEF RetryDelivery, Retriable, DestinationsOK
  <2>2. Evolves(row[x], Revived(row[x]), enabled[DestinationOf(x)], retired[DestinationOf(x)])
    BY <1>1, <2>1, RevivedEvolves
  <2>3. \E rows : Evolution(rows)
    BY <2>1, <2>2, OneRowEvolution
  <2> QED
    BY <1>2, <2>3 DEF RetryDelivery
<1>12. CASE \E x \in Delivery : DismissDelivery(x)
  <2> PICK x \in Delivery : DismissDelivery(x)
    BY <1>12
  <2> DEFINE m == [Unleased(row[x]) EXCEPT !.state = "dismissed"]
  <2>1. /\ ~retired[DestinationOf(x)] /\ retired[DestinationOf(x)] \in BOOLEAN
        /\ row[x].state = "terminal" /\ row[x].kept
        /\ row' = [row EXCEPT ![x] = m]
    BY <1>1 DEF DismissDelivery, Retriable, DestinationsOK
  <2>2. Evolves(row[x], m, enabled[DestinationOf(x)], retired[DestinationOf(x)])
    BY <1>1, <2>1, DismissedDeliveryEvolves
  <2> HIDE DEF m
  <2>3. \E rows : Evolution(rows)
    BY <2>1, <2>2, OneRowEvolution
  <2> QED
    BY <1>2, <2>3 DEF DismissDelivery
<1>13. ASSUME NEW d \in Destination, NEW off \in BOOLEAN, NEW on \in BOOLEAN,
              AdmitInto(OfDestination(d, LAMBDA r : Switched(r, d, off, on)))
       PROVE  \E rows : Evolution(rows)
  BY <1>13, SwitchEvolution DEF OfDestination
<1>14. CASE \E d \in Destination : Disable(d) \/ Enable(d)
  BY <1>2, <1>13, <1>14 DEF Disable, Enable, SwitchTo
<1>15. CASE \E d \in Destination, off, on \in BOOLEAN : EditConfiguration(d, off, on)
  BY <1>2, <1>13, <1>15 DEF EditConfiguration, SwitchTo
<1>16. CASE \E d \in Destination : Retire(d)
  BY <1>2, <1>16, RetireEvolution DEF Retire
<1>17. CASE \E d \in Destination, enabledAfter \in BOOLEAN : MoveOrigin(d, enabledAfter)
  BY <1>2, <1>17, MoveEvolution DEF MoveOrigin
<1>18. CASE Tick
  BY <1>2, <1>18, IdleEvolution DEF Tick
<1> QED
  BY <1>3, <1>4, <1>5, <1>8, <1>9, <1>10, <1>11, <1>12, <1>14, <1>15, <1>16, <1>17, <1>18
  DEF Next, ClaimDueStep

(* What a step can make of one row: an evolution of it, the deletion of an    *)
(* ended one or of one never attempted, or a new pending one.                 *)
RowStep(x, m) ==
  /\ Evolves(row[x], m, enabled[DestinationOf(x)], retired[DestinationOf(x)])
  /\ \/ row'[x] = m
     \/ m.state \in Ended /\ row'[x] = Deleted(m.state)
     \/ m.state = "pending" /\ m.kept /\ row'[x] = Deleted("superseded")
     \/ /\ row[x].state = "none"
        /\ Live(DestinationOf(x))' /\ row'[x] = Queued(DestinationOf(x))

LEMMA EvolutionRowStep ==
  ASSUME NEW rows, Evolution(rows), NEW x \in Delivery
  PROVE  RowStep(x, rows[x])
<1>1. rows \in [Delivery -> Row]
  BY DEF Evolution
<1>2. CASE row' = rows
  BY <1>2 DEF Evolution, RowStep
<1>3. CASE AdmitInto(rows)
  BY <1>1, <1>3, AdmitIntoCases DEF Evolution, RowStep
<1> QED
  BY <1>2, <1>3 DEF Evolution

-------------------------------------------------------------------------------
(* The constraints of the schema and the fencing of claims. *)

QueuedIsKept == \A x \in Delivery : row[x].state \in Unfinished => row[x].kept
ClaimsFenced ==
  \A c \in claims :
    /\ row[c.delivery].state # "none"
    /\ row[c.delivery].kept => c.revision <= row[c.delivery].revision
ClaimsDistinct ==
  \A b, c \in claims : b.delivery = c.delivery /\ b.revision = c.revision => b = c

(* NewestClaimHolds says that a claim which settles a delivery is its newest. *)
(* To keep it, no claim may be ahead of its row's revision, and claimDue must *)
(* give out a revision that no claim of the row has: both fail for a row that *)
(* is deleted and inserted again, so it matters that an ended row is not.     *)
HistoryInv ==
  /\ IInv /\ RowsFormed /\ QueuedIsKept /\ ClaimsFenced /\ ClaimsDistinct

LEMMA HistoryInitOK == Init => HistoryInv
<1> SUFFICES ASSUME Init PROVE HistoryInv
  OBVIOUS
<1>1. IInv
  BY InitOK
<1>2. RowsFormed
  BY ConstantsAssumption DEF Init, RowsFormed, WellFormed, Absent, Ended, Final, NoOwner, Null
<1>3. QueuedIsKept
  BY DEF Init, QueuedIsKept, Absent, Unfinished
<1> QED
  BY <1>1, <1>2, <1>3 DEF Init, HistoryInv, ClaimsFenced, ClaimsDistinct

LEMMA HistoryNextOK == HistoryInv /\ [Next]_vars => HistoryInv'
<1> SUFFICES ASSUME HistoryInv, [Next]_vars PROVE HistoryInv'
  OBVIOUS
<1>1. IInv'
  BY NextOK DEF HistoryInv
<1>2. CASE UNCHANGED vars
  BY <1>1, <1>2 DEF vars, HistoryInv, RowsFormed, QueuedIsKept, ClaimsFenced, ClaimsDistinct
<1>3. CASE Next
  <2>1. PICK rows : Evolution(rows) /\ ClaimsEvolve(rows)
    BY <1>3, StepEvolution DEF HistoryInv
  <2>2. \A x \in Delivery : RowStep(x, rows[x])
    BY <2>1, EvolutionRowStep
  <2>3. /\ row \in [Delivery -> Row] /\ \A x \in Delivery : DestinationOf(x) \in Destination
        /\ claims \subseteq Claim
    BY DEF HistoryInv, IInv, RowsOK, Delivery, DestinationOf
  <2>4. \A d \in Destination : /\ Queued(d).state = "pending" /\ Queued(d).kept
                               /\ WellFormed(Queued(d))
    BY ConstantsAssumption DEF Queued, Absent, WellFormed, Ended, Final, NoOwner, Null
  <2>5. \A state \in Ended \cup {"superseded"} :
          Deleted(state).state = state /\ ~Deleted(state).kept /\ WellFormed(Deleted(state))
    BY ConstantsAssumption DEF Deleted, Absent, WellFormed, Ended, Final, NoOwner, Null
  <2>6. \A x \in Delivery :
          /\ WellFormed(row'[x])
          /\ row'[x].state \in Unfinished => row'[x].kept
          /\ row[x].state # "none" => row'[x].state # "none"
          /\ row[x].state # "none" /\ row'[x].kept =>
               row[x].kept /\ row[x].revision <= rows[x].revision
               /\ row'[x].revision = rows[x].revision
    <3> SUFFICES ASSUME NEW x \in Delivery
                 PROVE  /\ WellFormed(row'[x])
                        /\ row'[x].state \in Unfinished => row'[x].kept
                        /\ row[x].state # "none" => row'[x].state # "none"
                        /\ row[x].state # "none" /\ row'[x].kept =>
                             row[x].kept /\ row[x].revision <= rows[x].revision
                             /\ row'[x].revision = rows[x].revision
      OBVIOUS
    <3>1. Evolves(row[x], rows[x], enabled[DestinationOf(x)], retired[DestinationOf(x)])
      BY <2>2 DEF RowStep
    <3>2. row[x].state \in Unfinished => row[x].kept
      BY DEF HistoryInv, QueuedIsKept
    <3>3. CASE row'[x] = rows[x]
      BY <3>1, <3>2, <3>3 DEF Evolves, Unfinished, Ended, Final
    <3>4. CASE rows[x].state \in Ended /\ row'[x] = Deleted(rows[x].state)
      BY <3>4, <2>5 DEF Ended, Final, Unfinished
    <3>5. CASE rows[x].state = "pending" /\ row'[x] = Deleted("superseded")
      BY <3>5, <2>5 DEF Unfinished
    <3>6. CASE row[x].state = "none" /\ row'[x] = Queued(DestinationOf(x))
      BY <3>6, <2>3, <2>4
    <3> QED
      BY <2>2, <3>3, <3>4, <3>5, <3>6 DEF RowStep
  <2>7. RowsFormed' /\ QueuedIsKept'
    BY <2>6 DEF RowsFormed, QueuedIsKept
  <2>8. ClaimsFenced'
    <3> SUFFICES ASSUME NEW c \in claims'
                 PROVE  /\ row'[c.delivery].state # "none"
                        /\ row'[c.delivery].kept => c.revision <= row'[c.delivery].revision
      BY DEF ClaimsFenced
    <3>1. CASE c \in claims
      <4>1. /\ c.delivery \in Delivery /\ c.revision \in Nat /\ row[c.delivery] \in Row
            /\ row[c.delivery].state # "none"
            /\ row[c.delivery].kept => c.revision <= row[c.delivery].revision
        BY <2>3, <3>1 DEF HistoryInv, ClaimsFenced, Claim
      <4>2. rows[c.delivery] \in Row
        BY <2>1, <4>1 DEF Evolution
      <4> QED
        BY <2>6, <4>1, <4>2 DEF Row
    <3>2. CASE c \notin claims
      <4>1. /\ c.delivery \in Delivery /\ row[c.delivery].state \in Unfinished
            /\ c.revision = rows[c.delivery].revision /\ rows[c.delivery] \in Row
        BY <2>1, <3>2 DEF ClaimsEvolve, Evolution
      <4> QED
        BY <2>6, <4>1 DEF Row, Unfinished
    <3> QED
      BY <3>1, <3>2
  <2>9. ClaimsDistinct'
    <3> SUFFICES ASSUME NEW b \in claims', NEW c \in claims',
                        b.delivery = c.delivery, b.revision = c.revision
                 PROVE  b = c
      BY DEF ClaimsDistinct
    <3>1. ASSUME NEW old \in claims, NEW new \in claims' \ claims, old.delivery = new.delivery
          PROVE  old.revision < new.revision
      <4>1. /\ row[new.delivery].state \in Unfinished /\ new.delivery \in Delivery
            /\ new.revision = row[new.delivery].revision + 1
        BY <2>1, <3>1 DEF ClaimsEvolve
      <4>2. row[new.delivery].kept
        BY <4>1 DEF HistoryInv, QueuedIsKept
      <4>3. old.revision <= row[new.delivery].revision
        BY <3>1, <4>2 DEF HistoryInv, ClaimsFenced
      <4>4. row[new.delivery].revision \in Nat /\ old.revision \in Nat
        BY <2>3, <3>1, <4>1 DEF Row, Claim
      <4> QED
        BY <4>1, <4>3, <4>4
    <3>2. \A a \in claims : a.revision \in Nat
      BY <2>3 DEF Claim
    <3>3. CASE b \in claims /\ c \in claims
      BY <3>3 DEF HistoryInv, ClaimsDistinct
    <3>4. CASE b \in claims /\ c \notin claims
      BY <3>1, <3>2, <3>4
    <3>5. CASE b \notin claims /\ c \in claims
      BY <3>1, <3>2, <3>5
    <3>6. CASE b \notin claims /\ c \notin claims
      BY <2>1, <3>6 DEF ClaimsEvolve
    <3> QED
      BY <3>3, <3>4, <3>5, <3>6
  <2> QED
    BY <1>1, <2>7, <2>8, <2>9 DEF HistoryInv
<1> QED
  BY <1>2, <1>3

LEMMA HistoryInductive == Spec => []HistoryInv
BY HistoryInitOK, HistoryNextOK, PTL DEF Spec

(* The schema's constraints hold of every row that any sequence of            *)
(* transactions leaves behind, and of the claims of one delivery only the     *)
(* newest can settle it, for any number of workers and claims.                *)
THEOREM ClaimsAreSound == Spec => []ClaimsSound
<1>1. HistoryInv => RowsWellFormed
  BY DEF HistoryInv, RowsFormed, WellFormed, RowsWellFormed
<1>2. HistoryInv => NewestClaimHolds
  <2> SUFFICES ASSUME HistoryInv, NEW b \in claims, NEW c \in claims,
                      b.delivery = c.delivery, Holds(c)
               PROVE  b.revision <= c.revision /\ (Holds(b) => b = c)
    BY DEF NewestClaimHolds
  <2>1. row[c.delivery].kept /\ row[c.delivery].revision = c.revision
    BY DEF HistoryInv, QueuedIsKept, Holds, Unfinished, IInv, Claim
  <2>2. b.revision <= c.revision
    BY <2>1 DEF HistoryInv, ClaimsFenced
  <2>3. Holds(b) => b = c
    BY DEF HistoryInv, ClaimsDistinct, Holds
  <2> QED
    BY <2>2, <2>3
<1> QED
  BY <1>1, <1>2, HistoryInductive, PTL DEF ClaimsSound

(* The result of a claim that was overtaken by a newer claim of the same      *)
(* delivery, or a late release of it, changes nothing.                        *)
THEOREM OvertakenResultsIgnored == Spec => SupersededResultIgnored
<1>1. HistoryInv /\ [Next]_vars =>
        \A b, c \in claims :
          /\ claims' = claims \ {b}
          /\ c.delivery = b.delivery /\ c.revision > b.revision
          => row'[b.delivery] = row[b.delivery]
  <2> SUFFICES ASSUME HistoryInv, [Next]_vars, NEW b \in claims, NEW c \in claims,
                      claims' = claims \ {b}, c.delivery = b.delivery, c.revision > b.revision
               PROVE  row'[b.delivery] = row[b.delivery]
    OBVIOUS
  <2>1. claims' # claims /\ ~(claims \subseteq claims')
    OBVIOUS
  <2>2. /\ row \in [Delivery -> Row] /\ b.delivery \in Delivery
        /\ b.revision \in Nat /\ c.revision \in Nat
    BY DEF HistoryInv, IInv, RowsOK, Claim
  <2>3. ~Holds(b)
    <3> SUFFICES ASSUME Holds(b) PROVE FALSE
      OBVIOUS
    <3>1. row[b.delivery].kept /\ row[b.delivery].revision = b.revision
      BY <2>2 DEF HistoryInv, QueuedIsKept, Holds, Unfinished
    <3>2. c.revision <= b.revision
      BY <3>1 DEF HistoryInv, ClaimsFenced
    <3> QED
      BY <2>2, <3>2
  <2>4. ASSUME NEW a \in claims, claims' = claims \ {a} PROVE a = b
    BY <2>4
  <2>5. CASE \E a \in claims, outcome \in Outcome : ApplyDeliveryResult(a, outcome)
    <3>1. \E outcome \in Outcome : ApplyDeliveryResult(b, outcome)
      BY <2>4, <2>5 DEF ApplyDeliveryResult
    <3> QED
      BY <2>3, <3>1 DEF ApplyDeliveryResult, Applies
  <2>6. CASE \E a \in claims : ReleaseClaim(a) \/ LoseClaim(a)
    <3>1. ReleaseClaim(b) \/ LoseClaim(b)
      BY <2>4, <2>6 DEF ReleaseClaim, LoseClaim
    <3> QED
      BY <2>2, <2>3, <3>1 DEF ReleaseClaim, LoseClaim
  <2>7. CASE claims \subseteq claims'
    BY <2>1, <2>7
  <2>8. CASE Next
    BY <2>5, <2>6, <2>7, <2>8 DEF Next, Admit, PruneTerminal, ClaimDue, RetryDelivery,
       DismissDelivery, Disable, Enable, Retire, EditConfiguration, MoveOrigin, SwitchTo, Tick
  <2> QED
    BY <2>1, <2>8 DEF vars
<1> QED
  BY <1>1, HistoryInductive, PTL DEF Spec, SupersededResultIgnored

-------------------------------------------------------------------------------
(* Refinement of DeliveryContract. *)

(* The contract's status of a row is decided by its state.                    *)
LEMMA StatusOfState ==
  ASSUME NEW r, r.state \in State
  PROVE  /\ (StatusOf(r) = "none") <=> (r.state = "none")
         /\ (StatusOf(r) = "superseded") <=> (r.state = "superseded")
         /\ (StatusOf(r) = "owed") <=> (r.state \in Unfinished)
         /\ (StatusOf(r) = "delivered") <=> (r.state = "succeeded")
         /\ (StatusOf(r) = "failed") <=> (r.state = "terminal")
         /\ (StatusOf(r) = "dropped") <=> (r.state = "dismissed")
BY DEF StatusOf, State, Unfinished, Ended, Final

LEMMA RowStatus ==
  ASSUME IInv, IInv'
  PROVE  \A x \in Delivery :
           /\ ContractStatus[x] = StatusOf(row[x]) /\ row[x].state \in State
           /\ ContractStatus'[x] = StatusOf(row'[x]) /\ row'[x].state \in State
<1>1. \A x \in Delivery : row[x] \in Row /\ row'[x] \in Row
  BY DEF IInv, RowsOK
<1> QED
  BY <1>1 DEF ContractStatus, Row

(* What happened to one delivery, in the contract's words.                    *)
LEMMA RowImplements ==
  ASSUME IInv, IInv', NEW x \in Delivery, NEW m, RowStep(x, m)
  PROVE  \/ ContractStatus'[x] = ContractStatus[x]
         \/ Contract!Admitted(x) \/ Contract!Delivered(x) \/ Contract!GivenUp(x)
         \/ Contract!Reopened(x) \/ Contract!Dropped(x) \/ Contract!Replaced(x)
<1>1. /\ ContractStatus[x] = StatusOf(row[x]) /\ row[x].state \in State
      /\ ContractStatus'[x] = StatusOf(row'[x]) /\ row'[x].state \in State
  BY RowStatus
<1>2. DestinationOf(x) \in Destination /\ x[2] = DestinationOf(x)
  BY DEF Delivery, DestinationOf
<1>3. /\ enabled[x[2]] /\ ~retired[x[2]] => ContractMode[x[2]] = "live"
      /\ ~retired[x[2]] => ContractMode[x[2]] # "retired"
      /\ Live(x[2])' => ContractMode'[x[2]] = "live"
  BY <1>2 DEF ContractMode, Live
<1>4. m \in Row /\ Evolves(row[x], m, enabled[x[2]], retired[x[2]])
  BY <1>2 DEF RowStep, Evolves
<1>5. CASE row'[x].state = m.state
  <2>1. CASE m.state = row[x].state
    BY <1>1, <1>5, <2>1 DEF StatusOf
  <2>2. CASE row[x].state \in Unfinished /\ m.state \in {"retry", "leased"}
    BY <1>1, <1>5, <2>2, StatusOfState DEF Unfinished
  <2>3. CASE row[x].state \in Unfinished /\ m.state = "succeeded" /\ enabled[x[2]] /\ ~retired[x[2]]
    BY <1>1, <1>3, <1>5, <2>3, StatusOfState DEF Contract!Delivered, Contract!Moves
  <2>4. CASE row[x].state \in Unfinished /\ m.state = "terminal" /\ enabled[x[2]] /\ ~retired[x[2]]
    BY <1>1, <1>3, <1>5, <2>4, StatusOfState DEF Contract!GivenUp, Contract!Moves
  <2>5. CASE row[x].state = "terminal" /\ m.state = "retry" /\ ~retired[x[2]]
    BY <1>1, <1>3, <1>5, <2>5, StatusOfState DEF Contract!Reopened, Contract!Moves, Unfinished
  <2>6. CASE row[x].state \in Unfinished \cup {"terminal"} /\ m.state = "dismissed" /\ ~retired[x[2]]
    BY <1>1, <1>3, <1>5, <2>6, StatusOfState DEF Contract!Dropped
  <2> QED
    BY <1>4, <2>1, <2>2, <2>3, <2>4, <2>5, <2>6 DEF Evolves
<1>6. CASE m.state = "pending" /\ row'[x] = Deleted("superseded")
  <2>1. row[x].state = "pending"
    BY <1>4, <1>6 DEF Evolves
  <2>2. row'[x].state = "superseded"
    BY <1>6, DeletedTyped DEF State
  <2> QED
    BY <1>1, <2>1, <2>2, StatusOfState DEF Contract!Replaced, Contract!Moves, Unfinished
<1>7. CASE row[x].state = "none" /\ Live(x[2])' /\ row'[x] = Queued(x[2])
  <2>1. row'[x].state = "pending"
    BY <1>7 DEF Queued, Absent
  <2> QED
    BY <1>1, <1>3, <1>7, <2>1, StatusOfState DEF Contract!Admitted, Contract!Moves, Unfinished
<1>8. m.state \in Ended /\ row'[x] = Deleted(m.state) => row'[x].state = m.state
  BY DeletedTyped DEF State
<1> QED
  BY <1>2, <1>5, <1>6, <1>7, <1>8 DEF RowStep

(* A delivery that disappears unsent was coalesced into a newer event: that   *)
(* event is admitted for exactly the destinations that lose the old one.      *)
LEMMA ReplacementImplements ==
  ASSUME IInv, IInv', NEW rows, Evolution(rows), NEW x \in Delivery, Contract!Replaced(x)
  PROVE  Contract!Superseded(x)
<1>1. \A y \in Delivery :
        /\ ContractStatus[y] = StatusOf(row[y]) /\ row[y].state \in State
        /\ ContractStatus'[y] = StatusOf(row'[y]) /\ row'[y].state \in State
  BY RowStatus
<1>2. /\ rows \in [Delivery -> Row]
      /\ \A y \in Delivery :
           Evolves(row[y], rows[y], enabled[DestinationOf(y)], retired[DestinationOf(y)])
  BY DEF Evolution
<1>3. \A y \in Delivery : Contract!Replaced(y) <=>
        row[y].state \in Unfinished /\ row'[y].state = "superseded"
  BY <1>1, StatusOfState DEF Contract!Replaced, Contract!Moves
<1>4. \A y \in Delivery : rows[y].state = "superseded" => row[y].state = "superseded"
  BY <1>2 DEF Evolves
<1>5. row[x].state \in Unfinished /\ row'[x].state = "superseded" /\ rows[x].state # "superseded"
  BY <1>3, <1>4 DEF Unfinished
<1>6. \A S : \A y \in Delivery :
        /\ Pruned(rows, S)[y].state = rows[y].state
        /\ Pruned(rows, S)[y].kept => Pruned(rows, S)[y] = rows[y]
  <2>1. \A y \in Delivery : Deleted(rows[y].state).state = rows[y].state /\ ~Deleted(rows[y].state).kept
    BY <1>2, DeletedTyped DEF Row
  <2> QED
    BY <2>1 DEF Pruned
<1>7. row' # rows /\ AdmitInto(rows)
  BY <1>5 DEF Evolution
<1>8. ASSUME NEW S PROVE row' # Pruned(rows, S)
  BY <1>5, <1>6
<1>9. \A d : Queued(d).state = "pending"
  BY DEF Queued, Absent
<1>10. ASSUME NEW S, NEW e, NEW targets
       PROVE  row' # Inserted(Pruned(rows, S), e, targets)
  BY <1>5, <1>6, <1>9 DEF Inserted
<1>11. PICK e \in Event, targets \in SUBSET {d \in Destination : Live(d)'},
            S \in SUBSET Prunable(rows), old \in Event :
              /\ old # e /\ Unused(e)
              /\ Coalescible(Pruned(rows, S), old, targets)
              /\ row' = Inserted(Superseded(Pruned(rows, S), old), e, targets)
  BY <1>7, <1>8, <1>10 DEF AdmitInto
<1> DEFINE p == Pruned(rows, S)  s == Superseded(p, old)
<1>12. \A y \in Delivery : /\ p[y].state = rows[y].state
                           /\ p[y].kept => p[y] = rows[y]
  BY <1>6
<1>13. /\ \A d \in Destination : p[<<old, d>>].kept <=> d \in targets
       /\ \A d \in targets : p[<<old, d>>].state = "pending" /\ d \in Destination
       /\ \A d \in targets : Live(d)'
  BY <1>11 DEF Coalescible
<1> HIDE DEF p
<1>14. Deleted("superseded").state = "superseded"
  BY DeletedTyped DEF State
<1>15. \A d \in Destination : <<old, d>> \in Delivery /\ <<e, d>> \in Delivery /\ old # e
  BY <1>11 DEF Delivery
<1>16. \A y \in Delivery : /\ y[1] = old /\ p[y].kept => s[y] = Deleted("superseded")
                           /\ ~(y[1] = old /\ p[y].kept) => s[y] = p[y]
  BY DEF Superseded
<1> HIDE DEF s
<1>17. \A y \in Delivery :
         /\ y[1] = e /\ DestinationOf(y) \in targets => row'[y] = Queued(DestinationOf(y))
         /\ ~(y[1] = e /\ DestinationOf(y) \in targets) => row'[y] = s[y]
  BY <1>11 DEF Inserted, s, p
<1>18. x = <<old, x[2]>> /\ x[2] \in Destination
  <2>1. x[1] = old
    <3>1. CASE x[1] = e /\ DestinationOf(x) \in targets
      BY <1>5, <1>9, <1>17, <3>1
    <3>2. CASE ~(x[1] = e /\ DestinationOf(x) \in targets)
      BY <1>5, <1>12, <1>16, <1>17, <3>2
    <3> QED
      BY <3>1, <3>2
  <2> QED
    BY <2>1 DEF Delivery
<1>19. ASSUME NEW d \in Destination
       PROVE  Contract!Replaced(<<old, d>>) <=> Contract!Admitted(<<e, d>>)
  <2> DEFINE y == <<old, d>>  z == <<e, d>>
  <2>1. /\ y \in Delivery /\ z \in Delivery /\ y[1] = old /\ z[1] = e /\ old # e
        /\ DestinationOf(y) = d /\ DestinationOf(z) = d /\ z[2] = d
    BY <1>15 DEF DestinationOf
  <2> HIDE DEF y, z
  <2>2. Contract!Admitted(z) <=>
          row[z].state = "none" /\ row'[z].state \in Unfinished /\ ContractMode'[d] = "live"
    BY <1>1, <2>1, StatusOfState DEF Contract!Admitted, Contract!Moves
  <2>3. CASE d \in targets
    <3>1. p[y].kept /\ p[y].state = "pending"
      BY <1>13, <2>3 DEF y
    <3>2. row'[y].state = "superseded"
      BY <1>14, <1>16, <1>17, <2>1, <3>1
    <3>3. row[y].state \in Unfinished
      <4>1. rows[y].state = "pending"
        BY <1>12, <2>1, <3>1
      <4> QED
        BY <1>2, <2>1, <4>1 DEF Evolves, Unfinished
    <3>4. Contract!Replaced(y)
      BY <1>3, <2>1, <3>2, <3>3
    <3>5. row[z].state = "none"
      BY <1>11 DEF Unused, z
    <3>6. row'[z].state = "pending"
      BY <1>9, <1>17, <2>1, <2>3
    <3>7. ContractMode'[d] = "live"
      BY <1>13, <2>3 DEF ContractMode, Live
    <3>8. Contract!Admitted(z)
      BY <2>2, <3>5, <3>6, <3>7 DEF Unfinished
    <3> QED
      BY <3>4, <3>8 DEF y, z
  <2>4. CASE d \notin targets
    <3>1. row'[y].state = rows[y].state
      <4>1. ~p[y].kept
        BY <1>13, <2>4 DEF y
      <4> QED
        BY <1>12, <1>16, <1>17, <2>1, <4>1
    <3>2. ~Contract!Replaced(y)
      BY <1>3, <1>4, <2>1, <3>1 DEF Unfinished
    <3>3. row'[z].state = rows[z].state
      BY <1>12, <1>16, <1>17, <2>1, <2>4
    <3>4. row[z].state = "none" => rows[z].state = "none"
      BY <1>2, <2>1 DEF Evolves, Unfinished
    <3>5. ~Contract!Admitted(z)
      BY <2>2, <3>3, <3>4 DEF Unfinished
    <3> QED
      BY <3>2, <3>5 DEF y, z
  <2> QED
    BY <2>3, <2>4
<1>20. \A d \in Destination : Contract!Replaced(<<x[1], d>>) <=> Contract!Admitted(<<e, d>>)
  <2>1. x[1] = old
    BY <1>18
  <2> QED
    BY <1>19, <2>1
<1> QED
  BY <1>20 DEF Contract!Superseded

LEMMA RetiredForGood ==
  ASSUME IInv, Next, NEW d \in Destination, retired[d]
  PROVE  retired'[d]
<1>1. retired \in [Destination -> BOOLEAN]
  BY DEF IInv, DestinationsOK
<1>2. CASE \E gone \in Destination : Retire(gone)
  BY <1>1, <1>2 DEF Retire
<1>3. CASE retired' = retired
  BY <1>3
<1> QED
  BY <1>2, <1>3 DEF Next, Admit, PruneTerminal, ClaimDue, ApplyDeliveryResult, ReleaseClaim,
     LoseClaim, RetryDelivery, DismissDelivery, Disable, Enable, EditConfiguration, MoveOrigin,
     SwitchTo, Tick, destinationVars

LEMMA StepImplements ==
  HistoryInv /\ [Next]_vars => [Contract!ContractNext]_(Contract!contractVars)
<1> SUFFICES ASSUME HistoryInv, [Next]_vars
             PROVE  [Contract!ContractNext]_(Contract!contractVars)
  OBVIOUS
<1>1. CASE UNCHANGED vars
  BY <1>1 DEF vars, destinationVars, Contract!contractVars, ContractStatus, ContractMode
<1>2. CASE Next
  <2>1. IInv /\ IInv' /\ RowsFormed
    BY NextOK DEF HistoryInv
  <2>2. PICK rows : Evolution(rows)
    BY <1>2, <2>1, StepEvolution
  <2>3. \A x \in Delivery : RowStep(x, rows[x])
    BY <2>2, EvolutionRowStep
  <2>4. \A x \in Delivery :
          \/ ContractStatus'[x] = ContractStatus[x]
          \/ Contract!Admitted(x) \/ Contract!Delivered(x) \/ Contract!GivenUp(x)
          \/ Contract!Reopened(x) \/ Contract!Dropped(x) \/ Contract!Superseded(x)
    BY <2>1, <2>2, <2>3, RowImplements, ReplacementImplements
  <2>5. \A x, y \in {z \in Delivery : Contract!Delivered(z)} : x = y
    <3> SUFFICES ASSUME NEW x \in Delivery, NEW y \in Delivery,
                        Contract!Delivered(x), Contract!Delivered(y)
                 PROVE  x = y
      OBVIOUS
    <3>1. ASSUME NEW z \in Delivery, Contract!Delivered(z)
          PROVE  row[z].state # "succeeded" /\ rows[z].state = "succeeded"
      <4>1. row[z].state \in Unfinished /\ row'[z].state = "succeeded"
        BY <2>1, <3>1, RowStatus, StatusOfState DEF Contract!Delivered, Contract!Moves
      <4>2. /\ \A state \in Ended \cup {"superseded"} : Deleted(state).state = state
            /\ Queued(DestinationOf(z)).state = "pending"
        BY DEF Deleted, Queued, Absent
      <4> QED
        BY <2>3, <4>1, <4>2 DEF RowStep, Unfinished
    <3> QED
      BY <2>2, <3>1 DEF Evolution, OneSucceeds
  <2>6. \A d \in Destination : ContractMode[d] = "retired" => ContractMode'[d] = "retired"
    BY <1>2, <2>1, RetiredForGood DEF ContractMode
  <2>7. Delivery = Contract!Delivery
    BY DEF Delivery, Contract!Delivery
  <2> QED
    BY <2>4, <2>5, <2>6, <2>7 DEF Contract!ContractNext
<1> QED
  BY <1>1, <1>2

(* The outbox implements its contract for any events, destinations and        *)
(* workers: whatever leases, switches, moves, prunings and late results do,   *)
(* each delivery is admitted once while its destination is live, delivered or *)
(* given up only while it is live, lost unsent only to a newer event for the  *)
(* same destinations, and never owed again by a retired destination.          *)
THEOREM OutboxImplementsContract == Spec => ImplementsContract
<1>1. Init => Contract!ContractInit
  <2> SUFFICES ASSUME Init PROVE Contract!ContractInit
    OBVIOUS
  <2>1. ContractStatus = [x \in Delivery |-> "none"]
    <3>1. StatusOf(Absent) = "none"
      <4>1. Absent.state = "none"
        BY DEF Absent
      <4> QED
        BY <4>1, StatusOfState DEF State
    <3> QED
      BY <3>1 DEF Init, ContractStatus
  <2>2. ContractMode = [d \in Destination |-> "live"]
    BY DEF Init, ContractMode
  <2> QED
    BY <2>1, <2>2 DEF Contract!ContractInit, Delivery, Contract!Delivery
<1> QED
  BY <1>1, HistoryInductive, StepImplements, PTL DEF Spec, ImplementsContract, Contract!ContractSpec
=============================================================================
