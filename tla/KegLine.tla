-------------------------------- MODULE KegLine --------------------------------
(***************************************************************************)
(* Taps, Kegs, Fills and Beverages, and what is on which Tap               *)
(* (src/features/taps, fills, kegs): the tables behind every page.  One    *)
(* action is one operation of TapService, FillService or KegService, a     *)
(* synchronous transaction; a refused operation changes nothing and is no  *)
(* step.  Names, numbers, notes, line dimensions, tare and maintenance     *)
(* records and featured flags are data that no rule here looks at.         *)
(*                                                                         *)
(* Fill and Assignment are the rows that will ever be inserted, taken in   *)
(* order.  Hooks into telemetry and Tap Wars are in House.                 *)
(***************************************************************************)
EXTENDS Integers, FiniteSets

CONSTANTS
  Tap, Keg, Beverage,
  MaxFills,          \* bound: Fills ever created
  MaxAssignments,    \* bound: assignments ever opened
  None               \* no Beverage or Keg in a row that is not there

ASSUME LineAssumption == MaxFills \in Nat \ {0} /\ MaxAssignments \in Nat \ {0}

Fill == 1..MaxFills
Assignment == 1..MaxAssignments

VARIABLES
  taps,              \* taps
  kegs,              \* kegs
  beverages,         \* beverages: those that exist
  fills,             \* fills
  assignments,       \* tap_assignment_lifecycles and tap_assignment_mystery
  autoDelete         \* fill_settings.auto_delete_beverage_on_last_fill

lineVars == <<taps, kegs, beverages, fills, assignments, autoDelete>>

-------------------------------------------------------------------------------
(* The tables.  A row that is not there yet, or no more, has `kept` FALSE.     *)

TapRow == [kept : BOOLEAN, enabled : BOOLEAN, used : BOOLEAN, retired : BOOLEAN]
KegRow == [kept : BOOLEAN, active : BOOLEAN, size : BOOLEAN]
FillRow == [state : {"new", "active", "ended", "deleted"},
            beverage : Beverage \cup {None}, keg : Keg \cup {None}, onDeck : 0..MaxFills]
AssignmentRow == [state : {"new", "open", "closed", "deleted"},
                  tap : Tap \cup {None}, fill : Fill, mystery : BOOLEAN]

NoTap == [kept |-> FALSE, enabled |-> FALSE, used |-> FALSE, retired |-> FALSE]
NoKeg == [kept |-> FALSE, active |-> FALSE, size |-> FALSE]
NoFill(state) == [state |-> state, beverage |-> None, keg |-> None, onDeck |-> 0]

LineInit ==
  /\ taps = [t \in Tap |-> NoTap] /\ kegs = [k \in Keg |-> NoKeg] /\ beverages = Beverage
  /\ fills = [f \in Fill |-> NoFill("new")]
  /\ assignments = [a \in Assignment |->
                      [state |-> "new", tap |-> None, fill |-> 1, mystery |-> FALSE]]
  /\ autoDelete = FALSE

-------------------------------------------------------------------------------
(* Questions the services ask *)

Open == {a \in Assignment : assignments[a].state = "open"}
OnTap(t) == {a \in Open : assignments[a].tap = t}   \* findActiveAssignmentByTapId
Assigned(f) == {a \in Open : assignments[a].fill = f}   \* findActiveAssignmentByFillId
Existing(f) == fills[f].state \in {"active", "ended"}
Active(f) == fills[f].state = "active"
OnDeck == {f \in Fill : fills[f].onDeck > 0}   \* listOnDeckFills

NewRow(rows, r) == rows[r].state = "new" /\ \A s \in DOMAIN rows : s < r => rows[s].state # "new"

DeckPlace(rows, f) == \* renumbering: one more than those before it
  1 + Cardinality({g \in Fill : 0 < rows[g].onDeck /\ rows[g].onDeck < rows[f].onDeck})
Renumbered(rows) ==
  [f \in Fill |-> IF rows[f].onDeck = 0 THEN rows[f]
                  ELSE [rows[f] EXCEPT !.onDeck = DeckPlace(rows, f)]]

MaxOrder == CHOOSE n \in 0..MaxFills :
  /\ \A f \in Fill : fills[f].onDeck <= n
  /\ n = 0 \/ \E f \in Fill : fills[f].onDeck = n

-------------------------------------------------------------------------------
(* Taps *)

CreateTap(t, enabled) ==
  /\ ~taps[t].kept /\ taps' = [taps EXCEPT ![t] = [NoTap EXCEPT !.kept = TRUE, !.enabled = enabled]]
  /\ UNCHANGED <<kegs, beverages, fills, assignments, autoDelete>>

(* updateTap: of what it sets only `enabled` matters here.  A retired or an    *)
(* occupied Tap may be switched too.                                           *)
UpdateTap(t, enabled) ==
  /\ taps[t].kept /\ taps[t].enabled # enabled
  /\ taps' = [taps EXCEPT ![t].enabled = enabled]
  /\ UNCHANGED <<kegs, beverages, fills, assignments, autoDelete>>

UpdateAssignmentMystery(t, mystery) ==
  /\ \E a \in OnTap(t) :
       /\ assignments[a].mystery # mystery
       /\ assignments' = [assignments EXCEPT ![a].mystery = mystery]
  /\ UNCHANGED <<taps, kegs, beverages, fills, autoDelete>>

(* insertAssignmentLifecycle and registerTapFirstUse, after closing `closing`. *)
OpenAssignment(closing, a, t, f) ==
  /\ NewRow(assignments, a)
  /\ assignments' =
       [c \in Assignment |->
          IF c = a THEN [state |-> "open", tap |-> t, fill |-> f, mystery |-> FALSE]
          ELSE IF c \in closing THEN [assignments[c] EXCEPT !.state = "closed"]
          ELSE assignments[c]]
  /\ taps' = [taps EXCEPT ![t].used = TRUE]

AssignableTap(t) == taps[t].kept /\ ~taps[t].retired /\ OnTap(t) = {}
AssignableFill(f) == Active(f) /\ Assigned(f) = {}

OffDeck(f) ==
  IF fills[f].onDeck = 0 THEN fills ELSE Renumbered([fills EXCEPT ![f].onDeck = 0])

AssignFill(t, f) ==
  /\ AssignableTap(t) /\ AssignableFill(f)
  /\ \E a \in Assignment : OpenAssignment({}, a, t, f)
  /\ fills' = OffDeck(f)
  /\ UNCHANGED <<kegs, beverages, autoDelete>>

Closed(closing) ==
  [a \in Assignment |-> IF a \in closing THEN [assignments[a] EXCEPT !.state = "closed"]
                        ELSE assignments[a]]

Unassign(t) ==
  /\ OnTap(t) # {} /\ assignments' = Closed(OnTap(t))
  /\ UNCHANGED <<taps, kegs, beverages, fills, autoDelete>>

MoveFill(source, target) ==
  /\ source # target /\ OnTap(source) # {} /\ AssignableTap(target)
  /\ \E a \in Assignment, c \in OnTap(source) :
       OpenAssignment({c}, a, target, assignments[c].fill)
  /\ UNCHANGED <<kegs, beverages, fills, autoDelete>>

RetireTap(t) ==
  /\ taps[t].kept /\ ~taps[t].retired /\ OnTap(t) = {}
  /\ taps' = [taps EXCEPT ![t].retired = TRUE]
  /\ UNCHANGED <<kegs, beverages, fills, assignments, autoDelete>>

(* getTapDeletionImpact; a Tap keeps `used` when deleted Fills took its        *)
(* assignments with them.                                                      *)
Deletable(t) ==
  /\ ~taps[t].used /\ ~taps[t].retired
  /\ \A a \in Assignment : assignments[a].state \in {"open", "closed"} => assignments[a].tap # t

DeleteTap(t) ==
  /\ taps[t].kept /\ Deletable(t) /\ taps' = [taps EXCEPT ![t] = NoTap]
  /\ UNCHANGED <<kegs, beverages, fills, assignments, autoDelete>>

-------------------------------------------------------------------------------
(* Fills *)

CreateFill(f, b, k) ==
  /\ NewRow(fills, f) /\ b \in beverages /\ kegs[k].kept /\ kegs[k].active
  /\ \A g \in Fill : Active(g) => fills[g].keg # k
  /\ fills' = [fills EXCEPT ![f] = [state |-> "active", beverage |-> b, keg |-> k, onDeck |-> 0]]
  /\ UNCHANGED <<taps, kegs, beverages, assignments, autoDelete>>

MayBeOnDeck(f) == Active(f) /\ Assigned(f) = {} /\ fills[f].onDeck = 0

(* getMaxOnDeckOrder + 1; orders need not be dense. *)
MarkOnDeck(f) ==
  /\ MayBeOnDeck(f) /\ MaxOrder < MaxFills
  /\ fills' = [fills EXCEPT ![f].onDeck = MaxOrder + 1]
  /\ UNCHANGED <<taps, kegs, beverages, assignments, autoDelete>>

RemoveFromOnDeck(f) ==
  /\ fills[f].onDeck > 0 /\ fills' = [fills EXCEPT ![f].onDeck = 0]
  /\ UNCHANGED <<taps, kegs, beverages, assignments, autoDelete>>

(* reorderOnDeck takes every Fill on deck once, in a new order. *)
Orders == [1..Cardinality(OnDeck) -> OnDeck]
ReorderOnDeck(order) ==
  /\ OnDeck # {} /\ OnDeck = {order[i] : i \in DOMAIN order}
  /\ fills' = [f \in Fill |-> IF f \in OnDeck
                 THEN [fills[f] EXCEPT !.onDeck = CHOOSE i \in DOMAIN order : order[i] = f]
                 ELSE fills[f]]
  /\ UNCHANGED <<taps, kegs, beverages, assignments, autoDelete>>

Ended(f) == [fills EXCEPT ![f].state = "ended", ![f].onDeck = 0]   \* endFill

KickFill(f) ==
  /\ Active(f) /\ fills' = Ended(f) /\ assignments' = Closed(Assigned(f))
  /\ UNCHANGED <<taps, kegs, beverages, autoDelete>>

(* Rows of deleted Fills, with what ON DELETE CASCADE takes along. *)
FillsWithout(gone) ==
  [f \in Fill |-> IF f \in gone THEN NoFill("deleted") ELSE fills[f]]
AssignmentsWithout(gone) ==
  [a \in Assignment |-> IF assignments[a].state # "new" /\ assignments[a].fill \in gone
                        THEN [assignments[a] EXCEPT !.state = "deleted"] ELSE assignments[a]]

Of(b) == {f \in Fill : Existing(f) /\ fills[f].beverage = b}
In(k) == {f \in Fill : Existing(f) /\ fills[f].keg = k}

(* deleteFill, and deleteBeverageForLastFillCascade. *)
DeleteFill(f) ==
  /\ Existing(f)
  /\ fills' = FillsWithout({f}) /\ assignments' = AssignmentsWithout({f})
  /\ beverages' = IF autoDelete /\ Of(fills[f].beverage) = {f}
                  THEN beverages \ {fills[f].beverage} ELSE beverages
  /\ UNCHANGED <<taps, kegs, autoDelete>>

UpdateFillSettings(b) ==
  /\ autoDelete # b /\ autoDelete' = b
  /\ UNCHANGED <<taps, kegs, beverages, fills, assignments>>

-------------------------------------------------------------------------------
(* Kegs and Beverages *)

CreateKeg(k) ==
  /\ ~kegs[k].kept /\ kegs' = [kegs EXCEPT ![k] = [NoKeg EXCEPT !.kept = TRUE, !.active = TRUE]]
  /\ UNCHANGED <<taps, beverages, fills, assignments, autoDelete>>

(* updateKeg: out of service or back; a filled Keg may be taken out too. *)
UpdateKegActive(k) ==
  /\ kegs[k].kept /\ kegs' = [kegs EXCEPT ![k].active = ~@]
  /\ UNCHANGED <<taps, beverages, fills, assignments, autoDelete>>

(* updateKeg: another capacity or tare. *)
UpdateKegSize(k) ==
  /\ kegs[k].kept /\ kegs' = [kegs EXCEPT ![k].size = ~@]
  /\ UNCHANGED <<taps, beverages, fills, assignments, autoDelete>>

(* deleteKeg asks nothing about Fills: the cascade deletes them, even those on *)
(* a Tap, with their assignments.                                              *)
DeleteKeg(k) ==
  /\ kegs[k].kept /\ kegs' = [kegs EXCEPT ![k] = NoKeg]
  /\ fills' = FillsWithout(In(k)) /\ assignments' = AssignmentsWithout(In(k))
  /\ UNCHANGED <<taps, beverages, autoDelete>>

(* deleteBeverage, the same for the Fills of a Beverage. *)
DeleteBeverage(b) ==
  /\ b \in beverages /\ beverages' = beverages \ {b}
  /\ fills' = FillsWithout(Of(b)) /\ assignments' = AssignmentsWithout(Of(b))
  /\ UNCHANGED <<taps, kegs, autoDelete>>

-------------------------------------------------------------------------------
LineTypeOK ==
  /\ taps \in [Tap -> TapRow] /\ kegs \in [Keg -> KegRow] /\ beverages \subseteq Beverage
  /\ fills \in [Fill -> FillRow] /\ assignments \in [Assignment -> AssignmentRow]
  /\ autoDelete \in BOOLEAN

(* What is poured exists: an open assignment has a kept Tap that is not        *)
(* retired and an active Fill of a kept Keg and Beverage, through every        *)
(* deletion; and a Tap, a Fill and a Keg are each in one place.                *)
OnePlace ==
  /\ \A a \in Open :
       /\ taps[assignments[a].tap].kept /\ ~taps[assignments[a].tap].retired
       /\ Active(assignments[a].fill)
  /\ \A f \in Fill : Existing(f) => fills[f].beverage \in beverages /\ kegs[fills[f].keg].kept
  /\ \A a, b \in Open : a # b => assignments[a].tap # assignments[b].tap
                              /\ assignments[a].fill # assignments[b].fill
  /\ \A f, g \in Fill : f # g /\ Active(f) /\ Active(g) => fills[f].keg # fills[g].keg

(* History keeps its Tap: whatever was deleted meanwhile, a Tap that has ever  *)
(* served, or has an assignment, stays.                                        *)
HistoryKept ==
  \A a \in Assignment : assignments[a].state # "new" => taps[assignments[a].tap].kept

(* Only active Fills that are on no Tap are on deck, each with a place of its  *)
(* own.                                                                        *)
DeckSound ==
  /\ \A f \in OnDeck : Active(f) /\ Assigned(f) = {}
  /\ \A f, g \in OnDeck : f # g => fills[f].onDeck # fills[g].onDeck

(* The places of those on deck are 1 to n. *)
DeckDense == \A f \in OnDeck : fills[f].onDeck <= Cardinality(OnDeck)
===============================================================================
