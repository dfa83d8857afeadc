------------------------------ MODULE HouseProofs ------------------------------
(***************************************************************************)
(* Proofs about House: what KegLine says of the tables is inductive by     *)
(* itself; every operation is then summed up by what it does to the open   *)
(* assignments (Turns), and the epochs and the wars follow from that.      *)
(***************************************************************************)
EXTENDS House, FiniteSetTheorems, WellFoundedInduction, TLAPS

TapsOK == taps \in [Tap -> TapRow]
KegsOK == kegs \in [Keg -> KegRow]
BeveragesOK == beverages \subseteq Beverage /\ autoDelete \in BOOLEAN
FillsOK == fills \in [Fill -> FillRow]
AssignmentsOK == assignments \in [Assignment -> AssignmentRow]

(* Whatever was ever opened names a Tap that is there and has been used; an open *)
(* one is on a Tap in service and of an active Fill.                             *)
RowsOK ==
  \A a \in Assignment : assignments[a].state # "new" =>
    /\ assignments[a].tap \in Tap
    /\ taps[assignments[a].tap].kept /\ taps[assignments[a].tap].used
OpenOK ==
  \A a \in Open : ~taps[assignments[a].tap].retired /\ Active(assignments[a].fill)
FilledOK ==
  \A f \in Fill : Existing(f) =>
    fills[f].beverage \in beverages /\ fills[f].keg \in Keg /\ kegs[fills[f].keg].kept
TapApart == \A a, b \in Open : a # b => assignments[a].tap # assignments[b].tap
FillApart == \A a, b \in Open : a # b => assignments[a].fill # assignments[b].fill
KegApart == \A f, g \in Fill : f # g /\ Active(f) /\ Active(g) => fills[f].keg # fills[g].keg
DeckFree == \A f \in OnDeck : Active(f) /\ Assigned(f) = {}
PlaceApart == \A f, g \in OnDeck : f # g => fills[f].onDeck # fills[g].onDeck

LineInv ==
  /\ TapsOK /\ KegsOK /\ BeveragesOK /\ FillsOK /\ AssignmentsOK
  /\ RowsOK /\ OpenOK /\ FilledOK /\ TapApart /\ FillApart /\ KegApart /\ DeckFree /\ PlaceApart

-------------------------------------------------------------------------------
(* Places on deck, and the rows of the tables.                                 *)

\* The highest place on deck is one: no Fill has a higher one (getMaxOnDeckOrder).
LEMMA MaxOrderIsHighest ==
  ASSUME FillsOK
  PROVE  MaxOrder \in 0..MaxFills /\ \A f \in Fill : fills[f].onDeck <= MaxOrder
<1> USE LineAssumption
<1> DEFINE Bound(n) == \A f \in Fill : fills[f].onDeck <= n
           Bounds == {n \in 0..MaxFills : Bound(n)}
<1>1. \A f \in Fill : fills[f].onDeck \in 0..MaxFills
  BY DEF FillsOK, FillRow
<1>2. Bounds \subseteq Nat /\ MaxFills \in Bounds
  BY <1>1
<1>3. PICK n \in Bounds : \A m \in Bounds : ~(<<m, n>> \in OpToRel(<, Nat))
  <2> HIDE DEF Bounds
  <2> QED
    BY <1>2, NatLessThanWellFounded, WFMin
<1>4. \A m \in Bounds : ~(m < n)
  BY <1>2, <1>3 DEF OpToRel
<1>5. n = 0 \/ \E f \in Fill : fills[f].onDeck = n
  <2> SUFFICES ASSUME n # 0, \A f \in Fill : fills[f].onDeck # n
               PROVE  FALSE
    OBVIOUS
  <2>1. n - 1 \in 0..MaxFills
    OBVIOUS
  <2>2. \A f \in Fill : fills[f].onDeck <= n - 1
    BY <1>1
  <2> QED
    BY <2>1, <2>2, <1>4
<1>6. MaxOrder \in 0..MaxFills /\ \A f \in Fill : fills[f].onDeck <= MaxOrder
  BY <1>5 DEF MaxOrder
<1> QED
  BY <1>6

\* Renumbering changes nothing but places, and keeps their order (reorderOnDeck).
LEMMA RenumberedKeepsOrder ==
  ASSUME NEW rows \in [Fill -> FillRow]
  PROVE  /\ Renumbered(rows) \in [Fill -> FillRow]
         /\ \A f \in Fill : /\ Renumbered(rows)[f].state = rows[f].state
                            /\ Renumbered(rows)[f].beverage = rows[f].beverage
                            /\ Renumbered(rows)[f].keg = rows[f].keg
                            /\ Renumbered(rows)[f].onDeck = 0 <=> rows[f].onDeck = 0
         /\ \A f, g \in Fill : 0 < rows[f].onDeck /\ rows[f].onDeck < rows[g].onDeck =>
              Renumbered(rows)[f].onDeck # Renumbered(rows)[g].onDeck
<1> USE LineAssumption
<1> DEFINE Before(f) == {g \in Fill : 0 < rows[g].onDeck /\ rows[g].onDeck < rows[f].onDeck}
<1>1. \A f \in Fill : rows[f].onDeck \in 0..MaxFills
  BY DEF FillRow
<1>2. IsFiniteSet(Fill) /\ Cardinality(Fill) = MaxFills
  <2>1. 1 \in Int /\ MaxFills \in Int /\ ~(1 > MaxFills) /\ MaxFills - 1 + 1 = MaxFills
    OBVIOUS
  <2> QED
    BY <2>1, FS_Interval DEF Fill
<1>3. \A f \in Fill : IsFiniteSet(Before(f)) /\ Cardinality(Before(f)) \in 0..MaxFills - 1
  <2> SUFFICES ASSUME NEW f \in Fill
               PROVE  IsFiniteSet(Before(f)) /\ Cardinality(Before(f)) \in 0..MaxFills - 1
    OBVIOUS
  <2>1. Before(f) \subseteq Fill /\ Before(f) # Fill
    BY <1>1
  <2>2. IsFiniteSet(Before(f)) /\ Cardinality(Before(f)) <= MaxFills
        /\ Cardinality(Before(f)) # MaxFills
    <3> HIDE DEF Before
    <3> QED
      BY <2>1, <1>2, FS_Subset
  <2>3. Cardinality(Before(f)) \in Nat
    BY <2>2, FS_CardinalityType
  <2> HIDE DEF Before
  <2> QED
    BY <2>2, <2>3
<1>4. \A f \in Fill : DeckPlace(rows, f) \in 1..MaxFills
  <2> SUFFICES ASSUME NEW f \in Fill
               PROVE  DeckPlace(rows, f) \in 1..MaxFills
    OBVIOUS
  <2>1. DeckPlace(rows, f) = 1 + Cardinality(Before(f))
    BY DEF DeckPlace
  <2> HIDE DEF Before
  <2> QED
    BY <2>1, <1>3
<1>5. \A f, g \in Fill : 0 < rows[f].onDeck /\ rows[f].onDeck < rows[g].onDeck =>
         DeckPlace(rows, f) # DeckPlace(rows, g)
  <2> SUFFICES ASSUME NEW f \in Fill, NEW g \in Fill,
                      0 < rows[f].onDeck, rows[f].onDeck < rows[g].onDeck
               PROVE  DeckPlace(rows, f) # DeckPlace(rows, g)
    OBVIOUS
  <2>1. Before(f) \subseteq Before(g) /\ f \in Before(g) /\ f \notin Before(f)
    BY <1>1
  <2>2. DeckPlace(rows, f) = 1 + Cardinality(Before(f)) /\ DeckPlace(rows, g) = 1 + Cardinality(Before(g))
    BY DEF DeckPlace
  <2>3. Cardinality(Before(f)) # Cardinality(Before(g))
    <3> HIDE DEF Before
    <3> QED
      BY <2>1, <1>3, FS_Subset
  <2> HIDE DEF Before
  <2> QED
    BY <2>2, <2>3, <1>3
<1>6. \A f \in Fill : rows[f].onDeck # 0 => [rows[f] EXCEPT !.onDeck = DeckPlace(rows, f)] \in FillRow
  <2> SUFFICES ASSUME NEW f \in Fill
               PROVE  [rows[f] EXCEPT !.onDeck = DeckPlace(rows, f)] \in FillRow
    OBVIOUS
  <2> DEFINE r == rows[f]
             p == DeckPlace(rows, f)
  <2>1. r \in FillRow /\ p \in 0..MaxFills
    BY <1>4
  <2> HIDE DEF r, p
  <2>2. [r EXCEPT !.onDeck = p] \in FillRow
    BY <2>1 DEF FillRow
  <2> QED
    BY <2>2 DEF r, p
<1>7. \A f \in Fill : rows[f] \in FillRow
  OBVIOUS
<1>8. \A f \in Fill : Renumbered(rows)[f] = IF rows[f].onDeck = 0 THEN rows[f]
                  ELSE [rows[f] EXCEPT !.onDeck = DeckPlace(rows, f)]
  BY DEF Renumbered
<1> DEFINE new == Renumbered(rows)
<1>9. Renumbered(rows) \in [Fill -> FillRow]
  <2>1. \A f \in Fill : (IF rows[f].onDeck = 0 THEN rows[f]
                  ELSE [rows[f] EXCEPT !.onDeck = DeckPlace(rows, f)]) \in FillRow
    BY <1>6, <1>7
  <2> QED
    BY <2>1 DEF Renumbered
<1>10. \A f \in Fill : /\ Renumbered(rows)[f].state = rows[f].state
                       /\ Renumbered(rows)[f].beverage = rows[f].beverage
                       /\ Renumbered(rows)[f].keg = rows[f].keg
                       /\ Renumbered(rows)[f].onDeck = IF rows[f].onDeck = 0 THEN 0 ELSE DeckPlace(rows, f)
  BY <1>7, <1>8 DEF FillRow
<1> QED
  BY <1>9, <1>10, <1>4, <1>5, <1>1

\* The next row to be inserted is not there yet.
LEMMA NewRowIsNew == \A rows, r : NewRow(rows, r) => rows[r].state = "new"
  BY DEF NewRow

\* A field of a row is updated within its table.
LEMMA TapRows ==
  ASSUME NEW r \in TapRow, NEW b \in BOOLEAN
  PROVE  /\ [r EXCEPT !.enabled = b] \in TapRow /\ [r EXCEPT !.used = b] \in TapRow
         /\ [r EXCEPT !.retired = b] \in TapRow
  BY DEF TapRow

LEMMA KegRows ==
  ASSUME NEW r \in KegRow
  PROVE  [r EXCEPT !.active = ~@] \in KegRow /\ [r EXCEPT !.size = ~@] \in KegRow
<1> DEFINE a == ~r.active
           z == ~r.size
<1>1. a \in BOOLEAN /\ z \in BOOLEAN
  BY DEF KegRow
<1> HIDE DEF a, z
<1>2. [r EXCEPT !.active = a] \in KegRow /\ [r EXCEPT !.size = z] \in KegRow
  BY <1>1 DEF KegRow
<1> QED
  BY <1>2 DEF a, z

LEMMA FillRows ==
  ASSUME NEW r \in FillRow, NEW n \in 0..MaxFills
  PROVE  /\ [r EXCEPT !.onDeck = n] \in FillRow
         /\ [r EXCEPT !.state = "ended", !.onDeck = n] \in FillRow
  BY DEF FillRow

LEMMA AssignmentRows ==
  ASSUME NEW r \in AssignmentRow, NEW b \in BOOLEAN
  PROVE  [r EXCEPT !.mystery = b] \in AssignmentRow
  BY DEF AssignmentRow

\* A Fill that is poured leaves the deck; the others keep their order.
LEMMA OffDeckKeepsOrder ==
  ASSUME FillsOK, PlaceApart, NEW f \in Fill
  PROVE  /\ OffDeck(f) \in [Fill -> FillRow]
         /\ \A g \in Fill : /\ OffDeck(f)[g].state = fills[g].state
                            /\ OffDeck(f)[g].beverage = fills[g].beverage
                            /\ OffDeck(f)[g].keg = fills[g].keg
                            /\ OffDeck(f)[g].onDeck > 0 => fills[g].onDeck > 0 /\ g # f
         /\ \A g, h \in Fill : g # h /\ OffDeck(f)[g].onDeck > 0 /\ OffDeck(f)[h].onDeck > 0 =>
              OffDeck(f)[g].onDeck # OffDeck(f)[h].onDeck
<1> USE LineAssumption
<1>0. \A g \in Fill : fills[g].onDeck \in 0..MaxFills
  BY DEF FillsOK, FillRow
<1>1. CASE fills[f].onDeck = 0
  BY <1>0, <1>1 DEF OffDeck, FillsOK, PlaceApart, OnDeck
<1>2. CASE fills[f].onDeck # 0
  <2> DEFINE rows == [fills EXCEPT ![f].onDeck = 0]
             new == Renumbered(rows)
  <2>1. [fills[f] EXCEPT !.onDeck = 0] \in FillRow
    <3>1. fills[f] \in FillRow /\ 0 \in 0..MaxFills
      BY DEF FillsOK
    <3> HIDE DEF rows, new
    <3> QED
      BY <3>1, FillRows, Zenon
  <2>2. rows \in [Fill -> FillRow]
    <3> DEFINE r == [fills[f] EXCEPT !.onDeck = 0]
    <3>1. rows = [fills EXCEPT ![f] = r] /\ r \in FillRow
      BY <2>1
    <3> HIDE DEF r, rows
    <3> QED
      BY <3>1 DEF FillsOK
  <2>3. \A g \in Fill : /\ rows[g].state = fills[g].state /\ rows[g].beverage = fills[g].beverage
                        /\ rows[g].keg = fills[g].keg
                        /\ rows[g].onDeck = IF g = f THEN 0 ELSE fills[g].onDeck
    BY DEF FillsOK, FillRow
  <2> HIDE DEF rows
  <2>4. /\ new \in [Fill -> FillRow]
        /\ \A g \in Fill : /\ new[g].state = rows[g].state
                           /\ new[g].beverage = rows[g].beverage
                           /\ new[g].keg = rows[g].keg
                           /\ new[g].onDeck = 0 <=> rows[g].onDeck = 0
        /\ \A g, h \in Fill : 0 < rows[g].onDeck /\ rows[g].onDeck < rows[h].onDeck =>
             new[g].onDeck # new[h].onDeck
    BY <2>2, RenumberedKeepsOrder
  <2>5. OffDeck(f) = new
    BY <1>2 DEF OffDeck, rows
  <2> HIDE DEF new
  <2>6. \A g \in Fill : new[g].onDeck \in 0..MaxFills
    BY <2>4 DEF FillRow
  <2>7. \A g \in Fill : new[g].onDeck > 0 => fills[g].onDeck > 0 /\ g # f
    BY <2>4, <2>3, <2>6, <1>0
  <2>8. ASSUME NEW g \in Fill, NEW h \in Fill, g # h, new[g].onDeck > 0, new[h].onDeck > 0
        PROVE  new[g].onDeck # new[h].onDeck
    <3>1. g # f /\ h # f /\ fills[g].onDeck > 0 /\ fills[h].onDeck > 0
      BY <2>7, <2>8
    <3>2. fills[g].onDeck # fills[h].onDeck
      BY <3>1, <2>8 DEF PlaceApart, OnDeck
    <3>3. rows[g].onDeck = fills[g].onDeck /\ rows[h].onDeck = fills[h].onDeck
      BY <3>1, <2>3
    <3>4. rows[g].onDeck < rows[h].onDeck \/ rows[h].onDeck < rows[g].onDeck
      BY <3>2, <3>3, <1>0
    <3> QED
      BY <3>1, <3>3, <3>4, <2>4
  <2> QED
    BY <2>3, <2>4, <2>5, <2>7, <2>8
<1> QED
  BY <1>1, <1>2

-------------------------------------------------------------------------------
(* Each operation of the line keeps what is said of the tables.                *)

\* There are no more places on deck than Fills.
LEMMA DeckIsSmall == Cardinality(OnDeck) \in 0..MaxFills
<1>1. IsFiniteSet(Fill) /\ Cardinality(Fill) = MaxFills
  <2>1. 1 \in Int /\ MaxFills \in Int /\ ~(1 > MaxFills) /\ MaxFills - 1 + 1 = MaxFills
    BY LineAssumption
  <2> QED
    BY <2>1, FS_Interval DEF Fill
<1>2. OnDeck \subseteq Fill
  BY DEF OnDeck
<1>3. IsFiniteSet(OnDeck) /\ Cardinality(OnDeck) <= MaxFills
  BY <1>1, <1>2, FS_Subset
<1> QED
  BY <1>3, FS_CardinalityType, LineAssumption

\* What a pour leaves of each table (assignFill).
LEMMA PourEffect ==
  ASSUME LineInv, NEW t \in Tap, NEW f \in Fill, AssignFill(t, f)
  PROVE  (OpenOK /\ FilledOK /\ KegApart /\ DeckFree /\ PlaceApart)'
<1>1. /\ FillsOK /\ PlaceApart /\ AssignmentsOK /\ TapsOK /\ RowsOK /\ OpenOK /\ FilledOK /\ KegApart /\ DeckFree
      /\ fills' = OffDeck(f)
      /\ taps[t].kept /\ ~taps[t].retired /\ Active(f) /\ Assigned(f) = {}
      /\ UNCHANGED <<kegs, beverages>>
  BY DEF LineInv, AssignFill, AssignableTap, AssignableFill
<1>2. PICK a \in Assignment : OpenAssignment({}, a, t, f)
  BY DEF AssignFill
<1>3. /\ fills' \in [Fill -> FillRow]
      /\ \A g \in Fill : /\ fills'[g].state = fills[g].state
                         /\ fills'[g].beverage = fills[g].beverage
                         /\ fills'[g].keg = fills[g].keg
                         /\ fills'[g].onDeck > 0 => fills[g].onDeck > 0 /\ g # f
      /\ \A g, h \in Fill : g # h /\ fills'[g].onDeck > 0 /\ fills'[h].onDeck > 0 =>
           fills'[g].onDeck # fills'[h].onDeck
  BY <1>1, OffDeckKeepsOrder
<1>4. /\ assignments'[a].state = "open" /\ assignments'[a].tap = t /\ assignments'[a].fill = f
      /\ \A c \in Assignment : c # a => assignments'[c] = assignments[c]
  BY <1>2 DEF OpenAssignment
<1>5. \A u \in Tap : taps'[u].retired = taps[u].retired
  BY <1>1, <1>2 DEF OpenAssignment, TapsOK, TapRow
<1>6. OpenOK'
  BY <1>1, <1>3, <1>4, <1>5 DEF OpenOK, RowsOK, Open, Active, AssignmentsOK, AssignmentRow
<1>7. FilledOK'
  BY <1>1, <1>3 DEF FilledOK, Existing
<1>8. KegApart'
  BY <1>1, <1>3 DEF KegApart, Active
<1>9. PlaceApart'
  BY <1>3 DEF PlaceApart, OnDeck
<1>10. DeckFree'
  BY <1>1, <1>3, <1>4 DEF DeckFree, OnDeck, Active, Assigned, Open
<1> QED
  BY <1>6, <1>7, <1>8, <1>9, <1>10

\* A new order gives each Fill on deck one place (reorderOnDeck).
LEMMA ReorderedType ==
  ASSUME FillsOK, NEW order \in Orders, ReorderOnDeck(order)
  PROVE  FillsOK'
<1>1. ASSUME NEW g \in Fill
      PROVE  fills'[g] \in FillRow
  <2>1. fills[g] \in FillRow
    BY DEF FillsOK
  <2>2. CASE g \in OnDeck
    <3> DEFINE n == CHOOSE i \in DOMAIN order : order[i] = g
               row == fills[g]
    <3>1. n \in 1..Cardinality(OnDeck)
      BY <2>2 DEF ReorderOnDeck, Orders
    <3>2. n \in 0..MaxFills
      BY <3>1, DeckIsSmall, LineAssumption
    <3>3. fills'[g] = [row EXCEPT !.onDeck = n]
      BY <2>2 DEF ReorderOnDeck
    <3> HIDE DEF n, row
    <3>4. row \in FillRow
      BY <2>1 DEF row
    <3>5. [row EXCEPT !.onDeck = n] \in FillRow
      BY <3>2, <3>4, FillRows, Zenon
    <3> QED
      BY <3>3, <3>5
  <2>3. CASE g \notin OnDeck
    BY <2>1, <2>3 DEF ReorderOnDeck
  <2> QED
    BY <2>2, <2>3
<1>2. fills' = [g \in Fill |-> fills'[g]]
  BY DEF ReorderOnDeck
<1> QED
  BY <1>1, <1>2 DEF FillsOK

LEMMA CreateTapOK ==
  ASSUME LineInv, NEW t \in Tap, NEW enabled \in BOOLEAN, CreateTap(t, enabled)
  PROVE  LineInv'
<1> USE DEF LineInv, CreateTap, NoTap
<1>1. KegsOK' /\ BeveragesOK' /\ FillsOK' /\ AssignmentsOK' /\ FilledOK' /\ TapApart' /\ FillApart' /\ KegApart' /\ DeckFree' /\ PlaceApart'
  BY DEF KegsOK, BeveragesOK, FillsOK, AssignmentsOK, FilledOK, TapApart, FillApart,
     KegApart, DeckFree, PlaceApart, Existing, Open, Active, OnDeck, Assigned
<1>2. TapsOK'
  BY DEF TapsOK, TapRow
<1>3. RowsOK'
  BY DEF RowsOK
<1>4. OpenOK'
  BY DEF OpenOK, Open, Active
<1> QED
  BY <1>1, <1>2, <1>3, <1>4 DEF LineInv

LEMMA UpdateTapOK ==
  ASSUME LineInv, NEW t \in Tap, NEW enabled \in BOOLEAN, UpdateTap(t, enabled)
  PROVE  LineInv'
<1> USE DEF LineInv, UpdateTap
<1>1. KegsOK' /\ BeveragesOK' /\ FillsOK' /\ AssignmentsOK' /\ FilledOK' /\ TapApart' /\ FillApart' /\ KegApart' /\ DeckFree' /\ PlaceApart'
  BY DEF KegsOK, BeveragesOK, FillsOK, AssignmentsOK, FilledOK, TapApart, FillApart,
     KegApart, DeckFree, PlaceApart, Existing, Open, Active, OnDeck, Assigned
<1>2. TapsOK'
  BY DEF TapsOK, TapRow
<1>3. RowsOK'
  BY DEF RowsOK
<1>4. OpenOK'
  BY DEF OpenOK, Open, Active
<1> QED
  BY <1>1, <1>2, <1>3, <1>4 DEF LineInv

LEMMA UpdateAssignmentMysteryOK ==
  ASSUME LineInv, NEW t \in Tap, NEW mystery \in BOOLEAN, UpdateAssignmentMystery(t, mystery)
  PROVE  LineInv'
<1> USE DEF LineInv, UpdateAssignmentMystery, OnTap, Open, Assignment
<1>1. TapsOK' /\ KegsOK' /\ BeveragesOK' /\ FillsOK' /\ FilledOK' /\ KegApart' /\ PlaceApart'
  BY DEF TapsOK, KegsOK, BeveragesOK, FillsOK, FilledOK, KegApart, PlaceApart, Existing,
     Active, OnDeck
<1>2. AssignmentsOK'
  <2>1. PICK a \in OnTap(t) : assignments' = [assignments EXCEPT ![a].mystery = mystery]
    OBVIOUS
  <2> DEFINE row == assignments[a]
             r == [row EXCEPT !.mystery = mystery]
  <2>2. a \in Assignment /\ row \in AssignmentRow
    BY DEF AssignmentsOK
  <2>3. assignments' = [assignments EXCEPT ![a] = r]
    BY <2>1
  <2> HIDE DEF row
  <2>4. r \in AssignmentRow
    BY <2>2, AssignmentRows, Zenon
  <2> HIDE DEF r
  <2> QED
    BY <2>2, <2>3, <2>4 DEF AssignmentsOK
<1>3. RowsOK'
  BY DEF RowsOK
<1>4. OpenOK'
  BY DEF OpenOK, Active
<1>5. TapApart'
  BY DEF TapApart
<1>6. FillApart'
  BY DEF FillApart
<1>7. DeckFree'
  BY DEF DeckFree, Active, OnDeck, Assigned
<1> QED
  BY <1>1, <1>2, <1>3, <1>4, <1>5, <1>6, <1>7 DEF LineInv

LEMMA AssignFillOK ==
  ASSUME LineInv, NEW t \in Tap, NEW f \in Fill, AssignFill(t, f)
  PROVE  LineInv'
<1> USE DEF LineInv, AssignFill, AssignableTap, AssignableFill, Assignment, OpenAssignment,
     OnTap, Active, Assigned, NewRow, Open
<1>1. KegsOK' /\ BeveragesOK'
  BY DEF KegsOK, BeveragesOK
<1>2. TapsOK'
  <2> DEFINE row == taps[t]
             r == [row EXCEPT !.used = TRUE]
  <2>1. row \in TapRow /\ TRUE \in BOOLEAN
    BY DEF TapsOK
  <2>2. taps' = [taps EXCEPT ![t] = r]
    BY DEF OpenAssignment
  <2> HIDE DEF row
  <2>3. r \in TapRow
    BY <2>1, TapRows, Zenon
  <2> HIDE DEF r
  <2> QED
    BY <2>2, <2>3 DEF TapsOK
<1>3. FillsOK'
  <2>1. /\ fills' \in [Fill -> FillRow]
        /\ \A g \in Fill : /\ fills'[g].state = fills[g].state
                           /\ fills'[g].beverage = fills[g].beverage
                           /\ fills'[g].keg = fills[g].keg
                           /\ fills'[g].onDeck > 0 => fills[g].onDeck > 0 /\ g # f
        /\ \A g, h \in Fill : g # h /\ fills'[g].onDeck > 0 /\ fills'[h].onDeck > 0 =>
             fills'[g].onDeck # fills'[h].onDeck
    BY OffDeckKeepsOrder
  <2> QED
    BY <2>1 DEF FillsOK
<1>4. AssignmentsOK'
  BY DEF AssignmentsOK, AssignmentRow
<1>5. RowsOK'
  BY DEF TapsOK, RowsOK
<1>6. OpenOK'
  BY PourEffect
<1>7. FilledOK'
  BY PourEffect
<1>8. TapApart'
  BY DEF TapApart
<1>9. FillApart'
  BY DEF FillApart
<1>10. KegApart'
  BY PourEffect
<1>11. DeckFree'
  BY PourEffect
<1>12. PlaceApart'
  BY PourEffect
<1> QED
  BY <1>1, <1>2, <1>3, <1>4, <1>5, <1>6, <1>7, <1>8, <1>9, <1>10, <1>11, <1>12 DEF LineInv

LEMMA UnassignOK ==
  ASSUME LineInv, NEW t \in Tap, Unassign(t)
  PROVE  LineInv'
<1> USE DEF LineInv, Unassign, OnTap, Closed, Open, Assignment
<1>1. TapsOK' /\ KegsOK' /\ BeveragesOK' /\ FillsOK' /\ FilledOK' /\ KegApart' /\ PlaceApart'
  BY DEF TapsOK, KegsOK, BeveragesOK, FillsOK, FilledOK, KegApart, PlaceApart, Existing,
     Active, OnDeck
<1>2. AssignmentsOK'
  BY DEF AssignmentsOK, AssignmentRow
<1>3. RowsOK'
  BY DEF RowsOK
<1>4. OpenOK'
  BY DEF OpenOK, Active
<1>5. TapApart'
  BY DEF TapApart
<1>6. FillApart'
  BY DEF FillApart
<1>7. DeckFree'
  BY DEF DeckFree, Active, OnDeck, Assigned
<1> QED
  BY <1>1, <1>2, <1>3, <1>4, <1>5, <1>6, <1>7 DEF LineInv

LEMMA MoveFillOK ==
  ASSUME LineInv, NEW t \in Tap, NEW u \in Tap, MoveFill(t, u)
  PROVE  LineInv'
<1> USE DEF LineInv, MoveFill, OnTap, AssignableTap, Assignment, OpenAssignment, Open,
     NewRow
<1>1. KegsOK' /\ BeveragesOK' /\ FillsOK' /\ FilledOK' /\ KegApart' /\ PlaceApart'
  BY DEF KegsOK, BeveragesOK, FillsOK, FilledOK, KegApart, PlaceApart, Existing, Active,
     OnDeck
<1>2. TapsOK'
  <2> DEFINE row == taps[u]
             r == [row EXCEPT !.used = TRUE]
  <2>1. row \in TapRow /\ TRUE \in BOOLEAN
    BY DEF TapsOK
  <2>2. taps' = [taps EXCEPT ![u] = r]
    BY DEF OpenAssignment
  <2> HIDE DEF row
  <2>3. r \in TapRow
    BY <2>1, TapRows, Zenon
  <2> HIDE DEF r
  <2> QED
    BY <2>2, <2>3 DEF TapsOK
<1>3. AssignmentsOK'
  BY DEF AssignmentsOK, AssignmentRow
<1>4. RowsOK'
  BY DEF TapsOK, RowsOK
<1>5. OpenOK'
  BY DEF OpenOK, Active
<1>6. TapApart'
  BY DEF TapApart
<1>7. FillApart'
  BY DEF FillApart
<1>8. DeckFree'
  BY DEF DeckFree, Active, OnDeck, Assigned
<1> QED
  BY <1>1, <1>2, <1>3, <1>4, <1>5, <1>6, <1>7, <1>8 DEF LineInv

LEMMA RetireTapOK ==
  ASSUME LineInv, NEW t \in Tap, RetireTap(t)
  PROVE  LineInv'
<1> USE DEF LineInv, RetireTap, OnTap, Open, Assignment
<1>1. KegsOK' /\ BeveragesOK' /\ FillsOK' /\ AssignmentsOK' /\ FilledOK' /\ TapApart' /\ FillApart' /\ KegApart' /\ DeckFree' /\ PlaceApart'
  BY DEF KegsOK, BeveragesOK, FillsOK, AssignmentsOK, FilledOK, TapApart, FillApart,
     KegApart, DeckFree, PlaceApart, Existing, Active, OnDeck, Assigned
<1>2. TapsOK'
  <2> DEFINE row == taps[t]
             r == [row EXCEPT !.retired = TRUE]
  <2>1. row \in TapRow /\ TRUE \in BOOLEAN
    BY DEF TapsOK
  <2>2. taps' = [taps EXCEPT ![t] = r]
    BY DEF OpenAssignment
  <2> HIDE DEF row
  <2>3. r \in TapRow
    BY <2>1, TapRows, Zenon
  <2> HIDE DEF r
  <2> QED
    BY <2>2, <2>3 DEF TapsOK
<1>3. RowsOK'
  BY DEF RowsOK
<1>4. OpenOK'
  BY DEF OpenOK, Active
<1> QED
  BY <1>1, <1>2, <1>3, <1>4 DEF LineInv

LEMMA DeleteTapOK ==
  ASSUME LineInv, NEW t \in Tap, DeleteTap(t)
  PROVE  LineInv'
<1> USE DEF LineInv, DeleteTap, Deletable, NoTap, Assignment
<1>1. KegsOK' /\ BeveragesOK' /\ FillsOK' /\ AssignmentsOK' /\ FilledOK' /\ TapApart' /\ FillApart' /\ KegApart' /\ DeckFree' /\ PlaceApart'
  BY DEF KegsOK, BeveragesOK, FillsOK, AssignmentsOK, FilledOK, TapApart, FillApart,
     KegApart, DeckFree, PlaceApart, Existing, Open, Active, OnDeck, Assigned
<1>2. TapsOK'
  BY DEF TapsOK, TapRow
<1>3. RowsOK'
  BY DEF RowsOK
<1>4. OpenOK'
  BY DEF OpenOK, Open, Active
<1> QED
  BY <1>1, <1>2, <1>3, <1>4 DEF LineInv

LEMMA CreateFillOK ==
  ASSUME LineInv, NEW f \in Fill, NEW b \in Beverage, NEW k \in Keg, CreateFill(f, b, k)
  PROVE  LineInv'
<1> USE DEF LineInv, CreateFill, NewRow, Fill, Active
<1>1. TapsOK' /\ KegsOK' /\ BeveragesOK' /\ AssignmentsOK' /\ RowsOK' /\ TapApart' /\ FillApart'
  BY DEF TapsOK, KegsOK, BeveragesOK, AssignmentsOK, RowsOK, TapApart, FillApart, Open
<1>2. FillsOK'
  BY LineAssumption DEF FillsOK, FillRow
<1>3. OpenOK'
  BY DEF OpenOK, Open
<1>4. FilledOK'
  BY DEF FilledOK, Existing
<1>5. KegApart'
  BY DEF KegApart
<1>6. DeckFree'
  BY DEF DeckFree, Open, OnDeck, Assigned
<1>7. PlaceApart'
  BY DEF PlaceApart, OnDeck
<1> QED
  BY <1>1, <1>2, <1>3, <1>4, <1>5, <1>6, <1>7 DEF LineInv

LEMMA MarkOnDeckOK ==
  ASSUME LineInv, NEW f \in Fill, MarkOnDeck(f)
  PROVE  LineInv'
<1> USE DEF LineInv, MarkOnDeck, MayBeOnDeck, Active, Assigned, Open, Assignment
<1>1. TapsOK' /\ KegsOK' /\ BeveragesOK' /\ AssignmentsOK' /\ RowsOK' /\ TapApart' /\ FillApart'
  BY DEF TapsOK, KegsOK, BeveragesOK, AssignmentsOK, RowsOK, TapApart, FillApart
<1>2. FillsOK'
  <2> DEFINE row == fills[f]
             n == MaxOrder + 1
             r == [row EXCEPT !.onDeck = n]
  <2>1. row \in FillRow /\ n \in 0..MaxFills
    BY LineAssumption, MaxOrderIsHighest DEF FillsOK
  <2>2. fills' = [fills EXCEPT ![f] = r]
    OBVIOUS
  <2> HIDE DEF row, n
  <2>3. r \in FillRow
    BY <2>1, FillRows, Zenon
  <2> HIDE DEF r
  <2> QED
    BY <2>2, <2>3 DEF FillsOK
<1>3. OpenOK'
  BY DEF OpenOK
<1>4. FilledOK'
  BY DEF FilledOK, Existing
<1>5. KegApart'
  BY DEF KegApart
<1>6. DeckFree'
  BY DEF DeckFree, OnDeck
<1>7. PlaceApart'
  <2>1. \A g \in Fill : fills[g].onDeck \in 0..MaxFills
    BY DEF FillsOK, FillRow
  <2>2. /\ fills'[f].onDeck = MaxOrder + 1
        /\ \A g \in Fill : g # f => fills'[g].onDeck = fills[g].onDeck
    BY DEF FillsOK, FillRow
  <2>3. MaxOrder \in Nat /\ \A g \in Fill : fills[g].onDeck <= MaxOrder
    BY MaxOrderIsHighest
  <2> QED
    BY ONLY <2>1, <2>2, <2>3, PlaceApart DEF PlaceApart, OnDeck
<1> QED
  BY <1>1, <1>2, <1>3, <1>4, <1>5, <1>6, <1>7 DEF LineInv

LEMMA RemoveFromOnDeckOK ==
  ASSUME LineInv, NEW f \in Fill, RemoveFromOnDeck(f)
  PROVE  LineInv'
<1> USE DEF LineInv, RemoveFromOnDeck
<1>1. TapsOK' /\ KegsOK' /\ BeveragesOK' /\ AssignmentsOK' /\ RowsOK' /\ TapApart' /\ FillApart'
  BY DEF TapsOK, KegsOK, BeveragesOK, AssignmentsOK, RowsOK, TapApart, FillApart, Open
<1>2. FillsOK'
  <2> DEFINE row == fills[f]
             n == 0
             r == [row EXCEPT !.onDeck = n]
  <2>1. row \in FillRow /\ n \in 0..MaxFills
    BY LineAssumption DEF FillsOK
  <2>2. fills' = [fills EXCEPT ![f] = r]
    OBVIOUS
  <2> HIDE DEF row, n
  <2>3. r \in FillRow
    BY <2>1, FillRows, Zenon
  <2> HIDE DEF r
  <2> QED
    BY <2>2, <2>3 DEF FillsOK
<1>3. OpenOK'
  BY DEF OpenOK, Open, Active
<1>4. FilledOK'
  BY DEF FilledOK, Existing
<1>5. KegApart'
  BY DEF KegApart, Active
<1>6. DeckFree'
  BY DEF DeckFree, Open, Active, OnDeck, Assigned
<1>7. PlaceApart'
  BY DEF PlaceApart, OnDeck
<1> QED
  BY <1>1, <1>2, <1>3, <1>4, <1>5, <1>6, <1>7 DEF LineInv

LEMMA ReorderOnDeckOK ==
  ASSUME LineInv, NEW order \in Orders, ReorderOnDeck(order)
  PROVE  LineInv'
<1> USE DEF LineInv, ReorderOnDeck, OnDeck, Fill
<1>1. TapsOK' /\ KegsOK' /\ BeveragesOK' /\ AssignmentsOK' /\ RowsOK' /\ TapApart' /\ FillApart'
  BY DEF TapsOK, KegsOK, BeveragesOK, AssignmentsOK, RowsOK, TapApart, FillApart, Open
<1>2. FillsOK'
  BY ReorderedType
<1>3. OpenOK'
  BY DEF AssignmentsOK, OpenOK, AssignmentRow, Open, Active
<1>4. FilledOK'
  BY DEF FilledOK, Existing
<1>5. KegApart'
  BY DEF KegApart, Active
<1>6. DeckFree'
  BY DEF DeckFree, Open, Active, Assigned
<1>7. PlaceApart'
  BY DEF PlaceApart
<1> QED
  BY <1>1, <1>2, <1>3, <1>4, <1>5, <1>6, <1>7 DEF LineInv

LEMMA KickFillOK ==
  ASSUME LineInv, NEW f \in Fill, KickFill(f)
  PROVE  LineInv'
<1> USE DEF LineInv, KickFill, Active, Ended, Closed, Assigned, Assignment, Open
<1>1. TapsOK' /\ KegsOK' /\ BeveragesOK'
  BY DEF TapsOK, KegsOK, BeveragesOK
<1>2. FillsOK'
  <2> DEFINE row == fills[f]
             r == [row EXCEPT !.state = "ended", !.onDeck = 0]
  <2>1. row \in FillRow /\ 0 \in 0..MaxFills
    BY LineAssumption DEF FillsOK
  <2>2. fills' = [fills EXCEPT ![f] = r]
    BY DEF FillsOK
  <2> HIDE DEF row
  <2>3. r \in FillRow
    BY <2>1, FillRows, Zenon
  <2> HIDE DEF r
  <2> QED
    BY <2>2, <2>3 DEF FillsOK
<1>3. AssignmentsOK'
  BY DEF AssignmentsOK, AssignmentRow
<1>4. RowsOK'
  BY DEF RowsOK
<1>5. OpenOK'
  BY DEF FillsOK, AssignmentsOK, OpenOK, AssignmentRow
<1>6. FilledOK'
  BY DEF FillsOK, FilledOK, Existing
<1>7. TapApart'
  BY DEF TapApart
<1>8. FillApart'
  BY DEF FillApart
<1>9. KegApart'
  BY DEF FillsOK, KegApart
<1>10. DeckFree'
  BY DEF FillsOK, DeckFree, OnDeck
<1>11. PlaceApart'
  BY DEF FillsOK, PlaceApart, OnDeck
<1> QED
  BY <1>1, <1>2, <1>3, <1>4, <1>5, <1>6, <1>7, <1>8, <1>9, <1>10, <1>11 DEF LineInv

LEMMA DeleteFillOK ==
  ASSUME LineInv, NEW f \in Fill, DeleteFill(f)
  PROVE  LineInv'
<1> USE DEF LineInv, DeleteFill, Existing, FillsWithout, AssignmentsWithout, Of, Fill,
     NoFill, Assignment
<1>1. TapsOK' /\ KegsOK'
  BY DEF TapsOK, KegsOK
<1>2. BeveragesOK'
  BY DEF BeveragesOK
<1>3. FillsOK'
  BY LineAssumption DEF FillsOK, FillRow
<1>4. AssignmentsOK'
  BY DEF AssignmentsOK, AssignmentRow
<1>5. RowsOK'
  BY DEF RowsOK
<1>6. OpenOK'
  BY DEF AssignmentsOK, OpenOK, AssignmentRow, Open, Active
<1>7. FilledOK'
  BY DEF FilledOK
<1>8. TapApart'
  BY DEF TapApart, Open
<1>9. FillApart'
  BY DEF FillApart, Open
<1>10. KegApart'
  BY DEF KegApart, Active
<1>11. DeckFree'
  BY DEF DeckFree, Open, Active, OnDeck, Assigned
<1>12. PlaceApart'
  BY DEF PlaceApart, OnDeck
<1> QED
  BY <1>1, <1>2, <1>3, <1>4, <1>5, <1>6, <1>7, <1>8, <1>9, <1>10, <1>11, <1>12 DEF LineInv

LEMMA UpdateFillSettingsOK ==
  ASSUME LineInv, NEW b \in BOOLEAN, UpdateFillSettings(b)
  PROVE  LineInv'
<1> USE DEF LineInv, UpdateFillSettings
<1>1. TapsOK' /\ KegsOK' /\ FillsOK' /\ AssignmentsOK' /\ RowsOK' /\ OpenOK' /\ FilledOK' /\ TapApart' /\ FillApart' /\ KegApart' /\ DeckFree' /\ PlaceApart'
  BY DEF TapsOK, KegsOK, FillsOK, AssignmentsOK, RowsOK, OpenOK, FilledOK, TapApart,
     FillApart, KegApart, DeckFree, PlaceApart, Open, Active, Existing, OnDeck, Assigned
<1>2. BeveragesOK'
  BY DEF BeveragesOK
<1> QED
  BY <1>1, <1>2 DEF LineInv

LEMMA CreateKegOK ==
  ASSUME LineInv, NEW k \in Keg, CreateKeg(k)
  PROVE  LineInv'
<1> USE DEF LineInv, CreateKeg, NoKeg
<1>1. TapsOK' /\ BeveragesOK' /\ FillsOK' /\ AssignmentsOK' /\ RowsOK' /\ OpenOK' /\ TapApart' /\ FillApart' /\ KegApart' /\ DeckFree' /\ PlaceApart'
  BY DEF TapsOK, BeveragesOK, FillsOK, AssignmentsOK, RowsOK, OpenOK, TapApart, FillApart,
     KegApart, DeckFree, PlaceApart, Open, Active, OnDeck, Assigned
<1>2. KegsOK'
  BY DEF KegsOK, KegRow
<1>3. FilledOK'
  BY DEF FilledOK, Existing
<1> QED
  BY <1>1, <1>2, <1>3 DEF LineInv

LEMMA UpdateKegActiveOK ==
  ASSUME LineInv, NEW k \in Keg, UpdateKegActive(k)
  PROVE  LineInv'
<1> USE DEF LineInv, UpdateKegActive
<1>1. TapsOK' /\ BeveragesOK' /\ FillsOK' /\ AssignmentsOK' /\ RowsOK' /\ OpenOK' /\ TapApart' /\ FillApart' /\ KegApart' /\ DeckFree' /\ PlaceApart'
  BY DEF TapsOK, BeveragesOK, FillsOK, AssignmentsOK, RowsOK, OpenOK, TapApart, FillApart,
     KegApart, DeckFree, PlaceApart, Open, Active, OnDeck, Assigned
<1>2. KegsOK'
  <2> DEFINE row == kegs[k]
             r == [row EXCEPT !.active = ~@]
  <2>1. row \in KegRow
    BY DEF KegsOK
  <2>2. kegs' = [kegs EXCEPT ![k] = r]
    OBVIOUS
  <2> HIDE DEF row
  <2>3. r \in KegRow
    BY <2>1, KegRows, Zenon
  <2> HIDE DEF r
  <2> QED
    BY <2>2, <2>3 DEF KegsOK
<1>3. FilledOK'
  BY DEF FilledOK, Existing
<1> QED
  BY <1>1, <1>2, <1>3 DEF LineInv

LEMMA UpdateKegSizeOK ==
  ASSUME LineInv, NEW k \in Keg, UpdateKegSize(k)
  PROVE  LineInv'
<1> USE DEF LineInv, UpdateKegSize
<1>1. TapsOK' /\ BeveragesOK' /\ FillsOK' /\ AssignmentsOK' /\ RowsOK' /\ OpenOK' /\ TapApart' /\ FillApart' /\ KegApart' /\ DeckFree' /\ PlaceApart'
  BY DEF TapsOK, BeveragesOK, FillsOK, AssignmentsOK, RowsOK, OpenOK, TapApart, FillApart,
     KegApart, DeckFree, PlaceApart, Open, Active, OnDeck, Assigned
<1>2. KegsOK'
  <2> DEFINE row == kegs[k]
             r == [row EXCEPT !.size = ~@]
  <2>1. row \in KegRow
    BY DEF KegsOK
  <2>2. kegs' = [kegs EXCEPT ![k] = r]
    OBVIOUS
  <2> HIDE DEF row
  <2>3. r \in KegRow
    BY <2>1, KegRows, Zenon
  <2> HIDE DEF r
  <2> QED
    BY <2>2, <2>3 DEF KegsOK
<1>3. FilledOK'
  BY DEF FilledOK, Existing
<1> QED
  BY <1>1, <1>2, <1>3 DEF LineInv

LEMMA DeleteKegOK ==
  ASSUME LineInv, NEW k \in Keg, DeleteKeg(k)
  PROVE  LineInv'
<1> USE DEF LineInv, DeleteKeg, NoKeg, FillsWithout, In, AssignmentsWithout, Fill, NoFill,
     Existing, Assignment
<1>1. TapsOK' /\ BeveragesOK'
  BY DEF TapsOK, BeveragesOK
<1>2. KegsOK'
  BY DEF KegsOK, KegRow
<1>3. FillsOK'
  BY LineAssumption DEF FillsOK, FillRow
<1>4. AssignmentsOK'
  BY DEF AssignmentsOK, AssignmentRow
<1>5. RowsOK'
  BY DEF RowsOK
<1>6. OpenOK'
  BY DEF AssignmentsOK, OpenOK, AssignmentRow, Open, Active
<1>7. FilledOK'
  BY DEF FilledOK
<1>8. TapApart'
  BY DEF TapApart, Open
<1>9. FillApart'
  BY DEF FillApart, Open
<1>10. KegApart'
  BY DEF KegApart, Active
<1>11. DeckFree'
  BY DEF DeckFree, Open, Active, OnDeck, Assigned
<1>12. PlaceApart'
  BY DEF PlaceApart, OnDeck
<1> QED
  BY <1>1, <1>2, <1>3, <1>4, <1>5, <1>6, <1>7, <1>8, <1>9, <1>10, <1>11, <1>12 DEF LineInv

LEMMA DeleteBeverageOK ==
  ASSUME LineInv, NEW b \in Beverage, DeleteBeverage(b)
  PROVE  LineInv'
<1> USE DEF LineInv, DeleteBeverage, FillsWithout, Of, AssignmentsWithout, Fill, NoFill,
     Existing, Assignment
<1>1. TapsOK' /\ KegsOK'
  BY DEF TapsOK, KegsOK
<1>2. BeveragesOK'
  BY DEF BeveragesOK
<1>3. FillsOK'
  BY LineAssumption DEF FillsOK, FillRow
<1>4. AssignmentsOK'
  BY DEF AssignmentsOK, AssignmentRow
<1>5. RowsOK'
  BY DEF RowsOK
<1>6. OpenOK'
  BY DEF AssignmentsOK, OpenOK, AssignmentRow, Open, Active
<1>7. FilledOK'
  BY DEF FilledOK
<1>8. TapApart'
  BY DEF TapApart, Open
<1>9. FillApart'
  BY DEF FillApart, Open
<1>10. KegApart'
  BY DEF KegApart, Active
<1>11. DeckFree'
  BY DEF DeckFree, Open, Active, OnDeck, Assigned
<1>12. PlaceApart'
  BY DEF PlaceApart, OnDeck
<1> QED
  BY <1>1, <1>2, <1>3, <1>4, <1>5, <1>6, <1>7, <1>8, <1>9, <1>10, <1>11, <1>12 DEF LineInv

-------------------------------------------------------------------------------
(* What operations leave of the open assignments, and what epochs and wars are *)
(* then.                                                                       *)

(* What an operation of the line leaves: the open assignments but those in `gone` *)
(* stay open on their Tap, of a Fill with the same Beverage and Keg, and those in  *)
(* `opened` come on top.                                                           *)
Turns(gone, opened) ==
  /\ Open' = (Open \ gone) \cup opened /\ opened \cap Open = {}
  /\ \A a \in Open \ gone :
       /\ assignments'[a].tap = assignments[a].tap /\ assignments'[a].fill = assignments[a].fill
       /\ fills'[assignments[a].fill].beverage = fills[assignments[a].fill].beverage
       /\ fills'[assignments[a].fill].keg = fills[assignments[a].fill].keg
Measured(gone) ==   \* with the same Keg
  \A a \in Open \ gone : LET k == fills[assignments[a].fill].keg IN kegs'[k].size = kegs[k].size
Serves(gone) ==   \* on a Tap that is switched as before
  \A a \in Open \ gone : LET t == assignments[a].tap IN taps'[t].enabled = taps[t].enabled
Unveils == \* and no assignment becomes a mystery
  \A a \in Assignment : assignments'[a].mystery => assignments[a].mystery

Single ==   \* an open assignment is the only one on its Tap
  /\ \A a \in Open : assignments[a].tap \in Tap /\ a \in OnTap(assignments[a].tap)
  /\ \A t \in Tap, a, b \in Open : a \in OnTap(t) /\ b \in OnTap(t) => a = b
  /\ \A t \in Tap : OnTap(t) \subseteq Open
SettingsOK == settings \in EpochSettings
Typed ==   \* what an epoch would be a snapshot of has its type
  \A t \in Tap, a \in Open : Snapshot(t, a, assignments[a].fill, settings, kegs) \in Epoch
EpochsInv == EpochsTypeOK /\ EpochIsCurrent

Pouring ==   \* what competes pours from a Tap that is switched on
  \A a \in Assignment : Eligible(a) <=> a \in Open /\ taps[assignments[a].tap].enabled
Settled ==   \* a completed war has frozen its counts
  \A w \in War : wars[w].status = "completed" =>
    wars[w].final = wars[w].votes /\ wars[w].result = Outcome(wars[w].final)
WarsInv == WarsTypeOK /\ LostPausesWar /\ OneVisibleWar /\ TitlesSafe /\ Settled

Quiet(gone) == Turns(gone, {}) /\ Measured(gone) /\ Serves(gone) /\ Unveils

\* What a closing of assignments leaves (closeAssignmentLifecycle).
LEMMA ClosingTurns ==
  ASSUME LineInv, NEW gone \in SUBSET Open, UNCHANGED <<taps, kegs>>, assignments' = Closed(gone),
         \A f \in Fill : fills'[f].keg = fills[f].keg /\ fills'[f].beverage = fills[f].beverage
  PROVE  Quiet(gone)
<1>1. \A a \in Assignment : /\ assignments'[a].state = IF a \in gone THEN "closed" ELSE assignments[a].state
                            /\ assignments'[a].tap = assignments[a].tap /\ assignments'[a].fill = assignments[a].fill
                            /\ assignments'[a].mystery = assignments[a].mystery
                            /\ assignments[a].fill \in Fill
  BY DEF Closed, LineInv, AssignmentsOK, AssignmentRow, Open
<1>2. Open' = Open \ gone
  BY <1>1 DEF Open
<1> QED
  BY <1>1, <1>2 DEF Quiet, Turns, Measured, Serves, Unveils, Open

\* What a cascade leaves: rows of the Fills that are gone take their assignments along.
LEMMA CascadeTurns ==
  ASSUME LineInv, NEW gone \in SUBSET Fill, UNCHANGED taps,
         fills' = FillsWithout(gone), assignments' = AssignmentsWithout(gone),
         \A k \in Keg : kegs'[k].size = kegs[k].size \/ \A f \in Fill \ gone : fills[f].keg = k => ~Existing(f)
  PROVE  Quiet(OnLine(gone))
<1>1. \A a \in Assignment : /\ assignments'[a].state = IF assignments[a].state # "new" /\ assignments[a].fill \in gone
                                                       THEN "deleted" ELSE assignments[a].state
                            /\ assignments'[a].tap = assignments[a].tap /\ assignments'[a].fill = assignments[a].fill
                            /\ assignments'[a].mystery = assignments[a].mystery
                            /\ assignments[a].fill \in Fill
  BY DEF AssignmentsWithout, LineInv, AssignmentsOK, AssignmentRow, Open
<1>2. Open' = Open \ OnLine(gone)
  BY <1>1 DEF Open, OnLine
<1>3. \A f \in Fill \ gone : fills'[f] = fills[f]
  BY DEF FillsWithout
<1>4. \A a \in Open \ OnLine(gone) : assignments[a].fill \in Fill \ gone /\ Existing(assignments[a].fill)
                                     /\ fills[assignments[a].fill].keg \in Keg
  BY <1>1 DEF Open, OnLine, LineInv, OpenOK, Active, Existing, FilledOK
<1>5. Turns(OnLine(gone), {})
  BY <1>1, <1>2, <1>3, <1>4 DEF Turns, Open
<1>6. Measured(OnLine(gone))
  BY <1>4 DEF Measured
<1> QED
  BY <1>1, <1>5, <1>6 DEF Quiet, Serves, Unveils

\* What leaves the assignments alone.
LEMMA RestQuiet ==
  ASSUME LineInv, UNCHANGED assignments,
         \A t \in Tap : taps'[t].enabled = taps[t].enabled \/ \A a \in Open : assignments[a].tap # t,
         \A f \in Fill : \/ fills'[f].keg = fills[f].keg /\ fills'[f].beverage = fills[f].beverage
                         \/ ~Active(f),
         \A k \in Keg : kegs'[k].size = kegs[k].size \/ ~kegs[k].kept
  PROVE  Quiet({})
<1>1. \A a \in Open : /\ a \in Assignment /\ assignments[a].tap \in Tap
                      /\ assignments[a].fill \in Fill /\ Active(assignments[a].fill)
                      /\ fills[assignments[a].fill].keg \in Keg /\ kegs[fills[assignments[a].fill].keg].kept
  BY DEF Open, LineInv, OpenOK, RowsOK, FilledOK, Active, Existing, AssignmentsOK, AssignmentRow
<1>2. Open' = Open
  BY DEF Open
<1> QED
  BY <1>1, <1>2 DEF Quiet, Turns, Measured, Serves, Unveils

LEMMA UnhookedQuiet == ASSUME LineInv, Unhooked PROVE Quiet({})
<1> SUFFICES ASSUME TRUE
             PROVE  /\ UNCHANGED assignments
                    /\ \A t \in Tap : taps'[t].enabled = taps[t].enabled \/ \A a \in Open : assignments[a].tap # t
                    /\ \A f \in Fill : \/ fills'[f].keg = fills[f].keg /\ fills'[f].beverage = fills[f].beverage
                                       \/ ~Active(f)
                    /\ \A k \in Keg : kegs'[k].size = kegs[k].size \/ ~kegs[k].kept
  BY RestQuiet
<1>0. TapsOK /\ KegsOK /\ FillsOK /\ RowsOK
  BY DEF LineInv
<1>1. ASSUME NEW t \in Tap, NEW e \in BOOLEAN, CreateTap(t, e)
      PROVE  /\ UNCHANGED <<assignments, fills, kegs>>
             /\ \A u \in Tap : taps'[u].enabled = taps[u].enabled \/ \A a \in Open : assignments[a].tap # u
  BY <1>0, <1>1 DEF CreateTap, TapsOK, RowsOK, Open
<1>2. ASSUME NEW t \in Tap, RetireTap(t) \/ DeleteTap(t)
      PROVE  /\ UNCHANGED <<assignments, fills, kegs>>
             /\ \A u \in Tap : taps'[u].enabled = taps[u].enabled \/ \A a \in Open : assignments[a].tap # u
  BY <1>0, <1>2 DEF RetireTap, DeleteTap, Deletable, TapsOK, TapRow, Open
<1>3. ASSUME NEW f \in Fill, MarkOnDeck(f) \/ RemoveFromOnDeck(f)
      PROVE  /\ UNCHANGED <<assignments, taps, kegs>>
             /\ \A g \in Fill : fills'[g].keg = fills[g].keg /\ fills'[g].beverage = fills[g].beverage
  BY <1>0, <1>3 DEF MarkOnDeck, RemoveFromOnDeck, FillsOK, FillRow
<1>4. ASSUME NEW f \in Fill, NEW b \in Beverage, NEW k \in Keg, CreateFill(f, b, k)
      PROVE  /\ UNCHANGED <<assignments, taps, kegs>>
             /\ \A g \in Fill : fills'[g] = fills[g] \/ ~Active(g)
  BY <1>0, <1>4 DEF CreateFill, FillsOK, NewRow, Active
<1>5. ASSUME NEW order \in Orders, ReorderOnDeck(order)
      PROVE  /\ UNCHANGED <<assignments, taps, kegs>>
             /\ \A g \in Fill : fills'[g].keg = fills[g].keg /\ fills'[g].beverage = fills[g].beverage
  BY <1>0, <1>5 DEF ReorderOnDeck, FillsOK, FillRow
<1>6. ASSUME NEW b \in BOOLEAN, UpdateFillSettings(b)
      PROVE  UNCHANGED <<assignments, taps, kegs, fills>>
  BY <1>6 DEF UpdateFillSettings
<1>7. ASSUME NEW k \in Keg, CreateKeg(k) \/ UpdateKegActive(k)
      PROVE  /\ UNCHANGED <<assignments, taps, fills>>
             /\ \A j \in Keg : kegs'[j].size = kegs[j].size \/ ~kegs[j].kept
  BY <1>0, <1>7 DEF CreateKeg, UpdateKegActive, KegsOK, KegRow
<1> QED
  BY <1>1, <1>2, <1>3, <1>4, <1>5, <1>6, <1>7 DEF Unhooked

\* What an opening leaves, after what it closes (insertAssignmentLifecycle).
LEMMA OpeningTurns ==
  ASSUME LineInv, LineInv', NEW gone \in SUBSET Open, NEW a \in Assignment, NEW t \in Tap, NEW f \in Fill,
         OpenAssignment(gone, a, t, f), UNCHANGED kegs,
         \A g \in Fill : fills'[g].keg = fills[g].keg /\ fills'[g].beverage = fills[g].beverage
  PROVE  /\ Turns(gone, {a}) /\ Measured(gone) /\ Serves(gone) /\ Unveils
         /\ assignments'[a].tap = t /\ assignments'[a].fill = f /\ OpenedOn(t) = a
<1>1. assignments[a].state = "new"
  BY DEF OpenAssignment, NewRow
<1>2. /\ assignments'[a].state = "open" /\ assignments'[a].tap = t /\ assignments'[a].fill = f
      /\ ~assignments'[a].mystery
      /\ \A c \in Assignment : c # a =>
           /\ assignments'[c].state = IF c \in gone THEN "closed" ELSE assignments[c].state
           /\ assignments'[c].tap = assignments[c].tap /\ assignments'[c].fill = assignments[c].fill
           /\ assignments'[c].mystery = assignments[c].mystery
  BY DEF OpenAssignment, LineInv, AssignmentsOK, AssignmentRow
<1>3. \A c \in Assignment : assignments[c].fill \in Fill
  BY DEF LineInv, AssignmentsOK, AssignmentRow
<1>4. Open' = (Open \ gone) \cup {a} /\ a \notin Open
  BY <1>1, <1>2 DEF Open
<1>5. \A u \in Tap : taps'[u].enabled = taps[u].enabled
  BY DEF OpenAssignment, LineInv, TapsOK, TapRow
<1>6. \A c \in Open : c \in Assignment /\ assignments[c].tap \in Tap
  BY DEF LineInv, RowsOK, Open
<1>7. Turns(gone, {a})
  BY <1>2, <1>3, <1>4, <1>6 DEF Turns
<1>8. Measured(gone) /\ Serves(gone) /\ Unveils
  BY <1>2, <1>5, <1>6 DEF Measured, Serves, Unveils
<1>9. OpenedOn(t) = a
  <2>1. \A c \in Assignment : assignments'[c].state = "open" /\ assignments'[c].tap = t => c = a
    BY <1>2 DEF LineInv, TapApart, Open
  <2> QED
    BY <2>1, <1>2 DEF OpenedOn
<1> QED
  BY <1>2, <1>7, <1>8, <1>9

-------------------------------------------------------------------------------
(* Telemetry epochs.                                                           *)

\* An epoch of an active Fill is of the type of epochs.
LEMMA SnapshotType ==
  LineInv /\ SettingsOK => Typed
<1> SUFFICES ASSUME LineInv, settings \in EpochSettings, NEW t \in Tap, NEW a \in Open
             PROVE  Snapshot(t, a, assignments[a].fill, settings, kegs) \in Epoch
  BY DEF Typed, SettingsOK
<1> DEFINE f == assignments[a].fill
           s == settings
<1>1. a \in Assignment /\ f \in Fill /\ fills[f].keg \in Keg /\ fills[f].beverage \in Beverage
  BY DEF LineInv, Open, OpenOK, FilledOK, AssignmentsOK, AssignmentRow, BeveragesOK, Active, Existing
<1>2. kegs[fills[f].keg].size \in BOOLEAN
  BY <1>1 DEF LineInv, KegsOK, KegRow
<1>3. s.authority[t] \in Source \cup {None} /\ s.group[t] \in Group \cup {None}
  BY DEF EpochSettings
<1>4. DensityOf(s, fills[f].beverage) \in Density
  BY <1>1 DEF EpochSettings, DensityOf
<1>5. ConfigOf(s, t) \in Config
  BY DEF EpochSettings, ConfigOf
<1> HIDE DEF f, s
<1>6. Snapshot(t, a, f, s, kegs) \in Epoch
  BY <1>1, <1>2, <1>3, <1>4, <1>5 DEF Snapshot, Epoch
<1> QED
  BY <1>6 DEF f, s

\* The open assignment of a Tap is the one its epoch names, and there is one only.
LEMMA OneOnTap ==
  LineInv => Single
  BY DEF Single, LineInv, Open, OnTap, RowsOK, TapApart

LEMMA SnapshotFields ==
  \A t, a, f, s, k :
    /\ Snapshot(t, a, f, s, k).assignment = a
    /\ Snapshot(t, a, f, s, k).density = DensityOf(s, fills[f].beverage)
    /\ Snapshot(t, a, f, s, k).config = ConfigOf(s, t)
    /\ Snapshot(t, a, f, s, k).group = s.group[t]
  BY DEF Snapshot

LEMMA EpochOfTap ==
  ASSUME LineInv, EpochsInv, NEW t \in Tap
  PROVE  /\ epochs[t] # None => epochs[t].assignment \in OnTap(t)
         /\ \A a \in OnTap(t) : /\ epochs[t] # None /\ epochs[t].assignment = a
                                /\ epochs[t].density = DensityOf(settings, fills[assignments[a].fill].beverage)
                                /\ epochs[t].config = ConfigOf(settings, t)
                                /\ epochs[t].group = settings.group[t]
                                /\ epochs[t] = Snapshot(t, a, assignments[a].fill, settings, kegs)
<1>1. \A a \in OnTap(t) : epochs[t] # None /\ epochs[t] = Snapshot(t, a, assignments[a].fill, settings, kegs)
  BY DEF EpochsInv, EpochIsCurrent
<1>2. \A a \in OnTap(t) : epochs[t].assignment = a
                          /\ epochs[t].density = DensityOf(settings, fills[assignments[a].fill].beverage)
                          /\ epochs[t].config = ConfigOf(settings, t)
                          /\ epochs[t].group = settings.group[t]
  <2> SUFFICES ASSUME NEW a \in OnTap(t)
               PROVE  /\ epochs[t].assignment = a
                      /\ epochs[t].density = DensityOf(settings, fills[assignments[a].fill].beverage)
                      /\ epochs[t].config = ConfigOf(settings, t)
                      /\ epochs[t].group = settings.group[t]
    OBVIOUS
  <2> DEFINE f == assignments[a].fill
  <2>1. epochs[t] = Snapshot(t, a, f, settings, kegs)
    BY <1>1
  <2>2. /\ Snapshot(t, a, f, settings, kegs).assignment = a
        /\ Snapshot(t, a, f, settings, kegs).density = DensityOf(settings, fills[f].beverage)
        /\ Snapshot(t, a, f, settings, kegs).config = ConfigOf(settings, t)
        /\ Snapshot(t, a, f, settings, kegs).group = settings.group[t]
    BY SnapshotFields
  <2> QED
    BY <2>1, <2>2
<1>3. epochs[t] # None => OnTap(t) # {}
  BY DEF EpochsInv, EpochIsCurrent
<1> QED
  BY <1>1, <1>2, <1>3

LEMMA NextTyped == LineInv' /\ SettingsOK' => Typed'
<1>1. LineInv /\ SettingsOK => Typed
  BY SnapshotType
<1> QED
  BY <1>1, PTL

LEMMA NextOneOnTap == LineInv' => Single'
<1>1. LineInv => Single
  BY OneOnTap
<1> QED
  BY <1>1, PTL

\* Closing assignments closes their epochs and no others.
LEMMA EpochsClose ==
  ASSUME LineInv, LineInv', EpochsInv, NEW gone \in SUBSET Assignment,
         Turns(gone, {}), Measured(gone), UNCHANGED settings, epochs' = WithoutClosed(gone)
  PROVE  EpochsInv'
<1>1. epochs' \in [Tap -> Epoch \cup {None}]
  BY DEF EpochsInv, EpochsTypeOK, WithoutClosed
<1>2. ASSUME NEW t \in Tap
      PROVE  /\ (epochs[t] = None <=> OnTap(t) = {})'
             /\ \A a \in OnTap(t)' : epochs'[t] = Snapshot(t, a, assignments[a].fill, settings, kegs)'
  <2>1. OnTap(t)' = OnTap(t) \ gone
    BY <1>2, OneOnTap, NextOneOnTap DEF Single, Turns, OnTap, Open
  <2>2. CASE OnTap(t)' = {}
    <3>1. epochs[t] # None => epochs[t].assignment \in gone
      BY <2>1, <2>2, EpochOfTap
    <3> QED
      BY <3>1, <2>2 DEF WithoutClosed
  <2>3. CASE OnTap(t)' # {}
    <3>1. PICK a \in OnTap(t) : a \notin gone
      BY <2>1, <2>3
    <3>2. OnTap(t)' = {a} /\ a \in Open
      BY <3>1, <2>1, OneOnTap DEF Single
    <3>3. epochs[t] # None /\ epochs[t].assignment = a
          /\ epochs[t] = Snapshot(t, a, assignments[a].fill, settings, kegs)
      BY <3>1, EpochOfTap
    <3>4. epochs'[t] = epochs[t]
      BY <3>1, <3>3 DEF WithoutClosed
    <3>5. Snapshot(t, a, assignments[a].fill, settings, kegs)' = Snapshot(t, a, assignments[a].fill, settings, kegs)
      BY <3>1, <3>2 DEF Turns, Measured, Snapshot
    <3> QED
      BY <3>2, <3>3, <3>4, <3>5
  <2> QED
    BY <2>2, <2>3
<1>3. EpochIsCurrent'
  BY <1>2 DEF EpochIsCurrent
<1> QED
  BY <1>1, <1>3 DEF EpochsInv, EpochsTypeOK

\* An assignment is opened with an epoch of its own.
LEMMA EpochsOpen ==
  ASSUME LineInv, LineInv', EpochsInv, NEW gone \in SUBSET Assignment, NEW t \in Tap, NEW a \in Assignment,
         Turns(gone, {a}), UNCHANGED <<kegs, settings>>,
         assignments'[a].tap = t,
         LET f == assignments'[a].fill IN
           /\ fills'[f].keg = fills[f].keg /\ fills'[f].beverage = fills[f].beverage
           /\ epochs' = WithOpened(gone, t, a, f)
  PROVE  EpochsInv'
<1> DEFINE f == assignments'[a].fill
           new == Snapshot(t, a, f, settings, kegs)
<1>1. a \in Open'
  BY DEF Turns
<1>2. new = Snapshot(t, a, assignments[a].fill, settings, kegs)'
  BY DEF Snapshot
<1>3. new \in Epoch
  <2>1. EpochsTypeOK => settings \in EpochSettings
    BY DEF EpochsTypeOK
  <2>2. new.assignment = a /\ new.source = settings.authority[t] /\ new.size = kegs[fills[f].keg].size
        /\ new.density = DensityOf(settings, fills[f].beverage) /\ new.config = ConfigOf(settings, t)
        /\ new.group = settings.group[t]
    BY DEF Snapshot
  <2>3. f \in Fill /\ fills[f].keg \in Keg /\ fills[f].beverage \in Beverage
    BY <1>1 DEF LineInv, Open, OpenOK, FilledOK, AssignmentsOK, AssignmentRow, BeveragesOK, Active, Existing
  <2>4. kegs[fills[f].keg].size \in BOOLEAN
    BY <2>3 DEF LineInv, KegsOK, KegRow
  <2>5. settings.authority[t] \in Source \cup {None} /\ settings.group[t] \in Group \cup {None}
    BY DEF EpochsInv, EpochsTypeOK, EpochSettings
  <2>6. DensityOf(settings, fills[f].beverage) \in Density
    BY <2>3 DEF EpochsInv, EpochsTypeOK, EpochSettings, DensityOf
  <2>7. ConfigOf(settings, t) \in Config
    BY DEF EpochsInv, EpochsTypeOK, EpochSettings, ConfigOf
  <2> HIDE DEF f
  <2> QED
    BY <2>3, <2>4, <2>5, <2>6, <2>7 DEF Snapshot, Epoch
<1>4. epochs' = [WithoutClosed(gone) EXCEPT ![t] = new]
  BY DEF WithOpened
<1> HIDE DEF new
<1>5. epochs' \in [Tap -> Epoch \cup {None}] /\ epochs'[t] = new
      /\ \A u \in Tap : u # t => epochs'[u] = WithoutClosed(gone)[u]
  <2>1. WithoutClosed(gone) \in [Tap -> Epoch \cup {None}]
    BY DEF EpochsInv, EpochsTypeOK, WithoutClosed
  <2> QED
    BY <2>1, <1>3, <1>4
<1>6. ASSUME NEW u \in Tap
      PROVE  /\ (epochs[u] = None <=> OnTap(u) = {})'
             /\ \A b \in OnTap(u)' : epochs'[u] = Snapshot(u, b, assignments[b].fill, settings, kegs)'
  <2>1. CASE u = t
    <3>1. OnTap(u)' = {a}
      BY <2>1, <1>1, NextOneOnTap DEF Single, OnTap
    <3> QED
      BY <3>1, <2>1, <1>5, <1>2, <1>3, EpochAssumption
  <2>2. CASE u # t
    <3>1. OnTap(u)' = OnTap(u) \ gone
      BY <2>2, <1>6, OneOnTap, NextOneOnTap DEF Single, Turns, OnTap, Open
    <3>2. CASE OnTap(u)' = {}
      <4>1. epochs[u] # None => epochs[u].assignment \in gone
        BY <3>1, <3>2, EpochOfTap
      <4> QED
        BY <4>1, <3>2, <2>2, <1>5 DEF WithoutClosed
    <3>3. CASE OnTap(u)' # {}
      <4>1. PICK b \in OnTap(u) : b \notin gone
        BY <3>1, <3>3
      <4>2. OnTap(u)' = {b} /\ b \in Open
        BY <4>1, <3>1, OneOnTap DEF Single
      <4>3. epochs[u] # None /\ epochs[u].assignment = b
            /\ epochs[u] = Snapshot(u, b, assignments[b].fill, settings, kegs)
        BY <4>1, EpochOfTap
      <4>4. epochs'[u] = epochs[u]
        BY <4>1, <4>3, <2>2, <1>5 DEF WithoutClosed
      <4>5. Snapshot(u, b, assignments[b].fill, settings, kegs)' = Snapshot(u, b, assignments[b].fill, settings, kegs)
        BY <4>1, <4>2 DEF Turns, Snapshot
      <4> QED
        BY <4>2, <4>3, <4>4, <4>5
    <3> QED
      BY <3>2, <3>3
  <2> QED
    BY <2>1, <2>2
<1>7. EpochIsCurrent'
  BY <1>6 DEF EpochIsCurrent
<1> QED
  BY <1>5, <1>7 DEF EpochsInv, EpochsTypeOK

\* A change of a setting or a Keg turns the epochs of all whose snapshot it changes.
LEMMA EpochsTurn ==
  ASSUME LineInv, LineInv', EpochsInv, UNCHANGED <<fills, assignments>>, settings' \in EpochSettings,
         NEW turned, epochs' = Reopened(turned, settings', kegs'),
         \A t \in Tap, a \in Open : t \notin turned /\ assignments[a].tap = t =>
           LET f == assignments[a].fill IN
             Snapshot(t, a, f, settings', kegs') = Snapshot(t, a, f, settings, kegs)
  PROVE  EpochsInv'
<1>1. ASSUME NEW t \in Tap
      PROVE  /\ (epochs[t] = None <=> OnTap(t) = {})'
             /\ \A a \in OnTap(t)' : epochs'[t] = Snapshot(t, a, assignments[a].fill, settings, kegs)'
             /\ epochs'[t] \in Epoch \cup {None}
  <2>1. OnTap(t)' = OnTap(t) /\ OnTap(t) \subseteq Open /\ Open' = Open
    BY DEF OnTap, Open
  <2>2. CASE OnTap(t) = {}
    <3>1. epochs[t] = None
      BY <2>2, EpochOfTap
    <3>2. epochs'[t] = None
      BY <3>1 DEF Reopened
    <3> QED
      BY <3>2, <2>1, <2>2
  <2>3. CASE OnTap(t) # {}
    <3>1. PICK a \in OnTap(t) : TRUE
      BY <2>3
    <3>2. OnTap(t) = {a} /\ a \in Open /\ assignments[a].tap = t
      BY <3>1, <2>1, OneOnTap DEF Single, OnTap
    <3>3. epochs[t] # None /\ epochs[t].assignment = a
          /\ epochs[t] = Snapshot(t, a, assignments[a].fill, settings, kegs)
      BY <3>1, EpochOfTap
    <3> DEFINE f == assignments[a].fill
    <3>4. Snapshot(t, a, f, settings, kegs)' = Snapshot(t, a, f, settings', kegs')
      BY DEF Snapshot
    <3>5. epochs'[t] = Snapshot(t, a, f, settings', kegs')
      <4>1. CASE t \in turned
        BY <4>1, <3>3 DEF Reopened
      <4>2. CASE t \notin turned
        <5>1. epochs'[t] = epochs[t]
          BY <4>2 DEF Reopened
        <5> QED
          BY <5>1, <4>2, <3>2, <3>3
      <4> QED
        BY <4>1, <4>2
    <3>6. Snapshot(t, a, f, settings', kegs') \in Epoch
      BY <3>2, <3>4, <2>1, NextTyped DEF Typed, SettingsOK
    <3> QED
      BY <3>2, <3>4, <3>5, <3>6, <2>1, EpochAssumption
  <2> QED
    BY <2>2, <2>3
<1>2. EpochIsCurrent'
  BY <1>1 DEF EpochIsCurrent
<1>3. epochs' = [t \in Tap |-> epochs'[t]]
  BY DEF Reopened
<1>4. epochs' \in [Tap -> Epoch \cup {None}]
  BY <1>1, <1>3
<1> QED
  BY <1>2, <1>4 DEF EpochsInv, EpochsTypeOK

-------------------------------------------------------------------------------
(* Tap Wars.                                                                   *)

LEMMA EligibleIsPouring == LineInv => Pouring
  BY DEF Pouring, Eligible, EligibleIn, LineInv, Open, OpenOK, Active

LEMMA NextEligible == LineInv' => Pouring'
<1>1. LineInv => Pouring
  BY EligibleIsPouring
<1> QED
  BY <1>1, PTL

\* Rows of wars, read field by field.
LEMMA WarRows ==
  ASSUME WarsTypeOK, NEW w \in War
  PROVE  /\ wars[w] \in WarRow
         /\ wars[w].status \in {"new", "active", "paused", "completed"} /\ wars[w].dismissed \in BOOLEAN
         /\ wars[w].entry \in [Side -> Assignment] /\ wars[w].named \in [Side -> BOOLEAN]
         /\ wars[w].votes \in [Side -> 0..MaxVotes] /\ wars[w].final \in [Side -> -1..MaxVotes]
         /\ wars[w].result \in {"none", "side1", "side2", "tie"}
<1>1. wars[w] \in WarRow
  BY DEF WarsTypeOK
<1> QED
  BY <1>1 DEF WarRow

\* A war whose row only changes its status or its display keeps the rest.
LEMMA StatusRows ==
  ASSUME NEW r \in WarRow, NEW s \in {"new", "active", "paused", "completed"}
  PROVE  LET q == [r EXCEPT !.status = s] IN
         /\ q \in WarRow /\ q.status = s /\ q.dismissed = r.dismissed /\ q.entry = r.entry
         /\ q.named = r.named /\ q.votes = r.votes /\ q.final = r.final /\ q.result = r.result
  BY DEF WarRow

LEMMA SameRow ==
  ASSUME NEW r \in WarRow
  PROVE  [r EXCEPT !.dismissed = r.dismissed, !.named = r.named] = r
  BY DEF WarRow

(* The rows of wars after a step, compared with those before: their competitors   *)
(* and counts stay, and no war is begun, resumed, completed or shown again.        *)
Fades(w) ==
  /\ wars'[w] \in WarRow
  /\ wars'[w] = wars[w]
     \/ /\ wars[w].status = "active" /\ wars'[w].status = "paused"
        /\ wars'[w].dismissed = wars[w].dismissed /\ wars'[w].entry = wars[w].entry
        /\ wars'[w].named = wars[w].named /\ wars'[w].votes = wars[w].votes
        /\ wars'[w].final = wars[w].final /\ wars'[w].result = wars[w].result

LEMMA PausedFades ==
  ASSUME WarsTypeOK, NEW lost, wars' = PausedIfIn(lost)
  PROVE  \A w \in War : /\ Fades(w)
                        /\ wars'[w].status = "active" =>
                             wars[w].status = "active" /\ \A s \in Side : wars[w].entry[s] \notin lost
<1> SUFFICES ASSUME NEW w \in War
             PROVE  /\ Fades(w)
                    /\ wars'[w].status = "active" =>
                         wars[w].status = "active" /\ \A s \in Side : wars[w].entry[s] \notin lost
  OBVIOUS
<1>1. wars[w] \in WarRow
  BY WarRows
<1>2. wars'[w] = IF wars[w].status = "active" /\ \E s \in Side : wars[w].entry[s] \in lost
                 THEN [wars[w] EXCEPT !.status = "paused"] ELSE wars[w]
  BY DEF PausedIfIn
<1> DEFINE r == wars[w]
           q == [r EXCEPT !.status = "paused"]
<1>3. /\ q \in WarRow /\ q.status = "paused" /\ q.dismissed = r.dismissed /\ q.entry = r.entry
      /\ q.named = r.named /\ q.votes = r.votes /\ q.final = r.final /\ q.result = r.result
  <2> HIDE DEF r
  <2>1. r \in WarRow
    BY <1>1 DEF r
  <2> QED
    BY <2>1, StatusRows, Zenon
<1>4. wars'[w] = IF r.status = "active" /\ \E s \in Side : r.entry[s] \in lost THEN q ELSE r
  BY <1>2
<1>5. r = wars[w]
  OBVIOUS
<1> HIDE DEF q, r
<1>6. Fades(w)
  BY <1>1, <1>3, <1>4, <1>5 DEF Fades
<1> QED
  BY <1>3, <1>4, <1>5, <1>6

\* Fading wars count no votes and settle nothing.
LEMMA FadesFairly ==
  ASSUME WarsInv, \A w \in War : Fades(w)
  PROVE  FairCount /\ OneVisibleWar' /\ Settled'
<1>1. \A w \in War : /\ wars'[w].status = "completed" => wars'[w] = wars[w]
                     /\ wars[w].status = "completed" => wars'[w] = wars[w]
                     /\ wars'[w].votes = wars[w].votes
  BY DEF Fades
<1>0. ASSUME NEW w \in War, Visible(w)'
      PROVE  Visible(w)
  BY <1>0 DEF Fades, Visible, Unfinished, Published
<1>2. \A w \in War : wars[w] \in WarRow
  BY WarRows DEF WarsInv
<1>3. \A w \in War : [wars[w] EXCEPT !.dismissed = wars[w].dismissed, !.named = wars[w].named] = wars[w]
  BY <1>2, SameRow
<1>4. FairCount
  BY <1>1, <1>3 DEF FairCount, WarsInv, Settled
<1>5. OneVisibleWar'
  BY <1>0 DEF WarsInv, OneVisibleWar
<1>6. Settled'
  BY <1>1 DEF WarsInv, Settled
<1> QED
  BY <1>4, <1>5, <1>6

LEMMA FadesSafely ==
  ASSUME WarsInv, \A w \in War : Fades(w), Unveils
  PROVE  TitlesSafe'
<1> SUFFICES ASSUME NEW w \in War, NEW s \in Side, Visible(w)', assignments'[wars'[w].entry[s]].mystery
             PROVE  ~wars'[w].named[s]
  BY DEF TitlesSafe
<1>1. wars'[w].entry = wars[w].entry /\ wars'[w].named = wars[w].named /\ Visible(w)
  BY DEF Fades, Visible, Unfinished, Published
<1>2. wars[w].entry[s] \in Assignment
  BY WarRows DEF WarsInv
<1> QED
  BY <1>1, <1>2 DEF Unveils, WarsInv, TitlesSafe

\* Wars that lost a competitor are paused; the others go on.
LEMMA WarsLose ==
  ASSUME WarsInv, NEW lost, wars' = PausedIfIn(lost), UNCHANGED missed, Unveils,
         \A a \in Assignment : Eligible(a) /\ a \notin lost => Eligible(a)'
  PROVE  WarsInv' /\ FairCount
<1>1. /\ \A w \in War : Fades(w)
      /\ \A w \in War : wars'[w].status = "active" =>
           wars[w].status = "active" /\ \A s \in Side : wars[w].entry[s] \notin lost
  BY PausedFades DEF WarsInv
<1>2. WarsTypeOK'
  <2>1. wars' = [w \in War |-> wars'[w]]
    BY DEF PausedIfIn
  <2>2. \A w \in War : wars'[w] \in WarRow
    BY <1>1 DEF Fades
  <2> QED
    BY <2>1, <2>2 DEF WarsTypeOK
<1>3. LostPausesWar'
  <2> SUFFICES ASSUME NEW w \in War, wars'[w].status = "active", w \notin missed
               PROVE  BothEligible(w)'
    BY DEF LostPausesWar
  <2>1. wars[w].status = "active" /\ wars'[w].entry = wars[w].entry
        /\ \A s \in Side : wars[w].entry[s] \notin lost
    BY <1>1 DEF Fades
  <2>2. \A s \in Side : wars[w].entry[s] \in Assignment
    BY WarRows DEF WarsInv
  <2>3. \A s \in Side : Eligible(wars[w].entry[s])
    BY <2>1 DEF WarsInv, LostPausesWar, BothEligible
  <2>4. ASSUME NEW s \in Side
        PROVE  Eligible(wars[w].entry[s])'
    <3> DEFINE a == wars[w].entry[s]
    <3>1. a \in Assignment /\ Eligible(a) /\ a \notin lost
      BY <2>1, <2>2, <2>3
    <3>2. EligibleIn(taps', fills', assignments', a)
      <4> HIDE DEF a
      <4> QED
        BY <3>1 DEF Eligible
    <3>3. wars'[w].entry[s] = a
      BY <2>1
    <3> QED
      BY <3>2, <3>3 DEF Eligible
  <2> QED
    BY <2>4 DEF BothEligible
<1> QED
  BY <1>1, <1>2, <1>3, FadesFairly, FadesSafely DEF WarsInv

\* A deletion that nothing follows leaves its wars to `missed`.
LEMMA WarsForget ==
  ASSUME WarsInv, LineInv', NotReconciled, Unveils
  PROVE  WarsInv' /\ FairCount
<1> DEFINE lost == {a \in Assignment : ~EligibleIn(taps', fills', assignments', a)}
<1>1. wars' = wars /\ missed' = missed \cup {w \in War : PausedIfIn(lost)[w] # wars[w]}
  BY DEF NotReconciled, AfterCommit
<1>2. \A w \in War : wars[w] \in WarRow
  BY WarRows DEF WarsInv
<1>3. \A w \in War : Fades(w)
  BY <1>1, <1>2 DEF Fades
<1>4. WarsTypeOK'
  BY <1>1 DEF WarsInv, WarsTypeOK
<1>5. LostPausesWar'
  <2> SUFFICES ASSUME NEW w \in War, wars'[w].status = "active", w \notin missed'
               PROVE  BothEligible(w)'
    BY DEF LostPausesWar
  <2>1. PausedIfIn(lost)[w] = wars[w] /\ wars[w].status = "active" /\ wars'[w] = wars[w]
    BY <1>1
  <2> DEFINE r == wars[w]
             q == [r EXCEPT !.status = "paused"]
  <2>2. q.status = "paused"
    <3> HIDE DEF r
    <3>1. r \in WarRow
      BY <1>2 DEF r
    <3> QED
      BY <3>1 DEF WarRow
  <2>3. ~\E s \in Side : wars[w].entry[s] \in lost
    <3>1. PausedIfIn(lost)[w] = IF wars[w].status = "active" /\ \E s \in Side : wars[w].entry[s] \in lost
                                THEN q ELSE r
      BY DEF PausedIfIn
    <3> HIDE DEF q, lost
    <3> QED
      BY <3>1, <2>1, <2>2
  <2>4. \A s \in Side : wars[w].entry[s] \in Assignment
    BY WarRows DEF WarsInv
  <2>5. \A s \in Side : EligibleIn(taps', fills', assignments', wars'[w].entry[s])
    BY <2>1, <2>3, <2>4
  <2> QED
    BY <2>5 DEF BothEligible, Eligible
<1> QED
  BY <1>3, <1>4, <1>5, FadesFairly, FadesSafely DEF WarsInv

\* A mystery veiled or unveiled refreshes the titles of the war on display.
LEMMA WarsRetitle ==
  ASSUME WarsInv, NEW a \in Assignment, NEW mystery \in BOOLEAN, wars' = TitlesRefreshed(a, mystery),
         UNCHANGED missed, assignments'[a].mystery = mystery,
         \A c \in Assignment : c # a => assignments'[c].mystery = assignments[c].mystery,
         \A c \in Assignment : Eligible(c) => Eligible(c)'
  PROVE  WarsInv' /\ FairCount
<1>1. \A w \in War : wars[w] \in WarRow
  BY WarRows DEF WarsInv
<1> DEFINE Titles(w) == [s \in Side |-> IF wars[w].entry[s] = a THEN ~mystery ELSE wars[w].named[s]]
<1>2. \A w \in War : wars'[w] = IF Visible(w) THEN [wars[w] EXCEPT !.named = Titles(w)] ELSE wars[w]
  BY DEF TitlesRefreshed
<1>3. \A w \in War : Titles(w) \in [Side -> BOOLEAN]
  BY WarRows DEF WarsInv
<1> HIDE DEF Titles
<1>4. ASSUME NEW w \in War
      PROVE  /\ wars'[w] \in WarRow
             /\ wars'[w].status = wars[w].status /\ wars'[w].dismissed = wars[w].dismissed
             /\ wars'[w].entry = wars[w].entry /\ wars'[w].votes = wars[w].votes
             /\ wars'[w].final = wars[w].final /\ wars'[w].result = wars[w].result
             /\ wars'[w].named = IF Visible(w) THEN Titles(w) ELSE wars[w].named
             /\ [wars'[w] EXCEPT !.dismissed = wars[w].dismissed, !.named = wars[w].named] = wars[w]
  <2> DEFINE r == wars[w]
             n == Titles(w)
             q == [r EXCEPT !.named = n]
  <2>1. r \in WarRow /\ n \in [Side -> BOOLEAN]
    BY <1>1, <1>3
  <2>2. wars'[w] = IF Visible(w) THEN q ELSE r
    BY <1>2
  <2>0. r = wars[w] /\ n = Titles(w)
    OBVIOUS
  <2> HIDE DEF r, n
  <2>3. /\ q \in WarRow /\ q.status = r.status /\ q.dismissed = r.dismissed
        /\ q.entry = r.entry /\ q.votes = r.votes
        /\ q.final = r.final /\ q.result = r.result /\ q.named = n
    BY <2>1 DEF WarRow
  <2>4. [q EXCEPT !.dismissed = r.dismissed, !.named = r.named] = r
    BY <2>1 DEF WarRow
  <2>5. [r EXCEPT !.dismissed = r.dismissed, !.named = r.named] = r
    BY <2>1, SameRow
  <2> HIDE DEF q
  <2>6. [wars'[w] EXCEPT !.dismissed = r.dismissed, !.named = r.named] = r
    BY <2>2, <2>4, <2>5
  <2>7. /\ wars'[w] \in WarRow
        /\ wars'[w].status = r.status /\ wars'[w].dismissed = r.dismissed
        /\ wars'[w].entry = r.entry /\ wars'[w].votes = r.votes
        /\ wars'[w].final = r.final /\ wars'[w].result = r.result
        /\ wars'[w].named = IF Visible(w) THEN n ELSE r.named
    BY <2>1, <2>2, <2>3
  <2> QED
    BY <2>0, <2>6, <2>7
<1>5. WarsTypeOK'
  <2>1. wars' = [w \in War |-> wars'[w]]
    BY DEF TitlesRefreshed
  <2> QED
    BY <2>1, <1>4 DEF WarsTypeOK
<1>6. ASSUME NEW w \in War
      PROVE  Visible(w)' <=> Visible(w)
  BY <1>4 DEF Visible, Unfinished, Published
<1>7. LostPausesWar'
  <2> SUFFICES ASSUME NEW w \in War, wars'[w].status = "active", w \notin missed
               PROVE  BothEligible(w)'
    BY DEF LostPausesWar
  <2>1. wars[w].status = "active" /\ wars'[w].entry = wars[w].entry
    BY <1>4
  <2>2. ASSUME NEW s \in Side
        PROVE  EligibleIn(taps', fills', assignments', wars'[w].entry[s])
    <3> DEFINE c == wars[w].entry[s]
    <3>1. c \in Assignment /\ Eligible(c)
      BY <2>1, WarRows DEF WarsInv, LostPausesWar, BothEligible
    <3> HIDE DEF c
    <3>2. EligibleIn(taps', fills', assignments', c)
      BY <3>1 DEF Eligible
    <3> QED
      BY <3>2, <2>1 DEF c
  <2> QED
    BY <2>2 DEF BothEligible, Eligible
<1>8. OneVisibleWar'
  BY <1>6 DEF WarsInv, OneVisibleWar
<1>9. TitlesSafe'
  <2> SUFFICES ASSUME NEW w \in War, NEW s \in Side, Visible(w)', assignments'[wars'[w].entry[s]].mystery
               PROVE  ~wars'[w].named[s]
    BY DEF TitlesSafe
  <2>1. Visible(w) /\ wars'[w].entry = wars[w].entry /\ wars'[w].named = Titles(w)
    BY <1>4, <1>6
  <2>2. wars[w].entry[s] \in Assignment
    BY WarRows DEF WarsInv
  <2>3. CASE wars[w].entry[s] = a
    BY <2>1, <2>3 DEF Titles
  <2>4. CASE wars[w].entry[s] # a
    BY <2>1, <2>2, <2>4 DEF Titles, WarsInv, TitlesSafe
  <2> QED
    BY <2>3, <2>4
<1>10. Settled'
  <2> SUFFICES ASSUME NEW w \in War, wars'[w].status = "completed"
               PROVE  wars'[w].final = wars'[w].votes /\ wars'[w].result = Outcome(wars'[w].final)
    BY DEF Settled
  <2>1. wars[w].status = "completed"
    BY <1>4
  <2>2. wars[w].final = wars[w].votes /\ wars[w].result = Outcome(wars[w].final)
    BY <2>1 DEF WarsInv, Settled
  <2>3. wars'[w].final = wars[w].final /\ wars'[w].votes = wars[w].votes /\ wars'[w].result = wars[w].result
    BY <1>4
  <2> QED
    BY <2>2, <2>3
<1>11. FairCount
  <2>1. \A w \in War : wars'[w].votes = wars[w].votes
    BY <1>4
  <2>2. \A w \in War : wars'[w].status = "completed" =>
          wars'[w].final = wars'[w].votes /\ wars'[w].result = Outcome(wars'[w].final)
    BY <1>10 DEF Settled
  <2>3. \A w \in War :
          [wars'[w] EXCEPT !.dismissed = wars[w].dismissed, !.named = wars[w].named] = wars[w]
    BY <1>4
  <2> QED
    BY <2>1, <2>2, <2>3 DEF FairCount
<1> QED
  BY <1>5, <1>7, <1>8, <1>9, <1>10, <1>11 DEF WarsInv

\* An operation on one war: what it leaves of the row decides.
LEMMA WarTurns ==
  ASSUME WarsInv, NEW w \in War, NEW row \in WarRow, wars' = [wars EXCEPT ![w] = row],
         UNCHANGED <<lineVars, missed>>,
         row.entry = wars[w].entry, row.named = wars[w].named, wars[w].status # "new",
         row.status = "active" => BothEligible(w),
         row.status \in {"active", "paused"} => Unfinished(w),
         row.status = "completed" /\ ~row.dismissed => Visible(w),
         row.status = "completed" => row.final = row.votes /\ row.result = Outcome(row.final),
         \A s \in Side : row.votes[s] # wars[w].votes[s] =>
           row.votes[s] = wars[w].votes[s] + 1 /\ wars[w].status = "active" /\ BothEligible(w),
         wars[w].status = "completed" =>
           [row EXCEPT !.dismissed = wars[w].dismissed, !.named = wars[w].named] = wars[w]
  PROVE  WarsInv' /\ FairCount
<1>1. wars' \in [War -> WarRow] /\ wars'[w] = row /\ \A v \in War : v # w => wars'[v] = wars[v]
  BY DEF WarsInv, WarsTypeOK
<1>2. ASSUME NEW v \in War, Visible(v)'
      PROVE  Visible(v)
  <2>1. CASE v = w
    <3>1. Visible(w)' => (row.status \in {"active", "paused"} \/ (row.status = "completed" /\ ~row.dismissed))
      BY <1>1 DEF Visible, Unfinished, Published
    <3> QED
      BY <1>2, <2>1, <3>1 DEF Visible
  <2>2. CASE v # w
    BY <1>1, <1>2, <2>2 DEF Visible, Unfinished, Published
  <2> QED
    BY <2>1, <2>2
<1>3. \A v \in War : wars'[v].entry = wars[v].entry /\ wars'[v].named = wars[v].named
  BY <1>1
<1>4. LostPausesWar'
  <2> SUFFICES ASSUME NEW v \in War, wars'[v].status = "active", v \notin missed
               PROVE  BothEligible(v)'
    BY DEF LostPausesWar
  <2>1. BothEligible(v)
    BY <1>1 DEF WarsInv, LostPausesWar
  <2> QED
    BY <1>3, <2>1 DEF BothEligible, Eligible, lineVars
<1>5. OneVisibleWar'
  BY <1>2 DEF WarsInv, OneVisibleWar
<1>6. TitlesSafe'
  BY <1>2, <1>3 DEF WarsInv, TitlesSafe, lineVars
<1>7. Settled'
  BY <1>1 DEF WarsInv, Settled
<1>8. FairCount
  <2> SUFFICES ASSUME NEW v \in War
               PROVE  /\ \A s \in Side :
                           wars[v].status # "new" /\ wars'[v].votes[s] # wars[v].votes[s] =>
                             /\ wars'[v].votes[s] = wars[v].votes[s] + 1
                             /\ wars[v].status = "active" /\ BothEligible(v)
                      /\ wars'[v].status = "completed" =>
                           wars'[v].final = wars'[v].votes /\ wars'[v].result = Outcome(wars'[v].final)
                      /\ wars[v].status = "completed" =>
                           [wars'[v] EXCEPT !.dismissed = wars[v].dismissed, !.named = wars[v].named] = wars[v]
    BY DEF FairCount
  <2>1. CASE v = w
    BY <1>1, <2>1
  <2>2. CASE v # w
    <3>1. wars'[v] = wars[v] /\ wars[v] \in WarRow
      BY <1>1, <2>2, WarRows DEF WarsInv
    <3>2. [wars[v] EXCEPT !.dismissed = wars[v].dismissed, !.named = wars[v].named] = wars[v]
      BY <3>1, SameRow
    <3> QED
      BY <3>1, <3>2, <1>7 DEF Settled
  <2> QED
    BY <2>1, <2>2
<1> QED
  BY <1>1, <1>4, <1>5, <1>6, <1>7, <1>8 DEF WarsInv, WarsTypeOK

LEMMA PausedTurns ==
  ASSUME WarsInv, NEW w \in War, wars[w].status = "active", wars' = PausedWar(w),
         UNCHANGED <<lineVars, missed>>
  PROVE  WarsInv' /\ FairCount
<1> DEFINE r == wars[w]
           q == [r EXCEPT !.status = "paused"]
<1>1. r \in WarRow /\ r.status = "active" /\ r = wars[w]
  BY WarRows DEF WarsInv
<1>2. wars' = [wars EXCEPT ![w] = q]
  BY DEF PausedWar
<1> HIDE DEF r
<1>3. /\ q \in WarRow /\ q.status = "paused" /\ q.entry = r.entry
      /\ q.named = r.named /\ q.votes = r.votes
  BY <1>1 DEF WarRow
<1> HIDE DEF q
<1>4. Unfinished(w)
  BY <1>1 DEF Unfinished
<1> QED
  BY <1>1, <1>2, <1>3, <1>4, WarTurns

LEMMA ResumeTurns ==
  ASSUME WarsInv, NEW w \in War, Resume(w), UNCHANGED <<lineVars, missed>>
  PROVE  WarsInv' /\ FairCount
<1> DEFINE r == wars[w]
           q == [r EXCEPT !.status = "active"]
<1>1. r \in WarRow /\ r.status = "paused" /\ r = wars[w] /\ BothEligible(w)
  BY WarRows DEF WarsInv, Resume
<1>2. wars' = [wars EXCEPT ![w] = q]
  BY DEF Resume
<1> HIDE DEF r
<1>3. /\ q \in WarRow /\ q.status = "active" /\ q.entry = r.entry
      /\ q.named = r.named /\ q.votes = r.votes
  BY <1>1 DEF WarRow
<1> HIDE DEF q
<1>4. Unfinished(w)
  BY <1>1 DEF Unfinished
<1> QED
  BY <1>1, <1>2, <1>3, <1>4, WarTurns

LEMMA StopTurns ==
  ASSUME WarsInv, NEW w \in War, Stop(w), UNCHANGED <<lineVars, missed>>
  PROVE  WarsInv' /\ FairCount
<1> DEFINE r == wars[w]
           o == Outcome(r.votes)
           q == [r EXCEPT !.status = "completed", !.final = r.votes, !.result = o]
<1>1. r \in WarRow /\ r.status \in {"active", "paused"} /\ r = wars[w] /\ Unfinished(w)
  BY WarRows DEF WarsInv, Stop, Unfinished
<1>2. wars' = [wars EXCEPT ![w] = q]
  BY DEF Stop, Completed
<1>3. o \in {"none", "side1", "side2", "tie"} /\ o = Outcome(r.votes)
  BY DEF Outcome
<1> HIDE DEF r, o
<1>4. r.votes \in [Side -> 0..MaxVotes]
  BY <1>1 DEF WarRow
<1>5. r.votes \in [Side -> -1..MaxVotes]
  BY <1>4, WarsAssumption
<1>6. /\ q \in WarRow /\ q.status = "completed" /\ q.entry = r.entry
      /\ q.named = r.named /\ q.votes = r.votes /\ q.final = r.votes /\ q.result = o
  BY <1>1, <1>3, <1>5 DEF WarRow
<1> HIDE DEF q
<1>7. Visible(w)
  BY <1>1 DEF Visible
<1>8. q.final = q.votes /\ q.result = Outcome(q.final)
  BY <1>3, <1>6
<1>9. q.status = "completed" /\ wars[w].status # "completed" /\ wars[w].status # "new"
      /\ \A s \in Side : q.votes[s] = wars[w].votes[s]
  BY <1>1, <1>6
<1> QED
  BY <1>1, <1>2, <1>6, <1>7, <1>8, <1>9, WarTurns

LEMMA DismissTurns ==
  ASSUME WarsInv, NEW w \in War, DismissPublicResult(w), UNCHANGED <<lineVars, missed>>
  PROVE  WarsInv' /\ FairCount
<1> DEFINE r == wars[w]
           q == [r EXCEPT !.dismissed = TRUE]
<1>1. r \in WarRow /\ r.status = "completed" /\ r = wars[w] /\ Visible(w)
      /\ r.final = r.votes /\ r.result = Outcome(r.final)
  BY WarRows DEF WarsInv, DismissPublicResult, Published, Visible, Settled
<1>2. wars' = [wars EXCEPT ![w] = q]
  BY DEF DismissPublicResult
<1> HIDE DEF r
<1>3. /\ q \in WarRow /\ q.status = r.status /\ q.entry = r.entry
      /\ q.named = r.named /\ q.votes = r.votes /\ q.final = r.final /\ q.result = r.result
      /\ [q EXCEPT !.dismissed = r.dismissed, !.named = r.named] = r
  BY <1>1 DEF WarRow
<1> HIDE DEF q
<1>4. /\ q.status = "completed" /\ wars[w].status = "completed" /\ wars[w].status # "new"
      /\ q.entry = wars[w].entry /\ q.named = wars[w].named
      /\ q.final = q.votes /\ q.result = Outcome(q.final)
      /\ \A s \in Side : q.votes[s] = wars[w].votes[s]
      /\ [q EXCEPT !.dismissed = wars[w].dismissed, !.named = wars[w].named] = wars[w]
  BY <1>1, <1>3
<1> QED
  BY <1>1, <1>2, <1>3, <1>4, WarTurns

LEMMA VoteTurns ==
  ASSUME WarsInv, NEW w \in War, NEW side \in Side, Vote(w, side), UNCHANGED <<lineVars, missed>>
  PROVE  WarsInv' /\ FairCount
<1> DEFINE r == wars[w]
           n == r.votes[side] + 1
           votes == [r.votes EXCEPT ![side] = n]
           q == [r EXCEPT !.votes = votes]
<1>1. r \in WarRow /\ r.status = "active" /\ r = wars[w] /\ r.votes[side] < MaxVotes
  BY WarRows DEF WarsInv, Vote
<1>2. CASE ~BothEligible(w)
  BY <1>1, <1>2, PausedTurns DEF Vote, Counted
<1>3. CASE BothEligible(w)
  <2>1. wars' = [wars EXCEPT ![w] = q]
    BY <1>3 DEF Vote, Counted
  <2>2. r.votes \in [Side -> 0..MaxVotes]
    BY WarRows DEF WarsInv
  <2>3. n \in 0..MaxVotes /\ n = r.votes[side] + 1
    BY <1>1, <2>2, WarsAssumption
  <2> HIDE DEF n
  <2>4. votes \in [Side -> 0..MaxVotes]
        /\ \A s \in Side : votes[s] # r.votes[s] => votes[s] = r.votes[s] + 1
    BY <2>2, <2>3
  <2> HIDE DEF r, votes
  <2>5. /\ q \in WarRow /\ q.status = "active" /\ q.entry = r.entry
        /\ q.named = r.named /\ q.votes = votes
    BY <1>1, <2>4 DEF WarRow
  <2> HIDE DEF q
  <2>6. Unfinished(w)
    BY <1>1 DEF Unfinished
  <2> QED
    BY <1>1, <1>3, <2>1, <2>4, <2>5, <2>6, WarTurns
<1> QED
  BY <1>2, <1>3

\* A war begins when none is unfinished, and its competitors' titles are those of now.
LEMMA StartBegins ==
  ASSUME WarsInv, LineInv, NEW a \in Assignment, NEW b \in Assignment, Start(a, b),
         UNCHANGED <<lineVars, missed>>
  PROVE  WarsInv' /\ FairCount
<1>1. PICK w \in War :
        /\ wars[w].status = "new"
        /\ wars' = [Dismissed EXCEPT ![w] =
                     [NewWar EXCEPT !.status = "active", !.entry = <<a, b>>,
                                    !.named = <<Named(a), Named(b)>>]]
  BY DEF Start
<1> DEFINE entry == <<a, b>>
           named == <<Named(a), Named(b)>>
           begun == [NewWar EXCEPT !.status = "active", !.entry = entry, !.named = named]
<1>2. /\ entry \in [Side -> Assignment] /\ entry[1] = a /\ entry[2] = b
      /\ \A s \in Side : entry[s] = a \/ entry[s] = b
  BY DEF Side
<1>3. named \in [Side -> BOOLEAN] /\ named[1] = Named(a) /\ named[2] = Named(b)
  <2>1. Named(a) \in BOOLEAN /\ Named(b) \in BOOLEAN
    BY DEF Named, LineInv, AssignmentsOK, AssignmentRow
  <2> DEFINE m == Named(a)
             n == Named(b)
  <2> HIDE DEF m, n
  <2>2. <<m, n>> \in [Side -> BOOLEAN] /\ <<m, n>>[1] = m /\ <<m, n>>[2] = n
    BY <2>1 DEF Side, m, n
  <2> QED
    BY <2>2 DEF m, n
<1>4. NewWar \in WarRow
  <2>1. [s \in Side |-> 1] \in [Side -> Assignment] /\ [s \in Side |-> FALSE] \in [Side -> BOOLEAN]
        /\ [s \in Side |-> 0] \in [Side -> 0..MaxVotes] /\ [s \in Side |-> -1] \in [Side -> -1..MaxVotes]
    BY LineAssumption, WarsAssumption DEF Assignment
  <2> QED
    BY <2>1 DEF NewWar, WarRow
<1>5. \A s \in Side : NewWar.votes[s] = 0
  BY DEF NewWar
<1> DEFINE r == NewWar
<1> HIDE DEF entry, named
<1>6. /\ begun \in WarRow /\ begun.status = "active" /\ begun.entry = entry /\ begun.named = named
  <2> HIDE DEF r
  <2>1. r \in WarRow
    BY <1>4 DEF r
  <2>2. [r EXCEPT !.status = "active", !.entry = entry, !.named = named] \in WarRow
    BY <2>1, <1>2, <1>3 DEF WarRow
  <2>3. LET q == [r EXCEPT !.status = "active", !.entry = entry, !.named = named] IN
        q.status = "active" /\ q.entry = entry /\ q.named = named
    BY <2>1 DEF WarRow
  <2> QED
    BY <2>2, <2>3 DEF r
<1>7. wars' = [Dismissed EXCEPT ![w] = begun]
  BY <1>1 DEF entry, named
<1> HIDE DEF begun
<1>8. ASSUME NEW v \in War
      PROVE  /\ Dismissed[v] \in WarRow /\ Dismissed[v].status = wars[v].status
             /\ Dismissed[v].votes = wars[v].votes
             /\ Dismissed[v].final = wars[v].final /\ Dismissed[v].result = wars[v].result
             /\ Dismissed[v].status = "completed" => Dismissed[v].dismissed
             /\ [Dismissed[v] EXCEPT !.dismissed = wars[v].dismissed, !.named = wars[v].named] = wars[v]
  <2> DEFINE o == wars[v]
             q == [o EXCEPT !.dismissed = TRUE]
  <2>0. o = wars[v] /\ o \in WarRow
    BY WarRows DEF WarsInv
  <2>1. Dismissed[v] = IF Published(v) THEN q ELSE o
    BY DEF Dismissed
  <2>2. Published(v) <=> o.status = "completed" /\ ~o.dismissed
    BY DEF Published
  <2> HIDE DEF o
  <2>3. /\ q \in WarRow /\ q.status = o.status /\ q.votes = o.votes /\ q.final = o.final
        /\ q.result = o.result /\ q.dismissed
        /\ [q EXCEPT !.dismissed = o.dismissed, !.named = o.named] = o
    BY <2>0 DEF WarRow
  <2>4. [o EXCEPT !.dismissed = o.dismissed, !.named = o.named] = o
    BY <2>0, SameRow
  <2> HIDE DEF q
  <2>5. /\ Dismissed[v] \in WarRow /\ Dismissed[v].status = o.status
        /\ Dismissed[v].votes = o.votes
        /\ Dismissed[v].final = o.final /\ Dismissed[v].result = o.result
        /\ Dismissed[v].status = "completed" => Dismissed[v].dismissed
    BY <2>0, <2>1, <2>2, <2>3
  <2>6. [Dismissed[v] EXCEPT !.dismissed = o.dismissed, !.named = o.named] = o
    BY <2>1, <2>3, <2>4
  <2> QED
    BY <2>0, <2>5, <2>6
<1>9. Dismissed = [v \in War |-> Dismissed[v]]
  BY DEF Dismissed
<1> DEFINE d == Dismissed
<1>10. d \in [War -> WarRow]
  BY <1>8, <1>9
<1>11. wars' \in [War -> WarRow] /\ wars'[w] = begun /\ \A v \in War : v # w => wars'[v] = Dismissed[v]
  <2>1. d = Dismissed
    OBVIOUS
  <2> HIDE DEF d
  <2> QED
    BY <2>1, <1>6, <1>7, <1>10
<1>12. ASSUME NEW v \in War, v # w
       PROVE  ~Visible(v)' /\ wars'[v].status # "active" /\ wars'[v].status = wars[v].status
  <2>1. ~Unfinished(v)
    BY DEF Start, MayStart
  <2>2. /\ wars'[v].status = wars[v].status
        /\ wars'[v].status = "completed" => wars'[v].dismissed
    BY <1>8, <1>11, <1>12
  <2> QED
    BY <2>1, <2>2 DEF Visible, Unfinished, Published
<1>13. LostPausesWar'
  <2> SUFFICES ASSUME NEW v \in War, wars'[v].status = "active"
               PROVE  BothEligible(v)'
    BY DEF LostPausesWar
  <2>1. v = w
    BY <1>12
  <2>2. Eligible(a) /\ Eligible(b)
    BY DEF Start, MayStart
  <2>3. \A s \in Side : Eligible(wars'[w].entry[s])
    BY <2>2, <1>2, <1>6, <1>11
  <2> QED
    BY <2>1, <2>3 DEF BothEligible, Eligible, lineVars
<1>14. OneVisibleWar'
  BY <1>12 DEF OneVisibleWar
<1>15. TitlesSafe'
  <2> SUFFICES ASSUME NEW v \in War, NEW s \in Side, Visible(v)', assignments'[wars'[v].entry[s]].mystery
               PROVE  ~wars'[v].named[s]
    BY DEF TitlesSafe
  <2>1. wars'[v].entry = entry /\ wars'[v].named = named
    BY <1>6, <1>11, <1>12
  <2>2. assignments[entry[s]].mystery
    BY <2>1 DEF lineVars
  <2> QED
    BY <2>1, <2>2, <1>2, <1>3 DEF Named, Side
<1>16. Settled'
  <2> SUFFICES ASSUME NEW v \in War, wars'[v].status = "completed"
               PROVE  wars'[v].final = wars'[v].votes /\ wars'[v].result = Outcome(wars'[v].final)
    BY DEF Settled
  <2>1. v # w /\ wars'[v] = Dismissed[v]
    BY <1>6, <1>11
  <2>2. wars[v].final = wars[v].votes /\ wars[v].result = Outcome(wars[v].final)
    <3>1. wars[v].status = "completed"
      BY <2>1, <1>8
    <3> QED
      BY <3>1 DEF WarsInv, Settled
  <2>3. wars'[v].final = wars[v].final /\ wars'[v].votes = wars[v].votes /\ wars'[v].result = wars[v].result
    BY <2>1, <1>8
  <2> QED
    BY <2>2, <2>3
<1>17. FairCount
  <2>1. \A v \in War : wars[v].status # "new" => wars'[v].votes = wars[v].votes
    BY <1>1, <1>8, <1>11
  <2>2. \A v \in War : wars'[v].status = "completed" =>
          wars'[v].final = wars'[v].votes /\ wars'[v].result = Outcome(wars'[v].final)
    BY <1>16 DEF Settled
  <2>3. \A v \in War : wars[v].status = "completed" =>
          [wars'[v] EXCEPT !.dismissed = wars[v].dismissed, !.named = wars[v].named] = wars[v]
    BY <1>1, <1>8, <1>11
  <2> QED
    BY <2>1, <2>2, <2>3 DEF FairCount
<1> QED
  BY <1>11, <1>13, <1>14, <1>15, <1>16, <1>17 DEF WarsInv, WarsTypeOK

-------------------------------------------------------------------------------
(* Operations of the house on the line.                                        *)

HouseInv == LineInv /\ EpochsInv /\ WarsInv /\ missed \subseteq War

LEMMA StaysEligible ==
  ASSUME LineInv, LineInv', NEW gone, NEW opened, Turns(gone, opened), Serves(gone)
  PROVE  \A a \in Assignment : Eligible(a) /\ a \notin gone => Eligible(a)'
<1>1. Pouring /\ Pouring'
  BY EligibleIsPouring, NextEligible
<1> SUFFICES ASSUME NEW a \in Assignment, Eligible(a), a \notin gone
             PROVE  Eligible(a)'
  BY DEF Eligible
<1>2. a \in Open /\ taps[assignments[a].tap].enabled
  BY <1>1 DEF Pouring
<1>3. a \in Open' /\ taps'[assignments'[a].tap].enabled
  BY <1>2 DEF Turns, Serves
<1> QED
  BY <1>1, <1>3 DEF Pouring

LEMMA NothingPaused ==
  ASSUME WarsInv, UNCHANGED wars
  PROVE  wars' = PausedIfIn({})
<1>1. \A w \in War : PausedIfIn({})[w] = wars[w]
  BY DEF PausedIfIn
<1> QED
  BY <1>1 DEF PausedIfIn, WarsInv, WarsTypeOK

LEMMA NothingClosed ==
  ASSUME EpochsInv
  PROVE  epochs = WithoutClosed({})
<1>1. \A t \in Tap : WithoutClosed({})[t] = epochs[t]
  BY DEF WithoutClosed
<1> QED
  BY <1>1 DEF WithoutClosed, EpochsInv, EpochsTypeOK

\* What pours no war and closes no epoch, in every way a step of the house can do.
LEMMA QuietStep ==
  ASSUME HouseInv, LineInv', Quiet({}), UNCHANGED <<wars, settings, epochs, missed>>
  PROVE  HouseInv' /\ FairCount
<1>1. wars' = PausedIfIn({}) /\ epochs' = WithoutClosed({})
  BY NothingPaused, NothingClosed DEF HouseInv
<1>2. EpochsInv'
  BY <1>1, EpochsClose DEF HouseInv, Quiet
<1>3. \A a \in Assignment : Eligible(a) /\ a \notin {} => Eligible(a)'
  BY StaysEligible DEF HouseInv, Quiet
<1>4. WarsInv' /\ FairCount
  BY <1>1, <1>3, WarsLose DEF HouseInv, Quiet
<1> QED
  BY <1>2, <1>4 DEF HouseInv

LEMMA ClosingStep ==
  ASSUME HouseInv, LineInv', NEW gone \in SUBSET Assignment, Quiet(gone), Closing(gone)
  PROVE  HouseInv' /\ FairCount
<1>1. EpochsInv'
  BY EpochsClose DEF HouseInv, Quiet, Closing
<1>2. \A a \in Assignment : Eligible(a) /\ a \notin gone => Eligible(a)'
  BY StaysEligible DEF HouseInv, Quiet
<1>3. WarsInv' /\ FairCount
  BY <1>2, WarsLose DEF HouseInv, Quiet, Closing, AfterClose
<1> QED
  BY <1>1, <1>3 DEF HouseInv, Closing

LEMMA CascadingStep ==
  ASSUME HouseInv, LineInv', NEW gone \in SUBSET Assignment, Quiet(gone), Cascading(gone)
  PROVE  HouseInv' /\ FairCount
<1>1. EpochsInv'
  BY EpochsClose DEF HouseInv, Quiet, Cascading
<1>2. CASE Reconciled
  <2> DEFINE lost == {a \in Assignment : ~EligibleIn(taps', fills', assignments', a)}
  <2>1. wars' = PausedIfIn(lost) /\ UNCHANGED missed
    BY <1>2 DEF Reconciled, AfterCommit
  <2>2. \A a \in Assignment : Eligible(a) /\ a \notin lost => Eligible(a)'
    BY DEF Eligible
  <2> HIDE DEF lost
  <2>3. WarsInv' /\ FairCount
    BY <2>1, <2>2, WarsLose DEF HouseInv, Quiet
  <2> QED
    BY <1>1, <2>1, <2>3 DEF HouseInv
<1>3. CASE NotReconciled
  <2>1. WarsInv' /\ FairCount
    BY <1>3, WarsForget DEF HouseInv, Quiet
  <2>2. missed' \subseteq War
    BY <1>3 DEF HouseInv, NotReconciled
  <2> QED
    BY <1>1, <2>1, <2>2 DEF HouseInv
<1> QED
  BY <1>2, <1>3 DEF Cascading

LEMMA HouseAssignFillOK ==
  ASSUME HouseInv, NEW t \in Tap, NEW f \in Fill, HouseAssignFill(t, f)
  PROVE  HouseInv' /\ FairCount
<1>1. AssignFill(t, f) /\ LineInv /\ LineInv'
  BY AssignFillOK DEF HouseInv, HouseAssignFill
<1>2. PICK a \in Assignment : OpenAssignment({}, a, t, f)
  BY <1>1 DEF AssignFill
<1>3. \A g \in Fill : fills'[g].keg = fills[g].keg /\ fills'[g].beverage = fills[g].beverage
  BY <1>1, OffDeckKeepsOrder DEF AssignFill, LineInv
<1>4. UNCHANGED kegs
  BY <1>1 DEF AssignFill
<1>5. {} \in SUBSET Open
  OBVIOUS
<1>6. /\ Turns({}, {a}) /\ Measured({}) /\ Serves({}) /\ Unveils
      /\ assignments'[a].tap = t /\ assignments'[a].fill = f /\ OpenedOn(t) = a
  BY <1>1, <1>2, <1>3, <1>4, <1>5, OpeningTurns
<1>7. epochs' = WithOpened({}, t, a, f) /\ UNCHANGED <<wars, settings, missed>>
  BY <1>6 DEF HouseAssignFill
<1>8. EpochsInv'
  BY <1>1, <1>3, <1>4, <1>6, <1>7, EpochsOpen DEF HouseInv
<1>9. wars' = PausedIfIn({})
  BY <1>7, NothingPaused DEF HouseInv
<1>10. \A b \in Assignment : Eligible(b) /\ b \notin {} => Eligible(b)'
  BY <1>1, <1>6, StaysEligible
<1>11. WarsInv' /\ FairCount
  BY <1>6, <1>7, <1>9, <1>10, WarsLose DEF HouseInv
<1> QED
  BY <1>1, <1>7, <1>8, <1>11 DEF HouseInv

LEMMA HouseMoveFillOK ==
  ASSUME HouseInv, NEW t \in Tap, NEW u \in Tap, HouseMoveFill(t, u)
  PROVE  HouseInv' /\ FairCount
<1>1. MoveFill(t, u) /\ LineInv /\ LineInv'
  BY MoveFillOK DEF HouseInv, HouseMoveFill
<1>2. PICK a \in Assignment, c \in OnTap(t) : OpenAssignment({c}, a, u, assignments[c].fill)
  BY <1>1 DEF MoveFill
<1>3. \A d \in OnTap(t) : d = c
  BY <1>1, OneOnTap DEF Single
<1> DEFINE f == assignments[c].fill
<1>4. {c} \in SUBSET Open /\ f \in Fill /\ {c} \in SUBSET Assignment
  BY <1>1 DEF OnTap, Open, LineInv, AssignmentsOK, AssignmentRow
<1>5. UNCHANGED <<kegs, fills>>
  BY <1>1 DEF MoveFill
<1> HIDE DEF f
<1>6. OpenAssignment({c}, a, u, f)
  BY <1>2 DEF f
<1>7. /\ Turns({c}, {a}) /\ Measured({c}) /\ Serves({c}) /\ Unveils
      /\ assignments'[a].tap = u /\ assignments'[a].fill = f /\ OpenedOn(u) = a
  BY <1>1, <1>4, <1>5, <1>6, OpeningTurns
<1>8. epochs' = WithOpened({c}, u, a, f) /\ wars' = PausedIfIn({c}) /\ UNCHANGED <<settings, missed>>
  BY <1>3, <1>7 DEF HouseMoveFill, AfterClose, f
<1>9. EpochsInv'
  BY <1>1, <1>4, <1>5, <1>7, <1>8, EpochsOpen DEF HouseInv
<1>10. \A b \in Assignment : Eligible(b) /\ b \notin {c} => Eligible(b)'
  BY <1>1, <1>7, StaysEligible
<1>11. WarsInv' /\ FairCount
  BY <1>7, <1>8, <1>10, WarsLose DEF HouseInv
<1> QED
  BY <1>1, <1>8, <1>9, <1>11 DEF HouseInv

LEMMA HouseUnassignOK ==
  ASSUME HouseInv, NEW t \in Tap, HouseUnassign(t)
  PROVE  HouseInv' /\ FairCount
<1>1. Unassign(t) /\ LineInv /\ LineInv' /\ Closing(OnTap(t))
  BY UnassignOK DEF HouseInv, HouseUnassign
<1>2. OnTap(t) \in SUBSET Open /\ OnTap(t) \in SUBSET Assignment
  BY DEF OnTap, Open
<1>3. Quiet(OnTap(t))
  BY <1>1, <1>2, ClosingTurns DEF Unassign
<1> QED
  BY <1>1, <1>2, <1>3, ClosingStep

LEMMA HouseKickFillOK ==
  ASSUME HouseInv, NEW f \in Fill, HouseKickFill(f)
  PROVE  HouseInv' /\ FairCount
<1>1. KickFill(f) /\ LineInv /\ LineInv' /\ Closing(Assigned(f))
  BY KickFillOK DEF HouseInv, HouseKickFill
<1>2. Assigned(f) \in SUBSET Open /\ Assigned(f) \in SUBSET Assignment
  BY DEF Assigned, Open
<1>3. \A g \in Fill : fills'[g].keg = fills[g].keg /\ fills'[g].beverage = fills[g].beverage
  BY <1>1 DEF KickFill, Ended, LineInv, FillsOK, FillRow
<1>4. Quiet(Assigned(f))
  BY <1>1, <1>2, <1>3, ClosingTurns DEF KickFill
<1> QED
  BY <1>1, <1>2, <1>4, ClosingStep

LEMMA HouseDeleteFillOK ==
  ASSUME HouseInv, NEW f \in Fill, HouseDeleteFill(f)
  PROVE  HouseInv' /\ FairCount
<1>1. DeleteFill(f) /\ LineInv /\ LineInv' /\ Closing(Assigned(f))
  BY DeleteFillOK DEF HouseInv, HouseDeleteFill
<1>2. Assigned(f) = OnLine({f}) /\ Assigned(f) \in SUBSET Assignment
  BY DEF Assigned, OnLine, Open
<1>3. Quiet(OnLine({f}))
  <2>1. /\ {f} \in SUBSET Fill /\ UNCHANGED taps /\ fills' = FillsWithout({f})
        /\ assignments' = AssignmentsWithout({f}) /\ UNCHANGED kegs
    BY <1>1 DEF DeleteFill
  <2>2. \A k \in Keg : kegs'[k].size = kegs[k].size \/ \A g \in Fill \ {f} : fills[g].keg = k => ~Existing(g)
    BY <2>1
  <2> QED
    BY <1>1, <2>1, <2>2, CascadeTurns
<1> QED
  BY <1>1, <1>2, <1>3, ClosingStep

LEMMA HouseDeleteKegOK ==
  ASSUME HouseInv, NEW k \in Keg, HouseDeleteKeg(k)
  PROVE  HouseInv' /\ FairCount
<1>1. DeleteKeg(k) /\ LineInv /\ LineInv' /\ Cascading(OnLine(In(k)))
  BY DeleteKegOK DEF HouseInv, HouseDeleteKeg
<1>2. OnLine(In(k)) \in SUBSET Assignment
  BY DEF OnLine, Open
<1>3. Quiet(OnLine(In(k)))
  <2>1. /\ In(k) \in SUBSET Fill /\ UNCHANGED taps /\ fills' = FillsWithout(In(k))
        /\ assignments' = AssignmentsWithout(In(k)) /\ kegs' = [kegs EXCEPT ![k] = NoKeg]
    BY <1>1 DEF DeleteKeg, In
  <2>2. \A j \in Keg : kegs'[j].size = kegs[j].size \/ \A g \in Fill \ In(k) : fills[g].keg = j => ~Existing(g)
    BY <1>1, <2>1 DEF LineInv, KegsOK, In
  <2> QED
    BY <1>1, <2>1, <2>2, CascadeTurns
<1> QED
  BY <1>1, <1>2, <1>3, CascadingStep

LEMMA HouseDeleteBeverageOK ==
  ASSUME HouseInv, NEW b \in Beverage, HouseDeleteBeverage(b)
  PROVE  HouseInv' /\ FairCount
<1>1. DeleteBeverage(b) /\ LineInv /\ LineInv' /\ Cascading(OnLine(Of(b)))
  BY DeleteBeverageOK DEF HouseInv, HouseDeleteBeverage
<1>2. OnLine(Of(b)) \in SUBSET Assignment
  BY DEF OnLine, Open
<1>3. Quiet(OnLine(Of(b)))
  <2>1. /\ Of(b) \in SUBSET Fill /\ UNCHANGED taps /\ fills' = FillsWithout(Of(b))
        /\ assignments' = AssignmentsWithout(Of(b)) /\ UNCHANGED kegs
    BY <1>1 DEF DeleteBeverage, Of
  <2>2. \A j \in Keg : kegs'[j].size = kegs[j].size \/ \A g \in Fill \ Of(b) : fills[g].keg = j => ~Existing(g)
    BY <2>1
  <2> QED
    BY <1>1, <2>1, <2>2, CascadeTurns
<1> QED
  BY <1>1, <1>2, <1>3, CascadingStep

LEMMA HouseUpdateTapOK ==
  ASSUME HouseInv, NEW t \in Tap, NEW enabled \in BOOLEAN, HouseUpdateTap(t, enabled)
  PROVE  HouseInv' /\ FairCount
<1>1. UpdateTap(t, enabled) /\ LineInv /\ LineInv' /\ UNCHANGED <<settings, epochs, missed>>
  BY UpdateTapOK DEF HouseInv, HouseUpdateTap
<1>2. UNCHANGED <<kegs, fills, assignments>>
      /\ taps'[t].enabled = enabled /\ \A u \in Tap : u # t => taps'[u] = taps[u]
  BY <1>1 DEF UpdateTap, LineInv, TapsOK, TapRow
<1>3. Turns({}, {}) /\ Measured({}) /\ Unveils /\ Open' = Open
  BY <1>2 DEF Turns, Measured, Unveils, Open
<1>4. EpochsInv'
  BY <1>1, <1>3, EpochsClose, NothingClosed DEF HouseInv
<1> DEFINE lost == IF enabled THEN {} ELSE {a \in Assignment : assignments[a].tap = t}
<1>5. wars' = PausedIfIn(lost)
  <2>1. CASE enabled
    BY <2>1, NothingPaused DEF HouseUpdateTap, HouseInv
  <2>2. CASE ~enabled
    <3>1. \A w \in War, s \in Side : wars[w].entry[s] \in Assignment
      BY WarRows DEF HouseInv, WarsInv
    <3> DEFINE out == {a \in Assignment : assignments[a].tap = t}
    <3>2. \A w \in War : (\E s \in Side : assignments[wars[w].entry[s]].tap = t)
                         <=> \E s \in Side : wars[w].entry[s] \in out
      BY <3>1
    <3> HIDE DEF out
    <3>3. AfterUnavailable(t) = PausedIfIn(out)
      BY <3>2 DEF AfterUnavailable, PausedIfIn
    <3> QED
      BY <3>3, <2>2 DEF HouseUpdateTap, out
  <2> QED
    BY <2>1, <2>2
<1>6. \A a \in Assignment : Eligible(a) /\ a \notin lost => Eligible(a)'
  <2>1. Pouring /\ Pouring'
    BY <1>1, EligibleIsPouring, NextEligible
  <2> SUFFICES ASSUME NEW a \in Assignment, Eligible(a), a \notin lost
               PROVE  Eligible(a)'
    BY DEF Eligible
  <2>2. a \in Open /\ taps[assignments[a].tap].enabled /\ assignments[a].tap \in Tap
    BY <1>1, <2>1, OneOnTap DEF Pouring, Single
  <2>3. a \in Open' /\ taps'[assignments'[a].tap].enabled
    BY <1>2, <1>3, <2>2
  <2> QED
    BY <2>1, <2>3 DEF Pouring
<1> HIDE DEF lost
<1>7. WarsInv' /\ FairCount
  BY <1>1, <1>3, <1>5, <1>6, WarsLose DEF HouseInv
<1> QED
  BY <1>1, <1>4, <1>7 DEF HouseInv

LEMMA HouseUpdateMysteryOK ==
  ASSUME HouseInv, NEW t \in Tap, NEW mystery \in BOOLEAN, HouseUpdateMystery(t, mystery)
  PROVE  HouseInv' /\ FairCount
<1>1. UpdateAssignmentMystery(t, mystery) /\ LineInv /\ LineInv' /\ UNCHANGED <<settings, epochs, missed>>
  BY UpdateAssignmentMysteryOK DEF HouseInv, HouseUpdateMystery
<1>2. PICK a \in OnTap(t) : wars' = TitlesRefreshed(a, mystery)
  BY DEF HouseUpdateMystery
<1>3. PICK b \in OnTap(t) : assignments' = [assignments EXCEPT ![b].mystery = mystery]
  BY <1>1 DEF UpdateAssignmentMystery
<1>4. a = b /\ a \in Assignment
  BY <1>1, OneOnTap DEF Single, Open
<1>5. /\ UNCHANGED <<taps, kegs, fills>>
      /\ \A c \in Assignment : /\ assignments'[c].state = assignments[c].state
                               /\ assignments'[c].tap = assignments[c].tap
                               /\ assignments'[c].fill = assignments[c].fill
                               /\ assignments'[c].mystery = IF c = a THEN mystery ELSE assignments[c].mystery
  BY <1>1, <1>3, <1>4 DEF UpdateAssignmentMystery, LineInv, AssignmentsOK, AssignmentRow
<1>6. Turns({}, {}) /\ Measured({}) /\ Serves({})
  BY <1>5 DEF Turns, Measured, Serves, Open
<1>7. EpochsInv'
  BY <1>1, <1>6, EpochsClose, NothingClosed DEF HouseInv
<1>8. \A c \in Assignment : Eligible(c) => Eligible(c)'
  BY <1>1, <1>6, StaysEligible
<1>9. WarsInv' /\ FairCount
  BY <1>1, <1>2, <1>4, <1>5, <1>8, WarsRetitle DEF HouseInv
<1> QED
  BY <1>1, <1>7, <1>9 DEF HouseInv

LEMMA HouseUpdateKegSizeOK ==
  ASSUME HouseInv, NEW k \in Keg, HouseUpdateKegSize(k)
  PROVE  HouseInv' /\ FairCount
<1>1. UpdateKegSize(k) /\ LineInv /\ LineInv' /\ UNCHANGED <<settings, wars, missed>>
      /\ epochs' = Reopened(OnKeg(k), settings, kegs')
  BY UpdateKegSizeOK DEF HouseInv, HouseUpdateKegSize
<1>2. UNCHANGED <<taps, fills, assignments>> /\ \A j \in Keg : j # k => kegs'[j] = kegs[j]
  BY <1>1 DEF UpdateKegSize, LineInv, KegsOK
<1>3. Turns({}, {}) /\ Serves({}) /\ Unveils
  BY <1>2 DEF Turns, Serves, Unveils, Open
<1>4. ASSUME NEW t \in Tap, NEW a \in Open, t \notin OnKeg(k), assignments[a].tap = t
      PROVE  Snapshot(t, a, assignments[a].fill, settings', kegs') = Snapshot(t, a, assignments[a].fill, settings, kegs)
  <2>1. a \in OnTap(t)
    BY <1>4 DEF OnTap
  <2>2. epochs[t] # None /\ epochs[t].assignment = a
    BY <1>1, <2>1, EpochOfTap DEF HouseInv
  <2>3. fills[assignments[a].fill].keg # k /\ fills[assignments[a].fill].keg \in Keg
    BY <1>1, <1>4, <2>2 DEF OnKeg, LineInv, Open, OpenOK, FilledOK, AssignmentsOK, AssignmentRow, Active, Existing
  <2> QED
    BY <1>1, <1>2, <2>3 DEF Snapshot
<1>5. EpochsInv'
  <2>1. epochs' = Reopened(OnKeg(k), settings', kegs') /\ settings' \in EpochSettings
    BY <1>1 DEF HouseInv, EpochsInv, EpochsTypeOK
  <2> QED
    BY <1>1, <1>2, <1>4, <2>1, EpochsTurn DEF HouseInv
<1>6. \A a \in Assignment : Eligible(a) /\ a \notin {} => Eligible(a)'
  BY <1>1, <1>3, StaysEligible
<1>7. WarsInv' /\ FairCount
  BY <1>1, <1>3, <1>6, NothingPaused, WarsLose DEF HouseInv
<1> QED
  BY <1>1, <1>5, <1>7 DEF HouseInv

LEMMA UnhookedLine == ASSUME LineInv, Unhooked PROVE LineInv'
<1>1. \A t \in Tap : \A e \in BOOLEAN : CreateTap(t, e) => LineInv'
  BY CreateTapOK
<1>2. \A t \in Tap : RetireTap(t) \/ DeleteTap(t) => LineInv'
  BY RetireTapOK, DeleteTapOK
<1>3. \A f \in Fill : MarkOnDeck(f) \/ RemoveFromOnDeck(f) => LineInv'
  BY MarkOnDeckOK, RemoveFromOnDeckOK
<1>4. \A f \in Fill, b \in Beverage, k \in Keg : CreateFill(f, b, k) => LineInv'
  BY CreateFillOK
<1>5. \A order \in Orders : ReorderOnDeck(order) => LineInv'
  BY ReorderOnDeckOK
<1>6. \A b \in BOOLEAN : UpdateFillSettings(b) => LineInv'
  BY UpdateFillSettingsOK
<1>7. \A k \in Keg : CreateKeg(k) \/ UpdateKegActive(k) => LineInv'
  BY CreateKegOK, UpdateKegActiveOK
<1> QED
  BY <1>1, <1>2, <1>3, <1>4, <1>5, <1>6, <1>7 DEF Unhooked

LEMMA LineStepOK ==
  ASSUME HouseInv, LineStep
  PROVE  HouseInv' /\ FairCount
<1>1. CASE Unhooked
  <2>1. LineInv' /\ Quiet({}) /\ UNCHANGED <<wars, settings, epochs, missed>>
    BY <1>1, UnhookedLine, UnhookedQuiet DEF HouseInv, Unhooked
  <2> QED
    BY <2>1, QuietStep
<1>2. ASSUME NEW t \in Tap, NEW f \in Fill, HouseAssignFill(t, f)
      PROVE  HouseInv' /\ FairCount
  BY <1>2, HouseAssignFillOK
<1>3. ASSUME NEW t \in Tap, NEW u \in Tap, HouseMoveFill(t, u)
      PROVE  HouseInv' /\ FairCount
  BY <1>3, HouseMoveFillOK
<1>4. ASSUME NEW t \in Tap, HouseUnassign(t)
      PROVE  HouseInv' /\ FairCount
  BY <1>4, HouseUnassignOK
<1>5. ASSUME NEW t \in Tap, NEW on \in BOOLEAN, HouseUpdateTap(t, on) \/ HouseUpdateMystery(t, on)
      PROVE  HouseInv' /\ FairCount
  BY <1>5, HouseUpdateTapOK, HouseUpdateMysteryOK
<1>6. ASSUME NEW f \in Fill, HouseKickFill(f) \/ HouseDeleteFill(f)
      PROVE  HouseInv' /\ FairCount
  BY <1>6, HouseKickFillOK, HouseDeleteFillOK
<1>7. ASSUME NEW k \in Keg, HouseDeleteKeg(k) \/ HouseUpdateKegSize(k)
      PROVE  HouseInv' /\ FairCount
  BY <1>7, HouseDeleteKegOK, HouseUpdateKegSizeOK
<1>8. ASSUME NEW b \in Beverage, HouseDeleteBeverage(b)
      PROVE  HouseInv' /\ FairCount
  BY <1>8, HouseDeleteBeverageOK
<1> QED
  BY <1>1, <1>2, <1>3, <1>4, <1>5, <1>6, <1>7, <1>8 DEF LineStep

\* A step that leaves the line alone keeps what is said of the line.
LEMMA LineStays ==
  ASSUME LineInv, UNCHANGED lineVars
  PROVE  LineInv'
BY DEF LineInv, lineVars, TapsOK, KegsOK, BeveragesOK, FillsOK, AssignmentsOK, RowsOK, OpenOK, FilledOK,
       TapApart, FillApart, KegApart, DeckFree, PlaceApart, Open, Active, Existing, OnDeck, Assigned

LEMMA WarStepOK ==
  ASSUME HouseInv, WarStep
  PROVE  HouseInv' /\ FairCount
<1>1. UNCHANGED <<lineVars, settings, epochs, missed>> /\ UNCHANGED <<lineVars, missed>> /\ UNCHANGED lineVars
  BY DEF WarStep
<1>2. LineInv /\ LineInv' /\ WarsInv
  BY <1>1, LineStays DEF HouseInv
<1>3. EpochsInv'
  <2>1. EpochsTypeOK'
    BY <1>1 DEF HouseInv, EpochsInv, EpochsTypeOK
  <2>2. EpochIsCurrent'
    BY <1>1 DEF HouseInv, EpochsInv, EpochIsCurrent, lineVars, OnTap, Open, Snapshot, DensityOf, ConfigOf
  <2> QED
    BY <2>1, <2>2 DEF EpochsInv
<1>4. ASSUME NEW a \in Assignment, NEW b \in Assignment, Start(a, b)
      PROVE  WarsInv' /\ FairCount
  BY <1>1, <1>2, <1>4, StartBegins
<1>5. ASSUME NEW w \in War, NEW s \in Side, Vote(w, s)
      PROVE  WarsInv' /\ FairCount
  BY <1>1, <1>2, <1>5, VoteTurns
<1>6. ASSUME NEW w \in War, Resume(w) \/ Stop(w) \/ DismissPublicResult(w)
      PROVE  WarsInv' /\ FairCount
  BY <1>1, <1>2, <1>6, ResumeTurns, StopTurns, DismissTurns
<1>7. WarsInv' /\ FairCount
  BY <1>4, <1>5, <1>6 DEF WarStep
<1> QED
  BY <1>1, <1>2, <1>3, <1>7 DEF HouseInv

-------------------------------------------------------------------------------
(* Settings.                                                                   *)

\* What is configured has its type after each change of one value.
LEMMA SettingFields ==
  ASSUME NEW s \in EpochSettings
  PROVE  /\ s.authority \in [Tap -> Source \cup {None}] /\ s.density \in [Beverage -> Density \cup {None}]
         /\ s.fallback \in Density /\ s.config \in Config
         /\ s.override \in [Tap -> Config \cup {None}] /\ s.group \in [Tap -> Group \cup {None}]
  BY DEF EpochSettings

LEMMA AuthorityField ==
  ASSUME NEW s \in EpochSettings, NEW f \in [Tap -> Source \cup {None}]
  PROVE  LET r == [s EXCEPT !.authority = f] IN
         /\ r \in EpochSettings /\ r.authority = f /\ r.density = s.density /\ r.fallback = s.fallback
         /\ r.config = s.config /\ r.override = s.override /\ r.group = s.group
  BY DEF EpochSettings

LEMMA DensityField ==
  ASSUME NEW s \in EpochSettings, NEW f \in [Beverage -> Density \cup {None}]
  PROVE  LET r == [s EXCEPT !.density = f] IN
         /\ r \in EpochSettings /\ r.density = f /\ r.authority = s.authority /\ r.fallback = s.fallback
         /\ r.config = s.config /\ r.override = s.override /\ r.group = s.group
  BY DEF EpochSettings

LEMMA FallbackField ==
  ASSUME NEW s \in EpochSettings, NEW d \in Density
  PROVE  LET r == [s EXCEPT !.fallback = d] IN
         /\ r \in EpochSettings /\ r.fallback = d /\ r.authority = s.authority /\ r.density = s.density
         /\ r.config = s.config /\ r.override = s.override /\ r.group = s.group
  BY DEF EpochSettings

LEMMA ConfigField ==
  ASSUME NEW s \in EpochSettings, NEW c \in Config
  PROVE  LET r == [s EXCEPT !.config = c] IN
         /\ r \in EpochSettings /\ r.config = c /\ r.authority = s.authority /\ r.density = s.density
         /\ r.fallback = s.fallback /\ r.override = s.override /\ r.group = s.group
  BY DEF EpochSettings

LEMMA OverrideField ==
  ASSUME NEW s \in EpochSettings, NEW f \in [Tap -> Config \cup {None}]
  PROVE  LET r == [s EXCEPT !.override = f] IN
         /\ r \in EpochSettings /\ r.override = f /\ r.authority = s.authority /\ r.density = s.density
         /\ r.fallback = s.fallback /\ r.config = s.config /\ r.group = s.group
  BY DEF EpochSettings

LEMMA GroupField ==
  ASSUME NEW s \in EpochSettings, NEW f \in [Tap -> Group \cup {None}]
  PROVE  LET r == [s EXCEPT !.group = f] IN
         /\ r \in EpochSettings /\ r.group = f /\ r.authority = s.authority /\ r.density = s.density
         /\ r.fallback = s.fallback /\ r.config = s.config /\ r.override = s.override
  BY DEF EpochSettings

\* A snapshot reads no more than these values.
Reads(t, f, s, r) ==
  /\ s.authority[t] = r.authority[t] /\ DensityOf(s, fills[f].beverage) = DensityOf(r, fills[f].beverage)
  /\ ConfigOf(s, t) = ConfigOf(r, t) /\ s.group[t] = r.group[t]

LEMMA SnapshotReads ==
  \A t, a, f, s, r, k : Reads(t, f, s, r) => Snapshot(t, a, f, s, k) = Snapshot(t, a, f, r, k)
BY DEF Reads, Snapshot

LEMMA SettingTurns ==
  ASSUME HouseInv, UNCHANGED <<lineVars, wars, missed>>, settings' \in EpochSettings,
         NEW turned, epochs' = Reopened(turned, settings', kegs'),
         \A t \in Tap : \A a \in OnTap(t) : t \notin turned => Reads(t, assignments[a].fill, settings', settings)
  PROVE  HouseInv' /\ FairCount
<1>1. UNCHANGED lineVars /\ UNCHANGED <<taps, kegs, fills, assignments>> /\ UNCHANGED <<wars, missed>>
  BY DEF lineVars
<1>2. LineInv /\ LineInv'
  BY <1>1, LineStays DEF HouseInv
<1>3. ASSUME NEW t \in Tap, NEW a \in Open, t \notin turned, assignments[a].tap = t
      PROVE  Snapshot(t, a, assignments[a].fill, settings', kegs') = Snapshot(t, a, assignments[a].fill, settings, kegs)
  <2>1. Reads(t, assignments[a].fill, settings', settings)
    BY <1>3 DEF OnTap
  <2>2. Snapshot(t, a, assignments[a].fill, settings', kegs) = Snapshot(t, a, assignments[a].fill, settings, kegs)
    BY <2>1, SnapshotReads
  <2> QED
    BY <1>1, <2>2
<1>4. EpochsInv'
  BY <1>1, <1>2, <1>3, EpochsTurn DEF HouseInv
<1>5. Quiet({})
  BY <1>1, <1>2, RestQuiet
<1>6. \A a \in Assignment : Eligible(a) /\ a \notin {} => Eligible(a)'
  BY <1>2, <1>5, StaysEligible DEF Quiet
<1>7. WarsInv' /\ FairCount
  BY <1>1, <1>5, <1>6, NothingPaused, WarsLose DEF HouseInv, Quiet
<1> QED
  BY <1>1, <1>2, <1>4, <1>7 DEF HouseInv

\* What is on a Tap, by its epoch, is on deck of the queries by Keg, Beverage and settings.
LEMMA Poured ==
  ASSUME HouseInv, NEW t \in Tap, NEW a \in OnTap(t)
  PROVE  LET f == assignments[a].fill IN
         /\ epochs[t] # None /\ epochs[t].assignment = a /\ f \in Fill /\ fills[f].beverage \in Beverage
         /\ t \in OnBeverage(fills[f].beverage)
         /\ epochs[t].density = DensityOf(settings, fills[f].beverage)
         /\ epochs[t].config = ConfigOf(settings, t) /\ epochs[t].group = settings.group[t]
<1>1. LineInv /\ EpochsInv
  BY DEF HouseInv
<1>2. /\ epochs[t] # None /\ epochs[t].assignment = a
      /\ epochs[t].density = DensityOf(settings, fills[assignments[a].fill].beverage)
      /\ epochs[t].config = ConfigOf(settings, t) /\ epochs[t].group = settings.group[t]
  BY <1>1, EpochOfTap
<1>3. assignments[a].fill \in Fill /\ fills[assignments[a].fill].beverage \in Beverage
  BY <1>1 DEF OnTap, Open, LineInv, OpenOK, FilledOK, BeveragesOK, AssignmentsOK, AssignmentRow, Active, Existing
<1> QED
  BY <1>2, <1>3 DEF OnBeverage

LEMMA NotDenser ==
  ASSUME HouseInv, NEW t \in Tap, NEW a \in OnTap(t), NEW s, t \notin Denser(s)
  PROVE  DensityOf(s, fills[assignments[a].fill].beverage)
           = DensityOf(settings, fills[assignments[a].fill].beverage)
BY Poured DEF Denser

LEMMA SetTapAuthorityOK ==
  ASSUME HouseInv, NEW t \in Tap, NEW s \in Source \cup {None}, SetTapAuthority(t, s),
         UNCHANGED <<lineVars, wars, missed>>
  PROVE  HouseInv' /\ FairCount
<1> DEFINE f == [settings.authority EXCEPT ![t] = s]
<1>1. settings \in EpochSettings
  BY DEF HouseInv, EpochsInv, EpochsTypeOK
<1>2. f \in [Tap -> Source \cup {None}] /\ \A u \in Tap : u # t => f[u] = settings.authority[u]
  BY <1>1, SettingFields
<1>3. settings' = [settings EXCEPT !.authority = f] /\ epochs' = Reopened({t}, settings', kegs')
  BY DEF SetTapAuthority, lineVars
<1> HIDE DEF f
<1>4. /\ settings' \in EpochSettings /\ settings'.authority = f /\ settings'.density = settings.density
      /\ settings'.fallback = settings.fallback /\ settings'.config = settings.config
      /\ settings'.override = settings.override /\ settings'.group = settings.group
  BY <1>1, <1>2, <1>3, AuthorityField
<1>5. \A u \in Tap : \A a \in OnTap(u) : u \notin {t} => Reads(u, assignments[a].fill, settings', settings)
  BY <1>2, <1>4 DEF Reads, DensityOf, ConfigOf
<1> QED
  BY <1>3, <1>4, <1>5, SettingTurns

LEMMA UpdateDensityOK ==
  ASSUME HouseInv, NEW b \in Beverage, NEW d \in Density \cup {None}, UpdateDensity(b, d),
         UNCHANGED <<lineVars, wars, missed>>
  PROVE  HouseInv' /\ FairCount
<1> DEFINE f == [settings.density EXCEPT ![b] = d]
           turned == OnBeverage(b) \cap Denser(settings')
<1>1. settings \in EpochSettings
  BY DEF HouseInv, EpochsInv, EpochsTypeOK
<1>2. f \in [Beverage -> Density \cup {None}] /\ \A c \in Beverage : c # b => f[c] = settings.density[c]
  BY <1>1, SettingFields
<1>3. settings' = [settings EXCEPT !.density = f] /\ epochs' = Reopened(turned, settings', kegs')
  BY DEF UpdateDensity, lineVars
<1> HIDE DEF f
<1>4. /\ settings' \in EpochSettings /\ settings'.density = f /\ settings'.authority = settings.authority
      /\ settings'.fallback = settings.fallback /\ settings'.config = settings.config
      /\ settings'.override = settings.override /\ settings'.group = settings.group
  BY <1>1, <1>2, <1>3, DensityField
<1>5. ASSUME NEW t \in Tap, NEW a \in OnTap(t), t \notin turned
      PROVE  Reads(t, assignments[a].fill, settings', settings)
  <2> DEFINE c == fills[assignments[a].fill].beverage
  <2>1. c \in Beverage /\ t \in OnBeverage(c)
    BY Poured
  <2>2. DensityOf(settings', c) = DensityOf(settings, c)
    <3>1. CASE c = b
      <4>1. t \notin Denser(settings')
        BY <1>5, <2>1, <3>1
      <4> QED
        BY <4>1, NotDenser
    <3>2. CASE c # b
      BY <1>2, <1>4, <2>1, <3>2 DEF DensityOf
    <3> QED
      BY <3>1, <3>2
  <2> QED
    BY <1>4, <2>2 DEF Reads, ConfigOf
<1> HIDE DEF turned
<1> QED
  BY <1>3, <1>4, <1>5, SettingTurns

LEMMA UpdateFallbackOK ==
  ASSUME HouseInv, NEW d \in Density, UpdateFallback(d), UNCHANGED <<lineVars, wars, missed>>
  PROVE  HouseInv' /\ FairCount
<1>1. settings \in EpochSettings
  BY DEF HouseInv, EpochsInv, EpochsTypeOK
<1>2. settings' = [settings EXCEPT !.fallback = d] /\ epochs' = Reopened(Denser(settings'), settings', kegs')
  BY DEF UpdateFallback, lineVars
<1>3. /\ settings' \in EpochSettings /\ settings'.authority = settings.authority
      /\ settings'.config = settings.config
      /\ settings'.override = settings.override /\ settings'.group = settings.group
  BY <1>1, <1>2, FallbackField
<1>4. \A t \in Tap : \A a \in OnTap(t) : t \notin Denser(settings') => Reads(t, assignments[a].fill, settings', settings)
  BY <1>3, NotDenser DEF Reads, ConfigOf
<1> QED
  BY <1>2, <1>3, <1>4, SettingTurns

LEMMA UpdateGlobalConfigOK ==
  ASSUME HouseInv, NEW c \in Config, UpdateGlobalConfig(c), UNCHANGED <<lineVars, wars, missed>>
  PROVE  HouseInv' /\ FairCount
<1>1. settings \in EpochSettings
  BY DEF HouseInv, EpochsInv, EpochsTypeOK
<1>2. settings' = [settings EXCEPT !.config = c] /\ epochs' = Reopened(Configured(settings'), settings', kegs')
  BY DEF UpdateGlobalConfig, lineVars
<1>3. /\ settings' \in EpochSettings /\ settings'.authority = settings.authority
      /\ settings'.density = settings.density /\ settings'.fallback = settings.fallback
      /\ settings'.override = settings.override /\ settings'.group = settings.group
  BY <1>1, <1>2, ConfigField
<1>4. ASSUME NEW t \in Tap, NEW a \in OnTap(t), t \notin Configured(settings')
      PROVE  Reads(t, assignments[a].fill, settings', settings)
  <2>1. ConfigOf(settings', t) = ConfigOf(settings, t)
    BY <1>4, Poured DEF Configured
  <2> QED
    BY <1>3, <2>1 DEF Reads, DensityOf
<1> QED
  BY <1>2, <1>3, <1>4, SettingTurns

LEMMA NoneReopened ==
  ASSUME EpochsInv, NEW s, NEW k
  PROVE  epochs = Reopened({}, s, k)
<1>1. \A t \in Tap : Reopened({}, s, k)[t] = epochs[t]
  BY DEF Reopened
<1> QED
  BY <1>1 DEF Reopened, EpochsInv, EpochsTypeOK

LEMMA SetTapOverrideOK ==
  ASSUME HouseInv, NEW t \in Tap, NEW c \in Config \cup {None}, SetTapOverride(t, c),
         UNCHANGED <<lineVars, wars, missed>>
  PROVE  HouseInv' /\ FairCount
<1> DEFINE f == [settings.override EXCEPT ![t] = c]
           turned == IF ConfigOf(settings, t) # ConfigOf(settings', t) THEN {t} ELSE {}
<1>1. settings \in EpochSettings
  BY DEF HouseInv, EpochsInv, EpochsTypeOK
<1>2. f \in [Tap -> Config \cup {None}] /\ \A u \in Tap : u # t => f[u] = settings.override[u]
  BY <1>1, SettingFields
<1>3. settings' = [settings EXCEPT !.override = f] /\ epochs' = Reopened(turned, settings', kegs')
  <2>1. CASE ConfigOf(settings, t) # ConfigOf(settings', t)
    BY <2>1 DEF SetTapOverride, lineVars
  <2>2. CASE ConfigOf(settings, t) = ConfigOf(settings', t)
    BY <2>2, NoneReopened DEF SetTapOverride, HouseInv
  <2> QED
    BY <2>1, <2>2
<1> HIDE DEF f
<1>4. /\ settings' \in EpochSettings /\ settings'.override = f /\ settings'.authority = settings.authority
      /\ settings'.density = settings.density /\ settings'.fallback = settings.fallback
      /\ settings'.config = settings.config /\ settings'.group = settings.group
  BY <1>1, <1>2, <1>3, OverrideField
<1>5. ASSUME NEW u \in Tap, NEW a \in OnTap(u), u \notin turned
      PROVE  Reads(u, assignments[a].fill, settings', settings)
  <2>1. ConfigOf(settings', u) = ConfigOf(settings, u)
    <3>1. CASE u = t
      BY <1>5, <3>1
    <3>2. CASE u # t
      BY <1>2, <1>4, <3>2 DEF ConfigOf
    <3> QED
      BY <3>1, <3>2
  <2> QED
    BY <1>4, <2>1 DEF Reads, DensityOf
<1> HIDE DEF turned
<1> QED
  BY <1>3, <1>4, <1>5, SettingTurns

LEMMA UpdateArbitrationGroupOK ==
  ASSUME HouseInv, NEW g \in Group, NEW members \in SUBSET Tap, UpdateArbitrationGroup(g, members),
         UNCHANGED <<lineVars, wars, missed>>
  PROVE  HouseInv' /\ FairCount
<1> DEFINE f == [t \in Tap |-> IF t \in members THEN g
                               ELSE IF settings.group[t] = g THEN None ELSE settings.group[t]]
           turned == {t \in Regrouped(g, members) : epochs[t] # None /\ epochs[t].group # settings'.group[t]}
<1>1. settings \in EpochSettings
  BY DEF HouseInv, EpochsInv, EpochsTypeOK
<1>2. f \in [Tap -> Group \cup {None}]
      /\ \A u \in Tap : u \notin Regrouped(g, members) => f[u] = settings.group[u]
  BY <1>1, SettingFields DEF Regrouped
<1>3. settings' = [settings EXCEPT !.group = f] /\ epochs' = Reopened(turned, settings', kegs')
  BY DEF UpdateArbitrationGroup, lineVars
<1> HIDE DEF f
<1>4. /\ settings' \in EpochSettings /\ settings'.group = f /\ settings'.authority = settings.authority
      /\ settings'.density = settings.density /\ settings'.fallback = settings.fallback
      /\ settings'.config = settings.config /\ settings'.override = settings.override
  BY <1>1, <1>2, <1>3, GroupField
<1>5. ASSUME NEW u \in Tap, NEW a \in OnTap(u), u \notin turned
      PROVE  Reads(u, assignments[a].fill, settings', settings)
  <2>1. settings'.group[u] = settings.group[u]
    <3>1. CASE u \in Regrouped(g, members)
      BY <1>5, <3>1, Poured
    <3>2. CASE u \notin Regrouped(g, members)
      BY <1>2, <1>4, <3>2
    <3> QED
      BY <3>1, <3>2
  <2> QED
    BY <1>4, <2>1 DEF Reads, DensityOf, ConfigOf
<1> HIDE DEF turned
<1> QED
  BY <1>3, <1>4, <1>5, SettingTurns

LEMMA SettingStepOK ==
  ASSUME HouseInv, SettingStep
  PROVE  HouseInv' /\ FairCount
<1>1. UNCHANGED <<lineVars, wars, missed>>
  BY DEF SettingStep
<1>2. ASSUME NEW t \in Tap, NEW s \in Source \cup {None}, SetTapAuthority(t, s)
      PROVE  HouseInv' /\ FairCount
  BY <1>1, <1>2, SetTapAuthorityOK
<1>3. ASSUME NEW t \in Tap, NEW c \in Config \cup {None}, SetTapOverride(t, c)
      PROVE  HouseInv' /\ FairCount
  BY <1>1, <1>3, SetTapOverrideOK
<1>4. ASSUME NEW d \in Density, UpdateFallback(d)
      PROVE  HouseInv' /\ FairCount
  BY <1>1, <1>4, UpdateFallbackOK
<1>5. ASSUME NEW b \in Beverage, NEW d \in Density \cup {None}, UpdateDensity(b, d)
      PROVE  HouseInv' /\ FairCount
  BY <1>1, <1>5, UpdateDensityOK
<1>6. ASSUME NEW c \in Config, UpdateGlobalConfig(c)
      PROVE  HouseInv' /\ FairCount
  BY <1>1, <1>6, UpdateGlobalConfigOK
<1>7. ASSUME NEW g \in Group, NEW members \in SUBSET Tap, UpdateArbitrationGroup(g, members)
      PROVE  HouseInv' /\ FairCount
  BY <1>1, <1>7, UpdateArbitrationGroupOK
<1>8. None \in Density \cup {None} /\ Density \subseteq Density \cup {None}
  OBVIOUS
<1> QED
  BY <1>2, <1>3, <1>4, <1>5, <1>6, <1>7, <1>8 DEF SettingStep

LEMMA HouseInitOK == HouseInit => HouseInv
<1> SUFFICES ASSUME HouseInit
             PROVE  HouseInv
  OBVIOUS
<1>1. LineInv
  <2>1. 1 \in Fill /\ NoTap \in TapRow /\ NoKeg \in KegRow /\ NoFill("new") \in FillRow
    BY LineAssumption DEF Fill, NoTap, TapRow, NoKeg, KegRow, NoFill, FillRow
  <2>2. /\ \A a \in Assignment : assignments[a].state = "new"
        /\ \A f \in Fill : fills[f].state = "new" /\ fills[f].onDeck = 0
    BY DEF HouseInit, LineInit, NoFill
  <2>3. /\ taps \in [Tap -> TapRow] /\ kegs \in [Keg -> KegRow] /\ fills \in [Fill -> FillRow]
        /\ beverages \subseteq Beverage /\ autoDelete \in BOOLEAN
    BY <2>1 DEF HouseInit, LineInit
  <2>4. assignments \in [Assignment -> AssignmentRow]
    BY <2>1 DEF HouseInit, LineInit, AssignmentRow
  <2>5. Open = {} /\ OnDeck = {} /\ \A f \in Fill : ~Active(f) /\ ~Existing(f)
    BY <2>2 DEF Open, OnDeck, Active, Existing
  <2> QED
    BY <2>2, <2>3, <2>4, <2>5 DEF LineInv, TapsOK, KegsOK, FillsOK, BeveragesOK, AssignmentsOK, RowsOK, OpenOK,
       FilledOK, TapApart, FillApart, KegApart, DeckFree, PlaceApart
<1>2. EpochsInv
  <2>1. settings \in EpochSettings
    BY DEF HouseInit, EpochsInit, EpochSettings
  <2>2. epochs = [t \in Tap |-> None] /\ \A t \in Tap : OnTap(t) = {}
    BY DEF HouseInit, EpochsInit, LineInit, OnTap, Open
  <2> QED
    BY <2>1, <2>2 DEF EpochsInv, EpochsTypeOK, EpochIsCurrent
<1>3. WarsInv
  <2>1. [s \in Side |-> 1] \in [Side -> Assignment] /\ [s \in Side |-> FALSE] \in [Side -> BOOLEAN]
        /\ [s \in Side |-> 0] \in [Side -> 0..MaxVotes] /\ [s \in Side |-> -1] \in [Side -> -1..MaxVotes]
    BY LineAssumption, WarsAssumption DEF Assignment
  <2>2. NewWar \in WarRow /\ NewWar.status = "new"
    BY <2>1 DEF NewWar, WarRow
  <2>3. WarsTypeOK /\ \A w \in War : wars[w].status = "new"
    <3> DEFINE r == NewWar
    <3>1. wars = [w \in War |-> r] /\ r \in WarRow /\ r.status = "new"
      BY <2>2 DEF HouseInit, WarsInit
    <3> HIDE DEF r
    <3> QED
      BY <3>1 DEF WarsTypeOK
  <2> QED
    BY <2>3 DEF WarsInv, LostPausesWar, OneVisibleWar, TitlesSafe, Settled, Visible, Unfinished, Published
<1> QED
  BY <1>1, <1>2, <1>3 DEF HouseInv, HouseInit

LEMMA HouseNextOK == HouseInv /\ [Next]_vars => HouseInv' /\ [FairCount]_vars
<1> SUFFICES ASSUME HouseInv, [Next]_vars
             PROVE  HouseInv' /\ [FairCount]_vars
  OBVIOUS
<1>1. CASE LineStep
  BY <1>1, LineStepOK
<1>2. CASE WarStep
  BY <1>2, WarStepOK
<1>3. CASE SettingStep
  BY <1>3, SettingStepOK
<1>4. CASE UNCHANGED vars
  <2>1. UNCHANGED <<lineVars, wars, missed>> /\ UNCHANGED <<settings, epochs>> /\ UNCHANGED lineVars
    BY <1>4 DEF vars
  <2>2. settings' \in EpochSettings /\ epochs' = Reopened({}, settings', kegs')
    BY <2>1, NoneReopened DEF HouseInv, EpochsInv, EpochsTypeOK
  <2>3. \A t \in Tap : \A a \in OnTap(t) : t \notin {} => Reads(t, assignments[a].fill, settings', settings)
    BY <2>1 DEF Reads
  <2>4. HouseInv'
    BY <2>1, <2>2, <2>3, SettingTurns
  <2> QED
    BY <1>4, <2>4
<1> QED
  BY <1>1, <1>2, <1>3, <1>4 DEF Next

LEMMA HouseInvSound == HouseInv => TypeOK /\ HouseSafe /\ WarsSound
<1> SUFFICES ASSUME HouseInv
             PROVE  TypeOK /\ HouseSafe /\ WarsSound
  OBVIOUS
<1>1. TypeOK
  BY DEF HouseInv, TypeOK, LineInv, LineTypeOK, TapsOK, KegsOK, BeveragesOK, FillsOK, AssignmentsOK,
     WarsInv, EpochsInv
<1>2. OnePlace
  BY DEF HouseInv, LineInv, OnePlace, RowsOK, OpenOK, FilledOK, TapApart, FillApart, KegApart, Open
<1>3. HistoryKept /\ DeckSound
  BY DEF HouseInv, LineInv, HistoryKept, RowsOK, DeckSound, DeckFree, PlaceApart
<1> QED
  BY <1>1, <1>2, <1>3 DEF HouseSafe, WarsSound, HouseInv, EpochsInv, WarsInv

LEMMA HouseAlways == Spec => []HouseInv
<1> QED
  BY HouseInitOK, HouseNextOK, PTL DEF Spec

\* The tables, the wars, the epochs and the settings have their types.
THEOREM HouseTypes == Spec => []TypeOK
<1>1. HouseInv => TypeOK
  BY HouseInvSound
<1> QED
  BY <1>1, HouseAlways, PTL

\* Whatever is created, poured, moved, kicked and deleted: what is open exists and is in
\* one place, history keeps its Tap, places on deck are apart, and each pouring Tap has one
\* epoch that reads telemetry by what is configured now.
THEOREM HouseIsSafe == Spec => []HouseSafe
<1>1. HouseInv => HouseSafe
  BY HouseInvSound
<1> QED
  BY <1>1, HouseAlways, PTL

\* One war is on display, its titles betray no mystery, and it is active only while both
\* competitors can be poured - unless the process died after a deletion.
THEOREM WarsAreSound == Spec => []WarsSound
<1>1. HouseInv => WarsSound
  BY HouseInvSound
<1> QED
  BY <1>1, HouseAlways, PTL

\* Votes are counted one by one for competitors that can be poured, and what was completed
\* stays as it was frozen.
THEOREM WarsAreFair == Spec => WarsFair
  BY HouseInitOK, HouseNextOK, PTL DEF Spec, WarsFair
===============================================================================
