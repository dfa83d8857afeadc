--------------------------------- MODULE House ---------------------------------
(***************************************************************************)
(* KegLine, Tap Wars and telemetry epochs as src/application.ts composes   *)
(* them: an operation on Taps, Fills or Kegs calls the hooks of the other  *)
(* two within its transaction, or lets the schema's cascades do without    *)
(* hooks, and some reconcile Tap Wars after the commit - where the process *)
(* may die first.                                                          *)
(***************************************************************************)
EXTENDS TapWars, TelemetryEpochs

VARIABLE missed   \* history: the wars a deletion left active without reconciling

vars == <<lineVars, wars, settings, epochs, missed>>

HouseInit == LineInit /\ WarsInit /\ EpochsInit /\ missed = {}

(* A line operation that closes or deletes the assignments in `gone`. *)
Closing(gone) ==
  /\ epochs' = WithoutClosed(gone) /\ wars' = AfterClose(gone)
  /\ UNCHANGED <<settings, missed>>

(* A deletion by cascade: no hook closes the assignments; unless the process   *)
(* dies before, reconcileEligibility follows the commit.                       *)
Reconciled == wars' = AfterCommit(taps', fills', assignments') /\ UNCHANGED missed
NotReconciled ==
  /\ UNCHANGED wars
  /\ missed' = missed \cup {w \in War : AfterCommit(taps', fills', assignments')[w] # wars[w]}
Cascading(gone) ==
  /\ epochs' = WithoutClosed(gone) /\ UNCHANGED settings
  /\ Reconciled \/ NotReconciled

OnLine(fs) == {a \in Open : assignments[a].fill \in fs}
OpenedOn(t) == CHOOSE a \in Assignment : assignments'[a].state = "open" /\ assignments'[a].tap = t

HouseAssignFill(t, f) ==
  /\ AssignFill(t, f)
  /\ epochs' = WithOpened({}, t, OpenedOn(t), f)
  /\ UNCHANGED <<wars, settings, missed>>

HouseMoveFill(source, target) ==
  /\ MoveFill(source, target)
  /\ \E c \in OnTap(source) :
       /\ epochs' = WithOpened({c}, target, OpenedOn(target), assignments[c].fill)
       /\ wars' = AfterClose({c})
  /\ UNCHANGED <<settings, missed>>

HouseUnassign(t) == Unassign(t) /\ Closing(OnTap(t))
HouseKickFill(f) == KickFill(f) /\ Closing(Assigned(f))
HouseDeleteFill(f) == DeleteFill(f) /\ Closing(Assigned(f))
HouseDeleteKeg(k) == DeleteKeg(k) /\ Cascading(OnLine(In(k)))
HouseDeleteBeverage(b) == DeleteBeverage(b) /\ Cascading(OnLine(Of(b)))

HouseUpdateTap(t, enabled) ==
  /\ UpdateTap(t, enabled)
  /\ wars' = IF enabled THEN wars ELSE AfterUnavailable(t)
  /\ UNCHANGED <<settings, epochs, missed>>

HouseUpdateMystery(t, mystery) ==
  /\ UpdateAssignmentMystery(t, mystery)
  /\ \E a \in OnTap(t) : wars' = TitlesRefreshed(a, mystery)
  /\ UNCHANGED <<settings, epochs, missed>>

HouseUpdateKegSize(k) ==
  /\ UpdateKegSize(k) /\ epochs' = Reopened(OnKeg(k), settings, kegs')
  /\ UNCHANGED <<wars, settings, missed>>

Unhooked ==
  /\ \/ \E t \in Tap : (\E e \in BOOLEAN : CreateTap(t, e)) \/ RetireTap(t) \/ DeleteTap(t)
     \/ \E f \in Fill : MarkOnDeck(f) \/ RemoveFromOnDeck(f)
     \/ \E f \in Fill, b \in Beverage, k \in Keg : CreateFill(f, b, k)
     \/ \E order \in Orders : ReorderOnDeck(order)
     \/ \E b \in BOOLEAN : UpdateFillSettings(b)
     \/ \E k \in Keg : CreateKeg(k) \/ UpdateKegActive(k)
  /\ UNCHANGED <<wars, settings, epochs, missed>>

LineStep ==
  \/ Unhooked
  \/ \E t \in Tap : \/ \E f \in Fill : HouseAssignFill(t, f)
                    \/ \E u \in Tap : HouseMoveFill(t, u)
                    \/ HouseUnassign(t)
                    \/ \E on \in BOOLEAN : HouseUpdateTap(t, on) \/ HouseUpdateMystery(t, on)
  \/ \E f \in Fill : HouseKickFill(f) \/ HouseDeleteFill(f)
  \/ \E k \in Keg : HouseDeleteKeg(k) \/ HouseUpdateKegSize(k)
  \/ \E b \in Beverage : HouseDeleteBeverage(b)

WarStep ==
  /\ \/ \E a, b \in Assignment : Start(a, b)
     \/ \E w \in War : (\E s \in Side : Vote(w, s)) \/ Resume(w) \/ Stop(w) \/ DismissPublicResult(w)
  /\ UNCHANGED <<lineVars, settings, epochs, missed>>

SettingStep ==
  /\ \/ \E t \in Tap : \/ \E s \in Source \cup {None} : SetTapAuthority(t, s)
                       \/ \E c \in Config \cup {None} : SetTapOverride(t, c)
     \/ \E d \in Density : UpdateFallback(d) \/ \E b \in Beverage : UpdateDensity(b, d)
     \/ \E b \in Beverage : UpdateDensity(b, None)
     \/ \E c \in Config : UpdateGlobalConfig(c)
     \/ \E g \in Group, members \in SUBSET Tap : UpdateArbitrationGroup(g, members)
  /\ UNCHANGED <<lineVars, wars, missed>>

Next == LineStep \/ WarStep \/ SettingStep
Spec == HouseInit /\ [][Next]_vars

-------------------------------------------------------------------------------
TypeOK == LineTypeOK /\ WarsTypeOK /\ EpochsTypeOK /\ missed \subseteq War

(* The tables stay consistent through every deletion, and the telemetry epochs *)
(* with the tables.                                                            *)
HouseSafe == OnePlace /\ HistoryKept /\ DeckSound /\ EpochIsCurrent

(* An active war whose competitor is gone is left only by a process that died  *)
(* between the deletion and what follows it; every other way to lose an        *)
(* assignment, a Fill or a Tap pauses the war in the same transaction.         *)
LostPausesWar == \A w \in War : wars[w].status = "active" => BothEligible(w) \/ w \in missed

(* The above, the one war on display and its names (TapWars).                  *)
WarsSound == LostPausesWar /\ OneVisibleWar /\ TitlesSafe

(* No step of the house counts an unfair vote or touches a settled war         *)
(* (TapWars).                                                                  *)
WarsFair == [][FairCount]_vars
===============================================================================
