----------------------------- MODULE TelemetryEpochs -----------------------------
(***************************************************************************)
(* The interpretation epochs of the detector service                       *)
(* (src/features/telemetry/detector-service.ts): an open epoch is a        *)
(* snapshot of everything by which raw telemetry of a Tap is read - the    *)
(* assignment, the authoritative source, Keg capacity and tare, density,   *)
(* detector configuration and arbitration group.  Whatever changes one of  *)
(* them closes the epoch and opens the next.  PourDetector has what goes   *)
(* on within an epoch.  A manual new baseline keeps the snapshot and is    *)
(* no step here.  None stands for no source, no density of its own, no     *)
(* override, no group and no epoch.                                        *)
(***************************************************************************)
EXTENDS KegLine

CONSTANTS
  Source, Density, Config, Group

VARIABLES
  settings,      \* what telemetry and Beverages configure
  epochs         \* the open epoch of each Tap

EpochSettings ==
  [authority : [Tap -> Source \cup {None}],      \* tap_telemetry_authority
   density : [Beverage -> Density \cup {None}],  \* from an override or FG of the Beverage
   fallback : Density,                           \* from beverage_settings.fallback_fg
   config : Config,                              \* detector_global_config
   override : [Tap -> Config \cup {None}],       \* detector_tap_overrides
   group : [Tap -> Group \cup {None}]]           \* detector_arbitration_members
Epoch == [assignment : Assignment, source : Source \cup {None}, size : BOOLEAN,
          density : Density, config : Config, group : Group \cup {None}]

ASSUME EpochAssumption == None \notin Epoch   \* no epoch is not an epoch

EpochsInit ==
  /\ settings \in [authority : {[t \in Tap |-> None]}, density : {[b \in Beverage |-> None]},
                   fallback : Density, config : Config,
                   override : {[t \in Tap |-> None]}, group : {[t \in Tap |-> None]}]
  /\ epochs = [t \in Tap |-> None]

-------------------------------------------------------------------------------
OwnDensity(s, b) == s.density[b] \* mutant: no fallback
DensityOf(s, b) == IF s.density[b] = None THEN s.fallback ELSE s.density[b]
ConfigOf(s, t) == IF s.override[t] = None THEN s.config ELSE s.override[t]

(* #open: what is read at that moment, from settings s and Kegs k *)
Snapshot(t, a, f, s, k) ==
  [assignment |-> a, source |-> s.authority[t], size |-> k[fills[f].keg].size,
   density |-> DensityOf(s, fills[f].beverage), config |-> ConfigOf(s, t),
   group |-> s.group[t]]

(* #transition of the open epochs of the Taps in `turned` *)
Reopened(turned, s, k) ==
  [t \in Tap |-> IF t \in turned /\ epochs[t] # None
                 THEN Snapshot(t, epochs[t].assignment,
                               assignments[epochs[t].assignment].fill, s, k)
                 ELSE epochs[t]]

(* onAssignmentClosed and the cascade from a deleted assignment *)
WithoutClosed(closed) ==
  [t \in Tap |-> IF epochs[t] # None /\ epochs[t].assignment \in closed THEN None ELSE epochs[t]]

(* onAssignmentOpened, after what was closed *)
WithOpened(closed, t, a, f) == [WithoutClosed(closed) EXCEPT ![t] = Snapshot(t, a, f, settings, kegs)]

(* onKegCorrection: listOpenTelemetryEpochsForKeg *)
OnKeg(k) == {t \in Tap : epochs[t] # None /\ fills[assignments[epochs[t].assignment].fill].keg = k}

OnBeverage(b) ==   \* listOpenTelemetryEpochsForBeverage
  {t \in Tap : epochs[t] # None /\ fills[assignments[epochs[t].assignment].fill].beverage = b}

SetTapAuthority(t, s) ==   \* and onAuthorityChanged
  /\ taps[t].kept /\ settings.authority[t] # s
  /\ settings' = [settings EXCEPT !.authority[t] = s]
  /\ epochs' = Reopened({t}, settings', kegs)

(* onEffectiveDensityChanged, which compares with the epoch too *)
Denser(s) ==
  {t \in Tap : epochs[t] # None
               /\ \E b \in Beverage : t \in OnBeverage(b) /\ epochs[t].density # DensityOf(s, b)}

UpdateDensity(b, d) ==   \* a change of a Beverage, by hand or by synchronisation
  /\ b \in beverages /\ settings.density[b] # d
  /\ settings' = [settings EXCEPT !.density[b] = d]
  /\ epochs' = Reopened(OnBeverage(b) \cap Denser(settings'), settings', kegs)

UpdateFallback(d) ==   \* updateSettings of Beverages
  /\ settings.fallback # d
  /\ settings' = [settings EXCEPT !.fallback = d]
  /\ epochs' = Reopened(Denser(settings'), settings', kegs)

Configured(s) == {t \in Tap : epochs[t] # None /\ epochs[t].config # ConfigOf(s, t)}

UpdateGlobalConfig(c) ==
  /\ settings.config # c
  /\ settings' = [settings EXCEPT !.config = c]
  /\ epochs' = Reopened(Configured(settings'), settings', kegs)

SetTapOverride(t, c) ==   \* setTapOverride; clearTapOverride when c is None
  /\ taps[t].kept /\ settings.override[t] # c
  /\ settings' = [settings EXCEPT !.override[t] = c]
  /\ epochs' = IF ConfigOf(settings, t) # ConfigOf(settings', t)
               THEN Reopened({t}, settings', kegs) ELSE epochs

(* #replaceGroupMembers: refused when a member is in another group; those who  *)
(* left and those who joined are compared with their epochs.                   *)
OnlyJoined(g, members) == members \* mutant: who leaves a group keeps its epoch
Regrouped(g, members) == members \cup {t \in Tap : settings.group[t] = g}

UpdateArbitrationGroup(g, members) ==
  /\ \A t \in members : taps[t].kept /\ settings.group[t] \in {g, None}
  /\ settings' = [settings EXCEPT !.group =
       [t \in Tap |-> IF t \in members THEN g
                      ELSE IF settings.group[t] = g THEN None ELSE settings.group[t]]]
  /\ settings' # settings
  /\ epochs' = Reopened({t \in Regrouped(g, members) :
                           epochs[t] # None /\ epochs[t].group # settings'.group[t]},
                        settings', kegs)

-------------------------------------------------------------------------------
EpochsTypeOK == settings \in EpochSettings /\ epochs \in [Tap -> Epoch \cup {None}]

(* Every Tap that pours has exactly one open epoch, of its present assignment, *)
(* and everything by which the epoch reads telemetry is as it is configured    *)
(* now: no sample is read with an old tare, density, source, configuration or  *)
(* group.  A Tap that does not pour has none.                                  *)
EpochIsCurrent ==
  \A t \in Tap :
    /\ epochs[t] = None <=> OnTap(t) = {}
    /\ \A a \in OnTap(t) : epochs[t] = Snapshot(t, a, assignments[a].fill, settings, kegs)
===============================================================================
