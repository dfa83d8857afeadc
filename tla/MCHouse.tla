-------------------------------- MODULE MCHouse --------------------------------
(***************************************************************************)
(* A small house, one concern at a time: `focus` says what varies - the    *)
(* line itself with the places on deck, Tap Wars, or one of the values an  *)
(* epoch is a snapshot of.  A setting changes one field of an epoch, so    *)
(* nothing is lost by varying them one at a time.                          *)
(***************************************************************************)
EXTENDS House, TLC

VARIABLE focus

Settings == {"authority", "density", "config", "group"}
Focus == {"line", "war", "rematch", "keg"} \cup Settings
Symmetry == Permutations(Tap) \cup Permutations(Keg)

(* Tap Wars begin in a house that has its Taps, Kegs and active Fills. *)
Furnished ==
  /\ taps = [t \in Tap |-> [NoTap EXCEPT !.kept = TRUE, !.enabled = TRUE]]
  /\ kegs = [k \in Keg |-> [NoKeg EXCEPT !.kept = TRUE, !.active = TRUE]]
  /\ beverages = Beverage /\ autoDelete = FALSE
  /\ \E k \in [Fill \ {MaxFills} -> Keg], b \in Beverage :
       /\ \A f, g \in DOMAIN k : f # g => k[f] # k[g]
       /\ fills = [f \in Fill |-> IF f = MaxFills THEN NoFill("new")
                                 ELSE [state |-> "active", beverage |-> b, keg |-> k[f],
                                       onDeck |-> 0]]
  /\ assignments = [a \in Assignment |->
                      [state |-> "new", tap |-> None, fill |-> 1, mystery |-> FALSE]]

MCInit ==
  /\ focus \in Focus /\ IF focus \in {"war", "rematch"} THEN Furnished ELSE LineInit
  /\ WarsInit /\ EpochsInit /\ missed = {}
  /\ settings.fallback = CHOOSE d \in Density : TRUE
  /\ settings.config = CHOOSE c \in Config : TRUE

(* What a focus keeps as it is *)
LineFixed ==
  /\ \A f \in Fill : fills'[f].onDeck = 0 /\ (f = MaxFills => fills'[f].state = "new")
  /\ ~autoDelete' /\ \A k \in Keg : kegs'[k].active = kegs'[k].kept
FewWars ==
  /\ \A t \in Tap : taps'[t].kept /\ ~taps'[t].retired
  /\ \A k \in Keg : kegs'[k].kept => kegs[k].kept
  /\ \A w \in War : focus = "war" /\ w > 1 => wars'[w].status = "new"
  /\ \A w \in War : wars'[w].status # "new" => wars'[w].entry[1] < wars'[w].entry[2]
  /\ focus = "rematch" => assignments'[MaxAssignments].state = "new"
  /\ \A a \in Assignment : assignments'[a].mystery => a = 1
  /\ \A w \in War, s \in Side : w > 1 => wars'[w].votes[s] = 0
WarsFixed ==
  /\ wars' = wars /\ assignments'[MaxAssignments].state = "new"
  /\ \A a \in Assignment : ~assignments'[a].mystery
  /\ \A t \in Tap : taps'[t].enabled = taps'[t].kept
Same(field) == settings'[field] = settings[field]
SettingsFixed ==
  /\ focus # "config" => Same("config") /\ Same("override")
  /\ focus # "density" => Same("density") /\ Same("fallback")
  /\ focus # "authority" => Same("authority")
  /\ focus # "group" => Same("group")

MCNext ==
  /\ UNCHANGED focus
  /\ \/ LineStep
     \/ focus \in {"war", "rematch"} /\ WarStep
     \/ focus \in Settings /\ SettingStep
  /\ autoDelete' = autoDelete \/ \A f \in Fill : fills[f].state = "new"
  /\ \A k \in Keg : kegs'[k].kept /\ ~kegs'[k].active => fills'[MaxFills].state = "new"
  /\ focus # "line" => LineFixed
  /\ IF focus \in {"war", "rematch"} THEN FewWars ELSE WarsFixed
  /\ focus # "keg" => \A k \in Keg : ~kegs'[k].size
  /\ SettingsFixed
MCSpec == MCInit /\ [][MCNext]_<<vars, focus>>
===============================================================================
