------------------------------- MODULE Beverages -------------------------------
(***************************************************************************)
(* Beverages, their Brewfather links and the density they are poured with  *)
(* (src/features/beverages).  Every operation is one transaction.  Of a    *)
(* presentation only what the density depends on is kept: the final        *)
(* gravity and the manual density.  Telemetry learns of a change through   *)
(* the hook onEffectiveDensityChanged, within the same transaction.        *)
(***************************************************************************)
EXTENDS Shared, Sequences

CONSTANTS
  Beverage,
  Batch,         \* batches of the account at Brewfather
  Recipe,        \* contents of a recipe, told apart by their fingerprint
  Gravity,       \* densities and final gravities
  User,          \* Brewfather users
  MaxStamp,      \* bound on the times at which links and accounts are edited
  MaxVersions    \* bound on the recipe snapshots of a Beverage

ASSUME BeverageAssumption ==
  /\ None \notin Batch \cup Recipe \cup Gravity \cup User
  /\ MaxStamp \in Nat /\ MaxVersions \in Nat

VARIABLES
  owner,         \* beverages.ownership_type; "absent" for no row
  profiles,      \* custom_beverage_profiles
  links,         \* brewfather_beverage_links
  sources,       \* brewfather_source_profiles; `user` is history: whose batch it is
  overrides,     \* brewfather_presentation_overrides
  snapshots,     \* beverage_source_recipe_snapshots, oldest first
  candidates,    \* brewfather_candidate_cache
  fallback,      \* beverage_settings.fallback_fg
  filled,        \* Beverages with a current Fill (features/fills)
  told,          \* the density telemetry counts pours of a Beverage with
  stamp          \* the time, in milliseconds; it need not differ between two edits

beverageVars ==
  <<owner, profiles, links, sources, overrides, snapshots, candidates, fallback, filled, told, stamp>>

Optional(S) == S \cup {None}
Profile == [fg : Optional(Gravity), manual : Optional(Gravity)]
Override == [set : BOOLEAN, fg : Optional(Gravity), manual : Optional(Gravity)]
SourceProfile == [fg : Optional(Gravity), user : User]
Link == [batch : Batch, made : Nat, state : {"pending", "synced", "stale", "error"}]
Snapshot == [batch : Batch, recipe : Recipe, state : {"linked_current", "superseded", "detached"},
             version : Nat \ {0}]
NoOverride == [set |-> FALSE, fg |-> None, manual |-> None]

\* No row is the absence of one.
ASSUME RowAssumption == None \notin Profile /\ None \notin SourceProfile /\ None \notin Link

BeverageTypeOK ==
  /\ owner \in [Beverage -> {"absent", "custom", "brewfather"}]
  /\ profiles \in [Beverage -> Optional(Profile)] /\ overrides \in [Beverage -> Override]
  /\ links \in [Beverage -> Optional(Link)] /\ sources \in [Beverage -> Optional(SourceProfile)]
  /\ snapshots \in [Beverage -> Seq(Snapshot)]
  /\ candidates \in [Batch -> Optional(SourceProfile)] /\ fallback \in Gravity
  /\ filled \subseteq Beverage /\ told \in [Beverage -> Optional(Gravity)] /\ stamp \in Nat

BeverageInit ==
  /\ owner = [b \in Beverage |-> "absent"] /\ overrides = [b \in Beverage |-> NoOverride]
  /\ profiles = [b \in Beverage |-> None] /\ links = [b \in Beverage |-> None]
  /\ sources = [b \in Beverage |-> None] /\ snapshots = [b \in Beverage |-> <<>>]
  /\ candidates = [k \in Batch |-> None] /\ fallback \in Gravity
  /\ filled = {} /\ told = [b \in Beverage |-> None] /\ stamp = 0

-----------------------------------------------------------------------------
(* Density *)

Linked(source, override) ==
  [fg |-> IF override.set THEN override.fg ELSE source.fg, manual |-> override.manual]
DensityOf(presentation, default) ==
  IF presentation.manual # None THEN presentation.manual
  ELSE IF presentation.fg # None THEN presentation.fg ELSE default
Presented(b) == IF owner[b] = "custom" THEN profiles[b] ELSE Linked(sources[b], overrides[b])
Density(b) == DensityOf(Presented(b), fallback)

\* The hook is called with both densities, if they differ.
Told(b, before, after) == [told EXCEPT ![b] = IF before = after THEN @ ELSE after]

Exists == {b \in Beverage : owner[b] # "absent"}
LinkedNow == {b \in Beverage : links[b] # None}
Time == {t \in {stamp, stamp + 1} : t <= MaxStamp}

-----------------------------------------------------------------------------
(* Operations of the console *)

CreateCustomBeverage(b, p) ==
  /\ owner[b] = "absent" /\ owner' = [owner EXCEPT ![b] = "custom"]
  /\ profiles' = [profiles EXCEPT ![b] = p]
  /\ told' = [told EXCEPT ![b] = DensityOf(p, fallback)]
  /\ UNCHANGED <<links, sources, overrides, snapshots, candidates, fallback, filled, stamp>>

\* updateCustomBeverage, and the autosave of its presentation.
UpdateCustomBeverage(b, p) ==
  /\ owner[b] = "custom" /\ profiles' = [profiles EXCEPT ![b] = p]
  /\ told' = Told(b, Density(b), DensityOf(p, fallback))
  /\ UNCHANGED <<owner, links, sources, overrides, snapshots, candidates, fallback, filled, stamp>>

LinkBrewfatherCandidate(b, batch, override) ==
  /\ owner[b] = "absent" /\ candidates[batch] # None
  /\ \A other \in LinkedNow : links[other].batch # batch
  /\ owner' = [owner EXCEPT ![b] = "brewfather"]
  /\ stamp' \in Time
  /\ links' = [links EXCEPT ![b] = [batch |-> batch, made |-> stamp', state |-> "pending"]]
  /\ sources' = [sources EXCEPT ![b] = candidates[batch]]
  /\ overrides' = [overrides EXCEPT ![b] = override]
  /\ told' = [told EXCEPT ![b] = DensityOf(Linked(candidates[batch], override), fallback)]
  /\ UNCHANGED <<profiles, snapshots, candidates, fallback, filled>>

\* updatePresentationOverrides, and the autosave of them.
UpdatePresentationOverrides(b, override) ==
  /\ owner[b] = "brewfather" /\ sources[b] # None
  /\ overrides' = [overrides EXCEPT ![b] = override]
  /\ told' = Told(b, Density(b), DensityOf(Linked(sources[b], override), fallback))
  /\ UNCHANGED <<owner, profiles, links, sources, snapshots, candidates, fallback, filled, stamp>>

\* As a bug: the source is materialised without the overrides.
SourceOnly(b) == [fg |-> sources[b].fg, manual |-> None]
Materialised(b) == Linked(sources[b], overrides[b])

Detached(rows) ==
  [i \in DOMAIN rows |->
     IF rows[i].state = "linked_current" THEN [rows[i] EXCEPT !.state = "detached"] ELSE rows[i]]

UnlinkBeverage(b) ==
  /\ owner[b] = "brewfather" /\ sources[b] # None
  /\ owner' = [owner EXCEPT ![b] = "custom"]
  /\ profiles' = [profiles EXCEPT ![b] = Materialised(b)]
  /\ snapshots' = [snapshots EXCEPT ![b] = Detached(@)]
  /\ overrides' = [overrides EXCEPT ![b] = NoOverride]
  /\ sources' = [sources EXCEPT ![b] = None] /\ links' = [links EXCEPT ![b] = None]
  /\ UNCHANGED <<candidates, fallback, filled, told, stamp>>

\* Everything of the Beverage goes with it, its Fills too; an id may be used again.
DeleteBeverage(b) ==
  /\ b \in Exists
  /\ owner' = [owner EXCEPT ![b] = "absent"] /\ profiles' = [profiles EXCEPT ![b] = None]
  /\ links' = [links EXCEPT ![b] = None] /\ sources' = [sources EXCEPT ![b] = None]
  /\ overrides' = [overrides EXCEPT ![b] = NoOverride]
  /\ snapshots' = [snapshots EXCEPT ![b] = <<>>]
  /\ filled' = filled \ {b} /\ told' = [told EXCEPT ![b] = None]
  /\ UNCHANGED <<candidates, fallback, stamp>>

UpdateBeverageSettings(gravity) ==
  /\ fallback' = gravity
  /\ told' = [b \in Beverage |->
       IF b \in Exists /\ Density(b) # DensityOf(Presented(b), gravity)
       THEN DensityOf(Presented(b), gravity) ELSE told[b]]
  /\ UNCHANGED <<owner, profiles, links, sources, overrides, snapshots, candidates, filled, stamp>>

\* Fills begin and end (features/fills).
ChangeFills(b) ==
  /\ b \in Exists /\ filled' = IF b \in filled THEN filled \ {b} ELSE filled \cup {b}
  /\ UNCHANGED <<owner, profiles, links, sources, overrides, snapshots, candidates, fallback,
                 told, stamp>>

-----------------------------------------------------------------------------
(* What a synchronisation writes *)

LinkState(b, state) == [links EXCEPT ![b].state = state]

CurrentOf(rows) == {i \in DOMAIN rows : rows[i].state = "linked_current"}
\* As a bug: versions count from 0.
WithRecipeFromZero(rows, batch, recipe) ==
  IF recipe = None THEN rows
  ELSE Append(rows, [batch |-> batch, recipe |-> recipe, state |-> "linked_current",
                     version |-> Len(rows)])
WithRecipe(rows, batch, recipe) ==
  LET current == CurrentOf(rows)
      version(i) == rows[i].version IN
  IF recipe = None \/ \E i \in current : rows[i].recipe = recipe THEN rows
  ELSE Append([i \in DOMAIN rows |-> IF i \in current THEN [rows[i] EXCEPT !.state = "superseded"]
                                     ELSE rows[i]],
              [batch |-> batch, recipe |-> recipe, state |-> "linked_current",
               version |-> 1 + (IF current = {} THEN 0 ELSE version(CHOOSE i \in current : TRUE))])

\* attachOfflineRecipeSnapshot: to a custom Beverage that has none.
AttachOfflineRecipe(b, key, recipe) ==
  /\ owner[b] = "custom" /\ snapshots[b] = <<>>
  /\ snapshots' = [snapshots EXCEPT ![b] =
       <<[batch |-> key, recipe |-> recipe, state |-> "detached", version |-> 1]>>]
  /\ UNCHANGED <<owner, profiles, links, sources, overrides, candidates, fallback, filled,
                 told, stamp>>

Synchronised(b, source, recipe) ==
  /\ sources' = [sources EXCEPT ![b] = source]
  /\ told' = Told(b, Density(b), DensityOf(Linked(source, overrides[b]), fallback))
  /\ snapshots' = [snapshots EXCEPT ![b] = WithRecipe(@, links[b].batch, recipe)]
  /\ links' = LinkState(b, "synced")

Console(edits, rewrites) ==
  \/ \E b \in Beverage, p \in edits : CreateCustomBeverage(b, p) \/ UpdateCustomBeverage(b, p)
  \/ \E b \in Beverage, batch \in Batch, o \in rewrites : LinkBrewfatherCandidate(b, batch, o)
  \/ \E b \in Beverage, o \in rewrites : UpdatePresentationOverrides(b, o)
  \/ \E b \in Beverage : UnlinkBeverage(b) \/ DeleteBeverage(b) \/ ChangeFills(b)
  \/ \E b \in Beverage, key \in Batch, recipe \in Recipe : AttachOfflineRecipe(b, key, recipe)
  \/ \E gravity \in Gravity : UpdateBeverageSettings(gravity)

-----------------------------------------------------------------------------
\* However edits, unlinking and synchronisation interleave, telemetry counts with
\* the effective density of every Beverage (onEffectiveDensityChanged).
DensityTold == \A b \in Exists : told[b] = Density(b)

\* The rows about a Beverage agree with who owns it: a linked one has exactly a link
\* to a batch of its own that is still listed, and a source profile; a custom one has
\* a profile and nothing Brewfather could still write to.  Versions count up, and
\* only the newest snapshot of the linked batch is current
\* (isCurrentBeverageLink, unlinkBeverageTransaction, saveRecipeSnapshot).
RowsAgree ==
  \A b \in Beverage :
    /\ owner[b] = "brewfather" <=> links[b] # None
    /\ owner[b] = "brewfather" <=> sources[b] # None
    /\ owner[b] = "custom" <=> profiles[b] # None
    /\ links[b] # None =>
         /\ candidates[links[b].batch] # None
         /\ \A c \in LinkedNow \ {b} : links[c].batch # links[b].batch
    /\ \A i \in DOMAIN snapshots[b] :
         LET row == snapshots[b][i] IN
         /\ row.version = i
         /\ row.state = "superseded" <=> i < Len(snapshots[b])
         /\ row.state = "linked_current" => links[b] # None /\ links[b].batch = row.batch

BeveragesSound == RowsAgree /\ DensityTold
=============================================================================
