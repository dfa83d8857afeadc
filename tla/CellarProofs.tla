------------------------------- MODULE CellarProofs -------------------------------
(***************************************************************************)
(* What is proved of the cellar: that Beverages and their synchronisation  *)
(* stay sound and nothing stale is written, and that the incidents and the *)
(* alarms of the health checks are sound, for any Beverages, batches,      *)
(* accounts and adapters, any thresholds and any times.                    *)
(***************************************************************************)
EXTENDS Cellar, TLAPS, FiniteSetTheorems, WellFoundedInduction

(* A set of numbers has a least. *)
LEMMA Least ==
  ASSUME NEW S \in SUBSET Nat, S # {}
  PROVE  \E m \in S : \A y \in S : m <= y
<1>1. \E m \in S : \A y \in S : ~(<<y, m>> \in OpToRel(<, Nat))
  BY NatLessThanWellFounded, WFMin
<1>2. PICK m \in S : \A y \in S : ~(<<y, m>> \in OpToRel(<, Nat))
  BY <1>1
<1>3. m \in Nat /\ \A y \in S : y \in Nat /\ ~(y < m)
  BY <1>2 DEF OpToRel
<1>4. \A y \in S : m <= y
  BY <1>3
<1> QED
  BY <1>2, <1>4

-----------------------------------------------------------------------------
(* BEVERAGES AND THEIR SYNCHRONISATION.  The invariant by parts, each about its own tables. *)

(* The types, column by column. *)
OwnersOK == owner \in [Beverage -> {"absent", "custom", "brewfather"}]
ProfilesOK == profiles \in [Beverage -> Optional(Profile)]
OverridesOK == overrides \in [Beverage -> Override]
LinksOK == links \in [Beverage -> Optional(Link)]
SourcesOK == sources \in [Beverage -> Optional(SourceProfile)]
SnapshotsOK == snapshots \in [Beverage -> Seq(Snapshot)]
CandidatesOK == candidates \in [Batch -> Optional(SourceProfile)]
ToldOK == told \in [Beverage -> Optional(Gravity)]
SettingsOK == fallback \in Gravity /\ filled \subseteq Beverage /\ stamp \in Nat
AccountOK == account \in Account /\ apiKey \in StoredKey
EvidenceOK == evidence \in Evidence
RunOK == run \in Run
CallOK == call \in Completion
AdaptersOK == adapters \in [Adapter -> AdapterObject] /\ cached \in Adapter \cup {0}

(* What RowsAgree says besides of the snapshots. *)
Owned ==
  \A b \in Beverage :
    /\ owner[b] = "brewfather" <=> links[b] # None
    /\ owner[b] = "brewfather" <=> sources[b] # None
    /\ owner[b] = "custom" <=> profiles[b] # None
Listed == \A b \in Beverage : links[b] # None => candidates[links[b].batch] # None
Apart ==
  \A b, c \in Beverage :
    links[b] # None /\ links[c] # None /\ links[b].batch = links[c].batch => b = c

(* The snapshots of a Beverage: none without a row, none detached while linked. *)
RecipesAgree(list, who, link) ==
  /\ who = "absent" => list = <<>>
  /\ \A i \in DOMAIN list :
       /\ list[i].version = i
       /\ list[i].state = "superseded" <=> i < Len(list)
       /\ list[i].state = "linked_current" => who = "brewfather" /\ link.batch = list[i].batch
       /\ who = "brewfather" => list[i].state # "detached"
Recipes == \A b \in Beverage : RecipesAgree(snapshots[b], owner[b], links[b])

(* The evidence is of the configuration there is, and what a run brings to it was *)
(* read under the same.                                                           *)
EvidenceFits ==
  /\ evidence.account # NoAccount => Configured /\ SameConfiguration(evidence)
  /\ evidence.result # None =>
       /\ evidence.account # NoAccount
       /\ evidence.result.by.account.user = account.user /\ evidence.result.by.key = apiKey.key
RunFits ==
  /\ run.phase = "none" => run = NoRun
  /\ run.phase = "links" <=> run.adapter # 0
  /\ run.phase # "none" =>
       /\ run.read.account.user # None /\ run.read.key # None /\ run.serial <= evidence.serial
       /\ run.serial = evidence.serial /\ evidence.account # NoAccount =>
            run.read.account.user = account.user /\ run.read.key = apiKey.key
CallFits ==
  /\ call.phase = "none" => call = NoCall
  /\ call.phase = "none" <=> call.adapter = 0
  /\ call.phase # "none" => call.link # None

(* How many calls use an adapter: a run, a completion or both. *)
One(condition) == IF condition THEN 1 ELSE 0
Uses(a) == One(run.adapter = a) + One(call.adapter = a)
Held ==
  \A a \in Adapter :
    /\ adapters[a].uses = Uses(a)
    /\ adapters[a].open <=> Uses(a) > 0 \/ a = cached
    /\ run.adapter = a =>
         adapters[a].user = run.read.account.user /\ adapters[a].key = run.read.key
    /\ call.adapter = a =>
         adapters[a].user = call.read.account.user /\ adapters[a].key = call.read.key

SyncInv ==
  /\ OwnersOK /\ ProfilesOK /\ OverridesOK /\ LinksOK /\ SourcesOK /\ SnapshotsOK
  /\ CandidatesOK /\ ToldOK /\ SettingsOK /\ AccountOK /\ EvidenceOK /\ RunOK /\ CallOK
  /\ AdaptersOK /\ Owned /\ Listed /\ Apart /\ Recipes /\ DensityTold
  /\ EvidenceFits /\ RunFits /\ CallFits /\ Held

-----------------------------------------------------------------------------
(* What keeps the parts: facts about the operators, and the parts that a step does not touch. *)

(* An unlinked Beverage keeps its recipes, none of them current (unlinkBeverageTransaction). *)
LEMMA DetachedAgrees ==
  ASSUME NEW list \in Seq(Snapshot), NEW link, RecipesAgree(list, "brewfather", link)
  PROVE  Detached(list) \in Seq(Snapshot) /\ RecipesAgree(Detached(list), "custom", None)
<1> DEFINE n == Len(list)
<1>1. n \in Nat /\ DOMAIN list = 1 .. n
  OBVIOUS
<1>2. \A i \in 1 .. n : list[i] \in Snapshot
  OBVIOUS
<1> DEFINE r(i) == IF list[i].state = "linked_current" THEN [list[i] EXCEPT !.state = "detached"] ELSE list[i]
<1>3. \A i \in 1 .. n : /\ r(i) \in Snapshot /\ r(i).version = list[i].version
                        /\ r(i).state = IF list[i].state = "linked_current" THEN "detached" ELSE list[i].state
  BY <1>2 DEF Snapshot
<1>4. Detached(list) = [i \in 1 .. n |-> r(i)]
  BY <1>1 DEF Detached
<1> HIDE DEF r, n
<1>5. Detached(list) \in Seq(Snapshot) /\ Len(Detached(list)) = n
  BY <1>1, <1>3, <1>4
<1> USE DEF n
<1>6. \A i \in 1 .. n : /\ list[i].version = i /\ (list[i].state = "superseded" <=> i < n)
                        /\ list[i].state # "detached"
  BY <1>1 DEF RecipesAgree
<1> HIDE DEF n
<1> QED
  BY <1>1, <1>3, <1>4, <1>5, <1>6 DEF RecipesAgree

(* A saved recipe supersedes the ones before it (saveRecipeSnapshot). *)
LEMMA WithRecipeAgrees ==
  ASSUME NEW list \in Seq(Snapshot), NEW link, NEW batch \in Batch, NEW recipe \in Optional(Recipe),
         RecipesAgree(list, "brewfather", link), link.batch = batch
  PROVE  /\ WithRecipe(list, batch, recipe) \in Seq(Snapshot)
         /\ RecipesAgree(WithRecipe(list, batch, recipe), "brewfather", link)
<1>1. CASE recipe = None \/ \E i \in CurrentOf(list) : list[i].recipe = recipe
  BY <1>1 DEF WithRecipe
<1>2. CASE ~(recipe = None \/ \E i \in CurrentOf(list) : list[i].recipe = recipe)
  <2> DEFINE n == Len(list)
             r(i) == IF i \in CurrentOf(list) THEN [list[i] EXCEPT !.state = "superseded"] ELSE list[i]
             old == [i \in 1 .. n |-> r(i)]
             v == 1 + (IF CurrentOf(list) = {} THEN 0 ELSE list[CHOOSE i \in CurrentOf(list) : TRUE].version)
             new == [batch |-> batch, recipe |-> recipe, state |-> "linked_current", version |-> v]
  <2>1. n \in Nat /\ DOMAIN list = 1 .. n /\ \A i \in 1 .. n : list[i] \in Snapshot
    OBVIOUS
  <2>2. \A i \in 1 .. n : /\ list[i].version = i /\ (list[i].state = "superseded" <=> i < n)
                          /\ list[i].state # "detached"
                          /\ list[i].state = "linked_current" => link.batch = list[i].batch
    BY <2>1 DEF RecipesAgree
  <2>3. WithRecipe(list, batch, recipe) = Append(old, new)
    BY <1>2, <2>1, Zenon DEF WithRecipe
  <2>4. \A i \in 1 .. n : i \in CurrentOf(list) <=> i = n
    BY <2>1, <2>2 DEF CurrentOf, Snapshot
  <2>5. v = n + 1
    <3>1. CASE n = 0
      BY <3>1, <2>1 DEF CurrentOf
    <3>2. CASE n # 0
      <4> CurrentOf(list) \subseteq 1 .. n
        BY <2>1 DEF CurrentOf
      <4> HIDE DEF n
      <4>2. n \in 1 .. n
        BY <2>1, <3>2
      <4>1. CurrentOf(list) = {n}
        BY <2>4, <4>2
      <4> DEFINE c == CHOOSE i \in CurrentOf(list) : TRUE
      <4>3. c = n
        BY <4>1
      <4>4. list[n].version = n
        BY <2>2, <4>2
      <4>5. CurrentOf(list) # {}
        BY <4>1
      <4>6. v = 1 + list[c].version
        BY <4>5, Zenon
      <4> HIDE DEF c, v
      <4> QED
        BY <4>3, <4>4, <4>6, <2>1
    <3> QED
      BY <3>1, <3>2
  <2>6. new \in Snapshot /\ new.state = "linked_current" /\ new.version = n + 1 /\ new.batch = batch
    <3>1. recipe \in Recipe
      BY <1>2 DEF Optional
    <3> HIDE DEF v, n
    <3>2. v \in Nat \ {0}
      BY <2>5, <2>1
    <3> QED
      BY <3>1, <3>2, <2>5 DEF Snapshot
  <2>7. \A i \in 1 .. n : /\ r(i) \in Snapshot /\ r(i).version = i /\ r(i).state = "superseded"
    BY <2>1, <2>2, <2>4 DEF Snapshot
  <2> HIDE DEF r, new, v
  <2>8. old \in Seq(Snapshot) /\ Len(old) = n
    <3> HIDE DEF n
    <3> QED
      BY <2>1, <2>7
  <2>9. \A i \in 1 .. n : old[i].version = i /\ old[i].state = "superseded"
    <3> HIDE DEF n
    <3> QED
      BY <2>1, <2>7
  <2> HIDE DEF old, n
  <2>10. /\ Append(old, new) \in Seq(Snapshot) /\ Len(Append(old, new)) = n + 1
         /\ DOMAIN Append(old, new) = 1 .. n + 1
         /\ \A i \in 1 .. n : Append(old, new)[i] = old[i]
         /\ Append(old, new)[n + 1] = new
    BY <2>1, <2>6, <2>8
  <2> DEFINE all == Append(old, new)
  <2> HIDE DEF all
  <2>11. /\ all \in Seq(Snapshot) /\ Len(all) = n + 1 /\ DOMAIN all = 1 .. n + 1
         /\ \A i \in 1 .. n : all[i].version = i /\ all[i].state = "superseded"
         /\ all[n + 1].version = n + 1 /\ all[n + 1].state = "linked_current" /\ all[n + 1].batch = batch
    BY <2>6, <2>9, <2>10 DEF all
  <2>12. RecipesAgree(all, "brewfather", link)
    <3>1. \A i \in 1 .. n + 1 : i \in 1 .. n \/ i = n + 1
      BY <2>1
    <3>2. \A i \in 1 .. n : i < n + 1
      BY <2>1
    <3> QED
      BY <2>1, <2>11, <3>1, <3>2 DEF RecipesAgree
  <2> QED
    BY <2>3, <2>11, <2>12 DEF all
<1> QED
  BY <1>1, <1>2

(* The effective density is a gravity. *)
LEMMA Densities ==
  ASSUME NEW p \in [fg : Optional(Gravity), manual : Optional(Gravity)], NEW default \in Gravity
  PROVE  DensityOf(p, default) \in Gravity
BY DEF DensityOf, Optional

(* A linked Beverage shows its source. *)
LEMMA LinkedPresents ==
  ASSUME NEW source \in SourceProfile, NEW override \in Override
  PROVE  Linked(source, override) \in [fg : Optional(Gravity), manual : Optional(Gravity)]
BY DEF Linked, SourceProfile, Override

(* A part of the invariant holds on where nothing it reads changes. *)
LEMMA OwnedStays == Owned /\ UNCHANGED <<owner, links, sources, profiles>> => Owned'
BY DEF Owned

LEMMA ListedStays == Listed /\ UNCHANGED <<links, candidates>> => Listed'
BY DEF Listed

LEMMA ApartStays == Apart /\ UNCHANGED links => Apart'
BY DEF Apart

LEMMA RecipesStays == Recipes /\ UNCHANGED <<snapshots, owner, links>> => Recipes'
BY DEF Recipes, RecipesAgree

LEMMA DensityToldStays == DensityTold /\ UNCHANGED <<owner, profiles, sources, overrides, fallback, told>> => DensityTold'
BY DEF DensityTold, Exists, Density, DensityOf, Presented, Linked

LEMMA EvidenceFitsStays == EvidenceFits /\ UNCHANGED <<account, apiKey, evidence>> => EvidenceFits'
BY DEF EvidenceFits, Configured, SameConfiguration

LEMMA RunFitsStays == RunFits /\ UNCHANGED <<account, apiKey, evidence, run>> => RunFits'
BY DEF RunFits

LEMMA CallFitsStays == CallFits /\ UNCHANGED call => CallFits'
BY DEF CallFits

LEMMA HeldStays == Held /\ UNCHANGED <<run, call, adapters, cached>> => Held'
BY DEF Held, Uses, One

(* One Beverage at a time. *)
LEMMA NoRecipes == \A who, link : RecipesAgree(<<>>, who, link)
BY DEF RecipesAgree

(* An operation on one Beverage leaves the recipes and the density of the others. *)
LEMMA RecipesOfOthers ==
  ASSUME Recipes, NEW b \in Beverage, RecipesAgree(snapshots'[b], owner'[b], links'[b]),
         \A c \in Beverage \ {b} :
           snapshots'[c] = snapshots[c] /\ owner'[c] = owner[c] /\ links'[c] = links[c]
  PROVE  Recipes'
<1>1. ASSUME NEW c \in Beverage PROVE RecipesAgree(snapshots'[c], owner'[c], links'[c])
  <2>1. CASE c = b
    BY <2>1
  <2>2. CASE c # b
    <3>1. RecipesAgree(snapshots[c], owner[c], links[c])
      BY DEF Recipes
    <3> QED
      BY <3>1, <2>2
  <2> QED
    BY <2>1, <2>2
<1> QED
  BY <1>1 DEF Recipes, RecipesAgree

LEMMA DensityOfOthers ==
  ASSUME DensityTold, NEW b \in Beverage, b \in Exists' => told'[b] = Density(b)',
         fallback' = fallback,
         \A c \in Beverage \ {b} :
           /\ owner'[c] = owner[c] /\ profiles'[c] = profiles[c] /\ sources'[c] = sources[c]
           /\ overrides'[c] = overrides[c] /\ told'[c] = told[c]
  PROVE  DensityTold'
<1>1. ASSUME NEW c \in Beverage, c # b, c \in Exists' PROVE told'[c] = Density(c)'
  <2>1. c \in Exists /\ Density(c)' = Density(c)
    BY <1>1 DEF Exists, Density, Presented, Linked, DensityOf
  <2> QED
    BY <1>1, <2>1 DEF DensityTold
<1> QED
  BY <1>1 DEF DensityTold, Exists

(* A reply changes the state of a link only. *)
SameBatches(new) ==
  /\ new \in [Beverage -> Optional(Link)]
  /\ \A c \in Beverage :
       /\ new[c] # None <=> links[c] # None
       /\ links[c] # None => new[c].batch = links[c].batch

(* A failed reply changes the state of the link, never its batch. *)
LEMMA LinkStates ==
  ASSUME LinksOK, NEW b \in Beverage, links[b] # None,
         NEW state \in {"synced", "stale", "error"}
  PROVE  SameBatches(LinkState(b, state))
<1> DEFINE row == links[b]
           new == [row EXCEPT !.state = state]
<1>1. row \in Link
  BY DEF LinksOK, Optional
<1>2. LinkState(b, state) = [links EXCEPT ![b] = new]
  BY DEF LinkState
<1> HIDE DEF row
<1>3. new \in Link /\ new.batch = row.batch
  BY <1>1 DEF Link
<1> HIDE DEF new
<1>4. new # None /\ row # None
  BY <1>1, <1>3, RowAssumption
<1>5. LinkState(b, state) \in [Beverage -> Optional(Link)]
  BY <1>2, <1>3 DEF LinksOK, Optional
<1>6. \A c \in Beverage : LinkState(b, state)[c] = IF c = b THEN new ELSE links[c]
  BY <1>2 DEF LinksOK
<1> QED
  BY <1>3, <1>4, <1>5, <1>6 DEF SameBatches, row

(* What such a reply keeps. *)
LEMMA SameBatchesKeep ==
  ASSUME SameBatches(links'), Listed, Apart, Owned, Recipes, OwnersOK,
         owner' = owner
  PROVE  /\ LinksOK'
         /\ sources' = sources /\ profiles' = profiles => Owned'
         /\ candidates' = candidates => Listed'
         /\ Apart'
         /\ snapshots' = snapshots => Recipes'
<1>1. LinksOK'
  BY DEF SameBatches, LinksOK
<1>2. sources' = sources /\ profiles' = profiles => Owned'
  BY DEF SameBatches, Owned
<1>3. candidates' = candidates => Listed'
  BY DEF SameBatches, Listed
<1>4. Apart'
  <2> SUFFICES ASSUME NEW b \in Beverage, NEW c \in Beverage, links'[b] # None, links'[c] # None,
                      links'[b].batch = links'[c].batch
               PROVE  b = c
    BY DEF Apart
  <2> QED
    BY DEF SameBatches, Apart
<1>5. ASSUME snapshots' = snapshots, NEW b \in Beverage
      PROVE  RecipesAgree(snapshots[b], owner[b], links'[b])
  <2>1. RecipesAgree(snapshots[b], owner[b], links[b])
    BY DEF Recipes
  <2>2. owner[b] = "brewfather" => links'[b].batch = links[b].batch
    BY DEF SameBatches, Owned
  <2> QED
    BY <2>1, <2>2 DEF RecipesAgree
<1>6. snapshots' = snapshots => Recipes'
  BY <1>5 DEF Recipes, RecipesAgree
<1> QED
  BY <1>1, <1>2, <1>3, <1>4, <1>6

-----------------------------------------------------------------------------
(* Adapters *)

(* Adapters: a fresh one is used by no call, and the uses are counted. *)
LEMMA NoAdapter == 0 \notin Adapter /\ Adapter \subseteq Nat
BY SyncAssumption

LEMMA FreshIsFree ==
  ASSUME NEW a \in Adapter, ~adapters[a].open
  PROVE  Fresh \in Adapter /\ ~adapters[Fresh].open
<1> DEFINE S == {c \in Adapter : ~adapters[c].open}
<1>1. S \subseteq Nat /\ S # {}
  BY NoAdapter
<1>2. \E m \in S : \A c \in S : ~(<<c, m>> \in OpToRel(<, Nat))
  BY <1>1, NatLessThanWellFounded, WFMin
<1>3. PICK m \in S : \A c \in S : ~(<<c, m>> \in OpToRel(<, Nat))
  BY <1>2
<1> HIDE DEF S
<1>4. m \in S /\ \A c \in S : ~(c < m)
  BY <1>1, <1>3 DEF OpToRel
<1>5. \A c \in S : m <= c
  BY <1>1, <1>4
<1>6. m \in Adapter /\ ~adapters[m].open /\ \A c \in Adapter : ~adapters[c].open => m <= c
  BY <1>3, <1>5 DEF S
<1> QED
  BY <1>6 DEF Fresh

LEMMA HeldAlike ==
  ASSUME Held, run'.adapter = run.adapter, run'.read = run.read, call'.adapter = call.adapter,
         call'.read = call.read, UNCHANGED <<adapters, cached>>
  PROVE  Held'
<1>1. \A a \in Adapter : Uses(a)' = Uses(a)
  BY DEF Uses, One
<1> QED
  BY <1>1 DEF Held

LEMMA UsesCount ==
  ASSUME RunOK, CallOK
  PROVE  \A a \in Adapter : Uses(a) \in Nat
BY DEF Uses, One

LEMMA RetainedRows ==
  ASSUME NEW x \in AdapterObject, NEW user \in Optional(User), NEW key \in Optional(ApiKey)
  PROVE  [open |-> TRUE, user |-> user, key |-> key, uses |-> x.uses + 1] \in AdapterObject
BY DEF AdapterObject

(* Retaining the cached adapter, or a fresh one, counts one more use (#retainAdapter). *)
LEMMA AcquireHolds ==
  ASSUME AdaptersOK, AccountOK, Held, RunOK, CallOK, Acquire
  PROVE  /\ AdaptersOK' /\ cached' \in Adapter
         /\ adapters'[cached'].user = account.user /\ adapters'[cached'].key = apiKey.key
         /\ \A a \in Adapter :
              /\ adapters'[a].uses = Uses(a) + One(a = cached')
              /\ adapters'[a].open <=> Uses(a) > 0 \/ a = cached'
              /\ Uses(a) > 0 => adapters'[a].user = adapters[a].user /\ adapters'[a].key = adapters[a].key
<1>1. \A a \in Adapter : Uses(a) \in Nat /\ adapters[a] \in AdapterObject
                          /\ adapters[a].uses = Uses(a) /\ (adapters[a].open <=> Uses(a) > 0 \/ a = cached)
  BY UsesCount DEF Held, AdaptersOK
<1>2. account.user \in Optional(User) /\ apiKey.key \in Optional(ApiKey)
  BY DEF AccountOK, Account, StoredKey
<1> DEFINE Taken(a) == [open |-> TRUE, user |-> account.user, key |-> apiKey.key, uses |-> adapters[a].uses + 1]
<1>3. \A a \in Adapter : Taken(a) \in AdapterObject
  BY <1>1, <1>2, RetainedRows
<1>4. \A a : /\ Taken(a).open = TRUE /\ Taken(a).user = account.user /\ Taken(a).key = apiKey.key
            /\ Taken(a).uses = adapters[a].uses + 1
  OBVIOUS
<1>5. CASE Fits(cached)
  <2>1. cached \in Adapter /\ cached' = cached /\ adapters[cached].user = account.user
        /\ adapters[cached].key = apiKey.key
    BY <1>5 DEF Fits, Acquire, AdaptersOK
  <2>2. adapters' = [adapters EXCEPT ![cached] = Taken(cached)]
    BY <1>5 DEF Acquire, Retained
  <2> HIDE DEF Taken
  <2>3. AdaptersOK'
    BY <1>3, <2>1, <2>2 DEF AdaptersOK
  <2>4. \A a \in Adapter : adapters'[a] = IF a = cached THEN Taken(cached) ELSE adapters[a]
    BY <2>1, <2>2 DEF AdaptersOK
  <2> QED
    BY <1>1, <1>4, <2>1, <2>3, <2>4 DEF One
<1>6. CASE ~Fits(cached)
  <2> DEFINE new == Fresh
             pool == ReplacedPool(adapters)
  <2>1. adapters' = Retained(pool, new, account.user, apiKey.key) /\ cached' = new
    BY <1>6 DEF Acquire
  <2>2. new \in Adapter /\ ~adapters[new].open
    BY <1>6, FreshIsFree DEF Acquire
  <2> HIDE DEF new
  <2>3. Uses(new) = 0 /\ new # cached
    BY <1>1, <2>2
  <2>4. pool \in [Adapter -> AdapterObject]
    BY DEF ReplacedPool, AdaptersOK, Closed, AdapterObject, Optional
  <2>5. \A a \in Adapter :
          pool[a] = IF a = cached /\ Uses(a) = 0 THEN Closed ELSE adapters[a]
    <3>1. CASE cached = 0
      BY <3>1, NoAdapter DEF ReplacedPool
    <3>2. CASE cached \in Adapter
      BY <3>2, <1>1, NoAdapter DEF ReplacedPool, AdaptersOK
    <3> QED
      BY <3>1, <3>2 DEF AdaptersOK
  <2> HIDE DEF pool
  <2>6. pool[new] = adapters[new]
    BY <2>2, <2>3, <2>5
  <2>7. adapters' = [pool EXCEPT ![new] = Taken(new)]
    BY <2>1, <2>6 DEF Retained
  <2> HIDE DEF Taken
  <2>8. AdaptersOK'
    BY <1>3, <2>1, <2>2, <2>4, <2>7 DEF AdaptersOK
  <2>9. \A a \in Adapter : adapters'[a] = IF a = new THEN Taken(new) ELSE pool[a]
    BY <2>2, <2>4, <2>7
  <2>10. Closed.uses = 0 /\ ~Closed.open
    BY DEF Closed
  <2> QED
    BY <1>1, <1>4, <2>1, <2>2, <2>3, <2>5, <2>8, <2>9, <2>10 DEF One
<1> QED
  BY <1>5, <1>6

(* Releasing counts one less; the last use of one that is not cached closes it (#releaseAdapter). *)
LEMMA ReleaseHolds ==
  ASSUME AdaptersOK, Held, RunOK, CallOK, NEW r \in Adapter, Uses(r) > 0, Release(r), cached' = cached
  PROVE  /\ AdaptersOK'
         /\ \A a \in Adapter :
              /\ adapters'[a].uses = Uses(a) - One(a = r)
              /\ adapters'[a].open <=> Uses(a) - One(a = r) > 0 \/ a = cached
              /\ Uses(a) - One(a = r) > 0 =>
                   adapters'[a].user = adapters[a].user /\ adapters'[a].key = adapters[a].key
<1>1. \A a \in Adapter : Uses(a) \in Nat /\ adapters[a] \in AdapterObject
                          /\ adapters[a].uses = Uses(a) /\ (adapters[a].open <=> Uses(a) > 0 \/ a = cached)
  BY UsesCount DEF Held, AdaptersOK
<1> DEFINE row == adapters[r]
           u == row.uses - 1
           less == [row EXCEPT !.uses = u]
           new == IF row.uses > 1 \/ r = cached THEN less ELSE Closed
<1>2. adapters' = [adapters EXCEPT ![r] = new]
  BY DEF Release
<1>3. row \in AdapterObject /\ row.uses = Uses(r) /\ row.uses \in Nat /\ row.uses > 0 /\ row.open
  BY <1>1
<1> HIDE DEF row
<1>u. u \in Nat
  BY <1>3
<1> HIDE DEF u
<1>4. /\ less \in AdapterObject /\ less.uses = u /\ less.open = row.open
      /\ less.user = row.user /\ less.key = row.key
  BY <1>3, <1>u DEF AdapterObject
<1> HIDE DEF less
<1>5. Closed \in AdapterObject /\ Closed.uses = 0 /\ ~Closed.open
  BY DEF Closed, AdapterObject, Optional
<1>v. (row.uses > 1 <=> u > 0) /\ (~(u > 0) => u = 0)
  BY <1>3 DEF u
<1>6. /\ new \in AdapterObject /\ new.uses = u
      /\ new.open <=> u > 0 \/ r = cached
      /\ u > 0 => new.user = row.user /\ new.key = row.key
  BY <1>3, <1>4, <1>5, <1>v
<1> HIDE DEF new
<1>7. AdaptersOK'
  BY <1>2, <1>6 DEF AdaptersOK
<1>8. \A a \in Adapter : adapters'[a] = IF a = r THEN new ELSE adapters[a]
  BY <1>2 DEF AdaptersOK
<1>9. \A a \in Adapter \ {r} : adapters'[a] = adapters[a] /\ Uses(a) - One(a = r) = Uses(a)
  BY <1>1, <1>8 DEF One
<1>10. adapters'[r] = new /\ One(r = r) = 1
  BY <1>8 DEF One
<1> QED
  BY <1>1, <1>3, <1>6, <1>7, <1>9, <1>10 DEF row, u

-----------------------------------------------------------------------------
(* Evidence *)

(* The evidence, its results and a new run have their types. *)
LEMMA RefreshedTyped ==
  ASSUME EvidenceOK, AccountOK
  PROVE  Refreshed \in Evidence
<1> DEFINE fresh == [serial |-> evidence.serial + 1, account |-> account, row |-> apiKey.row,
                     available |-> apiKey.key # None, result |-> None]
<1>1. NoEvidence \in Evidence
  BY DEF NoEvidence, NoAccount, Evidence, Account, Optional
<1>2. fresh \in Evidence
  <2> DEFINE n == evidence.serial + 1
             r == apiKey.row
             on == apiKey.key # None
  <2>1. n \in Nat /\ r \in Nat /\ on \in BOOLEAN /\ account \in Account
    BY DEF EvidenceOK, AccountOK, Evidence, StoredKey
  <2> HIDE DEF n, r, on
  <2>2. [serial |-> n, account |-> account, row |-> r, available |-> on, result |-> None] \in Evidence
    BY <2>1 DEF Evidence, Optional
  <2> QED
    BY <2>2 DEF n, r, on
<1> HIDE DEF fresh
<1>3. Refreshed \in {NoEvidence, evidence, fresh}
  BY DEF Refreshed, fresh
<1> QED
  BY <1>1, <1>2, <1>3 DEF EvidenceOK

LEMMA NextResultTyped ==
  ASSUME RunOK, NEW e \in Evidence
  PROVE  NextResult(e) \in Optional(Result)
<1>1. e.result \in Optional(Result)
  BY DEF Evidence
<1> DEFINE failed == run.error \/ run.auth
           before(part) == e.result # None /\ part
           p == failed \/ run.linked
           a == (failed \/ ~run.verified) /\ (run.auth \/ before(e.result.auth))
           f == failed \/ (~run.verified /\ before(e.result.failing))
           new == [partial |-> p, auth |-> a, failing |-> f, by |-> run.read]
<1>2. p \in BOOLEAN /\ a \in BOOLEAN /\ f \in BOOLEAN /\ run.read \in Read
  BY DEF RunOK, Run
<1>3. NextResult(e) \in {e.result, None, new}
  BY DEF NextResult
<1> HIDE DEF p, a, f
<1>4. new \in Result
  BY <1>2 DEF Result
<1> HIDE DEF new
<1> QED
  BY <1>1, <1>3, <1>4 DEF Optional

LEMMA NewRuns ==
  ASSUME NEW read \in Read, NEW wanted, wanted \subseteq ExpectedLink, NEW serial \in Nat,
         NEW a \in Adapter
  PROVE  [phase |-> "links", read |-> read, links |-> wanted, serial |-> serial, adapter |-> a,
          error |-> FALSE, auth |-> FALSE, linked |-> FALSE, verified |-> FALSE] \in Run
BY DEF Run

-----------------------------------------------------------------------------
(* Every action keeps the invariant. *)

LEMMA CreateCustomBeverageKeepsSync ==
  ASSUME SyncInv, NEW b \in Beverage, NEW p \in Profile, CreateCustomBeverage(b, p),
         UNCHANGED <<account, apiKey, evidence, run, call, adapters, cached>>
  PROVE  SyncInv'
<1> USE DEF SyncInv, CreateCustomBeverage, DensityOf
<1>1. OverridesOK' /\ LinksOK' /\ SourcesOK' /\ SnapshotsOK' /\ CandidatesOK' /\ SettingsOK' /\ AccountOK' /\ EvidenceOK' /\ RunOK' /\ CallOK' /\ AdaptersOK'
  BY DEF OverridesOK, LinksOK, SourcesOK, SnapshotsOK, CandidatesOK, SettingsOK, AccountOK,
     EvidenceOK, RunOK, CallOK, AdaptersOK
<1>2. Listed' /\ Apart' /\ EvidenceFits' /\ RunFits' /\ CallFits' /\ Held'
  BY ListedStays, ApartStays, EvidenceFitsStays, RunFitsStays, CallFitsStays, HeldStays
<1>3. OwnersOK'
  BY DEF OwnersOK
<1>4. ProfilesOK'
  BY DEF ProfilesOK, Optional
<1>5. ToldOK'
  BY DEF ToldOK, SettingsOK, Optional, Profile
<1>6. Owned'
  BY RowAssumption DEF OwnersOK, ProfilesOK, Owned
<1>7. Recipes'
  <2>1. \A c \in Beverage \ {b} :
          snapshots'[c] = snapshots[c] /\ owner'[c] = owner[c] /\ links'[c] = links[c]
    BY DEF OwnersOK, LinksOK, SnapshotsOK
  <2>2. RecipesAgree(snapshots[b], owner[b], links[b]) /\ snapshots[b] \in Seq(Snapshot)
    BY DEF Recipes, SnapshotsOK
  <2>3. RecipesAgree(snapshots'[b], owner'[b], links'[b])
    <3>1. snapshots[b] = <<>>
      BY <2>2 DEF RecipesAgree
    <3> QED
      BY <3>1, NoRecipes DEF SnapshotsOK
  <2> QED
    BY <2>1, <2>3, RecipesOfOthers
<1>8. DensityTold'
  BY DEF ProfilesOK, OverridesOK, ToldOK, DensityTold, Exists, Density, Presented
<1> QED
  BY <1>1, <1>2, <1>3, <1>4, <1>5, <1>6, <1>7, <1>8 DEF SyncInv

LEMMA UpdateCustomBeverageKeepsSync ==
  ASSUME SyncInv, NEW b \in Beverage, NEW p \in Profile, UpdateCustomBeverage(b, p),
         UNCHANGED <<account, apiKey, evidence, run, call, adapters, cached>>
  PROVE  SyncInv'
<1> USE DEF SyncInv, UpdateCustomBeverage, Told, Density, DensityOf, Presented, Linked
<1>1. OwnersOK' /\ OverridesOK' /\ LinksOK' /\ SourcesOK' /\ SnapshotsOK' /\ CandidatesOK' /\ SettingsOK' /\ AccountOK' /\ EvidenceOK' /\ RunOK' /\ CallOK' /\ AdaptersOK'
  BY DEF OwnersOK, OverridesOK, LinksOK, SourcesOK, SnapshotsOK, CandidatesOK, SettingsOK,
     AccountOK, EvidenceOK, RunOK, CallOK, AdaptersOK
<1>2. Listed' /\ Apart' /\ Recipes' /\ EvidenceFits' /\ RunFits' /\ CallFits' /\ Held'
  BY ListedStays, ApartStays, RecipesStays, EvidenceFitsStays, RunFitsStays, CallFitsStays, HeldStays
<1>3. ProfilesOK'
  BY DEF ProfilesOK, Optional
<1>4. ToldOK'
  BY DEF ToldOK, SettingsOK, Optional, Profile
<1>5. Owned'
  BY RowAssumption DEF Owned
<1>6. DensityTold'
  BY DEF ProfilesOK, OverridesOK, ToldOK, DensityTold, Exists
<1> QED
  BY <1>1, <1>2, <1>3, <1>4, <1>5, <1>6 DEF SyncInv

LEMMA LinkBrewfatherCandidateKeepsSync ==
  ASSUME SyncInv, NEW b \in Beverage, NEW k \in Batch, NEW o \in Override, LinkBrewfatherCandidate(b, k, o),
         UNCHANGED <<account, apiKey, evidence, run, call, adapters, cached>>
  PROVE  SyncInv'
<1> USE DEF SyncInv, LinkBrewfatherCandidate, LinkedNow, Time, DensityOf, Linked
<1>1. ProfilesOK' /\ SnapshotsOK' /\ CandidatesOK' /\ AccountOK' /\ EvidenceOK' /\ CallOK' /\ AdaptersOK'
  BY DEF ProfilesOK, SnapshotsOK, CandidatesOK, AccountOK, EvidenceOK, CallOK, AdaptersOK
<1>2. EvidenceFits' /\ CallFits' /\ Held'
  BY EvidenceFitsStays, CallFitsStays, HeldStays
<1>3. OwnersOK'
  BY DEF OwnersOK
<1>4. OverridesOK'
  BY DEF OverridesOK
<1>5. LinksOK'
  BY DEF LinksOK, SettingsOK, Optional, Link
<1>6. SourcesOK'
  BY DEF SourcesOK, CandidatesOK, Optional
<1>7. ToldOK'
  BY DEF CandidatesOK, ToldOK, SettingsOK, Optional, Override, SourceProfile
<1>8. SettingsOK'
  BY DEF SettingsOK
<1>9. RunOK'
  BY DEF RunOK
<1>10. Owned'
  BY RowAssumption DEF OwnersOK, LinksOK, SourcesOK, SettingsOK, Owned, Link
<1>11. Listed'
  BY DEF Listed
<1>12. Apart'
  BY DEF Apart
<1>13. Recipes'
  <2>1. \A c \in Beverage \ {b} :
          snapshots'[c] = snapshots[c] /\ owner'[c] = owner[c] /\ links'[c] = links[c]
    BY DEF OwnersOK, LinksOK, SnapshotsOK
  <2>2. RecipesAgree(snapshots[b], owner[b], links[b]) /\ snapshots[b] \in Seq(Snapshot)
    BY DEF Recipes, SnapshotsOK
  <2>3. RecipesAgree(snapshots'[b], owner'[b], links'[b])
    <3>1. snapshots[b] = <<>>
      BY <2>2 DEF RecipesAgree
    <3> QED
      BY <3>1, NoRecipes DEF SnapshotsOK
  <2> QED
    BY <2>1, <2>3, RecipesOfOthers
<1>14. DensityTold'
  <2>1. \A c \in Beverage \ {b} :
          /\ owner'[c] = owner[c] /\ profiles'[c] = profiles[c] /\ sources'[c] = sources[c]
          /\ overrides'[c] = overrides[c] /\ told'[c] = told[c]
    BY DEF OwnersOK, ProfilesOK, SourcesOK, OverridesOK, ToldOK
  <2>2. b \in Exists' => told'[b] = Density(b)'
    BY DEF OwnersOK, SourcesOK, OverridesOK, ToldOK, Density, Presented
  <2> QED
    BY <2>1, <2>2, DensityOfOthers
<1>15. RunFits'
  BY DEF RunFits
<1> QED
  BY <1>1, <1>2, <1>3, <1>4, <1>5, <1>6, <1>7, <1>8, <1>9, <1>10, <1>11, <1>12, <1>13,
     <1>14, <1>15 DEF SyncInv

LEMMA UpdatePresentationOverridesKeepsSync ==
  ASSUME SyncInv, NEW b \in Beverage, NEW o \in Override, UpdatePresentationOverrides(b, o),
         UNCHANGED <<account, apiKey, evidence, run, call, adapters, cached>>
  PROVE  SyncInv'
<1> USE DEF SyncInv, UpdatePresentationOverrides, Told, Density, DensityOf, Linked,
     Presented
<1>1. OwnersOK' /\ ProfilesOK' /\ LinksOK' /\ SourcesOK' /\ SnapshotsOK' /\ CandidatesOK' /\ SettingsOK' /\ AccountOK' /\ EvidenceOK' /\ RunOK' /\ CallOK' /\ AdaptersOK'
  BY DEF OwnersOK, ProfilesOK, LinksOK, SourcesOK, SnapshotsOK, CandidatesOK, SettingsOK,
     AccountOK, EvidenceOK, RunOK, CallOK, AdaptersOK
<1>2. Owned' /\ Listed' /\ Apart' /\ Recipes' /\ EvidenceFits' /\ RunFits' /\ CallFits' /\ Held'
  BY OwnedStays, ListedStays, ApartStays, RecipesStays, EvidenceFitsStays, RunFitsStays, CallFitsStays, HeldStays
<1>3. OverridesOK'
  BY DEF OverridesOK
<1>4. ToldOK'
  BY DEF SourcesOK, ToldOK, SettingsOK, Optional, Override, SourceProfile
<1>5. DensityTold'
  BY DEF OverridesOK, ToldOK, DensityTold, Exists
<1> QED
  BY <1>1, <1>2, <1>3, <1>4, <1>5 DEF SyncInv

LEMMA UnlinkBeverageKeepsSync ==
  ASSUME SyncInv, NEW b \in Beverage, UnlinkBeverage(b),
         UNCHANGED <<account, apiKey, evidence, run, call, adapters, cached>>
  PROVE  SyncInv'
<1> USE DEF SyncInv, UnlinkBeverage, Materialised, Detached, NoOverride, Linked
<1>1. CandidatesOK' /\ ToldOK' /\ SettingsOK' /\ AccountOK' /\ EvidenceOK' /\ CallOK' /\ AdaptersOK'
  BY DEF CandidatesOK, ToldOK, SettingsOK, AccountOK, EvidenceOK, CallOK, AdaptersOK
<1>2. EvidenceFits' /\ CallFits' /\ Held'
  BY EvidenceFitsStays, CallFitsStays, HeldStays
<1>3. OwnersOK'
  BY DEF OwnersOK
<1>4. ProfilesOK'
  BY DEF ProfilesOK, OverridesOK, SourcesOK, Optional, Profile, Override, SourceProfile
<1>5. OverridesOK'
  BY DEF OverridesOK, Optional, Override
<1>6. LinksOK'
  BY DEF LinksOK, Optional
<1>7. SourcesOK'
  BY DEF SourcesOK, Optional
<1>8. SnapshotsOK'
  <2>1. RecipesAgree(snapshots[b], "brewfather", links[b]) /\ snapshots[b] \in Seq(Snapshot)
    BY DEF Recipes, SnapshotsOK
  <2>2. Detached(snapshots[b]) \in Seq(Snapshot)
    BY <2>1, DetachedAgrees
  <2> QED
    BY <2>2 DEF SnapshotsOK
<1>9. RunOK'
  BY DEF RunOK
<1>10. Owned'
  BY RowAssumption DEF OwnersOK, ProfilesOK, OverridesOK, LinksOK, SourcesOK, Owned,
     Optional, Profile, Override, SourceProfile
<1>11. Listed'
  BY DEF Listed
<1>12. Apart'
  BY DEF Apart
<1>13. Recipes'
  <2>1. \A c \in Beverage \ {b} :
          snapshots'[c] = snapshots[c] /\ owner'[c] = owner[c] /\ links'[c] = links[c]
    BY DEF OwnersOK, LinksOK, SnapshotsOK
  <2>2. RecipesAgree(snapshots[b], owner[b], links[b]) /\ snapshots[b] \in Seq(Snapshot)
    BY DEF Recipes, SnapshotsOK
  <2>3. RecipesAgree(snapshots'[b], owner'[b], links'[b])
    <3>1. RecipesAgree(Detached(snapshots[b]), "custom", None)
      BY <2>2, DetachedAgrees
    <3>2. snapshots'[b] = Detached(snapshots[b]) /\ owner'[b] = "custom" /\ links'[b] = None
      BY DEF SnapshotsOK, OwnersOK, LinksOK
    <3> QED
      BY <3>1, <3>2
  <2> QED
    BY <2>1, <2>3, RecipesOfOthers
<1>14. DensityTold'
  <2>1. \A c \in Beverage \ {b} :
          /\ owner'[c] = owner[c] /\ profiles'[c] = profiles[c] /\ sources'[c] = sources[c]
          /\ overrides'[c] = overrides[c] /\ told'[c] = told[c]
    BY DEF OwnersOK, ProfilesOK, SourcesOK, OverridesOK, ToldOK
  <2>2. b \in Exists' => told'[b] = Density(b)'
    <3>1. told[b] = DensityOf(Linked(sources[b], overrides[b]), fallback)
      BY DEF DensityTold, Exists, Density, Presented
    <3>2. owner'[b] = "custom" /\ profiles'[b] = Linked(sources[b], overrides[b])
      BY DEF OwnersOK, ProfilesOK, Materialised
    <3> QED
      BY <3>1, <3>2 DEF Density, Presented
  <2> QED
    BY <2>1, <2>2, DensityOfOthers
<1>15. RunFits'
  BY DEF RunFits
<1> QED
  BY <1>1, <1>2, <1>3, <1>4, <1>5, <1>6, <1>7, <1>8, <1>9, <1>10, <1>11, <1>12, <1>13,
     <1>14, <1>15 DEF SyncInv

LEMMA DeleteBeverageKeepsSync ==
  ASSUME SyncInv, NEW b \in Beverage, DeleteBeverage(b),
         UNCHANGED <<account, apiKey, evidence, run, call, adapters, cached>>
  PROVE  SyncInv'
<1> USE DEF SyncInv, DeleteBeverage, Exists, NoOverride
<1>1. CandidatesOK' /\ AccountOK' /\ EvidenceOK' /\ CallOK' /\ AdaptersOK'
  BY DEF CandidatesOK, AccountOK, EvidenceOK, CallOK, AdaptersOK
<1>2. EvidenceFits' /\ CallFits' /\ Held'
  BY EvidenceFitsStays, CallFitsStays, HeldStays
<1>3. OwnersOK'
  BY DEF OwnersOK
<1>4. ProfilesOK'
  BY DEF ProfilesOK, Optional
<1>5. OverridesOK'
  BY DEF OverridesOK, Optional, Override
<1>6. LinksOK'
  BY DEF LinksOK, Optional
<1>7. SourcesOK'
  BY DEF SourcesOK, Optional
<1>8. SnapshotsOK'
  <2>1. <<>> \in Seq(Snapshot)
    OBVIOUS
  <2> QED
    BY <2>1 DEF SnapshotsOK
<1>9. ToldOK'
  BY DEF ToldOK, Optional
<1>10. SettingsOK'
  BY DEF SettingsOK
<1>11. RunOK'
  BY DEF RunOK
<1>12. Owned'
  BY DEF OwnersOK, ProfilesOK, LinksOK, SourcesOK, Owned
<1>13. Listed'
  BY DEF Listed
<1>14. Apart'
  BY DEF Apart
<1>15. Recipes'
  <2>1. \A c \in Beverage \ {b} :
          snapshots'[c] = snapshots[c] /\ owner'[c] = owner[c] /\ links'[c] = links[c]
    BY DEF OwnersOK, LinksOK, SnapshotsOK
  <2>2. RecipesAgree(snapshots[b], owner[b], links[b]) /\ snapshots[b] \in Seq(Snapshot)
    BY DEF Recipes, SnapshotsOK
  <2>3. RecipesAgree(snapshots'[b], owner'[b], links'[b])
    <3>1. snapshots'[b] = <<>>
      BY DEF SnapshotsOK
    <3> QED
      BY <3>1, NoRecipes
  <2> QED
    BY <2>1, <2>3, RecipesOfOthers
<1>16. DensityTold'
  BY DEF OwnersOK, DensityTold, Density, Presented
<1>17. RunFits'
  BY DEF RunFits
<1> QED
  BY <1>1, <1>2, <1>3, <1>4, <1>5, <1>6, <1>7, <1>8, <1>9, <1>10, <1>11, <1>12, <1>13,
     <1>14, <1>15, <1>16, <1>17 DEF SyncInv

LEMMA ChangeFillsKeepsSync ==
  ASSUME SyncInv, NEW b \in Beverage, ChangeFills(b),
         UNCHANGED <<account, apiKey, evidence, run, call, adapters, cached>>
  PROVE  SyncInv'
<1> USE DEF SyncInv, ChangeFills, Exists
<1>1. OwnersOK' /\ ProfilesOK' /\ OverridesOK' /\ LinksOK' /\ SourcesOK' /\ SnapshotsOK' /\ CandidatesOK' /\ ToldOK' /\ AccountOK' /\ EvidenceOK' /\ RunOK' /\ CallOK' /\ AdaptersOK'
  BY DEF OwnersOK, ProfilesOK, OverridesOK, LinksOK, SourcesOK, SnapshotsOK, CandidatesOK,
     ToldOK, AccountOK, EvidenceOK, RunOK, CallOK, AdaptersOK
<1>2. Owned' /\ Listed' /\ Apart' /\ Recipes' /\ DensityTold' /\ EvidenceFits' /\ RunFits' /\ CallFits' /\ Held'
  BY OwnedStays, ListedStays, ApartStays, RecipesStays, DensityToldStays, EvidenceFitsStays, RunFitsStays, CallFitsStays, HeldStays
<1>3. SettingsOK'
  BY DEF SettingsOK
<1> QED
  BY <1>1, <1>2, <1>3 DEF SyncInv

LEMMA AttachOfflineRecipeKeepsSync ==
  ASSUME SyncInv, NEW b \in Beverage, NEW k \in Batch, NEW recipe \in Recipe, AttachOfflineRecipe(b, k, recipe),
         UNCHANGED <<account, apiKey, evidence, run, call, adapters, cached>>
  PROVE  SyncInv'
<1> USE DEF SyncInv, AttachOfflineRecipe
<1>1. OwnersOK' /\ ProfilesOK' /\ OverridesOK' /\ LinksOK' /\ SourcesOK' /\ CandidatesOK' /\ ToldOK' /\ SettingsOK' /\ AccountOK' /\ EvidenceOK' /\ RunOK' /\ CallOK' /\ AdaptersOK'
  BY DEF OwnersOK, ProfilesOK, OverridesOK, LinksOK, SourcesOK, CandidatesOK, ToldOK,
     SettingsOK, AccountOK, EvidenceOK, RunOK, CallOK, AdaptersOK
<1>2. Owned' /\ Listed' /\ Apart' /\ DensityTold' /\ EvidenceFits' /\ RunFits' /\ CallFits' /\ Held'
  BY OwnedStays, ListedStays, ApartStays, DensityToldStays, EvidenceFitsStays, RunFitsStays, CallFitsStays, HeldStays
<1>3. SnapshotsOK'
  <2> DEFINE row == [batch |-> k, recipe |-> recipe, state |-> "detached", version |-> 1]
  <2>1. row \in Snapshot
    BY DEF Snapshot
  <2>2. snapshots' = [snapshots EXCEPT ![b] = <<row>>]
    OBVIOUS
  <2> HIDE DEF row
  <2>3. <<row>> \in Seq(Snapshot)
    BY <2>1
  <2> QED
    BY <2>2, <2>3 DEF SnapshotsOK
<1>4. Recipes'
  <2>1. \A c \in Beverage \ {b} :
          snapshots'[c] = snapshots[c] /\ owner'[c] = owner[c] /\ links'[c] = links[c]
    BY DEF OwnersOK, LinksOK, SnapshotsOK
  <2>2. RecipesAgree(snapshots[b], owner[b], links[b]) /\ snapshots[b] \in Seq(Snapshot)
    BY DEF Recipes, SnapshotsOK
  <2>3. RecipesAgree(snapshots'[b], owner'[b], links'[b])
    <3> DEFINE row == [batch |-> k, recipe |-> recipe, state |-> "detached", version |-> 1]
    <3>1. row.state = "detached" /\ row.version = 1 /\ snapshots'[b] = <<row>>
      BY DEF SnapshotsOK
    <3>2. owner'[b] = "custom"
      OBVIOUS
    <3> HIDE DEF row
    <3>3. Len(<<row>>) = 1 /\ DOMAIN <<row>> = {1} /\ <<row>>[1] = row
      OBVIOUS
    <3> QED
      BY <3>1, <3>2, <3>3 DEF RecipesAgree
  <2> QED
    BY <2>1, <2>3, RecipesOfOthers
<1> QED
  BY <1>1, <1>2, <1>3, <1>4 DEF SyncInv

LEMMA UpdateBeverageSettingsKeepsSync ==
  ASSUME SyncInv, NEW gravity \in Gravity, UpdateBeverageSettings(gravity),
         UNCHANGED <<account, apiKey, evidence, run, call, adapters, cached>>
  PROVE  SyncInv'
<1> USE DEF SyncInv, UpdateBeverageSettings, Exists, Density, DensityOf, Presented, Linked
<1>1. OwnersOK' /\ ProfilesOK' /\ OverridesOK' /\ LinksOK' /\ SourcesOK' /\ SnapshotsOK' /\ CandidatesOK' /\ AccountOK' /\ EvidenceOK' /\ RunOK' /\ CallOK' /\ AdaptersOK'
  BY DEF OwnersOK, ProfilesOK, OverridesOK, LinksOK, SourcesOK, SnapshotsOK, CandidatesOK,
     AccountOK, EvidenceOK, RunOK, CallOK, AdaptersOK
<1>2. Owned' /\ Listed' /\ Apart' /\ Recipes' /\ EvidenceFits' /\ RunFits' /\ CallFits' /\ Held'
  BY OwnedStays, ListedStays, ApartStays, RecipesStays, EvidenceFitsStays, RunFitsStays, CallFitsStays, HeldStays
<1>3. ToldOK'
  BY DEF ToldOK, Optional
<1>4. SettingsOK'
  BY DEF SettingsOK
<1>5. DensityTold'
  BY DEF DensityTold
<1> QED
  BY <1>1, <1>2, <1>3, <1>4, <1>5 DEF SyncInv

LEMMA ConfigureAccountKeepsSync ==
  ASSUME SyncInv, NEW user \in User, NEW enabled \in BOOLEAN, NEW discovers \in BOOLEAN,
         NEW key \in Optional(ApiKey), ConfigureAccount(user, enabled, discovers, key)
  PROVE  SyncInv'
<1> USE DEF SyncInv, ConfigureAccount, Time, NoEvidence, NoAccount
<1>1. OwnersOK' /\ ProfilesOK' /\ OverridesOK' /\ LinksOK' /\ SourcesOK' /\ SnapshotsOK' /\ CandidatesOK' /\ ToldOK' /\ AdaptersOK'
  BY DEF OwnersOK, ProfilesOK, OverridesOK, LinksOK, SourcesOK, SnapshotsOK, CandidatesOK,
     ToldOK, AdaptersOK
<1>2. Owned' /\ Listed' /\ Apart' /\ Recipes' /\ DensityTold' /\ Held'
  BY OwnedStays, ListedStays, ApartStays, RecipesStays, DensityToldStays, HeldStays
<1>3. SettingsOK'
  BY DEF SettingsOK
<1>4. AccountOK'
  BY DEF SettingsOK, AccountOK, Optional, Account, StoredKey
<1>5. EvidenceOK'
  BY DEF EvidenceOK, Optional, Account, Evidence
<1>6. RunOK'
  BY DEF RunOK
<1>7. CallOK'
  BY DEF CallOK
<1>8. EvidenceFits'
  BY DEF EvidenceFits
<1>9. RunFits'
  BY DEF RunFits
<1>10. CallFits'
  BY DEF CallFits
<1> QED
  BY <1>1, <1>2, <1>3, <1>4, <1>5, <1>6, <1>7, <1>8, <1>9, <1>10 DEF SyncInv

LEMMA RemoveApiKeyKeepsSync ==
  ASSUME SyncInv, RemoveApiKey
  PROVE  SyncInv'
<1> USE DEF SyncInv, RemoveApiKey, NoEvidence, beverageVars, NoAccount
<1>1. OwnersOK' /\ ProfilesOK' /\ OverridesOK' /\ LinksOK' /\ SourcesOK' /\ SnapshotsOK' /\ CandidatesOK' /\ ToldOK' /\ SettingsOK' /\ RunOK' /\ CallOK' /\ AdaptersOK'
  BY DEF OwnersOK, ProfilesOK, OverridesOK, LinksOK, SourcesOK, SnapshotsOK, CandidatesOK,
     ToldOK, SettingsOK, RunOK, CallOK, AdaptersOK
<1>2. Owned' /\ Listed' /\ Apart' /\ Recipes' /\ DensityTold' /\ CallFits' /\ Held'
  BY OwnedStays, ListedStays, ApartStays, RecipesStays, DensityToldStays, CallFitsStays, HeldStays
<1>3. AccountOK'
  BY DEF AccountOK, Optional, StoredKey
<1>4. EvidenceOK'
  BY DEF EvidenceOK, Optional, Account, Evidence
<1>5. EvidenceFits'
  BY DEF EvidenceFits
<1>6. RunFits'
  BY DEF RunFits
<1> QED
  BY <1>1, <1>2, <1>3, <1>4, <1>5, <1>6 DEF SyncInv

LEMMA BeginSyncKeepsSync ==
  ASSUME SyncInv, BeginSync
  PROVE  SyncInv'
<1> USE DEF SyncInv, BeginSync, NoRun, Configured, Refreshed, Acquire, WhatIsRead, Expected,
     LinkedNow, beverageVars, NothingRead, NoEvidence, NoAccount, SameConfiguration, Fits,
     Retained, ReplacedPool, Fresh, Closed
<1>1. OwnersOK' /\ ProfilesOK' /\ OverridesOK' /\ LinksOK' /\ SourcesOK' /\ SnapshotsOK' /\ CandidatesOK' /\ ToldOK' /\ SettingsOK' /\ AccountOK' /\ CallOK'
  BY DEF OwnersOK, ProfilesOK, OverridesOK, LinksOK, SourcesOK, SnapshotsOK, CandidatesOK,
     ToldOK, SettingsOK, AccountOK, CallOK
<1>2. Owned' /\ Listed' /\ Apart' /\ Recipes' /\ DensityTold' /\ CallFits'
  BY OwnedStays, ListedStays, ApartStays, RecipesStays, DensityToldStays, CallFitsStays
<1>3. EvidenceOK'
  BY DEF AccountOK, EvidenceOK, Optional, StoredKey, Evidence
<1>4. RunOK'
  <2> DEFINE read == WhatIsRead
             wanted == {Expected(b) : b \in LinkedNow}
             serial == Refreshed.serial
  <2>1. read \in Read
    BY DEF WhatIsRead, Read, AccountOK, StoredKey
  <2>2. wanted \subseteq ExpectedLink
    BY DEF LinkedNow, Expected, ExpectedLink, LinksOK, Optional, Link
  <2>3. serial \in Nat
    BY DEF EvidenceOK, Evidence
  <2>4. cached' \in Adapter
    BY AcquireHolds, Zenon
  <2>5. run' = [phase |-> "links", read |-> read, links |-> wanted, serial |-> serial,
                adapter |-> cached', error |-> FALSE, auth |-> FALSE, linked |-> FALSE,
                verified |-> FALSE]
    BY DEF NoRun
  <2> HIDE DEF read, wanted, serial
  <2> DEFINE new == [phase |-> "links", read |-> read, links |-> wanted, serial |-> serial,
                     adapter |-> cached', error |-> FALSE, auth |-> FALSE, linked |-> FALSE,
                     verified |-> FALSE]
  <2>6. new \in Run
    BY <2>1, <2>2, <2>3, <2>4, NewRuns, Zenon
  <2> HIDE DEF new
  <2> QED
    BY <2>5, <2>6 DEF RunOK, new
<1>5. AdaptersOK'
  BY AcquireHolds, Zenon
<1>6. EvidenceFits'
  BY DEF EvidenceFits
<1>7. RunFits'
  <2> DEFINE read == WhatIsRead
             serial == Refreshed.serial
  <2>1. /\ run'.phase = "links" /\ run'.read = read /\ run'.serial = serial /\ run'.adapter = cached'
        /\ account' = account /\ apiKey' = apiKey /\ evidence'.serial = serial
    BY DEF NoRun
  <2>2. cached' \in Adapter
    BY AcquireHolds, Zenon
  <2>3. /\ read.account.user = account.user /\ read.key = apiKey.key
        /\ account.user # None /\ apiKey.key # None
    BY DEF WhatIsRead, Configured
  <2>4. serial \in Nat
    BY DEF EvidenceOK, Evidence
  <2> HIDE DEF read, serial
  <2> QED
    BY <2>1, <2>2, <2>3, <2>4, NoAdapter DEF RunFits
<1>8. Held'
  <2>1. run.adapter = 0
    BY DEF NoRun
  <2>2. /\ cached' \in Adapter
        /\ adapters'[cached'].user = account.user /\ adapters'[cached'].key = apiKey.key
        /\ \A a \in Adapter :
             /\ adapters'[a].uses = Uses(a) + One(a = cached')
             /\ adapters'[a].open <=> Uses(a) > 0 \/ a = cached'
             /\ Uses(a) > 0 => adapters'[a].user = adapters[a].user /\ adapters'[a].key = adapters[a].key
    BY AcquireHolds, Zenon
  <2>3. /\ run'.adapter = cached' /\ run'.read.account.user = account.user
        /\ run'.read.key = apiKey.key
    BY DEF WhatIsRead, NoRun
  <2>4. \A a \in Adapter : Uses(a)' = Uses(a) + One(a = cached')
    BY <2>1, <2>3, NoAdapter DEF Uses, One
  <2>5. \A a \in Adapter : Uses(a) \in Nat /\ (call.adapter = a => Uses(a) > 0)
    BY UsesCount DEF Uses, One
  <2>6. \A a \in Adapter : Uses(a)' > 0 <=> Uses(a) > 0 \/ a = cached'
    BY <2>4, <2>5 DEF One
  <2> QED
    BY <2>2, <2>3, <2>4, <2>5, <2>6 DEF Held
<1> QED
  BY <1>1, <1>2, <1>3, <1>4, <1>5, <1>6, <1>7, <1>8 DEF SyncInv

LEMMA ReplyMissingKeepsSync ==
  ASSUME SyncInv, NEW l \in run.links, ReplyMissing(l)
  PROVE  SyncInv'
<1> USE DEF SyncInv, ReplyMissing, LinkAnswered, LinkFailed, Applies, LinkState, CurrentLink,
     CurrentAccount, LinkHolds
<1>1. OwnersOK' /\ ProfilesOK' /\ OverridesOK' /\ SourcesOK' /\ SnapshotsOK' /\ CandidatesOK' /\ ToldOK' /\ SettingsOK' /\ AccountOK' /\ EvidenceOK' /\ CallOK' /\ AdaptersOK'
  BY DEF OwnersOK, ProfilesOK, OverridesOK, SourcesOK, SnapshotsOK, CandidatesOK, ToldOK,
     SettingsOK, AccountOK, EvidenceOK, CallOK, AdaptersOK
<1>2. DensityTold' /\ EvidenceFits' /\ CallFits'
  BY DensityToldStays, EvidenceFitsStays, CallFitsStays
<1>3. LinksOK'
  <2>1. l \in ExpectedLink /\ l.beverage \in Beverage
    BY DEF RunOK, Run, ExpectedLink
  <2>2. SameBatches(links')
    <3>1. CASE Applies(l)
      BY <3>1, <2>1, LinkStates DEF LinkFailed, Applies, CurrentLink, LinkHolds
    <3>2. CASE ~Applies(l)
      BY <3>2 DEF SameBatches, LinkFailed, LinksOK
    <3> QED
      BY <3>1, <3>2
  <2> QED
    BY <2>2, SameBatchesKeep
<1>4. RunOK'
  BY DEF RunOK, Run
<1>5. Owned'
  <2>1. l \in ExpectedLink /\ l.beverage \in Beverage
    BY DEF RunOK, Run, ExpectedLink
  <2>2. SameBatches(links')
    <3>1. CASE Applies(l)
      BY <3>1, <2>1, LinkStates DEF LinkFailed, Applies, CurrentLink, LinkHolds
    <3>2. CASE ~Applies(l)
      BY <3>2 DEF SameBatches, LinkFailed, LinksOK
    <3> QED
      BY <3>1, <3>2
  <2> QED
    BY <2>2, SameBatchesKeep
<1>6. Listed'
  <2>1. l \in ExpectedLink /\ l.beverage \in Beverage
    BY DEF RunOK, Run, ExpectedLink
  <2>2. SameBatches(links')
    <3>1. CASE Applies(l)
      BY <3>1, <2>1, LinkStates DEF LinkFailed, Applies, CurrentLink, LinkHolds
    <3>2. CASE ~Applies(l)
      BY <3>2 DEF SameBatches, LinkFailed, LinksOK
    <3> QED
      BY <3>1, <3>2
  <2> QED
    BY <2>2, SameBatchesKeep
<1>7. Apart'
  <2>1. l \in ExpectedLink /\ l.beverage \in Beverage
    BY DEF RunOK, Run, ExpectedLink
  <2>2. SameBatches(links')
    <3>1. CASE Applies(l)
      BY <3>1, <2>1, LinkStates DEF LinkFailed, Applies, CurrentLink, LinkHolds
    <3>2. CASE ~Applies(l)
      BY <3>2 DEF SameBatches, LinkFailed, LinksOK
    <3> QED
      BY <3>1, <3>2
  <2> QED
    BY <2>2, SameBatchesKeep
<1>8. Recipes'
  <2>1. l \in ExpectedLink /\ l.beverage \in Beverage
    BY DEF RunOK, Run, ExpectedLink
  <2>2. SameBatches(links')
    <3>1. CASE Applies(l)
      BY <3>1, <2>1, LinkStates DEF LinkFailed, Applies, CurrentLink, LinkHolds
    <3>2. CASE ~Applies(l)
      BY <3>2 DEF SameBatches, LinkFailed, LinksOK
    <3> QED
      BY <3>1, <3>2
  <2> QED
    BY <2>2, SameBatchesKeep
<1>9. RunFits'
  BY DEF RunFits
<1>10. Held'
  <2>1. run'.adapter = run.adapter /\ run'.read = run.read
    BY DEF RunOK, Run
  <2> QED
    BY <2>1, HeldAlike
<1> QED
  BY <1>1, <1>2, <1>3, <1>4, <1>5, <1>6, <1>7, <1>8, <1>9, <1>10 DEF SyncInv

LEMMA ReplyErrorKeepsSync ==
  ASSUME SyncInv, NEW l \in run.links, NEW auth \in BOOLEAN, NEW verified \in BOOLEAN, ReplyError(l, auth, verified)
  PROVE  SyncInv'
<1> USE DEF SyncInv, ReplyError, LinkAnswered, LinkFailed, Applies, LinkState, CurrentLink,
     CurrentAccount, LinkHolds
<1>1. OwnersOK' /\ ProfilesOK' /\ OverridesOK' /\ SourcesOK' /\ SnapshotsOK' /\ CandidatesOK' /\ ToldOK' /\ SettingsOK' /\ AccountOK' /\ EvidenceOK' /\ CallOK' /\ AdaptersOK'
  BY DEF OwnersOK, ProfilesOK, OverridesOK, SourcesOK, SnapshotsOK, CandidatesOK, ToldOK,
     SettingsOK, AccountOK, EvidenceOK, CallOK, AdaptersOK
<1>2. DensityTold' /\ EvidenceFits' /\ CallFits'
  BY DensityToldStays, EvidenceFitsStays, CallFitsStays
<1>3. LinksOK'
  <2>1. l \in ExpectedLink /\ l.beverage \in Beverage
    BY DEF RunOK, Run, ExpectedLink
  <2>2. SameBatches(links')
    <3>1. CASE Applies(l)
      BY <3>1, <2>1, LinkStates DEF LinkFailed, Applies, CurrentLink, LinkHolds
    <3>2. CASE ~Applies(l)
      BY <3>2 DEF SameBatches, LinkFailed, LinksOK
    <3> QED
      BY <3>1, <3>2
  <2> QED
    BY <2>2, SameBatchesKeep
<1>4. RunOK'
  <2> DEFINE left == run.links \ {l}
             linked == run.linked \/ Applies(l)
             a == run.auth \/ auth
             v == run.verified \/ verified
  <2>1. run' = [run EXCEPT !.links = left, !.linked = linked, !.auth = a, !.verified = v]
    OBVIOUS
  <2>2. left \in SUBSET ExpectedLink /\ linked \in BOOLEAN /\ a \in BOOLEAN /\ v \in BOOLEAN
    BY DEF RunOK, Run
  <2> HIDE DEF left, linked, a, v
  <2> QED
    BY <2>1, <2>2 DEF RunOK, Run
<1>5. Owned'
  <2>1. l \in ExpectedLink /\ l.beverage \in Beverage
    BY DEF RunOK, Run, ExpectedLink
  <2>2. SameBatches(links')
    <3>1. CASE Applies(l)
      BY <3>1, <2>1, LinkStates DEF LinkFailed, Applies, CurrentLink, LinkHolds
    <3>2. CASE ~Applies(l)
      BY <3>2 DEF SameBatches, LinkFailed, LinksOK
    <3> QED
      BY <3>1, <3>2
  <2> QED
    BY <2>2, SameBatchesKeep
<1>6. Listed'
  <2>1. l \in ExpectedLink /\ l.beverage \in Beverage
    BY DEF RunOK, Run, ExpectedLink
  <2>2. SameBatches(links')
    <3>1. CASE Applies(l)
      BY <3>1, <2>1, LinkStates DEF LinkFailed, Applies, CurrentLink, LinkHolds
    <3>2. CASE ~Applies(l)
      BY <3>2 DEF SameBatches, LinkFailed, LinksOK
    <3> QED
      BY <3>1, <3>2
  <2> QED
    BY <2>2, SameBatchesKeep
<1>7. Apart'
  <2>1. l \in ExpectedLink /\ l.beverage \in Beverage
    BY DEF RunOK, Run, ExpectedLink
  <2>2. SameBatches(links')
    <3>1. CASE Applies(l)
      BY <3>1, <2>1, LinkStates DEF LinkFailed, Applies, CurrentLink, LinkHolds
    <3>2. CASE ~Applies(l)
      BY <3>2 DEF SameBatches, LinkFailed, LinksOK
    <3> QED
      BY <3>1, <3>2
  <2> QED
    BY <2>2, SameBatchesKeep
<1>8. Recipes'
  <2>1. l \in ExpectedLink /\ l.beverage \in Beverage
    BY DEF RunOK, Run, ExpectedLink
  <2>2. SameBatches(links')
    <3>1. CASE Applies(l)
      BY <3>1, <2>1, LinkStates DEF LinkFailed, Applies, CurrentLink, LinkHolds
    <3>2. CASE ~Applies(l)
      BY <3>2 DEF SameBatches, LinkFailed, LinksOK
    <3> QED
      BY <3>1, <3>2
  <2> QED
    BY <2>2, SameBatchesKeep
<1>9. RunFits'
  BY DEF RunFits
<1>10. Held'
  <2>1. run'.adapter = run.adapter /\ run'.read = run.read
    BY DEF RunOK, Run
  <2> QED
    BY <2>1, HeldAlike
<1> QED
  BY <1>1, <1>2, <1>3, <1>4, <1>5, <1>6, <1>7, <1>8, <1>9, <1>10 DEF SyncInv

LEMMA ReplyBatchKeepsSync ==
  ASSUME SyncInv, NEW l \in run.links, NEW fg \in Optional(Gravity), NEW recipe \in Optional(Recipe), ReplyBatch(l, fg, recipe)
  PROVE  SyncInv'
<1> DEFINE b == l.beverage
           source == [fg |-> fg, user |-> run.read.account.user]
           list == WithRecipe(snapshots[b], links[b].batch, recipe)
           density == DensityOf(Linked(source, overrides[b]), fallback)
<1>a. /\ OwnersOK /\ ProfilesOK /\ OverridesOK /\ LinksOK /\ SourcesOK /\ SnapshotsOK
      /\ CandidatesOK /\ ToldOK /\ SettingsOK /\ AccountOK /\ EvidenceOK /\ RunOK /\ CallOK
      /\ AdaptersOK /\ Owned /\ Listed /\ Apart /\ Recipes /\ DensityTold
      /\ EvidenceFits /\ RunFits /\ CallFits /\ Held
  BY DEF SyncInv
<1>b. /\ UNCHANGED <<owner, profiles, overrides, candidates, fallback, filled, stamp, account, apiKey,
                     evidence, call, adapters, cached>>
      /\ run' = [run EXCEPT !.links = run.links \ {l}, !.verified = TRUE]
      /\ run.phase = "links"
  BY DEF ReplyBatch, LinkAnswered
<1>c. l \in ExpectedLink /\ b \in Beverage
  <2>1. l \in ExpectedLink
    BY <1>a DEF RunOK, Run
  <2> QED
    BY <2>1 DEF ExpectedLink
<1>d. ASSUME ~Applies(l) PROVE UNCHANGED <<sources, told, snapshots, links>>
  BY <1>d DEF ReplyBatch
<1>e. ASSUME Applies(l)
      PROVE  /\ sources' = [sources EXCEPT ![b] = source] /\ told' = Told(b, Density(b), density)
             /\ snapshots' = [snapshots EXCEPT ![b] = list] /\ links' = LinkState(b, "synced")
  <2>1. Synchronised(b, source, recipe)
    BY <1>e DEF ReplyBatch
  <2> HIDE DEF b, source
  <2> QED
    BY <2>1 DEF Synchronised, list, density
<1>f. ASSUME Applies(l)
      PROVE  owner[b] = "brewfather" /\ links[b] # None /\ links[b] \in Link
  <2>1. owner[b] = "brewfather" /\ links[b] # None
    BY <1>f DEF Applies, CurrentLink, LinkHolds
  <2> HIDE DEF b
  <2> QED
    BY <1>a, <1>c, <2>1 DEF LinksOK, Optional
<1>g. source \in SourceProfile /\ source # None
  <2>1. run \in Run /\ run.read.account.user # None
    BY <1>a, <1>b DEF RunFits, RunOK
  <2>2. run.read.account.user \in User
    BY <2>1 DEF Run, Read, Account, Optional
  <2> QED
    BY <2>2, RowAssumption DEF SourceProfile
<1> HIDE DEF b, source
<1>1. OwnersOK' /\ ProfilesOK' /\ OverridesOK' /\ CandidatesOK' /\ SettingsOK'
  BY <1>a, <1>b DEF OwnersOK, ProfilesOK, OverridesOK, CandidatesOK, SettingsOK
<1>2. AccountOK' /\ EvidenceOK' /\ CallOK' /\ AdaptersOK'
  BY <1>a, <1>b DEF AccountOK, EvidenceOK, CallOK, AdaptersOK
<1>3. EvidenceFits' /\ CallFits'
  BY <1>a, <1>b, EvidenceFitsStays, CallFitsStays
<1>4. SameBatches(links')
  <2>1. CASE Applies(l)
    BY <1>a, <1>c, <1>e, <1>f, <2>1, LinkStates
  <2>2. CASE ~Applies(l)
    <3>1. links' = links /\ links \in [Beverage -> Optional(Link)]
      BY <1>a, <1>d, <2>2 DEF LinksOK
    <3> QED
      BY <3>1 DEF SameBatches
  <2> QED
    BY <2>1, <2>2
<1>5. LinksOK' /\ Listed' /\ Apart'
  BY <1>a, <1>b, <1>4, SameBatchesKeep
<1>6. \A c \in Beverage : sources'[c] = IF Applies(l) /\ c = b THEN source ELSE sources[c]
  BY <1>a, <1>c, <1>d, <1>e DEF SourcesOK
<1>7. SourcesOK'
  <2>1. CASE Applies(l)
    BY <1>a, <1>e, <1>g, <2>1 DEF SourcesOK, Optional
  <2>2. CASE ~Applies(l)
    BY <1>a, <1>d, <2>2 DEF SourcesOK
  <2> QED
    BY <2>1, <2>2
<1>8. Owned'
  <2>1. Applies(l) => sources[b] # None
    BY <1>a, <1>c, <1>f DEF Owned
  <2>2. \A c \in Beverage : sources'[c] # None <=> sources[c] # None
    BY <1>6, <1>g, <2>1
  <2>3. \A c \in Beverage : links'[c] # None <=> links[c] # None
    BY <1>4 DEF SameBatches
  <2> QED
    BY <1>a, <1>b, <2>2, <2>3 DEF Owned
<1>9. ASSUME Applies(l)
      PROVE  list \in Seq(Snapshot) /\ RecipesAgree(list, "brewfather", links[b])
  <2>1. /\ snapshots[b] \in Seq(Snapshot) /\ links[b].batch \in Batch
        /\ RecipesAgree(snapshots[b], "brewfather", links[b])
    <3>1. snapshots[b] \in Seq(Snapshot)
      BY <1>a, <1>c DEF SnapshotsOK
    <3>2. RecipesAgree(snapshots[b], "brewfather", links[b])
      BY <1>a, <1>c, <1>f, <1>9 DEF Recipes
    <3>3. links[b].batch \in Batch
      BY <1>f, <1>9 DEF Link
    <3> QED
      BY <3>1, <3>2, <3>3
  <2> QED
    BY <2>1, WithRecipeAgrees
<1> HIDE DEF list
<1>10. \A c \in Beverage : snapshots'[c] = IF Applies(l) /\ c = b THEN list ELSE snapshots[c]
  BY <1>a, <1>c, <1>d, <1>e DEF SnapshotsOK
<1>11. SnapshotsOK'
  <2>1. CASE Applies(l)
    BY <1>a, <1>e, <1>9, <2>1 DEF SnapshotsOK
  <2>2. CASE ~Applies(l)
    BY <1>a, <1>d, <2>2 DEF SnapshotsOK
  <2> QED
    BY <2>1, <2>2
<1>12. Recipes'
  <2>1. ASSUME NEW c \in Beverage PROVE RecipesAgree(snapshots'[c], owner[c], links[c])
    <3>1. RecipesAgree(snapshots[c], owner[c], links[c])
      BY <1>a DEF Recipes
    <3> QED
      BY <1>f, <1>9, <1>10, <3>1
  <2>2. ASSUME NEW c \in Beverage PROVE RecipesAgree(snapshots'[c], owner'[c], links'[c])
    <3>1. owner'[c] = owner[c]
      BY <1>b
    <3>2. owner[c] = "brewfather" => links'[c].batch = links[c].batch
      BY <1>a, <1>4 DEF SameBatches, Owned
    <3> QED
      BY <2>1, <3>1, <3>2 DEF RecipesAgree
  <2> QED
    BY <2>2 DEF Recipes
<1>13. Applies(l) => density \in Gravity
  <2>1. overrides[b] \in Override /\ fallback \in Gravity
    BY <1>a, <1>c DEF OverridesOK, SettingsOK
  <2> QED
    BY <1>g, <2>1, LinkedPresents, Densities
<1>14. Applies(l) =>
         /\ told'[b] = IF Density(b) = density THEN told[b] ELSE density
         /\ \A c \in Beverage \ {b} : told'[c] = told[c]
  <2> HIDE DEF density
  <2> QED
    BY <1>a, <1>c, <1>e DEF ToldOK, Told
<1>15. ToldOK'
  <2> HIDE DEF density
  <2>1. CASE Applies(l)
    BY <1>a, <1>e, <1>13, <2>1 DEF ToldOK, Told, Optional
  <2>2. CASE ~Applies(l)
    BY <1>a, <1>d, <2>2 DEF ToldOK
  <2> QED
    BY <2>1, <2>2
<1>16. DensityTold'
  <2>1. CASE ~Applies(l)
    BY <1>a, <1>b, <1>d, <2>1, DensityToldStays
  <2>2. CASE Applies(l)
    <3>1. \A c \in Beverage \ {b} :
            /\ owner'[c] = owner[c] /\ profiles'[c] = profiles[c] /\ sources'[c] = sources[c]
            /\ overrides'[c] = overrides[c] /\ told'[c] = told[c]
      BY <1>b, <1>6, <1>14, <2>2
    <3>2. sources'[b] = source /\ owner'[b] = "brewfather" /\ fallback' = fallback
          /\ overrides' = overrides
      BY <1>b, <1>c, <1>f, <1>6, <2>2
    <3>3. told[b] = Density(b)
      BY <1>a, <1>c, <1>f, <2>2 DEF DensityTold, Exists
    <3>4. told'[b] = density
      BY <1>14, <2>2, <3>3
    <3>5. Density(b)' = density
      BY <3>2 DEF Density, Presented
    <3> QED
      BY <1>a, <1>c, <3>1, <3>2, <3>4, <3>5, DensityOfOthers
  <2> QED
    BY <2>1, <2>2
<1>17. /\ run' \in Run /\ run'.phase = run.phase /\ run'.adapter = run.adapter
       /\ run'.read = run.read /\ run'.serial = run.serial
  BY <1>a, <1>b DEF RunOK, Run
<1>18. RunOK' /\ RunFits'
  BY <1>a, <1>b, <1>17 DEF RunOK, RunFits, NoRun
<1>19. Held'
  BY <1>a, <1>b, <1>17, HeldAlike
<1> QED
  BY <1>1, <1>2, <1>3, <1>5, <1>7, <1>8, <1>11, <1>12, <1>15, <1>16, <1>18, <1>19 DEF SyncInv

LEMMA DiscoverKeepsSync ==
  ASSUME SyncInv, NEW found \in [Batch -> Optional([fg : Optional(Gravity)])],
         NEW complete \in BOOLEAN, NEW outcome \in {"fine", "auth", "other"}, Discover(found, outcome, complete)
  PROVE  SyncInv'
<1> USE DEF SyncInv, Discover, CurrentAccount, Discovered, Release, LinkedBatches, Closed,
     LinkedNow
<1>1. OwnersOK' /\ ProfilesOK' /\ OverridesOK' /\ LinksOK' /\ SourcesOK' /\ SnapshotsOK' /\ ToldOK' /\ SettingsOK' /\ AccountOK' /\ EvidenceOK' /\ CallOK'
  BY DEF OwnersOK, ProfilesOK, OverridesOK, LinksOK, SourcesOK, SnapshotsOK, ToldOK,
     SettingsOK, AccountOK, EvidenceOK, CallOK
<1>2. Owned' /\ Apart' /\ Recipes' /\ DensityTold' /\ EvidenceFits' /\ CallFits'
  BY OwnedStays, ApartStays, RecipesStays, DensityToldStays, EvidenceFitsStays, CallFitsStays
<1>3. CandidatesOK'
  BY DEF CandidatesOK, RunOK, RunFits, Optional, SourceProfile, Account, Run, Read
<1>4. RunOK'
  <2> DEFINE e == CurrentAccount(run.read) /\ outcome # "fine"
             a == CurrentAccount(run.read) /\ (run.auth \/ outcome = "auth")
             v == run.verified \/ (CurrentAccount(run.read) /\ outcome = "fine" /\ run.read.account.discovers)
  <2>1. run' = [run EXCEPT !.phase = "done", !.adapter = 0, !.error = e, !.auth = a, !.verified = v]
    OBVIOUS
  <2>2. e \in BOOLEAN /\ a \in BOOLEAN /\ v \in BOOLEAN
    BY DEF RunOK, Run
  <2> HIDE DEF e, a, v
  <2> QED
    BY <2>1, <2>2 DEF RunOK, Run
<1>5. AdaptersOK'
  <2>1. run.adapter \in Adapter /\ Release(run.adapter) /\ cached' = cached
    BY DEF RunFits, RunOK, Run
  <2>2. Uses(run.adapter) > 0
    BY <2>1, UsesCount DEF Uses, One
  <2> QED
    BY <2>1, <2>2, ReleaseHolds
<1>6. Listed'
  <2>1. ASSUME NEW b \in Beverage, links[b] # None PROVE candidates'[links[b].batch] # None
    <3> DEFINE k == links[b].batch
               row == [fg |-> found[k].fg, user |-> run.read.account.user]
    <3>1. k \in Batch /\ k \in LinkedBatches /\ candidates[k] # None
      BY <2>1 DEF LinksOK, Listed, Optional, Link
    <3>2. found[k] # None => found[k].fg \in Optional(Gravity)
      BY <3>1 DEF Optional
    <3>3. run.read.account.user \in User
      BY DEF RunFits, RunOK, Run, Read, Account, Optional
    <3>4. found[k] # None => row # None
      BY <3>2, <3>3, RowAssumption DEF SourceProfile
    <3>5. candidates'[k] = candidates[k] \/ (found[k] # None /\ candidates'[k] = row)
      BY <3>1
    <3> QED
      BY <3>1, <3>4, <3>5
  <2> QED
    BY <2>1 DEF Listed
<1>7. RunFits'
  BY DEF RunFits
<1>8. Held'
  <2>1. run.adapter \in Adapter /\ Release(run.adapter) /\ cached' = cached
    BY DEF RunFits, RunOK, Run
  <2>2. \A a \in Adapter : Uses(a) \in Nat /\ (run.adapter = a => Uses(a) > 0)
    BY UsesCount DEF Uses, One
  <2> DEFINE r == run.adapter
  <2>3. r \in Adapter /\ Uses(r) > 0 /\ Release(r)
    BY <2>1, <2>2
  <2>4. \A a \in Adapter : call.adapter = a => Uses(a) - One(a = r) > 0
    BY <2>1, <2>2 DEF Uses, One
  <2> HIDE DEF r
  <2>5. \A a \in Adapter :
          /\ adapters'[a].uses = Uses(a) - One(a = r)
          /\ adapters'[a].open <=> Uses(a) - One(a = r) > 0 \/ a = cached
          /\ Uses(a) - One(a = r) > 0 =>
               adapters'[a].user = adapters[a].user /\ adapters'[a].key = adapters[a].key
    BY <2>1, <2>3, ReleaseHolds
  <2>6. run'.adapter = 0 /\ call' = call
    BY DEF RunOK, Run
  <2>7. \A a \in Adapter : Uses(a)' = Uses(a) - One(a = r)
    BY <2>6, NoAdapter DEF Uses, One, r
  <2> QED
    BY <2>1, <2>4, <2>5, <2>6, <2>7, NoAdapter DEF Held
<1> QED
  BY <1>1, <1>2, <1>3, <1>4, <1>5, <1>6, <1>7, <1>8 DEF SyncInv

LEMMA FinishSyncKeepsSync ==
  ASSUME SyncInv, FinishSync
  PROVE  SyncInv'
<1> USE DEF SyncInv, FinishSync, NoRun, SameObject, Refreshed, NextResult, beverageVars,
     NothingRead, Configured, NoEvidence, NoAccount, SameConfiguration
<1>1. OwnersOK' /\ ProfilesOK' /\ OverridesOK' /\ LinksOK' /\ SourcesOK' /\ SnapshotsOK' /\ CandidatesOK' /\ ToldOK' /\ SettingsOK' /\ AccountOK' /\ CallOK' /\ AdaptersOK'
  BY DEF OwnersOK, ProfilesOK, OverridesOK, LinksOK, SourcesOK, SnapshotsOK, CandidatesOK,
     ToldOK, SettingsOK, AccountOK, CallOK, AdaptersOK
<1>2. Owned' /\ Listed' /\ Apart' /\ Recipes' /\ DensityTold' /\ CallFits'
  BY OwnedStays, ListedStays, ApartStays, RecipesStays, DensityToldStays, CallFitsStays
<1>3. EvidenceOK'
  <2>1. Refreshed \in Evidence
    BY RefreshedTyped
  <2>2. NextResult(Refreshed) \in Optional(Result)
    BY <2>1, NextResultTyped
  <2> DEFINE e == Refreshed
             result == NextResult(e)
  <2>3. evidence' = IF SameObject(e) THEN [e EXCEPT !.result = result] ELSE e
    BY DEF FinishSync
  <2> HIDE DEF e, result
  <2>4. [e EXCEPT !.result = result] \in Evidence
    BY <2>1, <2>2 DEF e, result, Evidence
  <2> QED
    BY <2>1, <2>3, <2>4 DEF EvidenceOK, e
<1>4. RunOK'
  BY DEF RunOK, Optional, Account, Run, Read
<1>5. EvidenceFits'
  BY DEF EvidenceOK, EvidenceFits, RunFits, Evidence
<1>6. RunFits'
  BY DEF RunFits
<1>7. Held'
  <2>1. run.adapter = 0 /\ run'.adapter = 0
    BY DEF RunFits, NoRun
  <2>2. \A a \in Adapter : Uses(a)' = Uses(a) /\ run'.adapter # a
    BY <2>1, NoAdapter DEF Uses, One
  <2> QED
    BY <2>2 DEF Held
<1> QED
  BY <1>1, <1>2, <1>3, <1>4, <1>5, <1>6, <1>7 DEF SyncInv

LEMMA BeginCompletionKeepsSync ==
  ASSUME SyncInv, NEW b \in Beverage, BeginCompletion(b)
  PROVE  SyncInv'
<1> USE DEF SyncInv, BeginCompletion, NoCall, LinkedNow, Acquire, WhatIsRead, Expected,
     beverageVars, NothingRead, Fits, Retained, ReplacedPool, Fresh, NoAccount, Closed
<1>1. OwnersOK' /\ ProfilesOK' /\ OverridesOK' /\ LinksOK' /\ SourcesOK' /\ SnapshotsOK' /\ CandidatesOK' /\ ToldOK' /\ SettingsOK' /\ AccountOK' /\ EvidenceOK' /\ RunOK'
  BY DEF OwnersOK, ProfilesOK, OverridesOK, LinksOK, SourcesOK, SnapshotsOK, CandidatesOK,
     ToldOK, SettingsOK, AccountOK, EvidenceOK, RunOK
<1>2. Owned' /\ Listed' /\ Apart' /\ Recipes' /\ DensityTold' /\ EvidenceFits' /\ RunFits'
  BY OwnedStays, ListedStays, ApartStays, RecipesStays, DensityToldStays, EvidenceFitsStays, RunFitsStays
<1>3. CallOK'
  <2> DEFINE read == WhatIsRead
             row == Expected(b)
  <2>1. read \in Read
    BY DEF WhatIsRead, Read, AccountOK, StoredKey
  <2>2. row \in ExpectedLink
    BY DEF LinkedNow, Expected, ExpectedLink, LinksOK, Optional, Link
  <2>3. cached' \in Adapter
    BY AcquireHolds, Zenon
  <2>4. call' = [phase |-> "read", read |-> read, link |-> row, adapter |-> cached']
    OBVIOUS
  <2> HIDE DEF read, row
  <2> QED
    BY <2>1, <2>2, <2>3, <2>4 DEF CallOK, Completion, Optional
<1>4. AdaptersOK'
  BY AcquireHolds, Zenon
<1>5. CallFits'
  <2>1. Expected(b) \in ExpectedLink
    BY DEF LinkedNow, Expected, ExpectedLink, LinksOK, Optional, Link
  <2>2. cached' \in Adapter
    BY AcquireHolds, Zenon
  <2>3. Expected(b) # None
    BY <2>1, ResultAssumption
  <2>4. call'.phase = "read" /\ call'.adapter = cached' /\ call'.link = Expected(b)
    OBVIOUS
  <2> QED
    BY <2>2, <2>3, <2>4, NoAdapter DEF CallFits
<1>6. Held'
  <2>1. call.adapter = 0
    BY DEF NoCall
  <2>2. /\ cached' \in Adapter
        /\ adapters'[cached'].user = account.user /\ adapters'[cached'].key = apiKey.key
        /\ \A a \in Adapter :
             /\ adapters'[a].uses = Uses(a) + One(a = cached')
             /\ adapters'[a].open <=> Uses(a) > 0 \/ a = cached'
             /\ Uses(a) > 0 => adapters'[a].user = adapters[a].user /\ adapters'[a].key = adapters[a].key
    BY AcquireHolds, Zenon
  <2>3. /\ call'.adapter = cached' /\ call'.read.account.user = account.user
        /\ call'.read.key = apiKey.key
    BY DEF WhatIsRead
  <2>4. \A a \in Adapter : Uses(a)' = Uses(a) + One(a = cached')
    BY <2>1, <2>3, NoAdapter DEF Uses, One
  <2>5. \A a \in Adapter : Uses(a) \in Nat /\ (run.adapter = a => Uses(a) > 0)
    BY UsesCount DEF Uses, One
  <2>6. \A a \in Adapter : Uses(a)' > 0 <=> Uses(a) > 0 \/ a = cached'
    BY <2>4, <2>5 DEF One
  <2> QED
    BY <2>2, <2>3, <2>4, <2>5, <2>6 DEF Held
<1> QED
  BY <1>1, <1>2, <1>3, <1>4, <1>5, <1>6 DEF SyncInv

LEMMA EndCompletionKeepsSync ==
  ASSUME SyncInv, EndCompletion
  PROVE  SyncInv'
<1> USE DEF SyncInv, EndCompletion, NoCall, Release, beverageVars, NothingRead, Closed,
     NoAccount
<1>1. OwnersOK' /\ ProfilesOK' /\ OverridesOK' /\ LinksOK' /\ SourcesOK' /\ SnapshotsOK' /\ CandidatesOK' /\ ToldOK' /\ SettingsOK' /\ AccountOK' /\ EvidenceOK' /\ RunOK'
  BY DEF OwnersOK, ProfilesOK, OverridesOK, LinksOK, SourcesOK, SnapshotsOK, CandidatesOK,
     ToldOK, SettingsOK, AccountOK, EvidenceOK, RunOK
<1>2. Owned' /\ Listed' /\ Apart' /\ Recipes' /\ DensityTold' /\ EvidenceFits' /\ RunFits'
  BY OwnedStays, ListedStays, ApartStays, RecipesStays, DensityToldStays, EvidenceFitsStays, RunFitsStays
<1>3. CallOK'
  BY DEF CallOK, Optional, Account, Completion, Read
<1>4. AdaptersOK'
  <2>1. call.adapter \in Adapter /\ Release(call.adapter) /\ cached' = cached
    BY DEF CallFits, CallOK, Completion
  <2>2. Uses(call.adapter) > 0
    BY <2>1, UsesCount DEF Uses, One
  <2> QED
    BY <2>1, <2>2, ReleaseHolds
<1>5. CallFits'
  BY DEF CallFits
<1>6. Held'
  <2>1. call.adapter \in Adapter /\ Release(call.adapter) /\ cached' = cached
    BY DEF CallFits, CallOK, Completion
  <2>2. \A a \in Adapter : Uses(a) \in Nat /\ (call.adapter = a => Uses(a) > 0)
    BY UsesCount DEF Uses, One
  <2> DEFINE r == call.adapter
  <2>3. r \in Adapter /\ Uses(r) > 0 /\ Release(r)
    BY <2>1, <2>2
  <2>4. \A a \in Adapter : run.adapter = a => Uses(a) - One(a = r) > 0
    BY <2>1, <2>2 DEF Uses, One
  <2> HIDE DEF r
  <2>5. \A a \in Adapter :
          /\ adapters'[a].uses = Uses(a) - One(a = r)
          /\ adapters'[a].open <=> Uses(a) - One(a = r) > 0 \/ a = cached
          /\ Uses(a) - One(a = r) > 0 =>
               adapters'[a].user = adapters[a].user /\ adapters'[a].key = adapters[a].key
    BY <2>1, <2>3, ReleaseHolds
  <2>6. call'.adapter = 0 /\ run' = run
    BY DEF NoCall
  <2>7. \A a \in Adapter : Uses(a)' = Uses(a) - One(a = r)
    BY <2>6, NoAdapter DEF Uses, One, r
  <2> QED
    BY <2>1, <2>4, <2>5, <2>6, <2>7, NoAdapter DEF Held
<1> QED
  BY <1>1, <1>2, <1>3, <1>4, <1>5, <1>6 DEF SyncInv

LEMMA PatchBatchKeepsSync ==
  ASSUME SyncInv, PatchBatch
  PROVE  SyncInv'
<1> USE DEF SyncInv, PatchBatch, Eligible, beverageVars, CurrentLink, CurrentAccount,
     LinkHolds
<1>1. OwnersOK' /\ ProfilesOK' /\ OverridesOK' /\ LinksOK' /\ SourcesOK' /\ SnapshotsOK' /\ CandidatesOK' /\ ToldOK' /\ SettingsOK' /\ AccountOK' /\ EvidenceOK' /\ RunOK' /\ AdaptersOK'
  BY DEF OwnersOK, ProfilesOK, OverridesOK, LinksOK, SourcesOK, SnapshotsOK, CandidatesOK,
     ToldOK, SettingsOK, AccountOK, EvidenceOK, RunOK, AdaptersOK
<1>2. Owned' /\ Listed' /\ Apart' /\ Recipes' /\ DensityTold' /\ EvidenceFits' /\ RunFits'
  BY OwnedStays, ListedStays, ApartStays, RecipesStays, DensityToldStays, EvidenceFitsStays, RunFitsStays
<1>3. CallOK'
  BY DEF CallOK, Completion
<1>4. CallFits'
  BY DEF CallFits
<1>5. Held'
  <2>1. call'.adapter = call.adapter /\ call'.read = call.read
    BY DEF CallOK, Completion
  <2> QED
    BY <2>1, HeldAlike
<1> QED
  BY <1>1, <1>2, <1>3, <1>4, <1>5 DEF SyncInv

LEMMA SyncRestartKeepsSync ==
  ASSUME SyncInv, SyncRestart
  PROVE  SyncInv'
<1> USE DEF SyncInv, SyncRestart, NoEvidence, NoRun, NoCall, Closed, beverageVars,
     NoAccount, NothingRead
<1>1. OwnersOK' /\ ProfilesOK' /\ OverridesOK' /\ LinksOK' /\ SourcesOK' /\ SnapshotsOK' /\ CandidatesOK' /\ ToldOK' /\ SettingsOK' /\ AccountOK'
  BY DEF OwnersOK, ProfilesOK, OverridesOK, LinksOK, SourcesOK, SnapshotsOK, CandidatesOK,
     ToldOK, SettingsOK, AccountOK
<1>2. Owned' /\ Listed' /\ Apart' /\ Recipes' /\ DensityTold'
  BY OwnedStays, ListedStays, ApartStays, RecipesStays, DensityToldStays
<1>3. EvidenceOK'
  BY DEF EvidenceOK, Optional, Account, Evidence
<1>4. RunOK'
  BY DEF RunOK, Optional, Account, Run, Read
<1>5. CallOK'
  BY DEF CallOK, Optional, Account, Completion, Read
<1>6. AdaptersOK'
  BY DEF AdaptersOK, Optional, AdapterObject
<1>7. EvidenceFits'
  BY DEF EvidenceFits
<1>8. RunFits'
  BY DEF RunFits
<1>9. CallFits'
  BY DEF CallFits
<1>10. Held'
  <2>1. run'.adapter = 0 /\ call'.adapter = 0
    BY DEF NoRun, NoCall
  <2>2. \A a \in Adapter : Uses(a)' = 0 /\ run'.adapter # a /\ call'.adapter # a /\ a # cached'
    BY <2>1, NoAdapter DEF Uses, One
  <2>3. \A a \in Adapter : adapters'[a].uses = 0 /\ ~adapters'[a].open
    BY DEF Closed
  <2> QED
    BY <2>2, <2>3 DEF Held
<1> QED
  BY <1>1, <1>2, <1>3, <1>4, <1>5, <1>6, <1>7, <1>8, <1>9, <1>10 DEF SyncInv

-----------------------------------------------------------------------------
(* The invariant holds at first, and what it implies. *)

(* The invariant holds of a new process on a new database. *)
LEMMA SyncInitOK == SyncInit => SyncInv
<1> SUFFICES ASSUME SyncInit PROVE SyncInv
  OBVIOUS
<1> USE DEF SyncInit, BeverageInit
<1>1. OwnersOK /\ ProfilesOK /\ LinksOK /\ SourcesOK /\ CandidatesOK /\ ToldOK
  BY DEF OwnersOK, ProfilesOK, LinksOK, SourcesOK, CandidatesOK, ToldOK, Optional
<1>2. OverridesOK
  BY DEF OverridesOK, NoOverride, Override, Optional
<1>3. SnapshotsOK /\ Recipes
  BY NoRecipes DEF SnapshotsOK, Recipes
<1>4. SettingsOK
  BY DEF SettingsOK
<1>5. AccountOK
  BY DEF AccountOK, NoAccount, Account, StoredKey, Optional
<1>6. EvidenceOK
  BY DEF EvidenceOK, NoEvidence, NoAccount, Evidence, Account, Optional
<1>7. RunOK
  BY DEF RunOK, NoRun, Run, NothingRead, Read, NoAccount, Account, Optional
<1>8. CallOK
  BY DEF CallOK, NoCall, Completion, NothingRead, Read, NoAccount, Account, Optional
<1>9. AdaptersOK
  BY DEF AdaptersOK, Closed, AdapterObject, Optional
<1>10. Owned /\ Listed /\ Apart
  BY DEF Owned, Listed, Apart
<1>11. DensityTold
  BY DEF DensityTold, Exists
<1>12. EvidenceFits /\ RunFits /\ CallFits
  BY DEF EvidenceFits, RunFits, CallFits, NoEvidence, NoRun, NoCall
<1>13. Held
  <2>1. \A a \in Adapter : Uses(a) = 0 /\ run.adapter # a /\ call.adapter # a /\ a # cached
    BY NoAdapter DEF Uses, One, NoRun, NoCall
  <2> QED
    BY <2>1 DEF Held, Closed
<1> QED
  BY <1>1, <1>2, <1>3, <1>4, <1>5, <1>6, <1>7, <1>8, <1>9, <1>10, <1>11, <1>12, <1>13 DEF SyncInv

(* It implies the types. *)
LEMMA SyncInvTypes == SyncInv => SyncTypeOK
BY DEF SyncInv, SyncTypeOK, BeverageTypeOK, OwnersOK, ProfilesOK, OverridesOK, LinksOK, SourcesOK,
       SnapshotsOK, CandidatesOK, ToldOK, SettingsOK, AccountOK, EvidenceOK, RunOK, CallOK, AdaptersOK

(* It implies what is promised of Beverages. *)
LEMMA SyncInvBeverages == SyncInv => BeveragesSound
<1> SUFFICES ASSUME SyncInv PROVE RowsAgree
  BY DEF BeveragesSound, SyncInv
<1>1. Owned /\ Listed /\ Apart /\ Recipes /\ LinksOK /\ SnapshotsOK /\ OwnersOK
  BY DEF SyncInv
<1> SUFFICES ASSUME NEW b \in Beverage
             PROVE  /\ owner[b] = "brewfather" <=> links[b] # None
                    /\ owner[b] = "brewfather" <=> sources[b] # None
                    /\ owner[b] = "custom" <=> profiles[b] # None
                    /\ links[b] # None =>
                         /\ candidates[links[b].batch] # None
                         /\ \A c \in LinkedNow \ {b} : links[c].batch # links[b].batch
                    /\ \A i \in DOMAIN snapshots[b] :
                         LET row == snapshots[b][i] IN
                         /\ row.version = i
                         /\ row.state = "superseded" <=> i < Len(snapshots[b])
                         /\ row.state = "linked_current" => links[b] # None /\ links[b].batch = row.batch
  BY DEF RowsAgree
<1>2. /\ owner[b] = "brewfather" <=> links[b] # None
      /\ owner[b] = "brewfather" <=> sources[b] # None
      /\ owner[b] = "custom" <=> profiles[b] # None
  BY <1>1 DEF Owned
<1>3. links[b] # None => candidates[links[b].batch] # None
  BY <1>1 DEF Listed
<1>4. links[b] # None => \A c \in LinkedNow \ {b} : links[c].batch # links[b].batch
  BY <1>1 DEF Apart, LinkedNow
<1>5. RecipesAgree(snapshots[b], owner[b], links[b])
  BY <1>1 DEF Recipes
<1>6. \A i \in DOMAIN snapshots[b] :
        LET row == snapshots[b][i] IN
        /\ row.version = i
        /\ row.state = "superseded" <=> i < Len(snapshots[b])
        /\ row.state = "linked_current" => links[b] # None /\ links[b].batch = row.batch
  BY <1>2, <1>5 DEF RecipesAgree
<1> QED
  BY <1>2, <1>3, <1>4, <1>6

(* The two calls are told apart by their phases. *)
LEMMA TwoUsers ==
  ASSUME RunOK, CallOK, RunFits, CallFits, NEW a \in Adapter
  PROVE  LET users == {x \in {run, call} : x.adapter = a}
         IN Uses(a) = Cardinality(users) /\ (Uses(a) > 0 <=> users # {})
<1> DEFINE users == {x \in {run, call} : x.adapter = a}
<1>1. CASE run.adapter # a /\ call.adapter # a
  <2>1. users = {}
    BY <1>1
  <2>2. Uses(a) = 0
    BY <1>1 DEF Uses, One
  <2> QED
    BY <2>1, <2>2, FS_EmptySet
<1>2. CASE run.adapter = a /\ call.adapter # a
  <2>1. users = {run}
    BY <1>2
  <2>2. Uses(a) = 1
    BY <1>2 DEF Uses, One
  <2>3. Cardinality({run}) = 1
    BY FS_Singleton
  <2> QED
    BY <2>1, <2>2, <2>3
<1>3. CASE run.adapter # a /\ call.adapter = a
  <2>1. users = {call}
    BY <1>3
  <2>2. Uses(a) = 1
    BY <1>3 DEF Uses, One
  <2>3. Cardinality({call}) = 1
    BY FS_Singleton
  <2> QED
    BY <2>1, <2>2, <2>3
<1>4. CASE run.adapter = a /\ call.adapter = a
  <2>1. run # call
    <3>1. run.phase = "links"
      BY <1>4, NoAdapter DEF RunFits
    <3>2. call.phase \in {"none", "read", "patch"}
      BY DEF CallOK, Completion
    <3> QED
      BY <3>1, <3>2
  <2>2. users = {run} \cup {call}
    BY <1>4
  <2>3. Cardinality({run}) = 1 /\ IsFiniteSet({run})
    BY FS_Singleton
  <2>4. Cardinality({run} \cup {call}) = Cardinality({run}) + 1
    BY <2>1, <2>3, FS_AddElement, Zenon
  <2>5. Uses(a) = 2
    BY <1>4 DEF Uses, One
  <2> QED
    BY <2>2, <2>3, <2>4, <2>5
<1> QED
  BY <1>1, <1>2, <1>3, <1>4

(* It implies what is promised of the evidence and the adapters: the users of an adapter are counted. *)
LEMMA SyncInvSound == SyncInv => SyncSound
<1> SUFFICES ASSUME SyncInv PROVE EvidenceCurrent /\ AdaptersHeld
  BY DEF SyncSound
<1>1. EvidenceFits /\ RunFits /\ CallFits /\ Held /\ RunOK /\ CallOK /\ AdaptersOK
  BY DEF SyncInv
<1>2. EvidenceCurrent
  <2>1. Refreshed.result # None => Refreshed = evidence
    BY DEF Refreshed, NoEvidence
  <2> QED
    BY <1>1, <2>1 DEF EvidenceCurrent, EvidenceFits
<1>3. AdaptersHeld
  <2> DEFINE users(a) == {x \in {run, call} : x.adapter = a}
  <2>1. \A a \in Adapter : Uses(a) = Cardinality(users(a)) /\ (Uses(a) > 0 <=> users(a) # {})
    BY <1>1, TwoUsers
  <2>2. \A a \in Adapter : /\ adapters[a].open <=> users(a) # {} \/ a = cached
                           /\ adapters[a].uses = Cardinality(users(a))
    BY <1>1, <2>1 DEF Held
  <2>3. \A x \in {run, call} : x.adapter # 0 =>
          adapters[x.adapter].user = x.read.account.user /\ adapters[x.adapter].key = x.read.key
    <3>1. /\ run.adapter # 0 => run.adapter \in Adapter
          /\ call.adapter # 0 => call.adapter \in Adapter
      BY <1>1 DEF RunOK, CallOK, Run, Completion
    <3> QED
      BY <1>1, <3>1 DEF Held
  <2> QED
    BY <2>2, <2>3 DEF AdaptersHeld
<1> QED
  BY <1>2, <1>3

-----------------------------------------------------------------------------
(* Nothing stale is written, and the theorems. *)

OthersStay == UNCHANGED <<account, apiKey, evidence, run, call, adapters, cached>>

(* Where nothing that comes from Brewfather changes, nothing stale is written. *)
LEMMA SameTexts == sources' = sources /\ candidates' = candidates /\ call' = call => NothingStale
BY DEF NothingStale

(* An operation of the console on the sources. *)
LEMMA ConsoleStale ==
  ASSUME SyncInv, NEW b \in Beverage, NEW source, UNCHANGED <<candidates, call>>,
         sources' = [sources EXCEPT ![b] = source], source = None \/ owner[b] = "absent"
  PROVE  NothingStale
<1>1. \A c \in Beverage : c # b => sources'[c] = sources[c]
  BY DEF SyncInv, SourcesOK
<1>2. sources'[b] = None \/ links[b] = None
  BY DEF SyncInv, SourcesOK, Owned
<1> QED
  BY <1>1, <1>2 DEF NothingStale

(* A reply is written only under the account and the link it was asked for (isCurrentBeverageLink). *)
LEMMA ReplyBatchStale ==
  ASSUME SyncInv, NEW l \in run.links, NEW fg \in Optional(Gravity), NEW recipe \in Optional(Recipe),
         ReplyBatch(l, fg, recipe)
  PROVE  NothingStale
<1>1. candidates' = candidates /\ call' = call
  BY DEF ReplyBatch
<1>2. CASE ~Applies(l)
  BY <1>1, <1>2, SameTexts DEF ReplyBatch
<1>3. CASE Applies(l)
  <2>1. sources' = [sources EXCEPT ![l.beverage] = [fg |-> fg, user |-> run.read.account.user]]
    BY <1>3 DEF ReplyBatch, Synchronised
  <2>2. account.enabled /\ account.user = run.read.account.user
    BY <1>3 DEF Applies, CurrentLink, CurrentAccount
  <2>3. \A b \in Beverage : sources'[b] # sources[b] => sources'[b].user = account.user
    BY <2>1, <2>2 DEF SyncInv, SourcesOK
  <2> QED
    BY <1>1, <2>2, <2>3 DEF NothingStale
<1> QED
  BY <1>2, <1>3

(* Candidates are written only under the account they were listed for. *)
LEMMA DiscoverStale ==
  ASSUME SyncInv, NEW found \in [Batch -> Optional([fg : Optional(Gravity)])],
         NEW complete \in BOOLEAN, NEW outcome \in {"fine", "auth", "other"},
         Discover(found, outcome, complete)
  PROVE  NothingStale
<1>1. sources' = sources /\ call' = call
  BY DEF Discover
<1>2. CASE ~CurrentAccount(run.read)
  <2>1. candidates' = candidates
    BY <1>2 DEF Discover
  <2> QED
    BY <1>1, <2>1, SameTexts
<1>3. CASE CurrentAccount(run.read)
  <2>1. account.enabled /\ account.user = run.read.account.user /\ apiKey.key = run.read.key
    BY <1>3 DEF CurrentAccount
  <2>2. candidates' = Discovered(found, complete)
    BY <1>3 DEF Discover
  <2>3. \A k \in Batch : candidates'[k] # candidates[k] /\ candidates'[k] # None =>
          candidates'[k].user = account.user
    BY <2>1, <2>2 DEF Discovered
  <2> QED
    BY <1>1, <2>1, <2>3 DEF NothingStale
<1> QED
  BY <1>2, <1>3

(* A batch is completed only while its link stands and the Beverage has no open Fill (completionStillEligible). *)
LEMMA CallStale ==
  ASSUME SyncInv, UNCHANGED <<sources, candidates>>,
         call' = call \/ call'.phase # "patch" \/ PatchBatch
  PROVE  NothingStale
<1>1. call.phase = "read" /\ call'.phase = "patch" =>
        /\ call.link.beverage \notin filled
        /\ links[call.link.beverage] # None /\ links[call.link.beverage].batch = call.link.batch
  BY DEF PatchBatch, Eligible, CurrentLink, LinkHolds
<1> QED
  BY <1>1 DEF NothingStale

(* Every step keeps the invariant and writes nothing stale. *)
LEMMA ConsoleNext ==
  ASSUME SyncInv, ConsoleStep(Profile, Override)
  PROVE  SyncInv' /\ NothingStale
<1>a. Console(Profile, Override) /\ OthersStay
  BY DEF ConsoleStep, OthersStay
<1> USE <1>a DEF OthersStay
<1>1. ASSUME NEW b \in Beverage, NEW p \in Profile, CreateCustomBeverage(b, p) \/ UpdateCustomBeverage(b, p)
      PROVE  SyncInv' /\ NothingStale
  <2>1. sources' = sources /\ candidates' = candidates
    BY <1>1 DEF CreateCustomBeverage, UpdateCustomBeverage
  <2> QED
    BY <1>1, <2>1, SameTexts, CreateCustomBeverageKeepsSync, UpdateCustomBeverageKeepsSync
<1>2. ASSUME NEW b \in Beverage, NEW k \in Batch, NEW o \in Override, LinkBrewfatherCandidate(b, k, o)
      PROVE  SyncInv' /\ NothingStale
  <2>1. NothingStale
    BY <1>2, ConsoleStale DEF LinkBrewfatherCandidate
  <2> QED
    BY <1>2, <2>1, LinkBrewfatherCandidateKeepsSync
<1>3. ASSUME NEW b \in Beverage, NEW o \in Override, UpdatePresentationOverrides(b, o)
      PROVE  SyncInv' /\ NothingStale
  <2>1. sources' = sources /\ candidates' = candidates
    BY <1>3 DEF UpdatePresentationOverrides
  <2> QED
    BY <1>3, <2>1, SameTexts, UpdatePresentationOverridesKeepsSync
<1>4. ASSUME NEW b \in Beverage, UnlinkBeverage(b)
      PROVE  SyncInv' /\ NothingStale
  <2>1. NothingStale
    BY <1>4, ConsoleStale DEF UnlinkBeverage
  <2> QED
    BY <1>4, <2>1, UnlinkBeverageKeepsSync
<1>5. ASSUME NEW b \in Beverage, DeleteBeverage(b)
      PROVE  SyncInv' /\ NothingStale
  <2>1. NothingStale
    BY <1>5, ConsoleStale DEF DeleteBeverage
  <2> QED
    BY <1>5, <2>1, DeleteBeverageKeepsSync
<1>6. ASSUME NEW b \in Beverage, ChangeFills(b)
      PROVE  SyncInv' /\ NothingStale
  <2>1. sources' = sources /\ candidates' = candidates
    BY <1>6 DEF ChangeFills
  <2> QED
    BY <1>6, <2>1, SameTexts, ChangeFillsKeepsSync
<1>7. ASSUME NEW b \in Beverage, NEW k \in Batch, NEW recipe \in Recipe, AttachOfflineRecipe(b, k, recipe)
      PROVE  SyncInv' /\ NothingStale
  <2>1. sources' = sources /\ candidates' = candidates
    BY <1>7 DEF AttachOfflineRecipe
  <2> QED
    BY <1>7, <2>1, SameTexts, AttachOfflineRecipeKeepsSync
<1>8. ASSUME NEW gravity \in Gravity, UpdateBeverageSettings(gravity)
      PROVE  SyncInv' /\ NothingStale
  <2>1. sources' = sources /\ candidates' = candidates
    BY <1>8 DEF UpdateBeverageSettings
  <2> QED
    BY <1>8, <2>1, SameTexts, UpdateBeverageSettingsKeepsSync
<1> QED
  BY <1>1, <1>2, <1>3, <1>4, <1>5, <1>6, <1>7, <1>8 DEF Console

LEMMA AccountNext ==
  ASSUME SyncInv, AccountStep
  PROVE  SyncInv' /\ NothingStale
<1>1. ASSUME NEW user \in User, NEW enabled \in BOOLEAN, NEW discovers \in BOOLEAN,
             NEW key \in Optional(ApiKey), ConfigureAccount(user, enabled, discovers, key)
      PROVE  SyncInv' /\ NothingStale
  <2>1. sources' = sources /\ candidates' = candidates /\ call' = call
    BY <1>1 DEF ConfigureAccount
  <2> QED
    BY <1>1, <2>1, SameTexts, ConfigureAccountKeepsSync
<1>2. ASSUME RemoveApiKey
      PROVE  SyncInv' /\ NothingStale
  <2>1. sources' = sources /\ candidates' = candidates /\ call' = call
    BY <1>2 DEF RemoveApiKey, beverageVars
  <2> QED
    BY <1>2, <2>1, SameTexts, RemoveApiKeyKeepsSync
<1> QED
  BY <1>1, <1>2 DEF AccountStep

LEMMA RunNext ==
  ASSUME SyncInv, SyncStep(Optional(Gravity))
  PROVE  SyncInv' /\ NothingStale
<1>1. CASE BeginSync \/ FinishSync
  <2>1. sources' = sources /\ candidates' = candidates /\ call' = call
    BY <1>1 DEF BeginSync, FinishSync, beverageVars
  <2> QED
    BY <1>1, <2>1, SameTexts, BeginSyncKeepsSync, FinishSyncKeepsSync
<1>2. CASE SyncRestart
  <2>1. sources' = sources /\ candidates' = candidates /\ call'.phase # "patch"
    BY <1>2 DEF SyncRestart, beverageVars, NoCall
  <2> QED
    BY <1>2, <2>1, CallStale, SyncRestartKeepsSync
<1>3. ASSUME NEW l \in run.links, ReplyMissing(l)
      PROVE  SyncInv' /\ NothingStale
  <2>1. sources' = sources /\ candidates' = candidates /\ call' = call
    BY <1>3 DEF ReplyMissing
  <2> QED
    BY <1>3, <2>1, SameTexts, ReplyMissingKeepsSync
<1>4. ASSUME NEW l \in run.links, NEW auth \in BOOLEAN, NEW verified \in BOOLEAN,
             ReplyError(l, auth, verified)
      PROVE  SyncInv' /\ NothingStale
  <2>1. sources' = sources /\ candidates' = candidates /\ call' = call
    BY <1>4 DEF ReplyError
  <2> QED
    BY <1>4, <2>1, SameTexts, ReplyErrorKeepsSync
<1>5. ASSUME NEW l \in run.links, NEW fg \in Optional(Gravity), NEW recipe \in Optional(Recipe),
             ReplyBatch(l, fg, recipe)
      PROVE  SyncInv' /\ NothingStale
  BY <1>5, ReplyBatchStale, ReplyBatchKeepsSync
<1>6. ASSUME NEW found \in [Batch -> Optional([fg : Optional(Gravity)])],
             NEW complete \in BOOLEAN, NEW outcome \in {"fine", "auth", "other"},
             Discover(found, outcome, complete)
      PROVE  SyncInv' /\ NothingStale
  BY <1>6, DiscoverStale, DiscoverKeepsSync
<1>7. ASSUME NEW b \in Beverage, BeginCompletion(b)
      PROVE  SyncInv' /\ NothingStale
  <2>1. sources' = sources /\ candidates' = candidates /\ call'.phase # "patch"
    BY <1>7 DEF BeginCompletion, beverageVars
  <2> QED
    BY <1>7, <2>1, CallStale, BeginCompletionKeepsSync
<1>8. CASE EndCompletion
  <2>1. sources' = sources /\ candidates' = candidates /\ call'.phase # "patch"
    BY <1>8 DEF EndCompletion, beverageVars, NoCall
  <2> QED
    BY <1>8, <2>1, CallStale, EndCompletionKeepsSync
<1>9. CASE PatchBatch
  <2>1. sources' = sources /\ candidates' = candidates
    BY <1>9 DEF PatchBatch, beverageVars
  <2> QED
    BY <1>9, <2>1, CallStale, PatchBatchKeepsSync
<1> QED
  BY <1>1, <1>2, <1>3, <1>4, <1>5, <1>6, <1>7, <1>8, <1>9 DEF SyncStep

LEMMA SyncInvStays ==
  ASSUME SyncInv, UNCHANGED syncVars
  PROVE  SyncInv' /\ NothingStale
<1>1. UNCHANGED <<owner, profiles, links, sources, overrides, snapshots, candidates, fallback,
                  filled, told, stamp, account, apiKey, evidence, run, call, adapters, cached>>
  BY DEF syncVars, beverageVars
<1>2. /\ (OwnersOK /\ ProfilesOK /\ OverridesOK /\ LinksOK /\ SourcesOK /\ SnapshotsOK)'
      /\ (CandidatesOK /\ ToldOK /\ SettingsOK /\ AccountOK /\ EvidenceOK /\ RunOK /\ CallOK)'
      /\ AdaptersOK'
  BY <1>1 DEF SyncInv, OwnersOK, ProfilesOK, OverridesOK, LinksOK, SourcesOK, SnapshotsOK,
       CandidatesOK, ToldOK, SettingsOK, AccountOK, EvidenceOK, RunOK, CallOK, AdaptersOK
<1>3. /\ (Owned /\ Listed /\ Apart /\ Recipes /\ DensityTold)'
      /\ (EvidenceFits /\ RunFits /\ CallFits /\ Held)'
  BY <1>1, OwnedStays, ListedStays, ApartStays, RecipesStays, DensityToldStays, EvidenceFitsStays,
     RunFitsStays, CallFitsStays, HeldStays DEF SyncInv
<1>4. NothingStale
  BY <1>1, SameTexts
<1> QED
  BY <1>2, <1>3, <1>4 DEF SyncInv

LEMMA SyncInvNext ==
  ASSUME SyncInv, [SyncNext]_syncVars
  PROVE  SyncInv' /\ NothingStale
BY ConsoleNext, AccountNext, RunNext, SyncInvStays DEF SyncNext

(* The invariant always holds. *)
LEMMA SyncAlways == SyncSpec => []SyncInv
<1>1. SyncInv /\ [SyncNext]_syncVars => SyncInv'
  BY SyncInvNext
<1> QED
  BY <1>1, SyncInitOK, PTL DEF SyncSpec

(* Beverages, links, the account, runs and adapters keep their types (BeverageService). *)
THEOREM SyncTypes == SyncSpec => []SyncTypeOK
BY SyncAlways, SyncInvTypes, PTL

(* However edits, unlinking, deletion and replies interleave, the rows about a Beverage agree     *)
(* with who owns it, and telemetry counts with its effective density (onEffectiveDensityChanged). *)
THEOREM BeveragesAreSound == SyncSpec => []BeveragesSound
BY SyncAlways, SyncInvBeverages, PTL

(* What the console shows of the connection was learned under the account and key of now, and *)
(* an adapter is open exactly while it is used or cached (#recordBrewfatherSyncEvidence,      *)
(* #releaseAdapter).                                                                          *)
THEOREM SyncIsSound == SyncSpec => []SyncSound
BY SyncAlways, SyncInvSound, PTL

(* No step writes what was asked for under another account, key or link, or completes a batch *)
(* that is on tap again (currentAccount, completionStillEligible).                            *)
THEOREM NothingGetsStale == SyncSpec => NeverStale
<1>1. SyncInv /\ [SyncNext]_syncVars => [NothingStale]_syncVars
  BY SyncInvNext
<1> QED
  BY <1>1, SyncAlways, PTL DEF SyncSpec, NeverStale

-----------------------------------------------------------------------------
(* HEALTH CHECKS.  The list of a check's incidents: in order of time, the last one at the level of the verdict. *)

(* The incidents of one check, at the time `now`: what IncidentsSound says of them *)
(* and that none is from the future.                                               *)
TimesFit(list, now) ==
  /\ \A i \in 1 .. Len(list) :
       /\ list[i].opened <= now
       /\ list[i].resolved # None =>
            list[i].opened <= list[i].resolved /\ list[i].resolved <= now
  /\ \A i \in 1 .. Len(list) : i < Len(list) =>
       list[i].resolved # None /\ list[i].resolved <= list[i + 1].opened
LevelFits(list, row, retired) ==
  /\ IsOpen(list) =>
       /\ ~retired /\ list[Len(list)].level = row.verdict
       /\ row.verdict = "critical" => list[Len(list)].worst = "critical"
  /\ Alarm(row.verdict) /\ ~IsOpen(list) => row.cooldown # None /\ row.cooldown > row.evaluated

(* The thresholds are numbers. *)
LEMMA Sizes ==
  /\ Volume \subseteq Nat /\ Threshold \in Nat /\ Critical \in Nat /\ Settling \in Nat
  /\ Loss \in Nat /\ Grace \in Nat /\ Suppressed \in Nat /\ Movement \in Nat /\ Duration \in Nat
  /\ CleaningDue \in Nat /\ CleaningOverdue \in Nat /\ MaxCooldown \in Nat /\ Retention \in Nat
  /\ Skew \in Nat /\ MaxMoment \in Nat /\ MaxEpoch \in Nat
  /\ Degraded \in Nat \ {0} /\ Unavailable \in Nat \ {0} /\ LeakWindow \in Nat \ {0}
  /\ MaxSamples \in Nat \ {0}
BY HealthAssumption

LEMMA Instants ==
  /\ Instant \subseteq Nat /\ 0 .. MaxMoment \subseteq Instant
  /\ \A x \in Maybe(Instant) : x # None => x \in Nat
  /\ \A x \in Instant : x # None
BY Sizes, NoneAssumption DEF Maybe, Instant

(* Order of time and level, as time passes. *)
LEMMA TimesPass ==
  ASSUME NEW list \in Seq(Incident), NEW now \in Nat, NEW then \in Nat, now <= then,
         TimesFit(list, now)
  PROVE  TimesFit(list, then)
<1>1. \A i \in 1 .. Len(list) :
        list[i].opened \in Nat /\ (list[i].resolved # None => list[i].resolved \in Nat)
  <2>1. \A i \in 1 .. Len(list) : list[i] \in Incident
    OBVIOUS
  <2>2. \A i \in 1 .. Len(list) : list[i].opened \in Instant /\ list[i].resolved \in Maybe(Instant)
    BY <2>1 DEF Incident
  <2> QED
    BY <2>2, Instants
<1> QED
  BY <1>1 DEF TimesFit

(* What becomes of an incident in one evaluation. *)
Goes(old, new) ==
  /\ new.opened = old.opened
  /\ old.resolved # None => new = old
  /\ old.worst = "critical" => new.worst = "critical"
  /\ old.acknowledged => new.acknowledged

(* After the verdict the list is in order, at its level, and goes on (#syncIncident). *)
LEMMA SyncedFits ==
  ASSUME NEW list \in Seq(Incident), NEW row \in Row, NEW retired \in BOOLEAN,
         time \in Nat, time' \in 0 .. MaxMoment, time <= time', TimesFit(list, time),
         row.evaluated = time', row.cooldown # None => row.cooldown > time',
         retired => ~Alarm(row.verdict)
  PROVE  /\ Synced(list, row) \in Seq(Incident)
         /\ TimesFit(Synced(list, row), time')
         /\ LevelFits(Synced(list, row), row, retired)
         /\ Len(list) <= Len(Synced(list, row))
         /\ \A i \in 1 .. Len(list) :
              /\ Goes(list[i], Synced(list, row)[i])
              /\ Synced(list, row)[i].resolved \in {list[i].resolved, time'}
<1> DEFINE n == Len(list)
<1>1. /\ n \in Nat /\ DOMAIN list = 1 .. n /\ \A i \in 1 .. n : list[i] \in Incident
      /\ list # <<>> <=> n # 0
  OBVIOUS
<1>2. time' \in Instant /\ time' \in Nat /\ time' # None
  BY Instants
<1>3. TimesFit(list, time')
  BY <1>2, TimesPass
<1>4. IsOpen(list) <=> n # 0 /\ list[n].resolved = None
  BY <1>1 DEF IsOpen
<1>5. \A i \in 1 .. n : Goes(list[i], list[i])
  BY DEF Goes
<1>6. CASE Alarm(row.verdict) /\ IsOpen(list)
  <2> DEFINE last == list[n]
             worst == IF row.verdict = "critical" THEN "critical" ELSE last.worst
             new == [last EXCEPT !.level = row.verdict, !.worst = worst]
             all == [list EXCEPT ![n] = new]
  <2>1. n \in 1 .. n /\ last \in Incident /\ last.resolved = None
    BY <1>1, <1>4, <1>6
  <2>2. row.verdict \in {"warning", "critical"} /\ worst \in {"warning", "critical"}
    BY <1>6, <2>1 DEF Alarm, Incident
  <2>3. Synced(list, row) = all
    <3>1. Synced(list, row) = [list EXCEPT ![n].level = row.verdict,
                                           ![n].worst = IF row.verdict = "critical" THEN "critical" ELSE @]
      BY <1>6 DEF Synced
    <3>2. all = [list EXCEPT ![n].level = row.verdict,
                             ![n].worst = IF row.verdict = "critical" THEN "critical" ELSE @]
      BY <2>1, <1>1 DEF Incident
    <3> QED
      BY <3>1, <3>2
  <2> HIDE DEF worst
  <2> DEFINE old == last
  <2> HIDE DEF last
  <2>4. /\ new \in Incident /\ new.level = row.verdict /\ new.worst = worst /\ new.opened = last.opened
        /\ new.resolved = last.resolved /\ new.acknowledged = last.acknowledged
    BY <2>1, <2>2 DEF Incident
  <2> HIDE DEF new
  <2>5. all \in Seq(Incident) /\ Len(all) = n /\ \A i \in 1 .. n : all[i] = IF i = n THEN new ELSE list[i]
    BY <1>1, <2>1, <2>4
  <2> HIDE DEF all
  <2>6. \A i \in 1 .. n : all[i].opened = list[i].opened /\ all[i].resolved = list[i].resolved
    BY <2>4, <2>5 DEF last
  <2>7. TimesFit(all, time')
    <3> HIDE DEF n
    <3>1. Len(list) = n
      BY DEF n
    <3>2. \A i \in 1 .. n : i < n => i + 1 \in 1 .. n
      BY <1>1
    <3> QED
      BY <1>3, <2>5, <2>6, <3>1, <3>2 DEF TimesFit
  <2>8. all[n] = new /\ IsOpen(all)
    BY <2>1, <2>4, <2>5, <1>1 DEF IsOpen
  <2>9. LevelFits(all, row, retired)
    BY <1>6, <2>4, <2>5, <2>8, Zenon DEF LevelFits, worst
  <2>10. \A i \in 1 .. n : Goes(list[i], all[i])
    BY <1>5, <2>1, <2>4, <2>5 DEF Goes, last, worst
  <2> QED
    BY <2>3, <2>5, <2>6, <2>7, <2>9, <2>10, <1>1
<1>7. CASE Alarm(row.verdict) /\ ~IsOpen(list) /\ row.cooldown = None
  <2> DEFINE new == NewIncident(row.verdict)
             all == Append(list, new)
  <2>1. Synced(list, row) = all
    BY <1>7 DEF Synced
  <2>2. /\ new \in Incident /\ new.level = row.verdict /\ new.worst = row.verdict
        /\ new.opened = time' /\ new.resolved = None
    BY <1>2, <1>7 DEF NewIncident, Incident, Alarm, Maybe
  <2> HIDE DEF new
  <2>3. /\ all \in Seq(Incident) /\ Len(all) = n + 1
        /\ \A i \in 1 .. n : all[i] = list[i]
        /\ all[n + 1] = new
    BY <1>1, <2>2
  <2>4. all[n + 1] = new /\ all # <<>>
    BY <1>1, <2>2, <2>3
  <2> HIDE DEF all
  <2>5. IsOpen(all)
    BY <2>2, <2>3, <2>4 DEF IsOpen
  <2>6. TimesFit(all, time')
    <3> HIDE DEF n
    <3>1. Len(list) = n
      BY DEF n
    <3>2. \A i \in 1 .. n + 1 : i \in 1 .. n \/ i = n + 1
      BY <1>1
    <3>3. \A i \in 1 .. n + 1 : /\ all[i].opened <= time'
                                /\ all[i].resolved # None =>
                                     all[i].opened <= all[i].resolved /\ all[i].resolved <= time'
      BY <1>2, <1>3, <2>2, <2>3, <2>4, <3>1, <3>2 DEF TimesFit
    <3>4. \A i \in 1 .. n + 1 : i < n + 1 => i \in 1 .. n /\ (i < n => i + 1 \in 1 .. n)
      BY <1>1
    <3>5. n # 0 => list[n].resolved # None /\ list[n].resolved <= time'
      BY <1>1, <1>3, <1>4, <1>7, <3>1 DEF TimesFit
    <3>6. ASSUME NEW i \in 1 .. n + 1, i < n + 1
          PROVE  all[i].resolved # None /\ all[i].resolved <= all[i + 1].opened
      <4>1. CASE i < n
        BY <1>3, <2>3, <3>1, <3>4, <3>6, <4>1 DEF TimesFit
      <4>2. CASE i = n
        BY <1>1, <2>2, <2>3, <2>4, <3>4, <3>5, <3>6, <4>2
      <4> QED
        BY <1>1, <3>4, <3>6, <4>1, <4>2
    <3> QED
      BY <2>3, <3>3, <3>6 DEF TimesFit
  <2>7. LevelFits(all, row, retired)
    BY <1>7, <2>2, <2>3, <2>4, <2>5 DEF LevelFits
  <2>8. \A i \in 1 .. n : Goes(list[i], all[i]) /\ all[i].resolved = list[i].resolved
    BY <1>5, <2>3
  <2> QED
    BY <1>1, <2>1, <2>3, <2>6, <2>7, <2>8
<1>8. CASE ~Alarm(row.verdict) /\ IsOpen(list)
  <2> DEFINE last == list[n]
             new == [last EXCEPT !.resolved = time']
             all == [list EXCEPT ![n] = new]
  <2>1. n \in 1 .. n /\ last \in Incident /\ last.resolved = None
    BY <1>1, <1>4, <1>8
  <2>2. Synced(list, row) = all
    BY <1>8 DEF Synced
  <2> HIDE DEF last
  <2>3. /\ new \in Incident /\ new.worst = last.worst /\ new.opened = last.opened
        /\ new.resolved = time' /\ new.acknowledged = last.acknowledged
    BY <1>2, <2>1 DEF Incident, Maybe
  <2> HIDE DEF new
  <2>4. all \in Seq(Incident) /\ Len(all) = n /\ \A i \in 1 .. n : all[i] = IF i = n THEN new ELSE list[i]
    BY <1>1, <2>1, <2>3
  <2> HIDE DEF all
  <2>5. \A i \in 1 .. n : all[i].opened = list[i].opened
    BY <2>3, <2>4 DEF last
  <2>6. \A i \in 1 .. n : i # n => all[i].resolved = list[i].resolved
    BY <2>4
  <2>7. last.opened <= time' /\ all[n] = new
    BY <1>3, <2>1, <2>4 DEF TimesFit, last
  <2>8. TimesFit(all, time')
    <3> HIDE DEF n
    <3>1. Len(list) = n
      BY DEF n
    <3>2. \A i \in 1 .. n : i < n => i + 1 \in 1 .. n /\ i # n
      BY <1>1
    <3>3. ASSUME NEW i \in 1 .. n
          PROVE  /\ all[i].opened <= time'
                 /\ all[i].resolved # None =>
                      all[i].opened <= all[i].resolved /\ all[i].resolved <= time'
      <4>1. CASE i = n
        BY <4>1, <1>2, <2>3, <2>7
      <4>2. CASE i # n
        BY <4>2, <1>3, <2>4, <3>1 DEF TimesFit
      <4> QED
        BY <4>1, <4>2
    <3> QED
      BY <1>3, <2>4, <2>5, <2>6, <3>1, <3>2, <3>3 DEF TimesFit
  <2>9. ~IsOpen(all)
    BY <1>2, <2>3, <2>4, <2>7 DEF IsOpen
  <2>10. LevelFits(all, row, retired)
    BY <1>8, <2>9 DEF LevelFits
  <2>11. \A i \in 1 .. n : Goes(list[i], all[i]) /\ all[i].resolved \in {list[i].resolved, time'}
    BY <1>5, <2>1, <2>3, <2>4 DEF Goes, last
  <2> QED
    BY <2>2, <2>4, <2>8, <2>10, <2>11, <1>1
<1>9. CASE ~(Alarm(row.verdict) /\ IsOpen(list)) /\ ~(~Alarm(row.verdict) /\ IsOpen(list))
           /\ ~(Alarm(row.verdict) /\ ~IsOpen(list) /\ row.cooldown = None)
  <2>1. Synced(list, row) = list
    BY <1>9, Zenon DEF Synced
  <2>2. LevelFits(list, row, retired)
    BY <1>9 DEF LevelFits
  <2> QED
    BY <1>1, <1>3, <1>5, <2>1, <2>2
<1> QED
  BY <1>6, <1>7, <1>8, <1>9

(* The expired incidents are the first of a list in order. *)
LEMMA ExpiredFirst ==
  ASSUME NEW list \in Seq(Incident), time' \in 0 .. MaxMoment, TimesFit(list, time')
  PROVE  \E k \in 0 .. Len(list) :
           /\ Kept(list) = SubSeq(list, k + 1, Len(list))
           /\ \A i \in 1 .. Len(list) : i <= k <=> Expired(list[i])
<1> DEFINE n == Len(list)
           gone == {i \in 1 .. n : Expired(list[i])}
           rest == (1 .. n + 1) \ gone
<1>1. n \in Nat /\ DOMAIN list = 1 .. n /\ time' \in Int /\ Retention \in Int
  BY Sizes
<1>2. \A i \in 1 .. n : list[i].opened \in Nat /\ (list[i].resolved # None => list[i].resolved \in Nat)
  <2>1. \A i \in 1 .. n : list[i] \in Incident
    OBVIOUS
  <2>2. \A i \in 1 .. n : list[i].opened \in Instant /\ list[i].resolved \in Maybe(Instant)
    BY <2>1 DEF Incident
  <2> QED
    BY <2>2, Instants
<1>3. \A i \in 1 .. n : i < n /\ i + 1 \in gone => i \in gone
  <2> SUFFICES ASSUME NEW i \in 1 .. n, i < n, i + 1 \in gone
               PROVE  Expired(list[i])
    OBVIOUS
  <2>1. i + 1 \in 1 .. n
    BY <1>1
  <2>2. /\ list[i].resolved # None /\ list[i].resolved <= list[i + 1].opened
        /\ list[i + 1].resolved # None /\ list[i + 1].opened <= list[i + 1].resolved
        /\ list[i + 1].resolved < time' - Retention
    BY <2>1 DEF TimesFit, Expired
  <2>3. list[i].resolved < time' - Retention
    BY <1>1, <1>2, <2>1, <2>2
  <2> QED
    BY <2>2, <2>3 DEF Expired
<1>4. \E m \in rest : \A y \in rest : m <= y
  <2>1. rest \in SUBSET Nat /\ n + 1 \in rest
    BY <1>1
  <2> QED
    BY <2>1, Least
<1>5. PICK m \in rest : \A y \in rest : m <= y
  BY <1>4
<1>6. m \in 1 .. n + 1 /\ \A i \in 1 .. n : i < m => i \in gone
  BY <1>1, <1>5
<1>7. \A i \in 1 .. n : i >= m => i \notin gone
  <2> DEFINE odd == {i \in gone : i >= m}
  <2>1. SUFFICES ASSUME odd # {} PROVE FALSE
    OBVIOUS
  <2>2. odd \in SUBSET Nat
    BY <1>1
  <2>3. PICK x \in odd : \A y \in odd : x <= y
    BY <2>1, <2>2, Least
  <2>4. x \in gone /\ x >= m /\ x \in 1 .. n
    BY <1>5, <2>3
  <2>5. x - 1 \in 1 .. n /\ x - 1 < n /\ (x - 1) + 1 = x /\ x - 1 >= m
    BY <1>1, <1>5, <1>6, <2>3
  <2>6. x - 1 \in gone
    BY <1>3, <2>3, <2>5
  <2>7. x - 1 \in odd
    BY <2>5, <2>6
  <2> QED
    BY <2>3, <2>5, <2>7, <1>1
<1>8. gone = 1 .. m - 1 /\ m - 1 \in 0 .. n
  BY <1>1, <1>6, <1>7
<1>9. Cardinality(1 .. m - 1) = m - 1
  BY <1>6, <1>1, FS_Interval
<1>10. Kept(list) = SubSeq(list, 1 + (m - 1), n)
  <2>1. gone = {i \in DOMAIN list : Expired(list[i])}
    BY <1>1
  <2>2. Kept(list) = SubSeq(list, 1 + Cardinality(gone), n)
    BY <2>1 DEF Kept
  <2> QED
    BY <2>2, <1>8, <1>9
<1>11. /\ Kept(list) = SubSeq(list, (m - 1) + 1, n)
       /\ \A i \in 1 .. n : i <= m - 1 <=> Expired(list[i])
  <2>1. 1 + (m - 1) = (m - 1) + 1
    BY <1>6, <1>1
  <2>2. \A i \in 1 .. n : i <= m - 1 <=> i \in gone
    BY <1>8, <1>1
  <2> QED
    BY <1>10, <2>1, <2>2
<1> QED
  BY <1>8, <1>11

(* What is kept is in order, it ends as the list did, and what is not is expired. *)
LEMMA KeptFits ==
  ASSUME NEW list \in Seq(Incident), time' \in 0 .. MaxMoment, TimesFit(list, time'),
         NEW row \in Row, NEW retired \in BOOLEAN, LevelFits(list, row, retired)
  PROVE  /\ Kept(list) \in Seq(Incident) /\ TimesFit(Kept(list), time')
         /\ LevelFits(Kept(list), row, retired)
         /\ \A i \in 1 .. Len(list) :
              Expired(list[i]) \/ \E j \in 1 .. Len(Kept(list)) : Kept(list)[j] = list[i]
<1> DEFINE n == Len(list)
<1>1. PICK k \in 0 .. n : /\ Kept(list) = SubSeq(list, k + 1, n)
                          /\ \A i \in 1 .. n : i <= k <=> Expired(list[i])
  BY ExpiredFirst
<1>2. n \in Nat /\ k \in Nat /\ \A i \in 1 .. n : list[i] \in Incident
  BY <1>1
<1> DEFINE all == SubSeq(list, k + 1, n)
<1>3. /\ all \in Seq(Incident) /\ Len(all) = n - k
      /\ \A i \in 1 .. n - k : all[i] = list[k + i]
  <2>1. \A i \in (k + 1) .. n : list[i] \in Incident
    BY <1>2
  <2>2. all \in Seq(Incident)
    BY <1>2, <2>1
  <2>3. Len(all) = n - k
    BY <1>1, <1>2
  <2>4. \A i \in 1 .. n - k : all[i] = list[k + i]
    BY <1>1, <1>2
  <2> QED
    BY <2>2, <2>3, <2>4
<1> HIDE DEF all
<1>4. \A i \in 1 .. n - k : /\ k + i \in 1 .. n /\ (i < n - k => k + i < n)
                            /\ (i < n - k => i + 1 \in 1 .. n - k /\ k + (i + 1) = (k + i) + 1)
  BY <1>1, <1>2
<1>5. TimesFit(all, time')
  <2>1. \A i \in 1 .. n - k : /\ all[i].opened <= time'
                              /\ all[i].resolved # None =>
                                   all[i].opened <= all[i].resolved /\ all[i].resolved <= time'
    BY <1>3, <1>4 DEF TimesFit
  <2>2. ASSUME NEW i \in 1 .. n - k, i < n - k
        PROVE  all[i].resolved # None /\ all[i].resolved <= all[i + 1].opened
    <3>1. list[k + i].resolved # None /\ list[k + i].resolved <= list[(k + i) + 1].opened
      BY <1>4, <2>2 DEF TimesFit
    <3>2. all[i] = list[k + i] /\ all[i + 1] = list[(k + i) + 1]
      BY <1>3, <1>4, <2>2
    <3> QED
      BY <3>1, <3>2
  <2> QED
    BY <1>3, <2>1, <2>2 DEF TimesFit
<1>6. IsOpen(list) => k < n
  <2>1. IsOpen(list) => n # 0 /\ list[n].resolved = None
    BY <1>2 DEF IsOpen
  <2>2. IsOpen(list) => ~Expired(list[n])
    BY <2>1 DEF Expired
  <2> QED
    BY <2>1, <2>2, <1>1, <1>2
<1>7. k < n => all # <<>> /\ all[n - k] = list[n] /\ list # <<>>
  BY <1>1, <1>2, <1>3
<1>8. k >= n => all = <<>>
  BY <1>1, <1>2, <1>3
<1>9. /\ IsOpen(all) <=> IsOpen(list)
      /\ IsOpen(all) => all[Len(all)] = list[n]
  BY <1>1, <1>2, <1>3, <1>6, <1>7, <1>8 DEF IsOpen
<1>10. LevelFits(all, row, retired)
  BY <1>9 DEF LevelFits
<1>11. \A i \in 1 .. n : Expired(list[i]) \/ \E j \in 1 .. n - k : all[j] = list[i]
  <2> SUFFICES ASSUME NEW i \in 1 .. n, ~Expired(list[i])
               PROVE  \E j \in 1 .. n - k : all[j] = list[i]
    OBVIOUS
  <2>1. i - k \in 1 .. n - k /\ k + (i - k) = i
    BY <1>1, <1>2
  <2> QED
    BY <2>1, <1>3
<1>12. Kept(list) = all
  BY <1>1 DEF all
<1> QED
  BY <1>3, <1>5, <1>10, <1>11, <1>12

-----------------------------------------------------------------------------
(* What each check finds. *)

Found == [verdict : Verdict, since : Maybe(Instant), observed : Maybe(Instant),
          until : Maybe(Nat)]

(* What a check finds is a finding. *)
LEMMA OnlyFound ==
  ASSUME NEW verdict \in Verdict
  PROVE  /\ Only(verdict) \in Found
         /\ Only(verdict).verdict = verdict /\ Only(verdict).since = None
         /\ Only(verdict).observed = None /\ Only(verdict).until = None
BY DEF Only, Found, Maybe

LEMMA Verdicts ==
  /\ {"not_configured", "healthy", "degraded", "warning", "critical"} \subseteq Verdict
  /\ \A v \in {"not_configured", "healthy", "degraded"} : ~Alarm(v)
BY DEF Verdict, Alarm

(* The row an evaluation begins with. *)
LEMMA CarriedRow ==
  ASSUME NEW row \in Row, NEW t \in Tap
  PROVE  /\ Carried(row, t) \in Row
         /\ Carried(row, t).until = row.until
         /\ \/ Carried(row, t).since = None /\ Carried(row, t).observed = None
            \/ Carried(row, t) = row /\ (t.epoch # 0 => "epoch" \notin t.renewed)
BY DEF Carried, Row, Maybe

(* The timer of the low-keg check runs while the volume is settled below the threshold. *)
LEMMA LowKegFinds ==
  ASSUME NEW row \in Row, NEW t \in Tap, NEW now \in 0 .. MaxMoment
  PROVE  LET f == LowKeg(row, t, now)
         IN /\ f \in Found
            /\ f.since # None =>
                 /\ t.epoch # 0 /\ t.volume # None /\ t.volume < Threshold
                 /\ f.since = now \/ f.since = row.since
            /\ Alarm(f.verdict) => f.since # None /\ now - f.since >= Settling
<1> DEFINE read == t.epoch # 0 /\ t.phase # "waiting" /\ t.volume # None
           settled == read /\ t.phase = "ready" /\ Recent(t.sample.at, now)
           low == settled /\ t.volume < Threshold
           since == IF row.since # None /\ row.since <= now THEN row.since ELSE now
           verdict == IF now - since < Settling THEN "degraded"
                      ELSE IF t.volume <= Critical THEN "critical" ELSE "warning"
           f == LowKeg(row, t, now)
<1>1. now \in Instant /\ now # None /\ row.since \in Maybe(Instant)
  BY Instants DEF Row
<1>2. since \in Instant /\ since # None /\ (since = now \/ since = row.since)
  BY <1>1 DEF Maybe
<1>3. verdict \in Verdict /\ (Alarm(verdict) => now - since >= Settling)
  <2>1. verdict = "degraded" \/ (verdict \in {"critical", "warning"} /\ ~(now - since < Settling))
    BY Zenon
  <2>2. now \in Int /\ since \in Int /\ Settling \in Int
    BY <1>1, <1>2, Instants, Sizes
  <2>3. ~(now - since < Settling) => now - since >= Settling
    BY <2>2
  <2> QED
    BY <2>1, <2>3 DEF Verdict, Alarm
<1> HIDE DEF since, verdict
<1>4. CASE low
  <2>1. f = [Only(verdict) EXCEPT !.since = since]
    BY <1>4, Zenon DEF LowKeg, since, verdict
  <2>2. /\ f \in Found /\ f.since = since /\ f.verdict = verdict
    BY <2>1, <1>2, <1>3 DEF Only, Found, Maybe
  <2> QED
    BY <2>2, <1>2, <1>3, <1>4
<1>5. CASE ~low
  <2>1. f \in {Only("not_configured"), Only("degraded"), Only("healthy")}
    BY <1>5 DEF LowKeg
  <2> QED
    BY <2>1, OnlyFound, Verdicts
<1> QED
  BY <1>4, <1>5

(* The scale check keeps no timer. *)
LEMMA ScaleAvailabilityFinds ==
  ASSUME NEW row \in Row, NEW t \in Tap, NEW now \in 0 .. MaxMoment
  PROVE  ScaleAvailability(row, t, now) \in Found
<1> DEFINE heard == t.status.at # None /\ t.status.at >= t.authority /\ t.status.at <= now
           age == now - (IF heard THEN t.status.at ELSE t.authority)
           verdict == IF age >= Unavailable THEN "critical"
                      ELSE IF heard /\ age < Degraded THEN "healthy" ELSE "degraded"
           since == IF heard THEN None ELSE IF row.since # None THEN row.since ELSE t.authority
<1>1. verdict \in Verdict
  BY DEF Verdict
<1>2. since \in Maybe(Instant)
  BY DEF Row, Tap, Maybe
<1>3. ScaleAvailability(row, t, now) =
        IF t.authority = None THEN Only("not_configured") ELSE [Only(verdict) EXCEPT !.since = since]
  BY Zenon DEF ScaleAvailability
<1> HIDE DEF verdict, since
<1>4. [Only(verdict) EXCEPT !.since = since] \in Found
  BY <1>1, <1>2 DEF Only, Found, Maybe
<1> QED
  BY <1>3, <1>4, OnlyFound, Verdicts

(* The timer of the temperature check runs while the beer is measured out of range; it *)
(* remembers the last such measurement, and goes on only if that was not too long ago.  *)
LEMMA ServingTemperatureFinds ==
  ASSUME NEW row \in Row, NEW t \in Tap, NEW now \in 0 .. MaxMoment
  PROVE  LET f == ServingTemperature(row, t, now)
         IN /\ f \in Found
            /\ f.since # None =>
                 /\ t.authority # None /\ Measurement(t).at # None
                 /\ Measurement(t).degrees \in {"warm", "hot"}
                 /\ f.observed = Measurement(t).at
                 /\ \/ f.since = now
                    \/ /\ f.since = row.since
                       /\ row.observed # None => Measurement(t).at - row.observed <= Degraded
            /\ Alarm(f.verdict) => f.since # None /\ now - f.since >= Duration
<1> DEFINE reading == Measurement(t)
           at == reading.at
           gap == row.observed # None /\ at - row.observed > Degraded
           since == IF ~gap /\ row.since # None /\ row.since <= now THEN row.since ELSE now
           verdict == IF now - since < Duration THEN "degraded"
                      ELSE IF reading.degrees = "hot" THEN "critical" ELSE "warning"
           observed == [Only("healthy") EXCEPT !.observed = at]
           f == ServingTemperature(row, t, now)
<1>1. /\ now \in Instant /\ now # None /\ row.since \in Maybe(Instant)
      /\ row.observed \in Maybe(Instant)
  BY Instants DEF Row
<1>2. reading \in Reading
  <2>1. t.sample \in Reading /\ t.status \in Reading
    BY DEF Tap
  <2>2. NoReading \in Reading
    BY DEF NoReading, Reading, Maybe
  <2> QED
    BY <2>1, <2>2, Zenon DEF Measurement
<1>3. at \in Maybe(Instant) /\ reading.degrees \in Maybe({"normal", "warm", "hot"})
  BY <1>2 DEF Reading
<1> HIDE DEF reading
<1>4. /\ since \in Instant /\ since # None
      /\ since = now \/ (since = row.since /\ ~gap)
  BY <1>1 DEF Maybe
<1>5. verdict \in Verdict /\ (Alarm(verdict) => now - since >= Duration)
  <2>1. verdict = "degraded" \/ (verdict \in {"critical", "warning"} /\ ~(now - since < Duration))
    BY Zenon
  <2>2. now \in Int /\ since \in Int /\ Duration \in Int
    BY <1>1, <1>4, Instants, Sizes
  <2>3. ~(now - since < Duration) => now - since >= Duration
    BY <2>2
  <2> QED
    BY <2>1, <2>3 DEF Verdict, Alarm
<1>6. at # None /\ ~gap => (row.observed # None => at - row.observed <= Degraded)
  <2>1. at # None => at \in Int
    BY <1>3, Instants
  <2>2. row.observed # None => row.observed \in Int
    BY <1>1, Instants
  <2> QED
    BY <2>1, <2>2, Sizes
<1> DEFINE counts == t.authority # None /\ at # None /\ reading.degrees # None
           stale == ~Recent(at, now)
<1>7. f = IF t.authority = None THEN Only("not_configured")
          ELSE IF ~counts THEN Only("degraded")
          ELSE IF stale THEN [observed EXCEPT !.verdict = "degraded"]
          ELSE IF reading.degrees = "normal" THEN observed
          ELSE [observed EXCEPT !.verdict = verdict, !.since = since]
  BY DEF ServingTemperature, reading
<1> HIDE DEF since, verdict, stale, gap
<1>8. /\ observed \in Found /\ observed.verdict = "healthy" /\ observed.since = None
      /\ observed.observed = at /\ observed.until = None
  BY <1>3, Verdicts DEF Only, Found, Maybe
<1> HIDE DEF observed
<1>9. CASE counts /\ ~stale /\ reading.degrees # "normal"
  <2>1. f = [observed EXCEPT !.verdict = verdict, !.since = since]
    BY <1>7, <1>9
  <2>2. f \in Found /\ f.since = since /\ f.verdict = verdict /\ f.observed = at
    BY <2>1, <1>4, <1>5, <1>8 DEF Found, Maybe
  <2>3. reading.degrees \in {"warm", "hot"}
    BY <1>3, <1>9 DEF Maybe
  <2> QED
    BY <2>2, <2>3, <1>4, <1>5, <1>6, <1>9 DEF reading
<1>10. CASE ~(counts /\ ~stale /\ reading.degrees # "normal")
  <2> DEFINE late == [observed EXCEPT !.verdict = "degraded"]
  <2>1. late \in Found /\ late.verdict = "degraded" /\ late.since = None
    BY <1>8, Verdicts DEF Found
  <2>2. f \in {Only("not_configured"), Only("degraded"), observed, late}
    BY <1>7, <1>10
  <2> HIDE DEF late, f
  <2>3. f \in {observed, late} => f \in Found /\ f.since = None /\ ~Alarm(f.verdict)
    BY <2>1, <1>8, Verdicts
  <2>4. /\ f = Only("not_configured") => f \in Found /\ f.since = None /\ ~Alarm(f.verdict)
        /\ f = Only("degraded") => f \in Found /\ f.since = None /\ ~Alarm(f.verdict)
    BY OnlyFound, Verdicts
  <2>5. f \in Found /\ f.since = None /\ ~Alarm(f.verdict)
    BY <2>2, <2>3, <2>4
  <2> QED
    BY <2>5 DEF f
<1> QED
  BY <1>9, <1>10

(* The cleaning check keeps no timer. *)
LEMMA LineCleaningFinds ==
  ASSUME NEW t \in Tap, NEW now \in 0 .. MaxMoment
  PROVE  LineCleaning(t, now) \in Found
BY OnlyFound, Verdicts DEF LineCleaning

(* Leak samples are finite in number; one of them is the oldest and one the newest. *)
LEMMA Samples ==
  ASSUME NEW S \in SUBSET LeakSample
  PROVE  \A s \in S : /\ s.at \in Nat /\ s.at <= MaxMoment + Skew
                      /\ s.volume \in Volume /\ s.volume \in Nat
                      /\ s.epoch \in Nat /\ s.epoch # 0
<1> SUFFICES ASSUME NEW s \in S
             PROVE  /\ s.at \in Nat /\ s.at <= MaxMoment + Skew
                    /\ s.volume \in Volume /\ s.volume \in Nat
                    /\ s.epoch \in Nat /\ s.epoch # 0
  OBVIOUS
<1>1. s \in LeakSample
  OBVIOUS
<1>2. s.epoch \in 1 .. MaxEpoch /\ s.at \in Instant /\ s.volume \in Volume
  BY <1>1 DEF LeakSample
<1>3. Volume \subseteq Nat /\ MaxMoment \in Nat /\ Skew \in Nat /\ MaxEpoch \in Nat
  BY Sizes
<1>4. s.at \in Nat /\ s.at <= MaxMoment + Skew
  BY <1>2, <1>3 DEF Instant
<1>5. s.epoch \in Nat /\ s.epoch # 0
  BY <1>2, <1>3
<1> QED
  BY <1>2, <1>3, <1>4, <1>5

(* Of several samples there is an oldest and a newest. *)
LEMMA OldestIs ==
  ASSUME NEW S \in SUBSET LeakSample, S # {}
  PROVE  Oldest(S) \in S /\ \A x \in S : Before(Oldest(S), x)
<1> DEFINE times == {s.at : s \in S}
<1>1. times \in SUBSET Nat /\ times # {}
  BY Samples
<1>2. PICK at \in times : \A y \in times : at <= y
  BY <1>1, Least
<1> DEFINE first == {s \in S : s.at = at}
           volumes == {s.volume : s \in first}
<1>3. volumes \in SUBSET Nat /\ volumes # {}
  BY <1>2, Samples
<1>4. PICK volume \in volumes : \A y \in volumes : volume <= y
  BY <1>3, Least
<1>5. PICK s \in first : s.volume = volume
  BY <1>4
<1>6. s \in S /\ \A x \in S : Before(s, x)
  <2>1. \A x \in S : s.at <= x.at /\ s.at \in Nat /\ x.at \in Nat
    BY <1>2, <1>5, Samples
  <2>2. \A x \in S : x.at = s.at => s.volume <= x.volume
    BY <1>4, <1>5
  <2> QED
    BY <1>5, <2>1, <2>2 DEF Before
<1> QED
  BY <1>6, Zenon DEF Oldest

LEMMA NewestIs ==
  ASSUME NEW S \in SUBSET LeakSample, S # {}
  PROVE  Newest(S) \in S /\ \A x \in S : Before(x, Newest(S))
<1> DEFINE times == {MaxMoment + Skew - s.at : s \in S}
<1>0. MaxMoment \in Nat /\ Skew \in Nat
  BY Sizes
<1>1. times \in SUBSET Nat /\ times # {}
  BY <1>0, Samples
<1>2. PICK left \in times : \A y \in times : left <= y
  BY <1>1, Least
<1>3. PICK capacity \in Volume : \A v \in Volume : v <= capacity
  BY HealthAssumption
<1>4. capacity \in Nat
  BY Sizes
<1> DEFINE last == {s \in S : MaxMoment + Skew - s.at = left}
           volumes == {capacity - s.volume : s \in last}
<1>5. volumes \in SUBSET Nat /\ volumes # {}
  <2>1. \A s \in S : s.volume \in Nat /\ s.volume <= capacity
    BY <1>3, Samples
  <2>2. \E s \in S : s \in last
    BY <1>2
  <2> QED
    BY <1>4, <2>1, <2>2
<1>6. PICK space \in volumes : \A y \in volumes : space <= y
  BY <1>5, Least
<1>7. PICK s \in last : capacity - s.volume = space
  BY <1>6
<1>8. s \in S /\ \A x \in S : Before(x, s)
  <2>1. \A x \in S : MaxMoment + Skew - s.at <= MaxMoment + Skew - x.at
    BY <1>2, <1>7
  <2>2. \A x \in S : s.at \in Nat /\ x.at \in Nat /\ s.volume \in Nat /\ x.volume \in Nat
    BY <1>7, Samples
  <2>3. \A x \in S : x.at <= s.at
    BY <1>0, <2>1, <2>2
  <2>4. \A x \in S : x.at = s.at => capacity - s.volume <= capacity - x.volume
    BY <1>6, <1>7
  <2>5. \A x \in S : x.at = s.at => x.volume <= s.volume
    BY <1>4, <2>2, <2>4
  <2> QED
    BY <1>7, <2>2, <2>3, <2>5 DEF Before
<1> QED
  BY <1>8, Zenon DEF Newest

(* A usable measurement is a sample of the present epoch. *)
LEMMA Observed ==
  ASSUME NEW t \in Tap, NEW now \in 0 .. MaxMoment, LeakUsable(t, now)
  PROVE  /\ Observation(t) \in LeakSample
         /\ Observation(t).epoch = t.epoch /\ Observation(t).at = t.sample.at
         /\ Observation(t).volume = t.volume
         /\ t.sample.at \in Nat /\ t.volume \in Nat
<1>1. /\ t.epoch \in 0 .. MaxEpoch /\ t.epoch # 0 /\ t.volume \in Volume
      /\ t.sample \in Reading /\ t.sample.at # None
  BY DEF LeakUsable, Tap, Maybe
<1>2. t.sample.at \in Instant
  BY <1>1 DEF Reading, Maybe
<1>3. t.epoch \in 1 .. MaxEpoch
  BY <1>1, Sizes
<1> QED
  BY <1>1, <1>2, <1>3, Sizes, Instants DEF Observation, LeakSample

(* What the compaction retains are earlier samples and the present one, and not none. *)
LEMMA CompactedSamples ==
  ASSUME NEW t \in Tap, NEW now \in 0 .. MaxMoment, leak \subseteq LeakSample,
         LeakUsable(t, now), NEW samples \in Compacted(t)
  PROVE  samples \subseteq Prior(t) \cup {Observation(t)} /\ samples # {}
<1> DEFINE this == Observation(t)
           from == t.sample.at - LeakWindow
           Anchor(S) == IF \E s \in S : s.at <= from THEN {Newest({s \in S : s.at <= from})} ELSE {}
           anchor == Anchor(Prior(t) \cup {this})
           later == {s \in Prior(t) \cup {this} : s.at > from}
           slots == MaxSamples - Cardinality(anchor)
           Thinned(S) ==
             /\ this \in S /\ Cardinality(S) = slots
             /\ slots >= 2 => Oldest(later) \in S
           one == IF Prior(t) = {} THEN {this}
                  ELSE IF Anchor(Prior(t)) # {} THEN Anchor(Prior(t)) ELSE {Oldest(Prior(t))}
<1>1. Prior(t) \subseteq LeakSample /\ this \in LeakSample /\ t.sample.at \in Nat /\ this.at = t.sample.at
  BY Observed DEF Prior
<1>2. this \in later
  <2>1. this.at > from
    BY <1>1, Sizes
  <2> QED
    BY <2>1
<1>3. ASSUME NEW S \in SUBSET LeakSample
      PROVE  Anchor(S) \subseteq S
  <2> DEFINE old == {s \in S : s.at <= from}
  <2>1. old \in SUBSET LeakSample
    OBVIOUS
  <2>2. old # {} => Newest(old) \in old
    BY <2>1, NewestIs
  <2>3. CASE \E s \in S : s.at <= from
    <3>1. Anchor(S) = {Newest(old)} /\ old # {}
      BY <2>3
    <3> HIDE DEF Anchor
    <3> QED
      BY <2>2, <3>1
  <2>4. CASE ~\E s \in S : s.at <= from
    BY <2>4
  <2> QED
    BY <2>3, <2>4
<1>4. anchor \subseteq Prior(t) \cup {this} /\ Anchor(Prior(t)) \subseteq Prior(t)
  <2>1. Prior(t) \cup {this} \in SUBSET LeakSample /\ Prior(t) \in SUBSET LeakSample
    BY <1>1
  <2> HIDE DEF Anchor, this
  <2> QED
    BY <1>3, <2>1
<1>5. Prior(t) # {} => Oldest(Prior(t)) \in Prior(t)
  BY <1>1, OldestIs
<1>6. samples \in IF MaxSamples = 1 THEN {one}
                  ELSE IF Cardinality(later) <= slots THEN {anchor \cup later}
                  ELSE {anchor \cup S : S \in {S \in SUBSET later : Thinned(S)}}
  BY Zenon DEF Compacted
<1> HIDE DEF Anchor
<1>7. one \subseteq Prior(t) \cup {this} /\ one # {}
  BY <1>4, <1>5
<1>8. anchor \cup later \subseteq Prior(t) \cup {this} /\ anchor \cup later # {}
  BY <1>2, <1>4
<1> HIDE DEF anchor, later, one, slots, this
<1>9. CASE samples = one
  BY <1>7, <1>9 DEF this
<1>10. CASE samples = anchor \cup later
  BY <1>8, <1>10 DEF this
<1>11. CASE samples \in {anchor \cup S : S \in {S \in SUBSET later : Thinned(S)}}
  <2>1. PICK S \in SUBSET later : samples = anchor \cup S /\ this \in S
    BY <1>11
  <2> QED
    BY <1>8, <2>1 DEF this
<1> QED
  BY <1>6, <1>9, <1>10, <1>11

(* The samples for the next evaluation: none, the ones there are, or of these and *)
(* the present one.                                                                 *)
LEMMA NextSamplesAre ==
  ASSUME NEW t \in Tap, NEW now \in 0 .. MaxMoment, leak \subseteq LeakSample, NEW row \in Row,
         NEW samples \in NextSamples(row, t, now)
  PROVE  /\ samples \subseteq LeakSample
         /\ \/ samples = {} /\ (t.retired \/ ~LeakUsable(t, now))
            \/ samples = leak /\ "suspected_leak" \notin t.enabled
            \/ /\ LeakUsable(t, now) /\ "suspected_leak" \in t.enabled /\ samples # {}
               /\ samples \subseteq Prior(t) \cup {Observation(t)}
               /\ Restarts(row, t) => samples = {Observation(t)}
<1>1. CASE t.retired \/ (("suspected_leak" \in t.enabled) /\ ~LeakUsable(t, now))
  BY <1>1 DEF NextSamples
<1>2. CASE ~t.retired /\ "suspected_leak" \notin t.enabled
  BY <1>2 DEF NextSamples
<1>3. CASE ~t.retired /\ "suspected_leak" \in t.enabled /\ LeakUsable(t, now)
  <2>1. samples \in IF Restarts(row, t) THEN {{Observation(t)}} ELSE Compacted(t)
    BY <1>3 DEF NextSamples
  <2>2. /\ samples \subseteq Prior(t) \cup {Observation(t)} /\ samples # {}
        /\ Restarts(row, t) => samples = {Observation(t)}
    BY <1>3, <2>1, CompactedSamples
  <2>3. Prior(t) \subseteq LeakSample /\ Observation(t) \in LeakSample
    BY <1>3, Observed DEF Prior
  <2> QED
    BY <1>3, <2>2, <2>3
<1> QED
  BY <1>1, <1>2, <1>3

(* The leak check alarms only with what Leaks says, and otherwise carries no timer. *)
LEMMA SuspectedLeakFinds ==
  ASSUME NEW row \in Row, NEW t \in Tap, NEW now \in 0 .. MaxMoment, NEW samples
  PROVE  LET f == SuspectedLeak(row, t, now, samples)
         IN /\ f \in Found
            /\ Alarm(f.verdict) =>
                 /\ LeakUsable(t, now) /\ ~OtherEpoch(t) /\ ~Restarts(row, t) /\ Leaks(t, samples)
            /\ LeakUsable(t, now) /\ ~OtherEpoch(t) /\ PourSeen(t) =>
                 f.until = t.sample.at + Suppressed
<1> DEFINE usable == LeakUsable(t, now)
           started == usable /\ ~OtherEpoch(t)
           verdict == IF ~Restarts(row, t) /\ Leaks(t, samples) THEN "warning" ELSE "healthy"
           until == IF PourSeen(t) THEN t.sample.at + Suppressed
                    ELSE IF Settles(row, t) THEN row.until ELSE None
           f == SuspectedLeak(row, t, now, samples)
<1>1. verdict \in Verdict /\ (Alarm(verdict) => ~Restarts(row, t) /\ Leaks(t, samples))
  BY Verdicts
<1>2. started => until \in Maybe(Nat)
  <2>1. started => t.sample.at \in Nat /\ t.sample.at + Suppressed \in Nat
    BY Observed, Sizes
  <2>2. row.until \in Maybe(Nat)
    BY DEF Row
  <2> QED
    BY <2>1, <2>2 DEF Maybe
<1>3. f = IF t.epoch = 0 THEN Only("not_configured")
          ELSE IF ~started THEN Only("degraded") ELSE [Only(verdict) EXCEPT !.until = until]
  <2>1. f = CASE t.epoch = 0 -> Only("not_configured")
              [] t.epoch # 0 /\ ~started -> Only("degraded")
              [] started -> [Only(verdict) EXCEPT !.until = until]
    BY Zenon DEF SuspectedLeak
  <2>2. started => t.epoch # 0
    BY DEF LeakUsable
  <2> HIDE DEF verdict, until, started, f
  <2> QED
    BY <2>1, <2>2
<1>6. PourSeen(t) => until = t.sample.at + Suppressed
  OBVIOUS
<1> HIDE DEF verdict, until
<1>4. CASE t.epoch # 0 /\ started
  <2>1. f = [Only(verdict) EXCEPT !.until = until]
    BY <1>3, <1>4, Zenon
  <2>2. f \in Found /\ f.verdict = verdict /\ f.until = until
    BY <2>1, <1>1, <1>2, <1>4 DEF Only, Found, Maybe
  <2> QED
    BY <2>2, <1>1, <1>4, <1>6
<1>5. CASE ~(t.epoch # 0 /\ started)
  <2>1. f = Only("not_configured") \/ f = Only("degraded")
    BY <1>3, <1>5
  <2>2. f \in Found /\ ~Alarm(f.verdict)
    BY <2>1, OnlyFound, Verdicts
  <2>3. LeakUsable(t, now) => t.epoch # 0
    BY DEF LeakUsable
  <2> QED
    BY <2>2, <2>3, <1>5
<1> QED
  BY <1>4, <1>5

-----------------------------------------------------------------------------
(* The row of a check after its evaluation. *)

(* What any check concludes, and the row that is written. *)
LEMMA ConclusionFinds ==
  ASSUME NEW c \in Check, NEW row \in Row, NEW t \in Tap, NEW now \in 0 .. MaxMoment, NEW samples
  PROVE  LET f == Conclusion(c, row, t, now, samples)
         IN /\ f \in Found
            /\ f.since # None \/ Alarm(f.verdict) => ~t.retired
            /\ Alarm(f.verdict) => c \in t.enabled
            /\ ~t.retired /\ c \notin t.enabled => f.since = Carried(row, t).since
            /\ ~t.retired /\ c \in t.enabled =>
                 /\ c = "low_keg" => f = LowKeg(Carried(row, t), t, now)
                 /\ c = "serving_temperature" => f = ServingTemperature(Carried(row, t), t, now)
                 /\ c = "suspected_leak" => f = SuspectedLeak(Carried(row, t), t, now, samples)
<1> DEFINE carried == Carried(row, t)
           off == [Only("not_configured") EXCEPT
                     !.since = carried.since, !.observed = carried.observed, !.until = row.until]
           on == CASE c = "low_keg" -> LowKeg(carried, t, now)
                   [] c = "scale_availability" -> ScaleAvailability(carried, t, now)
                   [] c = "suspected_leak" -> SuspectedLeak(carried, t, now, samples)
                   [] c = "serving_temperature" -> ServingTemperature(carried, t, now)
                   [] c = "line_cleaning_due" -> LineCleaning(t, now)
           f == Conclusion(c, row, t, now, samples)
<1>1. f = IF t.retired THEN Only("not_configured") ELSE IF c \notin t.enabled THEN off ELSE on
  BY Zenon DEF Conclusion
<1>2. carried \in Row
  BY CarriedRow
<1> HIDE DEF carried
<1>3. off \in Found /\ off.verdict = "not_configured" /\ off.since = carried.since
  BY <1>2 DEF Only, Found, Row, Verdict
<1> HIDE DEF off
<1>4. /\ c = "low_keg" => on = LowKeg(carried, t, now)
      /\ c = "scale_availability" => on = ScaleAvailability(carried, t, now)
      /\ c = "suspected_leak" => on = SuspectedLeak(carried, t, now, samples)
      /\ c = "serving_temperature" => on = ServingTemperature(carried, t, now)
      /\ c = "line_cleaning_due" => on = LineCleaning(t, now)
  OBVIOUS
<1> HIDE DEF on
<1>5. on \in Found
  <2>1. /\ LowKeg(carried, t, now) \in Found /\ ScaleAvailability(carried, t, now) \in Found
        /\ SuspectedLeak(carried, t, now, samples) \in Found
        /\ ServingTemperature(carried, t, now) \in Found /\ LineCleaning(t, now) \in Found
    BY <1>2, LowKegFinds, ScaleAvailabilityFinds, SuspectedLeakFinds, ServingTemperatureFinds,
       LineCleaningFinds
  <2> QED
    BY <1>4, <2>1 DEF Check
<1> HIDE DEF f
<1>6. CASE t.retired
  <2>1. f = Only("not_configured")
    BY <1>1, <1>6
  <2>2. f \in Found /\ f.since = None /\ ~Alarm(f.verdict)
    BY <2>1, OnlyFound, Verdicts
  <2> QED
    BY <2>2, <1>6 DEF f, carried
<1>7. CASE ~t.retired /\ c \notin t.enabled
  <2>1. f = off
    BY <1>1, <1>7
  <2>2. ~Alarm(f.verdict)
    BY <2>1, <1>3, Verdicts
  <2> QED
    BY <2>1, <2>2, <1>3, <1>7 DEF f, carried
<1>8. CASE ~t.retired /\ c \in t.enabled
  <2>1. f = on
    BY <1>1, <1>8
  <2> QED
    BY <2>1, <1>4, <1>5, <1>8 DEF f, carried
<1> QED
  BY <1>6, <1>7, <1>8

LEMMA ConcludedRow ==
  ASSUME HealthTypeOK, NEW c \in Check, NEW t \in Tap, time' \in 0 .. MaxMoment, NEW samples
  PROVE  LET new == Concluded(c, t, samples)
             f == Conclusion(c, rows[c], t, time', samples)
         IN /\ new \in Row /\ new.evaluated = time'
            /\ new.verdict = f.verdict /\ new.since = f.since /\ new.observed = f.observed
            /\ new.until = f.until
            /\ new.cooldown # None => new.cooldown > time'
            /\ t.retired => ~Alarm(new.verdict)
<1> DEFINE row == rows[c]
           f == Conclusion(c, row, t, time', samples)
           over == t.retired \/ (row.cooldown # None /\ row.cooldown <= time')
           cooldown == IF over THEN None ELSE row.cooldown
           new == Concluded(c, t, samples)
<1>1. row \in Row /\ row.cooldown \in Maybe(Nat)
  BY DEF HealthTypeOK, Row
<1>2. f \in Found /\ (Alarm(f.verdict) => ~t.retired)
  BY <1>1, ConclusionFinds
<1>3. cooldown \in Maybe(Nat) /\ (cooldown # None => cooldown > time')
  <2>1. time' \in Nat
    BY Instants
  <2> QED
    BY <1>1, <2>1 DEF Maybe
<1>4. new = [verdict |-> f.verdict, since |-> f.since, observed |-> f.observed,
             until |-> f.until, cooldown |-> cooldown, evaluated |-> time']
  BY Zenon DEF Concluded
<1> HIDE DEF f, cooldown
<1>5. time' \in Instant
  BY Instants
<1>6. new \in Row /\ new.evaluated = time' /\ new.verdict = f.verdict /\ new.since = f.since
      /\ new.observed = f.observed /\ new.until = f.until /\ new.cooldown = cooldown
  BY <1>2, <1>3, <1>4, <1>5 DEF Row, Found
<1> QED
  BY <1>2, <1>3, <1>6 DEF f

(* What an evaluation leaves behind has the types of the tables. *)
LEMMA EvaluateTypes ==
  ASSUME HealthTypeOK, NEW new \in Tap, time' \in 0 .. MaxMoment, Evaluate(new)
  PROVE  /\ tap' \in Tap /\ rows' \in [Check -> Row] /\ leak' \subseteq LeakSample
         /\ {dip', hot'} \subseteq Maybe(Instant) /\ lapsed' \subseteq Check
         /\ spanned' \subseteq leak'
         /\ leak' \in NextSamples(Carried(rows["suspected_leak"], new), new, time')
         /\ \A c \in Check : rows'[c] = Concluded(c, new, leak')
<1>1. tap' \in Tap
  BY DEF Evaluate, Tap
<1>2. rows' = [c \in Check |-> Concluded(c, new, leak')]
  BY DEF Evaluate
<1>3. rows' \in [Check -> Row]
  BY <1>2, ConcludedRow
<1>4. /\ leak' \in NextSamples(Carried(rows["suspected_leak"], new), new, time')
      /\ Carried(rows["suspected_leak"], new) \in Row
  <2>1. rows["suspected_leak"] \in Row
    BY DEF HealthTypeOK, Check
  <2> QED
    BY <2>1, CarriedRow DEF Evaluate
<1>5. leak' \subseteq LeakSample
  BY <1>4, NextSamplesAre DEF HealthTypeOK
<1>6. {dip', hot'} \subseteq Maybe(Instant)
  <2>1. time' \in Instant
    BY Instants
  <2>2. dip' \in {None, dip, time'} /\ hot' \in {None, hot, time'}
    BY DEF Evaluate, Watch
  <2> QED
    BY <2>1, <2>2 DEF HealthTypeOK, Maybe
<1>7. lapsed' \subseteq Check /\ spanned' \subseteq leak'
  BY DEF Evaluate, Unwatched
<1> QED
  BY <1>1, <1>2, <1>3, <1>4, <1>5, <1>6, <1>7

-----------------------------------------------------------------------------
(* Every step of the house evaluates the checks of a Tap that follows the one before. *)

(* What holds of the Tap, at the time `now`: its last sample in the epoch is that of *)
(* its source, and no pour ended in the future.                                       *)
TapFits(t, now) ==
  /\ t.epoch <= t.epochs /\ (t.epoch # 0 => t.started # None)
  /\ t.epoch # 0 /\ t.sample.at # None => t.status = t.sample /\ t.started <= t.sample.at
  /\ t.poured # None => t.poured <= now
(* A new epoch that no evaluation has seen has no volume. *)
Unmeasured(t) == "epoch" \in t.renewed => t.volume = None

(* How the Tap an evaluation reads follows from the Tap before: within the epoch *)
(* the phase and the volume change with a later sample only.                     *)
SameEpoch(new) ==
  /\ tap.epoch = new.epoch /\ "epoch" \notin tap.renewed
  /\ tap.sample.at # None =>
       \/ new.sample = tap.sample /\ new.phase = tap.phase /\ new.volume = tap.volume
       \/ /\ healthUp /\ time' = time
          /\ new.sample.at # None /\ tap.sample.at < new.sample.at
OtherOne(new) ==
  (new.epoch = tap.epoch /\ "epoch" \in tap.renewed) \/ tap.epochs < new.epoch
Follows(new) ==
  /\ new \in Tap /\ TapFits(new, time') /\ tap.epochs <= new.epochs
  /\ "epoch" \in new.renewed /\ new.phase = "pour" => new.volume = None
  /\ new.epoch # 0 => IF "epoch" \in new.renewed THEN OtherOne(new) ELSE SameEpoch(new)
Clocked == time' \in 0 .. MaxMoment /\ time <= time' /\ healthUp' \in BOOLEAN
Evaluation == \E new \in Tap : Clocked /\ Follows(new) /\ (EvaluateTap(new) \/ Sweep(new))

(* The columns of a Tap. *)
LEMMA TapFields ==
  ASSUME NEW t \in Tap
  PROVE  /\ t.retired \in BOOLEAN /\ t.enabled \in SUBSET Check /\ t.authority \in Maybe(Instant)
         /\ t.status \in Reading /\ t.epochs \in 0 .. MaxEpoch /\ t.epoch \in 0 .. MaxEpoch
         /\ t.started \in Maybe(Instant) /\ t.sample \in Reading
         /\ t.renewed \in SUBSET {"authority", "epoch"}
         /\ t.phase \in {"waiting", "ready", "pour", "warning"} /\ t.volume \in Maybe(Volume)
         /\ t.poured \in Maybe(Instant) /\ t.cleaned \in Maybe(Instant)
BY DEF Tap

LEMMA ReadingFields ==
  /\ NoReading \in Reading /\ NoReading.at = None /\ NoReading.degrees = None
  /\ \A r \in Reading : r.at \in Maybe(Instant)
BY DEF NoReading, Reading, Maybe

LEMMA Now ==
  ASSUME time \in 0 .. MaxMoment
  PROVE  time \in Instant /\ time \in Nat /\ time # None /\ 0 .. time \subseteq Instant
<1>1. time \in Nat /\ 0 .. time \subseteq 0 .. MaxMoment
  BY Sizes
<1> QED
  BY <1>1, Instants

(* A Tap that keeps its epoch and its sample follows. *)
LEMMA KeepsFollowing ==
  ASSUME HealthTypeOK, TapFits(tap, time), Unmeasured(tap), Clocked, NEW new \in Tap,
         new.epochs = tap.epochs, new.epoch = tap.epoch, new.started = tap.started,
         new.sample = tap.sample, new.poured = tap.poured, new.phase = tap.phase,
         new.volume = tap.volume, "epoch" \in new.renewed <=> "epoch" \in tap.renewed,
         tap.epoch # 0 /\ tap.sample.at # None => new.status = tap.status
  PROVE  Follows(new)
<1>1. time \in Nat /\ time' \in Nat /\ time <= time'
  BY Now, Instants DEF HealthTypeOK, Clocked
<1>2. new.poured # None => new.poured \in Nat
  BY TapFields, Instants
<1>3. TapFits(new, time')
  BY <1>1, <1>2 DEF TapFits
<1>4. tap.epochs <= new.epochs
  BY TapFields, Sizes DEF HealthTypeOK
<1> QED
  BY <1>3, <1>4 DEF Follows, OtherOne, SameEpoch, Unmeasured

(* A new epoch has another number and no sample. *)
LEMMA NewEpochIs ==
  ASSUME HealthTypeOK, NEW t \in Tap, t.epochs < MaxEpoch
  PROVE  LET new == NewEpoch(t)
         IN /\ new \in Tap /\ new.epochs = t.epochs + 1 /\ new.epoch = t.epochs + 1
            /\ new.started = time /\ new.sample = NoReading /\ "epoch" \in new.renewed
            /\ new.phase = "waiting" /\ new.volume = None /\ new.poured = None
            /\ new.retired = t.retired /\ new.status = t.status /\ new.authority = t.authority
<1> DEFINE serial == t.epochs + 1
           renewed == t.renewed \cup {"epoch"}
           reading == NoReading
           new == [t EXCEPT !.epochs = serial, !.epoch = serial, !.started = time,
                            !.sample = reading, !.renewed = renewed, !.phase = "waiting",
                            !.volume = None, !.poured = None]
<1>1. serial \in 0 .. MaxEpoch
  BY TapFields, Sizes
<1>2. renewed \in SUBSET {"authority", "epoch"} /\ "epoch" \in renewed
  BY TapFields
<1>3. time \in Instant
  BY Now DEF HealthTypeOK
<1>4. NewEpoch(t) = new
  BY DEF NewEpoch
<1>5. reading \in Reading
  BY ReadingFields
<1> HIDE DEF serial, renewed, reading
<1>6. /\ new \in Tap /\ new.epochs = serial /\ new.epoch = serial /\ new.started = time
      /\ new.sample = reading /\ new.renewed = renewed /\ new.phase = "waiting"
      /\ new.volume = None /\ new.poured = None
      /\ new.retired = t.retired /\ new.status = t.status /\ new.authority = t.authority
  BY <1>1, <1>2, <1>3, <1>5 DEF Tap, Maybe
<1> HIDE DEF new
<1> QED
  BY <1>2, <1>4, <1>6 DEF serial, reading

(* A new epoch follows whatever was before. *)
LEMMA NewEpochFollows ==
  ASSUME HealthTypeOK, Clocked, NEW t \in Tap, t.epochs = tap.epochs, t.epochs < MaxEpoch
  PROVE  NewEpoch(t) \in Tap /\ Follows(NewEpoch(t))
<1> DEFINE new == NewEpoch(t)
<1>1. /\ new \in Tap /\ new.epochs = t.epochs + 1 /\ new.epoch = t.epochs + 1
      /\ new.started = time /\ new.sample.at = None /\ "epoch" \in new.renewed /\ new.poured = None
      /\ new.phase = "waiting"
  BY NewEpochIs, ReadingFields
<1>2. t.epochs \in Nat /\ tap.epochs < new.epoch /\ tap.epochs <= new.epochs /\ new.epoch <= new.epochs
  BY <1>1, TapFields, Sizes
<1>3. time # None
  BY Now DEF HealthTypeOK
<1> HIDE DEF new
<1>4. TapFits(new, time')
  BY <1>1, <1>2, <1>3 DEF TapFits
<1>5. Follows(new)
  BY <1>1, <1>2, <1>4 DEF Follows, OtherOne
<1> QED
  BY <1>1, <1>5 DEF new

(* The clock goes on, and each hook evaluates the checks of a Tap that follows the one before. *)
LEMMA RunningClock ==
  ASSUME HealthTypeOK, HealthRunning
  PROVE  Clocked /\ time' = time /\ healthUp
<1>1. time \in Nat
  BY Now DEF HealthTypeOK
<1> QED
  BY <1>1 DEF HealthTypeOK, HealthRunning, Clocked

LEMMA TickClock ==
  ASSUME HealthTypeOK, healthUp' \in BOOLEAN, Tick
  PROVE  Clocked
<1>1. time \in Nat /\ MaxMoment \in Nat /\ time < MaxMoment /\ time' = time + 1
  BY Now, Sizes DEF HealthTypeOK, Tick
<1> QED
  BY <1>1 DEF Clocked

LEMMA ArrivalsAre ==
  ASSUME HealthTypeOK, NEW at \in Arrivals
  PROVE  /\ at \in Instant /\ at \in Nat /\ at # None
         /\ tap.status.at # None => tap.status.at \in Nat /\ at > tap.status.at
<1>1. at \in 0 .. time + Skew /\ (tap.status.at # None => at > tap.status.at)
  BY DEF Arrivals
<1>2. time \in 0 .. MaxMoment /\ MaxMoment \in Nat /\ Skew \in Nat
  BY Sizes DEF HealthTypeOK
<1>3. at \in Instant
  BY <1>1, <1>2 DEF Instant
<1>4. tap.status.at \in Maybe(Instant)
  BY TapFields, ReadingFields DEF HealthTypeOK
<1> QED
  BY <1>1, <1>3, <1>4, Instants

LEMMA AcceptSampleEvaluates ==
  ASSUME HealthTypeOK, TapFits(tap, time), Unmeasured(tap), NEW at \in Arrivals,
         NEW degrees \in {None, "normal", "warm", "hot"}, NEW finding \in Findings,
         AcceptSample(at, degrees, finding)
  PROVE  Evaluation
<1> DEFINE reading == [at |-> at, degrees |-> degrees]
           phase == finding.phase
           volume == finding.volume
           new == [tap EXCEPT !.status = reading, !.sample = reading, !.phase = phase, !.volume = volume]
<1>1. Clocked /\ time' = time /\ healthUp
  BY RunningClock DEF AcceptSample
<1>2. reading \in Reading /\ reading.at = at
  BY ArrivalsAre DEF Reading, Maybe
<1>3. /\ phase \in {"waiting", "ready", "pour", "warning"} /\ volume \in Maybe(Volume)
      /\ phase = "pour" => volume = tap.volume
  <2>1. tap.volume \in Maybe(Volume)
    BY TapFields DEF HealthTypeOK
  <2> QED
    BY <2>1 DEF Findings, Maybe
<1> HIDE DEF reading, phase, volume
<1>4. /\ new \in Tap /\ new.epochs = tap.epochs /\ new.epoch = tap.epoch /\ new.started = tap.started
      /\ new.sample = reading /\ new.status = reading /\ new.poured = tap.poured
      /\ new.renewed = tap.renewed /\ new.phase = phase /\ new.volume = volume
  BY <1>2, <1>3 DEF HealthTypeOK, Tap
<1>5. EvaluateTap(new) /\ tap.epoch # 0 /\ at >= tap.started
  BY DEF AcceptSample, reading, phase, volume
<1> HIDE DEF new
<1>6. TapFits(new, time')
  BY <1>1, <1>2, <1>4, <1>5 DEF TapFits
<1>7. tap.sample.at # None => tap.sample.at < at
  BY <1>5, ArrivalsAre DEF TapFits
<1>8. tap.epochs <= new.epochs
  BY <1>4, TapFields DEF HealthTypeOK
<1>9. at # None
  BY ArrivalsAre
<1>10. Follows(new)
  BY <1>1, <1>2, <1>3, <1>4, <1>6, <1>7, <1>8, <1>9 DEF Follows, OtherOne, SameEpoch, Unmeasured
<1> QED
  BY <1>1, <1>4, <1>5, <1>10 DEF Evaluation

LEMMA AcceptOtherEvaluates ==
  ASSUME HealthTypeOK, TapFits(tap, time), Unmeasured(tap), NEW at \in Arrivals,
         NEW degrees \in {None, "normal", "warm", "hot"}, AcceptOther(at, degrees)
  PROVE  Evaluation
<1> DEFINE reading == [at |-> at, degrees |-> degrees]
           new == [tap EXCEPT !.status = reading]
<1>1. Clocked
  BY RunningClock DEF AcceptOther
<1>2. reading \in Reading
  BY ArrivalsAre DEF Reading, Maybe
<1>3. EvaluateTap(new) /\ (tap.epoch # 0 => at < tap.started)
  BY DEF AcceptOther
<1> HIDE DEF reading
<1>4. /\ new \in Tap /\ new.epochs = tap.epochs /\ new.epoch = tap.epoch /\ new.started = tap.started
      /\ new.sample = tap.sample /\ new.poured = tap.poured /\ new.renewed = tap.renewed
      /\ new.phase = tap.phase /\ new.volume = tap.volume
  BY <1>2 DEF HealthTypeOK, Tap
<1>5. ~(tap.epoch # 0 /\ tap.sample.at # None)
  <2>1. tap.epoch # 0 => tap.started \in Nat
    BY TapFields, Instants DEF HealthTypeOK, TapFits
  <2> QED
    BY <1>3, <2>1, ArrivalsAre DEF TapFits
<1> HIDE DEF new
<1>6. Follows(new)
  BY <1>1, <1>4, <1>5, KeepsFollowing
<1> QED
  BY <1>1, <1>3, <1>4, <1>6 DEF Evaluation

LEMMA ChangeAuthorityEvaluates ==
  ASSUME HealthTypeOK, TapFits(tap, time), Unmeasured(tap), NEW authority \in Maybe(Instant), NEW status \in Reading,
         ChangeAuthority(authority, status)
  PROVE  Evaluation
<1> DEFINE renewed == IF authority = None THEN tap.renewed ELSE tap.renewed \cup {"authority"}
           changed == [tap EXCEPT !.authority = authority, !.status = status, !.renewed = renewed]
<1>1. Clocked
  BY RunningClock DEF ChangeAuthority
<1>2. renewed \in SUBSET {"authority", "epoch"} /\ ("epoch" \in renewed <=> "epoch" \in tap.renewed)
  BY TapFields DEF HealthTypeOK
<1>3. /\ tap.epoch # 0 => tap.epochs < MaxEpoch
      /\ EvaluateTap(IF tap.epoch = 0 THEN changed ELSE NewEpoch(changed))
  BY DEF ChangeAuthority
<1> HIDE DEF renewed
<1>4. /\ changed \in Tap /\ changed.epochs = tap.epochs /\ changed.epoch = tap.epoch
      /\ changed.started = tap.started /\ changed.sample = tap.sample
      /\ changed.poured = tap.poured /\ changed.renewed = renewed
      /\ changed.phase = tap.phase /\ changed.volume = tap.volume
  BY <1>2 DEF HealthTypeOK, Tap
<1> HIDE DEF changed
<1>5. CASE tap.epoch = 0
  <2>1. Follows(changed)
    BY <1>1, <1>2, <1>4, <1>5, KeepsFollowing
  <2> QED
    BY <2>1, <1>1, <1>3, <1>4, <1>5 DEF Evaluation
<1>6. CASE tap.epoch # 0
  <2>1. NewEpoch(changed) \in Tap /\ Follows(NewEpoch(changed))
    BY <1>1, <1>3, <1>4, <1>6, NewEpochFollows
  <2> QED
    BY <2>1, <1>1, <1>3, <1>6 DEF Evaluation
<1> QED
  BY <1>5, <1>6

LEMMA NewEpochEvaluates ==
  ASSUME HealthTypeOK, HealthRunning, tap.epochs < MaxEpoch, EvaluateTap(NewEpoch(tap))
  PROVE  Evaluation
<1>1. Clocked
  BY RunningClock
<1>2. NewEpoch(tap) \in Tap /\ Follows(NewEpoch(tap))
  BY <1>1, NewEpochFollows DEF HealthTypeOK
<1> QED
  BY <1>1, <1>2 DEF Evaluation

LEMMA CloseAssignmentEvaluates ==
  ASSUME HealthTypeOK, TapFits(tap, time), Unmeasured(tap), CloseAssignment
  PROVE  Evaluation
<1> DEFINE reading == NoReading
           new == [tap EXCEPT !.epoch = 0, !.started = None, !.sample = reading,
                              !.phase = "waiting", !.volume = None, !.poured = None]
<1>1. Clocked
  BY RunningClock DEF CloseAssignment
<1>2. EvaluateTap(new)
  BY DEF CloseAssignment
<1>3. reading \in Reading /\ 0 \in 0 .. MaxEpoch
  BY ReadingFields, Sizes
<1> HIDE DEF reading
<1>4. /\ new \in Tap /\ new.epochs = tap.epochs /\ new.epoch = 0 /\ new.poured = None
      /\ new.phase = "waiting"
  BY <1>3 DEF HealthTypeOK, Tap, Maybe
<1> HIDE DEF new
<1>5. tap.epochs \in Nat
  BY TapFields DEF HealthTypeOK
<1>6. Follows(new)
  BY <1>4, <1>5 DEF Follows, TapFits
<1> QED
  BY <1>1, <1>2, <1>4, <1>6 DEF Evaluation

LEMMA RecordMaintenanceEvaluates ==
  ASSUME HealthTypeOK, TapFits(tap, time), Unmeasured(tap), NEW performed \in 0 .. time, RecordMaintenance(performed)
  PROVE  Evaluation
<1> DEFINE cleaned == IF tap.cleaned = None THEN performed ELSE Later(tap.cleaned, performed)
           new == [tap EXCEPT !.cleaned = cleaned]
<1>1. Clocked
  BY RunningClock DEF RecordMaintenance
<1>2. cleaned \in Maybe(Instant)
  BY TapFields, Now DEF HealthTypeOK, Later, Maybe
<1>3. EvaluateTap(new)
  <2>1. new = [tap EXCEPT !.cleaned = IF @ = None THEN performed ELSE Later(@, performed)]
    BY DEF HealthTypeOK, Tap
  <2> QED
    BY <2>1 DEF RecordMaintenance
<1> HIDE DEF cleaned
<1>4. /\ new \in Tap /\ new.epochs = tap.epochs /\ new.epoch = tap.epoch /\ new.started = tap.started
      /\ new.sample = tap.sample /\ new.poured = tap.poured /\ new.renewed = tap.renewed
      /\ new.status = tap.status /\ new.phase = tap.phase /\ new.volume = tap.volume
  BY <1>2 DEF HealthTypeOK, Tap
<1> HIDE DEF new
<1>5. Follows(new)
  BY <1>1, <1>4, KeepsFollowing
<1> QED
  BY <1>1, <1>3, <1>4, <1>5 DEF Evaluation

LEMMA RetireEvaluates ==
  ASSUME HealthTypeOK, TapFits(tap, time), Unmeasured(tap), Retire
  PROVE  Evaluation
<1> DEFINE new == [tap EXCEPT !.retired = TRUE]
<1>1. Clocked
  BY RunningClock DEF Retire
<1>2. /\ new \in Tap /\ new.epochs = tap.epochs /\ new.epoch = tap.epoch /\ new.started = tap.started
      /\ new.sample = tap.sample /\ new.poured = tap.poured /\ new.renewed = tap.renewed
      /\ new.status = tap.status /\ new.phase = tap.phase /\ new.volume = tap.volume
  BY DEF HealthTypeOK, Tap
<1>3. EvaluateTap(new)
  BY DEF Retire
<1> HIDE DEF new
<1>4. Follows(new)
  BY <1>1, <1>2, KeepsFollowing
<1> QED
  BY <1>1, <1>2, <1>3, <1>4 DEF Evaluation

LEMMA SwitchedTap ==
  ASSUME HealthTypeOK, NEW c \in Check
  PROVE  LET new == Switched(c)
         IN /\ new \in Tap /\ new.epochs = tap.epochs /\ new.epoch = tap.epoch
            /\ new.started = tap.started /\ new.sample = tap.sample /\ new.poured = tap.poured
            /\ new.renewed = tap.renewed /\ new.status = tap.status /\ new.retired = tap.retired
            /\ new.authority = tap.authority /\ new.volume = tap.volume /\ new.phase = tap.phase
<1> DEFINE on == IF c \in tap.enabled THEN tap.enabled \ {c} ELSE tap.enabled \cup {c}
           new == [tap EXCEPT !.enabled = on]
<1>1. on \in SUBSET Check
  BY TapFields DEF HealthTypeOK
<1>2. Switched(c) = new
  BY DEF HealthTypeOK, Tap, Switched
<1> HIDE DEF on
<1>3. /\ new \in Tap /\ new.epochs = tap.epochs /\ new.epoch = tap.epoch
      /\ new.started = tap.started /\ new.sample = tap.sample /\ new.poured = tap.poured
      /\ new.renewed = tap.renewed /\ new.status = tap.status /\ new.retired = tap.retired
      /\ new.authority = tap.authority /\ new.volume = tap.volume /\ new.phase = tap.phase
  BY <1>1 DEF HealthTypeOK, Tap
<1> QED
  BY <1>2, <1>3

LEMMA SwitchEvaluates ==
  ASSUME HealthTypeOK, TapFits(tap, time), Unmeasured(tap), NEW c \in Check,
         UpdateTapOverride(c) \/ UpdateGlobalConfig(c)
  PROVE  Evaluation
<1>1. Clocked
  BY RunningClock DEF UpdateTapOverride, UpdateGlobalConfig
<1>2. Switched(c) \in Tap /\ Follows(Switched(c))
  BY <1>1, SwitchedTap, KeepsFollowing
<1> QED
  BY <1>1, <1>2 DEF Evaluation, UpdateTapOverride, UpdateGlobalConfig

LEMMA SweepEvaluates ==
  ASSUME HealthTypeOK, TapFits(tap, time), Unmeasured(tap), RunSweepOnce \/ StartMaintenance
  PROVE  Evaluation
<1>1. Clocked
  <2>1. CASE RunSweepOnce
    BY <2>1, TickClock DEF RunSweepOnce, HealthTypeOK
  <2>2. CASE StartMaintenance
    <3>1. time \in Nat
      BY Now DEF HealthTypeOK
    <3> QED
      BY <2>2, <3>1 DEF StartMaintenance, HealthTypeOK, Clocked
  <2> QED
    BY <2>1, <2>2
<1>2. tap \in Tap /\ Follows(tap)
  BY <1>1, KeepsFollowing DEF HealthTypeOK
<1> QED
  BY <1>1, <1>2 DEF Evaluation, RunSweepOnce, StartMaintenance

(* The steps that evaluate nothing. *)
Quiet ==
  \/ \E at \in 0 .. time, v \in Volume : CompletePour(at, v)
  \/ EndCooldown \/ (tap.epochs < MaxEpoch /\ Rebaseline)
  \/ \E c \in Check : SweepFails(c) \/ AcknowledgeIncident(c)
  \/ \E c \in Check : \E until \in {None} \cup 0 .. MaxMoment : SetIncidentCooldown(c, until)
  \/ StopMaintenance \/ Pass

(* A step evaluates, or is one of the few that do not. *)
LEMMA HealthSteps ==
  ASSUME HealthTypeOK, TapFits(tap, time), Unmeasured(tap), HealthNext
  PROVE  Evaluation \/ Quiet
<1>1. CASE SampleArrives(Arrivals, {None, "normal", "warm", "hot"}, Findings)
  <2>1. PICK at \in Arrivals, d \in {None, "normal", "warm", "hot"} :
          AcceptOther(at, d) \/ \E f \in Findings : AcceptSample(at, d, f)
    BY <1>1 DEF SampleArrives
  <2> QED
    BY <2>1, AcceptOtherEvaluates, AcceptSampleEvaluates
<1>2. CASE \E c \in Check : OfCheck(c)
  BY <1>2, SwitchEvaluates DEF OfCheck, Quiet
<1>3. CASE OfTap({NoReading} \cup [at : 0 .. time - 1, degrees : {"normal", "warm"}])
  <2>1. ASSUME NEW status \in {NoReading} \cup [at : 0 .. time - 1, degrees : {"normal", "warm"}]
        PROVE  status \in Reading
    <3>1. 0 .. time - 1 \subseteq Instant
      BY Now DEF HealthTypeOK
    <3> QED
      BY <3>1, ReadingFields DEF Reading, Maybe
  <2>2. time \in Maybe(Instant) /\ None \in Maybe(Instant) /\ NoReading \in Reading
    BY Now, ReadingFields DEF HealthTypeOK, Maybe
  <2>3. CASE \E status \in {NoReading} \cup [at : 0 .. time - 1, degrees : {"normal", "warm"}] :
               ChangeAuthority(time, status)
    BY <2>1, <2>2, <2>3, ChangeAuthorityEvaluates
  <2>4. CASE tap.authority # None /\ ChangeAuthority(None, NoReading)
    BY <2>2, <2>4, ChangeAuthorityEvaluates
  <2>5. CASE tap.epochs < MaxEpoch /\ (OpenAssignment \/ CorrectKeg)
    BY <2>5, NewEpochEvaluates DEF OpenAssignment, CorrectKeg
  <2>6. CASE CloseAssignment \/ Retire
    BY <2>6, CloseAssignmentEvaluates, RetireEvaluates
  <2>7. CASE \E at \in 0 .. time : RecordMaintenance(at)
    BY <2>7, RecordMaintenanceEvaluates
  <2>8. CASE RunSweepOnce \/ StartMaintenance
    BY <2>8, SweepEvaluates
  <2>9. CASE \/ \E at \in 0 .. time, v \in Volume : CompletePour(at, v)
             \/ EndCooldown \/ (tap.epochs < MaxEpoch /\ Rebaseline) \/ StopMaintenance \/ Pass
    BY <2>9 DEF Quiet
  <2> QED
    BY <1>3, <2>3, <2>4, <2>5, <2>6, <2>7, <2>8, <2>9 DEF OfTap
<1> QED
  BY <1>1, <1>2, <1>3 DEF HealthNext

-----------------------------------------------------------------------------
(* The invariant, and that every step keeps it. *)

IncidentsFit ==
  \A c \in Check : TimesFit(incidents[c], time) /\ LevelFits(incidents[c], rows[c], tap.retired)
IsLow(t) == t.epoch # 0 /\ t.volume # None /\ t.volume < Threshold
WatchFits ==
  /\ (dip # None <=> IsLow(tap)) /\ (dip # None => dip <= time)
  /\ (hot # None <=> Heat(tap) # None) /\ (hot # None => hot <= time)
LowTimer ==
  "low_keg" \notin lapsed /\ rows["low_keg"].since # None
    /\ tap.epoch # 0 /\ "epoch" \notin tap.renewed =>
  dip # None /\ dip <= rows["low_keg"].since
HotTimer ==
  LET row == rows["serving_temperature"]
  IN "serving_temperature" \notin lapsed /\ row.since # None =>
       /\ Heat(tap) # None /\ row.observed = Heat(tap)
       /\ hot # None /\ hot <= row.since
LeakEpochs ==
  \A s \in leak : /\ s.epoch <= tap.epochs
                  /\ tap.epoch # 0 /\ "epoch" \in tap.renewed => s.epoch < tap.epoch
HealthInv ==
  HealthTypeOK /\ TapFits(tap, time) /\ Unmeasured(tap) /\ IncidentsFit /\ WatchFits
    /\ LowTimer /\ HotTimer /\ LeakEpochs

(* From the invariant: what an evaluation needs. *)
LEMMA Clocks ==
  ASSUME HealthTypeOK, Clocked
  PROVE  /\ time \in Nat /\ time' \in Nat /\ time' \in Instant /\ time' # None /\ time <= time'
         /\ time' \in 0 .. MaxMoment
BY Now, Instants DEF HealthTypeOK, Clocked

(* An evaluation leaves the Tap as it read it, but for the marks. *)
LEMMA EvaluatedTap ==
  ASSUME NEW new \in Tap, Evaluate(new)
  PROVE  /\ tap' \in Tap /\ tap'.retired = new.retired /\ tap'.enabled = new.enabled
         /\ tap'.authority = new.authority /\ tap'.status = new.status
         /\ tap'.epochs = new.epochs /\ tap'.epoch = new.epoch /\ tap'.started = new.started
         /\ tap'.sample = new.sample /\ tap'.renewed = {} /\ tap'.phase = new.phase
         /\ tap'.volume = new.volume /\ tap'.poured = new.poured
BY DEF Evaluate, Tap

LEMMA Heats ==
  ASSUME NEW t \in Tap
  PROVE  /\ Heat(t) \in Maybe(Instant) /\ (Heat(t) # None => Heat(t) \in Nat)
         /\ Heat(t) # None <=> /\ t.authority # None /\ t.status.at # None
                               /\ t.status.at >= t.authority /\ t.status.degrees \in {"warm", "hot"}
         /\ Heat(t) # None => Heat(t) = t.status.at
<1>1. t.status.at \in Maybe(Instant)
  BY TapFields, ReadingFields
<1>2. t.status.at # None => t.status.at \in Nat
  BY <1>1, Instants
<1> QED
  BY <1>1, <1>2 DEF Heat, Maybe

LEMMA WatchKeepsFitting ==
  ASSUME HealthTypeOK, WatchFits, Clocked, NEW new \in Tap, Watch(new),
         tap'.epoch = new.epoch, tap'.volume = new.volume, tap'.authority = new.authority,
         tap'.status = new.status
  PROVE  WatchFits'
<1>1. IsLow(tap') <=> IsLow(new)
  BY DEF IsLow
<1>2. Heat(tap') = Heat(new)
  BY DEF Heat
<1>3. time \in Nat /\ time' \in Nat /\ time' # None /\ time <= time'
  BY Clocks
<1>4. new.volume # None => new.volume \in Nat
  BY TapFields, Sizes DEF Maybe
<1>5. dip # None => dip \in Nat
  BY Instants DEF HealthTypeOK
<1>6. hot # None => hot \in Nat
  BY Instants DEF HealthTypeOK
<1>7. (dip' # None <=> IsLow(new)) /\ (dip' # None => dip' \in {dip, time'})
  BY <1>3, <1>4, Sizes DEF Watch, IsLow
<1>8. (hot' # None <=> Heat(new) # None) /\ (hot' # None => hot' \in {hot, time'})
  BY <1>3 DEF Watch
<1>9. (dip' # None => dip' <= time') /\ (hot' # None => hot' <= time')
  BY <1>3, <1>5, <1>6, <1>7, <1>8 DEF WatchFits
<1> QED
  BY <1>1, <1>2, <1>7, <1>8, <1>9 DEF WatchFits

(* The incidents after an evaluation. *)
LEMMA EvaluatedIncidents ==
  ASSUME HealthInv, Clocked, NEW new \in Tap, EvaluateTap(new) \/ Sweep(new), NEW c \in Check
  PROVE  /\ incidents'[c] \in Seq(Incident)
         /\ TimesFit(incidents'[c], time') /\ LevelFits(incidents'[c], rows'[c], new.retired)
         /\ \A i \in 1 .. Len(incidents[c]) :
              \/ incidents[c][i].resolved # None /\ incidents[c][i].resolved < time' - Retention
              \/ \E j \in 1 .. Len(incidents'[c]) : Goes(incidents[c][i], incidents'[c][j])
<1> DEFINE list == incidents[c]
           row == rows'[c]
           all == Synced(list, row)
<1>1. Evaluate(new)
  BY DEF EvaluateTap, Sweep
<1>2. row = Concluded(c, new, leak') /\ HealthTypeOK
  BY <1>1, Clocks, EvaluateTypes DEF HealthInv
<1>3. /\ row \in Row /\ row.evaluated = time' /\ (row.cooldown # None => row.cooldown > time')
      /\ new.retired => ~Alarm(row.verdict)
  BY <1>2, ConcludedRow, Clocks
<1>4. list \in Seq(Incident) /\ TimesFit(list, time)
  BY DEF HealthInv, HealthTypeOK, IncidentsFit
<1>5. /\ time \in Nat /\ time' \in 0 .. MaxMoment /\ time <= time' /\ time' \in Nat
      /\ new.retired \in BOOLEAN /\ Retention \in Nat
  BY <1>2, Clocks, TapFields, Sizes
<1>6. incidents'[c] = all \/ incidents'[c] = Kept(all)
  BY DEF EvaluateTap, Sweep
<1> HIDE DEF list, row
<1>7. /\ all \in Seq(Incident) /\ TimesFit(all, time') /\ LevelFits(all, row, new.retired)
      /\ Len(list) <= Len(all)
      /\ \A i \in 1 .. Len(list) : Goes(list[i], all[i]) /\ all[i].resolved \in {list[i].resolved, time'}
  BY <1>3, <1>4, <1>5, SyncedFits
<1> HIDE DEF all
<1>8. \A i \in 1 .. Len(list) : i \in 1 .. Len(all)
  BY <1>4, <1>7
<1>9. CASE incidents'[c] = all
  <2>1. \A i \in 1 .. Len(list) : \E j \in 1 .. Len(all) : Goes(list[i], all[j])
    BY <1>7, <1>8
  <2> QED
    BY <2>1, <1>7, <1>9 DEF list, row
<1>10. CASE incidents'[c] = Kept(all)
  <2>1. /\ Kept(all) \in Seq(Incident) /\ TimesFit(Kept(all), time')
        /\ LevelFits(Kept(all), row, new.retired)
        /\ \A i \in 1 .. Len(all) :
             Expired(all[i]) \/ \E j \in 1 .. Len(Kept(all)) : Kept(all)[j] = all[i]
    BY <1>3, <1>5, <1>7, KeptFits
  <2>2. ASSUME NEW i \in 1 .. Len(list), Expired(all[i])
        PROVE  list[i].resolved # None /\ list[i].resolved < time' - Retention
    <3>1. all[i].resolved # None /\ all[i].resolved < time' - Retention
      BY <2>2 DEF Expired
    <3>2. all[i].resolved # time'
      BY <1>5, <3>1
    <3> QED
      BY <1>7, <3>1, <3>2
  <2>3. \A i \in 1 .. Len(list) :
          \/ list[i].resolved # None /\ list[i].resolved < time' - Retention
          \/ \E j \in 1 .. Len(Kept(all)) : Goes(list[i], Kept(all)[j])
    BY <1>7, <1>8, <2>1, <2>2
  <2> QED
    BY <2>1, <2>3, <1>10 DEF list, row
<1> QED
  BY <1>6, <1>9, <1>10

(* The timer of the low-keg check started with the dip, or later. *)
LEMMA LowTimerStays ==
  ASSUME HealthInv, Clocked, NEW new \in Tap, Follows(new), Evaluate(new)
  PROVE  LowTimer'
<1> DEFINE row == rows["low_keg"]
           carried == Carried(row, new)
           after == rows'["low_keg"]
<1>1. "low_keg" \in Check /\ HealthTypeOK
  BY DEF Check, HealthInv
<1>2. row \in Row
  BY <1>1 DEF HealthTypeOK
<1>3. SUFFICES ASSUME "low_keg" \notin lapsed', after.since # None, tap'.epoch # 0
               PROVE  dip' # None /\ dip' <= after.since
  BY DEF LowTimer
<1>4. new.epoch # 0 /\ tap'.epoch = new.epoch /\ tap'.volume = new.volume
  BY <1>3, EvaluatedTap
<1>5. WatchFits'
  BY <1>1, EvaluatedTap, WatchKeepsFitting DEF Evaluate, HealthInv
<1>6. after.since = Conclusion("low_keg", row, new, time', leak').since /\ time' \in 0 .. MaxMoment
  BY <1>1, Clocks, EvaluateTypes, ConcludedRow
<1>7. time' \in Nat /\ time' # None
  BY <1>1, Clocks
<1>8. carried \in Row /\ (carried.since # None => carried.since = row.since /\ "epoch" \notin new.renewed)
  BY <1>2, <1>4, CarriedRow
<1>9. \/ after.since = carried.since
      \/ after.since = time' /\ IsLow(new)
  <2>1. CASE "low_keg" \notin new.enabled
    BY <1>1, <1>2, <1>3, <1>6, <2>1, ConclusionFinds
  <2>2. CASE "low_keg" \in new.enabled
    <3>1. Conclusion("low_keg", row, new, time', leak') = LowKeg(carried, new, time')
      BY <1>1, <1>2, <1>3, <1>6, <2>2, ConclusionFinds
    <3> QED
      BY <1>3, <1>6, <1>8, <3>1, LowKegFinds DEF IsLow
  <2> QED
    BY <2>1, <2>2
<1>10. CASE after.since = time' /\ IsLow(new)
  BY <1>4, <1>5, <1>10 DEF WatchFits, IsLow
<1>11. CASE after.since = carried.since
  <2>1. /\ carried.since = row.since /\ row.since # None /\ "epoch" \notin new.renewed
        /\ after.since = row.since
    BY <1>3, <1>8, <1>11
  <2>2. "low_keg" \notin lapsed /\ "low_keg" \in new.enabled
    BY <1>1, <1>3, <2>1 DEF Evaluate, Unwatched
  <2>3. new.epoch = tap.epoch /\ "epoch" \notin tap.renewed
    BY <1>4, <2>1 DEF Follows, SameEpoch
  <2>4. dip # None /\ dip <= row.since
    BY <1>4, <2>1, <2>2, <2>3 DEF HealthInv, LowTimer
  <2>5. Conclusion("low_keg", row, new, time', leak') = LowKeg(carried, new, time')
    BY <1>1, <1>2, <1>3, <1>6, <2>2, ConclusionFinds
  <2>6. IsLow(new)
    BY <1>3, <1>6, <1>8, <2>5, LowKegFinds DEF IsLow
  <2>7. dip' = dip
    <3>1. ~(new.volume >= Threshold)
      <4>1. new.volume \in Maybe(Volume) /\ new.volume # None /\ new.volume < Threshold
        BY <2>6, TapFields DEF IsLow
      <4>2. new.volume \in Nat /\ Threshold \in Nat
        BY <4>1, Sizes DEF Maybe
      <4> QED
        BY <4>1, <4>2
    <3>2. dip' = IF new.epoch = 0 \/ new.volume = None \/ new.volume >= Threshold THEN None
                 ELSE IF dip # None /\ new.epoch = tap.epoch THEN dip ELSE time'
      BY Zenon DEF Evaluate, Watch
    <3> QED
      BY <2>3, <2>4, <2>6, <3>1, <3>2, Zenon DEF IsLow
  <2> QED
    BY <2>1, <2>4, <2>7
<1> QED
  BY <1>9, <1>10, <1>11

(* That of the temperature check as the beer was first measured out of range, or later. *)
LEMMA HotTimerStays ==
  ASSUME HealthInv, Clocked, NEW new \in Tap, Follows(new), Evaluate(new)
  PROVE  HotTimer'
<1> DEFINE row == rows["serving_temperature"]
           carried == Carried(row, new)
           after == rows'["serving_temperature"]
           f == ServingTemperature(carried, new, time')
<1>1. "serving_temperature" \in Check /\ HealthTypeOK
  BY DEF Check, HealthInv
<1>2. row \in Row
  BY <1>1 DEF HealthTypeOK
<1>3. SUFFICES ASSUME "serving_temperature" \notin lapsed', after.since # None
               PROVE  /\ Heat(tap') # None /\ after.observed = Heat(tap')
                      /\ hot' # None /\ hot' <= after.since
  BY DEF HotTimer
<1>4. Heat(tap') = Heat(new)
  BY EvaluatedTap DEF Heat
<1>5. WatchFits'
  BY <1>1, EvaluatedTap, WatchKeepsFitting DEF Evaluate, HealthInv
<1>6. LET g == Conclusion("serving_temperature", row, new, time', leak')
      IN after.since = g.since /\ after.observed = g.observed /\ time' \in 0 .. MaxMoment
  BY <1>1, Clocks, EvaluateTypes, ConcludedRow
<1>7. time' \in Nat /\ time' # None
  BY <1>1, Clocks
<1>8. /\ carried \in Row
      /\ carried.since # None => carried.since = row.since /\ carried.observed = row.observed
  BY <1>2, CarriedRow
<1>9. "serving_temperature" \in new.enabled
  <2>1. SUFFICES ASSUME "serving_temperature" \notin new.enabled PROVE FALSE
    OBVIOUS
  <2>2. after.since = carried.since
    BY <1>1, <1>2, <1>3, <1>6, <2>1, ConclusionFinds
  <2> QED
    BY <1>1, <1>3, <1>8, <2>1, <2>2 DEF Evaluate, Unwatched
<1>10. after.since = f.since /\ after.observed = f.observed
  BY <1>1, <1>2, <1>3, <1>6, <1>9, ConclusionFinds
<1>11. /\ new.authority # None /\ Measurement(new).at # None
       /\ Measurement(new).degrees \in {"warm", "hot"} /\ f.observed = Measurement(new).at
       /\ \/ f.since = time'
          \/ /\ f.since = carried.since
             /\ carried.observed # None => Measurement(new).at - carried.observed <= Degraded
  BY <1>3, <1>6, <1>8, <1>10, ServingTemperatureFinds
<1>12. Heat(new) # None /\ Heat(new) = Measurement(new).at
  <2> DEFINE reading == IF new.epoch # 0 THEN new.sample ELSE new.status
  <2>1. Measurement(new) = reading /\ ~(reading.at < new.authority)
    BY <1>11, ReadingFields DEF Measurement
  <2>2. new.status = reading
    BY <1>11, <2>1 DEF Follows, TapFits
  <2>3. reading.at \in Nat /\ new.authority \in Nat
    <3>1. new.status.at \in Maybe(Instant) /\ new.authority \in Maybe(Instant)
      BY TapFields, ReadingFields
    <3> QED
      BY <1>11, <2>1, <2>2, <3>1, Instants
  <2>4. reading.at >= new.authority
    BY <2>1, <2>3
  <2> QED
    BY <1>11, <2>1, <2>2, <2>4, Heats
<1>13. Heat(tap') # None /\ after.observed = Heat(tap') /\ hot' # None /\ hot' <= time'
  BY <1>4, <1>5, <1>10, <1>11, <1>12 DEF WatchFits
<1>14. CASE after.since = time'
  BY <1>13, <1>14
<1>15. CASE after.since # time'
  <2>1. /\ after.since = row.since /\ row.since # None
        /\ row.observed # None => Heat(new) - row.observed <= Degraded
    BY <1>3, <1>8, <1>10, <1>11, <1>12, <1>15
  <2>2. "serving_temperature" \notin lapsed
    BY <1>1, <1>3, <2>1 DEF Evaluate, Unwatched
  <2>3. Heat(tap) # None /\ row.observed = Heat(tap) /\ hot # None /\ hot <= row.since
    BY <2>1, <2>2 DEF HealthInv, HotTimer
  <2>4. hot' = hot
    BY <1>12, <2>1, <2>3 DEF Evaluate, Watch
  <2> QED
    BY <1>13, <2>1, <2>3, <2>4
<1> QED
  BY <1>14, <1>15

(* An evaluation keeps the invariant; so do the steps that evaluate nothing. *)
LEMMA EvaluationKeepsHealth ==
  ASSUME HealthInv, Evaluation
  PROVE  HealthInv'
<1>1. PICK new \in Tap : Clocked /\ Follows(new) /\ (EvaluateTap(new) \/ Sweep(new))
  BY DEF Evaluation
<1>2. HealthTypeOK /\ Evaluate(new) /\ time' \in 0 .. MaxMoment
  BY <1>1, Clocks DEF HealthInv, EvaluateTap, Sweep
<1>3. HealthTypeOK'
  <2>1. incidents' \in [Check -> Seq(Incident)]
    <3>1. incidents' = [c \in Check |-> incidents'[c]]
      BY <1>1 DEF EvaluateTap, Sweep
    <3>2. \A c \in Check : incidents'[c] \in Seq(Incident)
      BY <1>1, EvaluatedIncidents
    <3> QED
      BY <3>1, <3>2
  <2> QED
    BY <1>1, <1>2, <2>1, EvaluateTypes DEF HealthTypeOK, Clocked
<1>4. /\ tap'.retired = new.retired /\ tap'.epoch = new.epoch /\ tap'.epochs = new.epochs
      /\ tap'.renewed = {} /\ tap'.started = new.started /\ tap'.sample = new.sample
      /\ tap'.status = new.status /\ tap'.poured = new.poured /\ tap'.volume = new.volume
      /\ tap'.authority = new.authority
  BY <1>2, EvaluatedTap
<1>5. TapFits(tap', time') /\ Unmeasured(tap')
  BY <1>1, <1>4 DEF Follows, TapFits, Unmeasured
<1>6. IncidentsFit'
  BY <1>1, <1>4, EvaluatedIncidents DEF IncidentsFit
<1>7. WatchFits'
  BY <1>1, <1>2, <1>4, WatchKeepsFitting DEF HealthInv, Evaluate
<1>8. LowTimer' /\ HotTimer'
  BY <1>1, <1>2, LowTimerStays, HotTimerStays
<1>9. LeakEpochs'
  <2>1. SUFFICES ASSUME NEW s \in leak'
                 PROVE  s.epoch <= new.epochs
    BY <1>4 DEF LeakEpochs
  <2>2. /\ leak' \in NextSamples(Carried(rows["suspected_leak"], new), new, time')
        /\ Carried(rows["suspected_leak"], new) \in Row
    <3>1. rows["suspected_leak"] \in Row
      BY <1>2 DEF HealthTypeOK, Check
    <3> QED
      BY <1>2, <3>1, CarriedRow, EvaluateTypes
  <2>3. s \in leak \/ (LeakUsable(new, time') /\ s = Observation(new))
    BY <1>2, <2>1, <2>2, NextSamplesAre DEF HealthTypeOK, Prior
  <2>4. CASE s \in leak
    <3>1. s.epoch <= tap.epochs /\ tap.epochs <= new.epochs
      BY <1>1, <2>4 DEF HealthInv, LeakEpochs, Follows
    <3>2. s.epoch \in Nat
      BY <1>2, <2>4, Samples DEF HealthTypeOK
    <3>3. tap.epochs \in Nat /\ new.epochs \in Nat
      BY <1>2, TapFields DEF HealthTypeOK
    <3> QED
      BY <3>1, <3>2, <3>3
  <2>5. CASE LeakUsable(new, time') /\ s = Observation(new)
    BY <1>1, <1>2, <2>5, Observed DEF Follows, TapFits
  <2> QED
    BY <2>3, <2>4, <2>5
<1> QED
  BY <1>3, <1>5, <1>6, <1>7, <1>8, <1>9 DEF HealthInv

(* A step that changes the Tap but none of its incidents. *)
LEMMA TapChangeKeepsHealth ==
  ASSUME HealthInv, HealthRunning, tap' \in Tap, TapFits(tap', time'), Unmeasured(tap'), WatchFits',
         LowTimer', HotTimer', tap'.retired = tap.retired, LeakEpochs',
         UNCHANGED <<rows, leak, incidents, lapsed>>, spanned' \subseteq leak',
         {dip', hot'} \subseteq Maybe(Instant)
  PROVE  HealthInv'
<1>1. HealthTypeOK' /\ time' = time
  BY DEF HealthInv, HealthTypeOK, HealthRunning
<1>2. IncidentsFit'
  BY <1>1 DEF HealthInv, IncidentsFit
<1> QED
  BY <1>1, <1>2 DEF HealthInv

LEMMA WatchTypes ==
  ASSUME HealthTypeOK, time' = time, NEW new, Watch(new)
  PROVE  {dip', hot'} \subseteq Maybe(Instant)
<1>1. time \in Instant
  BY Now DEF HealthTypeOK
<1>2. dip' \in {None, dip, time'} /\ hot' \in {None, hot, time'}
  BY DEF Watch
<1> QED
  BY <1>1, <1>2 DEF HealthTypeOK, Maybe

LEMMA CompletePourKeepsHealth ==
  ASSUME HealthInv, NEW at \in 0 .. time, NEW volume \in Volume, CompletePour(at, volume)
  PROVE  /\ HealthInv'
         /\ tap'.epoch = tap.epoch /\ tap'.renewed = tap.renewed /\ tap'.sample = tap.sample
         /\ tap'.volume = volume /\ tap'.phase = tap.phase
<1>1. HealthTypeOK /\ HealthRunning /\ Clocked /\ time' = time
  BY RunningClock DEF HealthInv, CompletePour
<1>2. at \in Instant /\ at \in Nat /\ at <= time /\ tap \in Tap
  BY <1>1, Now DEF HealthTypeOK
<1>3. /\ tap' \in Tap /\ tap'.retired = tap.retired /\ tap'.epochs = tap.epochs
      /\ tap'.epoch = tap.epoch /\ tap'.started = tap.started /\ tap'.sample = tap.sample
      /\ tap'.status = tap.status /\ tap'.authority = tap.authority /\ tap'.renewed = tap.renewed
      /\ tap'.poured = at /\ tap'.volume = volume /\ tap'.phase = tap.phase
  BY <1>2 DEF CompletePour, Tap, Maybe
<1>4. Watch(tap')
  BY DEF CompletePour
<1>5. WatchFits'
  BY <1>1, <1>3, <1>4, WatchKeepsFitting DEF HealthInv
<1>6. TapFits(tap', time') /\ Unmeasured(tap')
  <2>1. "epoch" \notin tap.renewed
    BY DEF HealthInv, Unmeasured, CompletePour
  <2> QED
    BY <1>1, <1>2, <1>3, <2>1 DEF HealthInv, TapFits, Unmeasured
<1>7. LeakEpochs'
  BY <1>3 DEF CompletePour, HealthInv, LeakEpochs
<1>8. Heat(tap') = Heat(tap)
  BY <1>3 DEF Heat
<1>9. HotTimer'
  <2>1. hot # None /\ Heat(tap) # None => hot' = hot
    <3>1. Heat(tap) # None => Heat(tap) \in Nat
      BY <1>1, Heats DEF HealthTypeOK
    <3>2. hot' = IF Heat(tap') = None THEN None
                 ELSE IF hot # None /\ Heat(tap') - Heat(tap) <= Degraded THEN hot ELSE time'
      BY <1>4, Zenon DEF Watch
    <3>3. Heat(tap) # None => Heat(tap') - Heat(tap) <= Degraded
      BY <1>8, <3>1, Sizes
    <3> QED
      BY <1>8, <3>2, <3>3
  <2>2. UNCHANGED <<rows, lapsed>> /\ HotTimer
    BY DEF CompletePour, HealthInv
  <2> QED
    BY <1>8, <2>1, <2>2 DEF HotTimer
<1>10. LowTimer'
  <2>1. IsLow(tap) => dip' = dip
    <3>1. IsLow(tap) => ~(volume >= Threshold)
      <4>1. tap.volume # None => tap.volume \in Nat
        BY <1>2, TapFields, Sizes DEF Maybe
      <4>2. volume < tap.volume /\ volume \in Nat /\ Threshold \in Nat
        BY Sizes DEF CompletePour
      <4> QED
        BY <4>1, <4>2 DEF IsLow
    <3>2. IsLow(tap) => dip # None
      BY DEF HealthInv, WatchFits
    <3>3. volume # None
      BY Sizes, NoneAssumption
    <3>4. dip' = IF tap'.epoch = 0 \/ tap'.volume = None \/ tap'.volume >= Threshold THEN None
                 ELSE IF dip # None /\ tap'.epoch = tap.epoch THEN dip ELSE time'
      BY <1>4, Zenon DEF Watch
    <3>5. dip' = IF tap.epoch = 0 \/ volume = None \/ volume >= Threshold THEN None
                 ELSE IF dip # None /\ tap.epoch = tap.epoch THEN dip ELSE time'
      BY <1>3, <3>4
    <3> QED
      BY <3>1, <3>2, <3>3, <3>5, Zenon DEF IsLow
  <2>2. UNCHANGED <<rows, lapsed>> /\ LowTimer
    BY DEF CompletePour, HealthInv
  <2>3. dip # None => IsLow(tap)
    BY DEF HealthInv, WatchFits
  <2> QED
    BY <1>3, <2>1, <2>2, <2>3 DEF LowTimer
<1>11. {dip', hot'} \subseteq Maybe(Instant)
  BY <1>1, <1>4, WatchTypes
<1>12. UNCHANGED <<rows, leak, incidents, lapsed>> /\ spanned' \subseteq leak'
  BY DEF CompletePour
<1>13. HealthInv'
  BY <1>1, <1>3, <1>5, <1>6, <1>7, <1>9, <1>10, <1>11, <1>12, TapChangeKeepsHealth
<1> QED
  BY <1>3, <1>13

LEMMA SameTapKeepsHealth ==
  ASSUME HealthInv, HealthRunning, tap' \in Tap,
         UNCHANGED <<rows, leak, incidents, dip, hot, lapsed, spanned>>,
         tap'.retired = tap.retired, tap'.epochs = tap.epochs, tap'.epoch = tap.epoch,
         tap'.started = tap.started, tap'.sample = tap.sample, tap'.status = tap.status,
         tap'.authority = tap.authority, tap'.renewed = tap.renewed, tap'.poured = tap.poured,
         tap'.volume = tap.volume
  PROVE  HealthInv'
<1>1. time' = time /\ TapFits(tap, time) /\ WatchFits /\ LowTimer /\ HotTimer /\ LeakEpochs
  BY DEF HealthInv, HealthRunning
<1>2. TapFits(tap', time') /\ Unmeasured(tap')
  BY <1>1 DEF TapFits, Unmeasured, HealthInv
<1>3. (IsLow(tap') <=> IsLow(tap)) /\ Heat(tap') = Heat(tap)
  BY DEF IsLow, Heat
<1>4. WatchFits' /\ LowTimer' /\ HotTimer' /\ LeakEpochs'
  BY <1>1, <1>3 DEF WatchFits, LowTimer, HotTimer, LeakEpochs
<1>5. {dip', hot'} \subseteq Maybe(Instant)
  BY DEF HealthInv, HealthTypeOK
<1>6. UNCHANGED <<rows, leak, incidents, lapsed>> /\ spanned' \subseteq leak'
  BY DEF HealthInv, HealthTypeOK
<1> QED
  BY <1>2, <1>4, <1>5, <1>6, TapChangeKeepsHealth

LEMMA EndCooldownKeepsHealth ==
  ASSUME HealthInv, EndCooldown
  PROVE  /\ HealthInv'
         /\ tap'.epoch = tap.epoch /\ tap'.renewed = tap.renewed /\ tap'.sample = tap.sample
         /\ tap'.volume = tap.volume /\ tap'.phase = "ready"
<1>1. /\ tap' \in Tap /\ tap'.retired = tap.retired /\ tap'.epochs = tap.epochs
      /\ tap'.epoch = tap.epoch /\ tap'.started = tap.started /\ tap'.sample = tap.sample
      /\ tap'.status = tap.status /\ tap'.authority = tap.authority /\ tap'.renewed = tap.renewed
      /\ tap'.poured = tap.poured /\ tap'.volume = tap.volume /\ tap'.phase = "ready"
  BY DEF EndCooldown, HealthInv, HealthTypeOK, Tap
<1>2. HealthRunning /\ UNCHANGED <<rows, leak, incidents, dip, hot, lapsed, spanned>>
  BY DEF EndCooldown
<1> QED
  BY <1>1, <1>2, SameTapKeepsHealth

LEMMA SweepFailsKeepsHealth ==
  ASSUME HealthInv, NEW c \in Check, SweepFails(c)
  PROVE  /\ HealthInv'
         /\ tap'.epoch = tap.epoch /\ tap'.renewed = tap.renewed /\ tap'.sample = tap.sample
         /\ tap'.volume = tap.volume /\ tap'.phase = tap.phase
<1>1. HealthRunning /\ UNCHANGED <<rows, leak, incidents, dip, hot, lapsed, spanned>> /\ tap' = Switched(c)
  BY DEF SweepFails
<1> QED
  BY <1>1, SwitchedTap, SameTapKeepsHealth DEF HealthInv

LEMMA RebaselineKeepsHealth ==
  ASSUME HealthInv, tap.epochs < MaxEpoch, Rebaseline
  PROVE  HealthInv' /\ tap'.epoch # 0 /\ "epoch" \in tap'.renewed
<1>1. HealthTypeOK /\ HealthRunning /\ Clocked /\ time' = time
  BY RunningClock DEF HealthInv, Rebaseline
<1>2. tap' = NewEpoch(tap) /\ Watch(tap') /\ UNCHANGED <<rows, leak, incidents, lapsed, spanned>>
  BY DEF Rebaseline
<1>3. /\ tap' \in Tap /\ tap'.epochs = tap.epochs + 1 /\ tap'.epoch = tap.epochs + 1
      /\ "epoch" \in tap'.renewed /\ tap'.retired = tap.retired /\ tap'.status = tap.status
      /\ tap'.authority = tap.authority /\ tap.epochs \in Nat /\ tap'.volume = None
  BY <1>1, <1>2, NewEpochIs, TapFields DEF HealthTypeOK
<1>4. TapFits(tap', time') /\ Unmeasured(tap') /\ tap'.epoch # 0
  BY <1>1, <1>2, <1>3, NewEpochFollows DEF HealthTypeOK, Follows, Unmeasured
<1>5. WatchFits'
  BY <1>1, <1>2, <1>3, WatchKeepsFitting DEF HealthInv
<1>6. LowTimer'
  BY <1>3 DEF LowTimer
<1>7. Heat(tap') = Heat(tap)
  BY <1>3 DEF Heat
<1>8. HotTimer'
  <2>1. hot # None /\ Heat(tap) # None => hot' = hot
    <3>1. Heat(tap) # None => Heat(tap) \in Nat
      BY <1>1, Heats DEF HealthTypeOK
    <3>2. hot' = IF Heat(tap') = None THEN None
                 ELSE IF hot # None /\ Heat(tap') - Heat(tap) <= Degraded THEN hot ELSE time'
      BY <1>2, Zenon DEF Watch
    <3>3. Heat(tap) # None => Heat(tap') - Heat(tap) <= Degraded
      BY <1>7, <3>1, Sizes
    <3> QED
      BY <1>7, <3>2, <3>3
  <2> QED
    BY <1>2, <1>7, <2>1 DEF HotTimer, HealthInv
<1>9. LeakEpochs'
  <2>1. ASSUME NEW s \in leak
        PROVE  s.epoch <= tap.epochs + 1 /\ s.epoch < tap.epochs + 1
    <3>1. s.epoch \in Nat /\ s.epoch <= tap.epochs
      BY <1>1, Samples DEF HealthTypeOK, HealthInv, LeakEpochs
    <3> QED
      BY <1>3, <3>1
  <2> QED
    BY <1>2, <1>3, <2>1 DEF LeakEpochs
<1>10. {dip', hot'} \subseteq Maybe(Instant) /\ spanned' \subseteq leak'
  BY <1>1, <1>2, WatchTypes DEF HealthTypeOK
<1> QED
  BY <1>1, <1>2, <1>3, <1>4, <1>5, <1>6, <1>8, <1>9, <1>10, TapChangeKeepsHealth

(* An acknowledgement leaves the incident otherwise as it was. *)
LEMMA AcknowledgedFits ==
  ASSUME NEW list \in Seq(Incident), IsOpen(list), NEW now, TimesFit(list, now),
         NEW row, NEW retired, LevelFits(list, row, retired)
  PROVE  LET all == [list EXCEPT ![Len(list)].acknowledged = TRUE]
         IN /\ all \in Seq(Incident) /\ TimesFit(all, now) /\ LevelFits(all, row, retired)
            /\ Len(all) = Len(list) /\ \A i \in 1 .. Len(list) : Goes(list[i], all[i])
<1> DEFINE n == Len(list)
           last == list[n]
           new == [last EXCEPT !.acknowledged = TRUE]
           all == [list EXCEPT ![n] = new]
<1>1. n \in Nat /\ n \in 1 .. n /\ list # <<>> /\ last.resolved = None /\ \A i \in 1 .. n : list[i] \in Incident
  BY DEF IsOpen
<1>2. last \in Incident
  BY <1>1
<1>3. [list EXCEPT ![Len(list)].acknowledged = TRUE] = all
  OBVIOUS
<1> HIDE DEF last
<1>4. /\ new \in Incident /\ new.level = last.level /\ new.worst = last.worst
      /\ new.opened = last.opened /\ new.resolved = last.resolved /\ new.acknowledged = TRUE
  BY <1>2 DEF Incident
<1> HIDE DEF new
<1>5. all \in Seq(Incident) /\ Len(all) = n /\ \A i \in 1 .. n : all[i] = IF i = n THEN new ELSE list[i]
  BY <1>1, <1>4
<1> HIDE DEF all
<1>6. \A i \in 1 .. n : all[i].opened = list[i].opened /\ all[i].resolved = list[i].resolved
  BY <1>4, <1>5 DEF last
<1>7. TimesFit(all, now)
  <2> HIDE DEF n
  <2>1. Len(list) = n /\ \A i \in 1 .. n : i < n => i + 1 \in 1 .. n
    BY <1>1 DEF n
  <2> QED
    BY <1>5, <1>6, <2>1 DEF TimesFit
<1>8. all # <<>> /\ all[n] = new
  BY <1>1, <1>5
<1>9. LevelFits(all, row, retired)
  BY <1>1, <1>4, <1>5, <1>8 DEF LevelFits, IsOpen, last
<1>10. \A i \in 1 .. n : Goes(list[i], all[i])
  BY <1>1, <1>4, <1>5 DEF Goes, last
<1> QED
  BY <1>3, <1>5, <1>7, <1>9, <1>10

LEMMA AcknowledgeKeepsHealth ==
  ASSUME HealthInv, NEW c \in Check, AcknowledgeIncident(c)
  PROVE  /\ HealthInv'
         /\ \A d \in Check : /\ Len(incidents'[d]) = Len(incidents[d])
                             /\ \A i \in 1 .. Len(incidents[d]) : Goes(incidents[d][i], incidents'[d][i])
<1> DEFINE all == [incidents[c] EXCEPT ![Len(incidents[c])].acknowledged = TRUE]
<1>1. /\ HealthRunning /\ UNCHANGED <<tap, rows, leak, dip, hot, lapsed, spanned>> /\ IsOpen(incidents[c])
      /\ incidents' = [incidents EXCEPT ![c] = all] /\ HealthTypeOK /\ time' = time
  <2>1. incidents' = [incidents EXCEPT ![c][Len(incidents[c])].acknowledged = TRUE]
    BY DEF AcknowledgeIncident
  <2>2. incidents' = [incidents EXCEPT ![c] = all]
    BY <2>1
  <2> QED
    BY <2>2 DEF AcknowledgeIncident, HealthInv, HealthRunning
<1>2. /\ incidents[c] \in Seq(Incident) /\ TimesFit(incidents[c], time)
      /\ LevelFits(incidents[c], rows[c], tap.retired)
  BY <1>1 DEF HealthTypeOK, HealthInv, IncidentsFit
<1>3. /\ all \in Seq(Incident) /\ TimesFit(all, time) /\ LevelFits(all, rows[c], tap.retired)
      /\ Len(all) = Len(incidents[c])
      /\ \A i \in 1 .. Len(incidents[c]) : Goes(incidents[c][i], all[i])
  BY <1>1, <1>2, AcknowledgedFits
<1> HIDE DEF all
<1>4. incidents \in [Check -> Seq(Incident)]
  BY <1>1 DEF HealthTypeOK
<1>5. \A d \in Check : incidents'[d] = IF d = c THEN all ELSE incidents[d]
  BY <1>1, <1>4
<1>6. incidents' \in [Check -> Seq(Incident)]
  BY <1>1, <1>3, <1>4
<1>7. HealthTypeOK'
  BY <1>1, <1>6 DEF HealthTypeOK, HealthRunning
<1>8. IncidentsFit'
  <2>1. ASSUME NEW d \in Check
        PROVE  TimesFit(incidents'[d], time) /\ LevelFits(incidents'[d], rows[d], tap.retired)
    BY <1>3, <1>5 DEF HealthInv, IncidentsFit
  <2> QED
    BY <1>1, <2>1 DEF IncidentsFit
<1>9. TapFits(tap', time') /\ Unmeasured(tap') /\ WatchFits' /\ LowTimer' /\ HotTimer' /\ LeakEpochs'
  BY <1>1 DEF HealthInv, WatchFits, LowTimer, HotTimer, LeakEpochs
<1>10. ASSUME NEW d \in Check
       PROVE  /\ Len(incidents'[d]) = Len(incidents[d])
              /\ \A i \in 1 .. Len(incidents[d]) : Goes(incidents[d][i], incidents'[d][i])
  BY <1>3, <1>5 DEF Goes
<1> QED
  BY <1>7, <1>8, <1>9, <1>10 DEF HealthInv

LEMMA CooldownKeepsHealth ==
  ASSUME HealthInv, NEW c \in Check, NEW until \in {None} \cup 0 .. MaxMoment,
         SetIncidentCooldown(c, until)
  PROVE  /\ HealthInv'
         /\ \A d \in Check : rows'[d].verdict = rows[d].verdict /\ rows'[d].until = rows[d].until
<1> DEFINE row == rows[c]
           new == [row EXCEPT !.cooldown = until]
<1>1. /\ HealthRunning /\ UNCHANGED <<tap, leak, incidents, dip, hot, lapsed, spanned>> /\ IsOpen(incidents[c])
      /\ rows' = [rows EXCEPT ![c] = new] /\ HealthTypeOK /\ time' = time
  BY DEF SetIncidentCooldown, HealthInv, HealthRunning
<1>2. row \in Row /\ until \in Maybe(Nat)
  BY <1>1, Sizes DEF HealthTypeOK, Maybe
<1>3. /\ new \in Row /\ new.verdict = row.verdict /\ new.since = row.since
      /\ new.observed = row.observed /\ new.until = row.until
  BY <1>2 DEF Row
<1> HIDE DEF new
<1>4. rows \in [Check -> Row]
  BY <1>1 DEF HealthTypeOK
<1>5. \A d \in Check : rows'[d] = IF d = c THEN new ELSE rows[d]
  BY <1>1, <1>4
<1>6. \A d \in Check : /\ rows'[d].verdict = rows[d].verdict /\ rows'[d].since = rows[d].since
                       /\ rows'[d].observed = rows[d].observed /\ rows'[d].until = rows[d].until
  BY <1>3, <1>5
<1>7. HealthTypeOK'
  BY <1>1, <1>3, <1>4 DEF HealthTypeOK, HealthRunning
<1>8. IncidentsFit'
  <2>1. ASSUME NEW d \in Check
        PROVE  TimesFit(incidents[d], time) /\ LevelFits(incidents[d], rows'[d], tap.retired)
    <3>1. TimesFit(incidents[d], time) /\ LevelFits(incidents[d], rows[d], tap.retired)
      BY DEF HealthInv, IncidentsFit
    <3>2. CASE d = c
      BY <1>1, <1>6, <3>1, <3>2 DEF LevelFits
    <3>3. CASE d # c
      BY <1>5, <3>1, <3>3
    <3> QED
      BY <3>2, <3>3
  <2> QED
    BY <1>1, <2>1 DEF IncidentsFit
<1>9. "low_keg" \in Check /\ "serving_temperature" \in Check
  BY DEF Check
<1>10. LowTimer'
  BY <1>1, <1>6, <1>9 DEF HealthInv, LowTimer
<1>11. HotTimer'
  BY <1>1, <1>6, <1>9 DEF HealthInv, HotTimer
<1>12. TapFits(tap', time') /\ Unmeasured(tap') /\ WatchFits' /\ LeakEpochs'
  BY <1>1 DEF HealthInv, WatchFits, LeakEpochs
<1> QED
  BY <1>6, <1>7, <1>8, <1>10, <1>11, <1>12 DEF HealthInv

LEMMA ProcessKeepsHealth ==
  ASSUME HealthInv, StopMaintenance \/ Pass
  PROVE  HealthInv'
<1>1. /\ UNCHANGED <<tap, rows, leak, incidents, dip, hot, lapsed, spanned>> /\ healthUp' \in BOOLEAN
      /\ HealthTypeOK
  BY DEF StopMaintenance, Pass, HealthInv, HealthTypeOK
<1>2. Clocked
  <2>1. CASE StopMaintenance
    BY <2>1, <1>1, Now DEF StopMaintenance, HealthTypeOK, Clocked
  <2>2. CASE Pass
    BY <2>2, <1>1, TickClock DEF Pass
  <2> QED
    BY <2>1, <2>2
<1>3. time \in Nat /\ time' \in Nat /\ time <= time'
  BY <1>1, <1>2, Clocks
<1>4. HealthTypeOK'
  BY <1>1, <1>2 DEF HealthTypeOK, Clocked
<1>5. IncidentsFit'
  <2>1. ASSUME NEW c \in Check
        PROVE  TimesFit(incidents[c], time') /\ LevelFits(incidents[c], rows[c], tap.retired)
    <3>1. incidents[c] \in Seq(Incident)
      BY <1>1 DEF HealthTypeOK
    <3> QED
      BY <1>3, <3>1, TimesPass DEF HealthInv, IncidentsFit
  <2> QED
    BY <1>1, <2>1 DEF IncidentsFit
<1>6. TapFits(tap', time') /\ Unmeasured(tap') /\ WatchFits'
  <2>1. tap.poured # None => tap.poured \in Nat
    BY <1>1, TapFields, Instants DEF HealthTypeOK
  <2>2. (dip # None => dip \in Nat) /\ (hot # None => hot \in Nat)
    BY <1>1, Instants DEF HealthTypeOK
  <2>3. (tap.poured # None => tap.poured <= time') /\ (dip # None => dip <= time') /\ (hot # None => hot <= time')
    BY <1>3, <2>1, <2>2 DEF HealthInv, TapFits, WatchFits
  <2> QED
    BY <1>1, <2>3 DEF HealthInv, TapFits, WatchFits
<1>7. LowTimer' /\ HotTimer' /\ LeakEpochs'
  BY <1>1 DEF HealthInv, LowTimer, HotTimer, LeakEpochs
<1> QED
  BY <1>4, <1>5, <1>6, <1>7 DEF HealthInv

(* The invariant holds of a new Tap. *)
LEMMA HealthInitOK == HealthInit => HealthInv
<1> SUFFICES ASSUME HealthInit PROVE HealthInv
  OBVIOUS
<1>1. PICK on \in SUBSET Check : tap = [Bare EXCEPT !.enabled = on]
  BY DEF HealthInit
<1>2. 0 \in 0 .. MaxMoment /\ 0 \in Instant /\ 0 \in 0 .. MaxEpoch /\ None # 0
  BY Sizes, Instants
<1>3. /\ tap \in Tap /\ tap.epoch = 0 /\ tap.epochs = 0 /\ tap.authority = None
      /\ tap.poured = None /\ tap.volume = None
  <2> DEFINE reading == NoReading
  <2>1. reading \in Reading
    BY ReadingFields
  <2>2. Bare = [retired |-> FALSE, enabled |-> {}, authority |-> None, status |-> reading,
                epochs |-> 0, epoch |-> 0, started |-> None, sample |-> reading, renewed |-> {},
                phase |-> "waiting", volume |-> None, poured |-> None, cleaned |-> None]
    BY DEF Bare
  <2> HIDE DEF reading
  <2> QED
    BY <1>1, <1>2, <2>1, <2>2 DEF Tap, Maybe
<1>4. Seeded \in Row /\ Seeded.since = None /\ Seeded.verdict = "not_configured"
  BY <1>2 DEF Seeded, Row, Verdict, Maybe
<1>5. /\ time = 0 /\ healthUp = TRUE /\ rows = [c \in Check |-> Seeded] /\ leak = {}
      /\ incidents = [c \in Check |-> <<>>] /\ dip = None /\ hot = None /\ lapsed = {}
      /\ spanned = {}
  BY DEF HealthInit
<1>6. HealthTypeOK
  BY <1>2, <1>3, <1>4, <1>5 DEF HealthTypeOK, Maybe
<1>7. TapFits(tap, time) /\ Unmeasured(tap)
  BY <1>3 DEF TapFits, Unmeasured
<1>8. IncidentsFit
  <2>1. ASSUME NEW c \in Check
        PROVE  TimesFit(incidents[c], time) /\ LevelFits(incidents[c], rows[c], tap.retired)
    <3>1. incidents[c] = <<>> /\ rows[c] = Seeded
      BY <1>5
    <3>2. ~IsOpen(<<>>) /\ Len(<<>>) = 0
      BY DEF IsOpen
    <3> QED
      BY <1>4, <3>1, <3>2, Verdicts DEF TimesFit, LevelFits
  <2> QED
    BY <2>1 DEF IncidentsFit
<1>9. WatchFits /\ HotTimer /\ LowTimer /\ LeakEpochs
  <2>1. Heat(tap) = None
    BY <1>3 DEF Heat
  <2>2. rows["serving_temperature"].since = None
    BY <1>4, <1>5 DEF Check
  <2> QED
    BY <1>3, <1>5, <2>1, <2>2 DEF WatchFits, HotTimer, LowTimer, LeakEpochs, IsLow
<1> QED
  BY <1>6, <1>7, <1>8, <1>9 DEF HealthInv

(* Every step keeps it. *)
LEMMA HealthInvNext == HealthInv /\ [HealthNext]_healthVars => HealthInv'
<1> SUFFICES ASSUME HealthInv, [HealthNext]_healthVars
             PROVE  HealthInv'
  OBVIOUS
<1>1. CASE HealthNext
  <2>1. Evaluation \/ Quiet
    BY <1>1, HealthSteps DEF HealthInv
  <2>2. CASE Evaluation
    BY <2>2, EvaluationKeepsHealth
  <2>3. CASE Quiet
    BY <2>3, CompletePourKeepsHealth, EndCooldownKeepsHealth, RebaselineKeepsHealth,
       SweepFailsKeepsHealth, AcknowledgeKeepsHealth, CooldownKeepsHealth, ProcessKeepsHealth
       DEF Quiet
  <2> QED
    BY <2>1, <2>2, <2>3
<1>2. CASE UNCHANGED healthVars
  BY <1>2 DEF healthVars, HealthInv, HealthTypeOK, IncidentsFit, WatchFits, LowTimer, HotTimer,
     LeakEpochs
<1> QED
  BY <1>1, <1>2

(* The invariant always holds. *)
LEMMA HealthAlways == HealthSpec => []HealthInv
BY HealthInitOK, HealthInvNext, PTL DEF HealthSpec

(* Rows, timers, leak samples and incidents keep their types (HealthService). *)
THEOREM HealthTypes == HealthSpec => []HealthTypeOK
<1>1. HealthInv => HealthTypeOK
  BY DEF HealthInv
<1> QED
  BY <1>1, HealthAlways, PTL

(* The invariant implies what is promised of incidents. *)
LEMMA HealthInvSound == HealthInv => IncidentsSound
<1> SUFFICES ASSUME HealthInv, NEW c \in Check
             PROVE  LET list == incidents[c]  row == rows[c]
                    IN /\ \A i \in 1 .. Len(list) - 1 :
                            list[i].resolved # None /\ list[i].resolved <= list[i + 1].opened
                       /\ IsOpen(list) =>
                            /\ ~tap.retired /\ list[Len(list)].level = row.verdict
                            /\ row.verdict = "critical" => list[Len(list)].worst = "critical"
                       /\ Alarm(row.verdict) /\ ~IsOpen(list) =>
                            row.cooldown # None /\ row.cooldown > row.evaluated
  BY DEF IncidentsSound
<1>1. TimesFit(incidents[c], time) /\ LevelFits(incidents[c], rows[c], tap.retired)
  BY DEF HealthInv, IncidentsFit
<1>2. Len(incidents[c]) \in Nat
  BY DEF HealthInv, HealthTypeOK
<1>3. \A i \in 1 .. Len(incidents[c]) - 1 : i \in 1 .. Len(incidents[c]) /\ i < Len(incidents[c])
  BY <1>2
<1> QED
  BY <1>1, <1>3 DEF TimesFit, LevelFits

(* Through every evaluation, acknowledgement, cooldown, retirement and pruning a check has at *)
(* most one open incident, while it alarms, at the level of the alarm (#syncIncident,         *)
(* pruneResolvedHealthIncidents).                                                             *)
THEOREM IncidentsAreSound == HealthSpec => []IncidentsSound
BY HealthInvSound, HealthAlways, PTL

-----------------------------------------------------------------------------
(* Alarms have a cause. *)

(* Incidents that go on are kept. *)
LEMMA GoesOn == \A x : Goes(x, x)
BY DEF Goes

LEMMA SameIncidentsKept ==
  ASSUME HealthInv, UNCHANGED incidents
  PROVE  IncidentsKept
BY DEF IncidentsKept

LEMMA SameVerdictsGround ==
  ASSUME UNCHANGED rows \/ \A d \in Check : rows'[d].verdict = rows[d].verdict
  PROVE  TimersGrounded /\ LeaksGrounded
<1>1. \A c \in {"low_keg", "serving_temperature", "suspected_leak"} : ~Raised(c)
  BY DEF Raised, Check
<1> QED
  BY <1>1 DEF TimersGrounded, LeaksGrounded

(* An evaluation loses no incident before its retention is over. *)
LEMMA EvaluationKeepsIncidents ==
  ASSUME HealthInv, Clocked, NEW new \in Tap, EvaluateTap(new) \/ Sweep(new)
  PROVE  IncidentsKept
<1> SUFFICES ASSUME NEW c \in Check, NEW i \in DOMAIN incidents[c],
                    ~(incidents[c][i].resolved # None /\ incidents[c][i].resolved < time' - Retention)
             PROVE  \E j \in DOMAIN incidents'[c] : Goes(incidents[c][i], incidents'[c][j])
  BY DEF IncidentsKept, Goes
<1>1. incidents[c] \in Seq(Incident) /\ incidents'[c] \in Seq(Incident)
  BY EvaluatedIncidents DEF HealthInv, HealthTypeOK
<1>2. i \in 1 .. Len(incidents[c]) /\ DOMAIN incidents'[c] = 1 .. Len(incidents'[c])
  BY <1>1
<1> QED
  BY <1>2, EvaluatedIncidents

(* A timer that began no earlier than the condition proves the condition lasted. *)
LEMMA EvenLonger ==
  ASSUME NEW now \in Nat, NEW since \in Nat, NEW from \in Nat, NEW span \in Nat,
         from <= since, now - since >= span
  PROVE  now - from >= span
OBVIOUS

LEMMA EvaluationGroundsTimers ==
  ASSUME HealthInv, HealthInv', Clocked, NEW new \in Tap, Evaluate(new)
  PROVE  TimersGrounded
<1>1. HealthTypeOK /\ time' \in 0 .. MaxMoment /\ time' \in Nat
  BY Clocks DEF HealthInv
<1>2. tap'.renewed = {} /\ tap'.epoch = new.epoch
  BY EvaluatedTap
<1>3. ASSUME Raised("low_keg")
      PROVE  dip' # None /\ time' - dip' >= Settling
  <2> DEFINE row == rows["low_keg"]
             after == rows'["low_keg"]
             f == Conclusion("low_keg", row, new, time', leak')
  <2>1. "low_keg" \in Check /\ row \in Row /\ Carried(row, new) \in Row
    BY <1>1, CarriedRow DEF Check, HealthTypeOK
  <2>2. after.since = f.since /\ after.verdict = f.verdict
    BY <1>1, <2>1, EvaluateTypes, ConcludedRow
  <2>3. Alarm(f.verdict) /\ "low_keg" \notin lapsed'
    BY <1>3, <2>2 DEF Raised
  <2>4. f = LowKeg(Carried(row, new), new, time')
    BY <1>1, <2>1, <2>3, ConclusionFinds
  <2>5. f.since # None /\ time' - f.since >= Settling /\ new.epoch # 0 /\ f.since \in Maybe(Instant)
    BY <1>1, <2>1, <2>3, <2>4, LowKegFinds DEF Found
  <2>6. dip' # None /\ dip' <= after.since
    BY <1>2, <2>2, <2>3, <2>5 DEF HealthInv, LowTimer
  <2>7. after.since \in Nat /\ dip' \in Nat
    BY <2>2, <2>5, <2>6, Instants DEF HealthInv, HealthTypeOK
  <2>8. time' - after.since >= Settling /\ Settling \in Nat
    BY <2>2, <2>5, Sizes
  <2> QED
    BY <1>1, <2>6, <2>7, <2>8, EvenLonger
<1>4. ASSUME Raised("serving_temperature")
      PROVE  hot' # None /\ time' - hot' >= Duration
  <2> DEFINE row == rows["serving_temperature"]
             after == rows'["serving_temperature"]
             f == Conclusion("serving_temperature", row, new, time', leak')
  <2>1. "serving_temperature" \in Check /\ row \in Row /\ Carried(row, new) \in Row
    BY <1>1, CarriedRow DEF Check, HealthTypeOK
  <2>2. after.since = f.since /\ after.verdict = f.verdict
    BY <1>1, <2>1, EvaluateTypes, ConcludedRow
  <2>3. Alarm(f.verdict) /\ "serving_temperature" \notin lapsed'
    BY <1>4, <2>2 DEF Raised
  <2>4. f = ServingTemperature(Carried(row, new), new, time')
    BY <1>1, <2>1, <2>3, ConclusionFinds
  <2>5. f.since # None /\ time' - f.since >= Duration /\ f.since \in Maybe(Instant)
    BY <1>1, <2>1, <2>3, <2>4, ServingTemperatureFinds DEF Found
  <2>6. hot' # None /\ hot' <= after.since
    BY <2>2, <2>3, <2>5 DEF HealthInv, HotTimer
  <2>7. after.since \in Nat /\ hot' \in Nat
    BY <2>2, <2>5, <2>6, Instants DEF HealthInv, HealthTypeOK
  <2>8. time' - after.since >= Duration /\ Duration \in Nat
    BY <2>2, <2>5, Sizes
  <2> QED
    BY <1>1, <2>6, <2>7, <2>8, EvenLonger
<1> QED
  BY <1>3, <1>4 DEF TimersGrounded

-----------------------------------------------------------------------------
(* The leak check *)

(* The check waits for the whole suppression after the last sample. *)
Waits ==
  LET until == rows["suspected_leak"].until
  IN until # None /\ tap.sample.at + Suppressed <= until

(* The samples it holds are of the present epoch and of before the last sample.  In a    *)
(* pour, and of what the end of a pour has outdated, there is the last sample only: with *)
(* more beer, and the check waits.                                                       *)
LeakKept ==
  "suspected_leak" \notin lapsed /\ tap.epoch # 0 /\ "epoch" \notin tap.renewed =>
    \A s \in leak :
      /\ s.epoch = tap.epoch /\ tap.sample.at # None /\ s.at <= tap.sample.at
      /\ tap.phase = "pour" => Waits /\ s.at = tap.sample.at /\ tap.volume <= s.volume
      /\ s \in spanned => Waits /\ s.at = tap.sample.at /\ tap.volume < s.volume
      /\ healthUp => tap.sample.at <= time /\ time - tap.sample.at < Degraded

(* No sample is usable for longer than the check waits after a pour. *)
WaitCovers == Degraded <= Suppressed

(* A sample that stays was held to the invariant before. *)
LEMMA StaysOfEpoch ==
  ASSUME HealthInv, LeakKept, NEW new \in Tap, Follows(new), Evaluate(new), new.epoch # 0,
         "suspected_leak" \notin lapsed', NEW s \in leak, s \in leak', s.epoch = new.epoch
  PROVE  /\ SameEpoch(new) /\ tap.sample.at # None
         /\ s \in spanned => Waits /\ s.at = tap.sample.at /\ tap.volume < s.volume
         /\ healthUp => tap.sample.at <= time /\ time - tap.sample.at < Degraded
<1>1. "suspected_leak" \notin lapsed
  BY DEF Evaluate, Unwatched, Check
<1>2. "epoch" \notin new.renewed
  <2>1. SUFFICES ASSUME "epoch" \in new.renewed PROVE FALSE
    OBVIOUS
  <2>2. s.epoch <= tap.epochs /\ (tap.epoch # 0 /\ "epoch" \in tap.renewed => s.epoch < tap.epoch)
    BY DEF HealthInv, LeakEpochs
  <2>3. (new.epoch = tap.epoch /\ "epoch" \in tap.renewed) \/ tap.epochs < new.epoch
    BY <2>1 DEF Follows, OtherOne
  <2>4. tap.epochs \in Nat /\ new.epoch \in Nat /\ tap.epoch \in Nat
    BY TapFields DEF HealthInv, HealthTypeOK
  <2> QED
    BY <2>2, <2>3, <2>4
<1>3. SameEpoch(new)
  BY <1>2 DEF Follows
<1> QED
  BY <1>1, <1>3 DEF LeakKept, SameEpoch

(* What an evaluation leaves of the samples, if the check has not lapsed. *)
LEMMA StaysAfter ==
  ASSUME HealthInv, Clocked, NEW new \in Tap, Evaluate(new), "suspected_leak" \notin lapsed',
         NEW s \in leak'
  PROVE  LET row == Carried(rows["suspected_leak"], new)
         IN /\ row \in Row /\ row.until = rows["suspected_leak"].until
            /\ LeakUsable(new, time') /\ "suspected_leak" \in new.enabled /\ ~new.retired
            /\ s = Observation(new) \/ (s \in Prior(new) /\ ~Restarts(row, new))
<1> DEFINE row == Carried(rows["suspected_leak"], new)
<1>1. HealthTypeOK /\ time' \in 0 .. MaxMoment /\ leak \subseteq LeakSample
  BY Clocks DEF HealthInv, HealthTypeOK
<1>2. /\ row \in Row /\ row.until = rows["suspected_leak"].until
      /\ leak' \in NextSamples(row, new, time')
  <2>1. rows["suspected_leak"] \in Row
    BY <1>1 DEF HealthTypeOK, Check
  <2> QED
    BY <1>1, <2>1, CarriedRow, EvaluateTypes
<1>3. s \in leak => "suspected_leak" \in new.enabled
  BY DEF Evaluate, Unwatched, Check
<1>4. ~new.retired
  BY <1>2 DEF NextSamples
<1> HIDE DEF row
<1>5. /\ LeakUsable(new, time') /\ "suspected_leak" \in new.enabled
      /\ leak' \subseteq Prior(new) \cup {Observation(new)}
      /\ Restarts(row, new) => leak' = {Observation(new)}
  BY <1>1, <1>2, <1>3, <1>4, NextSamplesAre
<1> QED
  BY <1>2, <1>4, <1>5 DEF row

(* No sample from before a pour outlasts an evaluation after it. *)
LEMMA NoneSpans ==
  ASSUME WaitCovers, HealthInv, LeakKept, Clocked, NEW new \in Tap, Follows(new), Evaluate(new),
         new.epoch # 0, "suspected_leak" \notin lapsed', NEW s \in leak'
  PROVE  s.epoch = new.epoch /\ s \notin spanned'
<1> DEFINE row == Carried(rows["suspected_leak"], new)
           x == new.sample.at
           from == tap.sample.at
           until == row.until
<1>1. HealthTypeOK /\ time' \in 0 .. MaxMoment /\ spanned' = spanned \cap leak' /\ spanned \subseteq leak
  BY Clocks DEF HealthInv, HealthTypeOK, Evaluate
<1>2. /\ row \in Row /\ until = rows["suspected_leak"].until /\ LeakUsable(new, time')
      /\ s = Observation(new) \/ (s \in Prior(new) /\ ~Restarts(row, new))
  BY StaysAfter
<1>3. /\ x \in Nat /\ x # None /\ new.volume \in Nat /\ Observation(new).epoch = new.epoch
      /\ Observation(new).at = x /\ Observation(new).volume = new.volume
      /\ x <= time' /\ time' - x < Degraded
  BY <1>1, <1>2, Observed DEF LeakUsable, Recent
<1>4. s.epoch = new.epoch
  BY <1>2, <1>3 DEF Restarts, OtherEpoch, Prior
<1>5. ASSUME s \in spanned'
      PROVE  FALSE
  <2>1. s \in leak /\ s \in spanned /\ s.volume \in Nat /\ s.at \in Nat
    BY <1>1, <1>5, Samples DEF HealthTypeOK
  <2>2. /\ SameEpoch(new) /\ from # None /\ s.at = from /\ tap.volume < s.volume
        /\ until # None /\ from + Suppressed <= until
        /\ healthUp => from <= time /\ time - from < Degraded
    BY <1>2, <1>4, <2>1, StaysOfEpoch DEF Waits
  <2>3. until \in Nat /\ Degraded \in Nat /\ Degraded # 0 /\ Suppressed \in Nat /\ time \in Nat
    <3>1. row.until \in Maybe(Nat)
      BY <1>2 DEF Row
    <3> QED
      BY <2>2, <3>1, <1>1, Clocks, Sizes DEF Maybe
  <2>4. CASE new.sample = tap.sample /\ new.phase = tap.phase /\ new.volume = tap.volume
    <3>1. x < until
      <4>1. x = from
        BY <2>4
      <4> HIDE DEF x, from, until
      <4> QED
        BY <4>1, <1>3, <2>2, <2>3 DEF WaitCovers
    <3>2. Restarts(row, new)
      BY <2>2, <3>1 DEF Restarts, Settles
    <3>3. s.volume = new.volume
      BY <1>2, <1>3, <3>2
    <3> QED
      BY <1>3, <2>1, <2>2, <2>4, <3>3
  <2>5. CASE healthUp /\ time' = time /\ new.sample.at # None /\ tap.sample.at < new.sample.at
    <3>1. x < until
      <4>1. x <= time /\ from = s.at /\ time - from < Degraded
        BY <1>3, <2>2, <2>5
      <4> HIDE DEF x, from, until
      <4> QED
        BY <4>1, <1>3, <2>1, <2>2, <2>3 DEF WaitCovers
    <3>2. Restarts(row, new)
      BY <2>2, <3>1 DEF Restarts, Settles
    <3>3. s.at = x
      BY <1>2, <1>3, <3>2
    <3> QED
      BY <1>3, <2>2, <2>5, <3>3
  <2> QED
    BY <2>2, <2>4, <2>5 DEF SameEpoch
<1> QED
  BY <1>4, <1>5

(* In a pour the check begins anew with the last sample, and waits. *)
LEMMA PourRestarts ==
  ASSUME HealthInv, LeakKept, Clocked, NEW new \in Tap, Follows(new), Evaluate(new),
         new.epoch # 0, "suspected_leak" \notin lapsed', NEW s \in leak', new.phase = "pour"
  PROVE  s = Observation(new) /\ rows'["suspected_leak"].until = new.sample.at + Suppressed
<1> DEFINE held == rows["suspected_leak"]
           row == Carried(held, new)
<1>1. HealthTypeOK /\ time' \in 0 .. MaxMoment /\ "suspected_leak" \in Check /\ held \in Row
  BY Clocks DEF HealthInv, Check, HealthTypeOK
<1>2. /\ row \in Row /\ LeakUsable(new, time') /\ "suspected_leak" \in new.enabled /\ ~new.retired
      /\ s = Observation(new) \/ (s \in Prior(new) /\ ~Restarts(row, new))
  BY StaysAfter
<1>3. PourSeen(new) /\ Restarts(row, new)
  BY DEF PourSeen, Restarts
<1>4. ~OtherEpoch(new)
  <2>1. CASE "suspected_leak" \in lapsed
    BY <2>1, <1>1 DEF Evaluate, Unwatched
  <2>2. CASE "suspected_leak" \notin lapsed
    <3>1. "epoch" \notin new.renewed
      BY <1>2 DEF Follows, LeakUsable
    <3>2. SameEpoch(new)
      BY <3>1 DEF Follows
    <3> QED
      BY <2>2, <3>2 DEF LeakKept, SameEpoch, OtherEpoch
  <2> QED
    BY <2>1, <2>2
<1>5. rows'["suspected_leak"].until = SuspectedLeak(row, new, time', leak').until
  <2>1. rows'["suspected_leak"] = Concluded("suspected_leak", new, leak')
    BY <1>1, EvaluateTypes
  <2>2. rows'["suspected_leak"].until = Conclusion("suspected_leak", held, new, time', leak').until
    BY <1>1, <2>1, ConcludedRow
  <2> QED
    BY <1>1, <1>2, <2>2, ConclusionFinds
<1> HIDE DEF row
<1> QED
  BY <1>1, <1>2, <1>3, <1>4, <1>5, SuspectedLeakFinds

(* An evaluation keeps the invariant. *)
LEMMA LeakKeptStays ==
  ASSUME WaitCovers, HealthInv, LeakKept, Clocked, NEW new \in Tap, Follows(new), Evaluate(new)
  PROVE  LeakKept'
<1> DEFINE x == new.sample.at
           until == rows'["suspected_leak"].until
<1>1. HealthTypeOK /\ time' \in 0 .. MaxMoment
  BY Clocks DEF HealthInv
<1>2. /\ tap'.epoch = new.epoch /\ tap'.renewed = {} /\ tap'.sample = new.sample
      /\ tap'.phase = new.phase /\ tap'.volume = new.volume
  BY EvaluatedTap
<1>3. SUFFICES ASSUME "suspected_leak" \notin lapsed', new.epoch # 0, NEW s \in leak'
               PROVE  /\ s.epoch = new.epoch /\ x # None /\ s.at <= x
                      /\ new.phase = "pour" =>
                           /\ until # None /\ x + Suppressed <= until
                           /\ s.at = x /\ new.volume <= s.volume
                      /\ s \notin spanned'
                      /\ x <= time' /\ time' - x < Degraded
  BY <1>2 DEF LeakKept, Waits
<1>4. s.epoch = new.epoch /\ s \notin spanned'
  BY <1>3, NoneSpans
<1>5. /\ LeakUsable(new, time')
      /\ s = Observation(new) \/ s \in Prior(new)
  BY <1>3, StaysAfter
<1>6. /\ x \in Nat /\ x # None /\ x <= time' /\ time' - x < Degraded /\ new.volume \in Nat
      /\ Observation(new).at = x /\ Observation(new).volume = new.volume
  BY <1>1, <1>5, Observed DEF LeakUsable, Recent
<1>7. s.at <= x
  BY <1>5, <1>6 DEF Prior
<1>8. ASSUME new.phase = "pour"
      PROVE  until # None /\ x + Suppressed <= until /\ s.at = x /\ new.volume <= s.volume
  <2>1. s = Observation(new) /\ until = x + Suppressed
    BY <1>3, <1>8, PourRestarts
  <2>2. x + Suppressed \in Nat
    BY <1>6, Sizes
  <2> HIDE DEF x, until
  <2> QED
    BY <1>6, <2>1, <2>2, NoneAssumption
<1> QED
  BY <1>4, <1>6, <1>7, <1>8

(* A leak alarm counts from a kept sample of this epoch that no pour has outdated. *)
LEMMA EvaluationGroundsLeaks ==
  ASSUME WaitCovers, HealthInv, LeakKept, Clocked, NEW new \in Tap, Follows(new), Evaluate(new)
  PROVE  LeaksGrounded
<1> DEFINE held == rows["suspected_leak"]
           row == Carried(held, new)
           f == Conclusion("suspected_leak", held, new, time', leak')
<1> SUFFICES ASSUME Raised("suspected_leak")
             PROVE  \E s \in leak' \ spanned' :
                      /\ s.epoch = tap'.epoch /\ s.volume - tap'.volume >= Loss
                      /\ tap'.sample.at - s.at >= LeakWindow
  BY DEF LeaksGrounded
<1>1. HealthTypeOK /\ time' \in 0 .. MaxMoment /\ "suspected_leak" \in Check
  BY Clocks DEF HealthInv, Check
<1>2. /\ tap'.epoch = new.epoch /\ tap'.renewed = {} /\ tap'.sample = new.sample
      /\ tap'.volume = new.volume
  BY EvaluatedTap
<1>3. held \in Row /\ row \in Row /\ leak' \in NextSamples(row, new, time')
  <2>1. held \in Row
    BY <1>1 DEF HealthTypeOK
  <2> QED
    BY <1>1, <2>1, CarriedRow, EvaluateTypes
<1>4. Alarm(f.verdict) /\ "suspected_leak" \notin lapsed'
  <2>1. rows'["suspected_leak"].verdict = f.verdict
    BY <1>1, EvaluateTypes, ConcludedRow
  <2> QED
    BY <2>1 DEF Raised
<1>5. f = SuspectedLeak(row, new, time', leak') /\ "suspected_leak" \in new.enabled
  BY <1>1, <1>3, <1>4, ConclusionFinds
<1>6. LeakUsable(new, time') /\ ~Restarts(row, new) /\ Leaks(new, leak')
  BY <1>1, <1>3, <1>4, <1>5, SuspectedLeakFinds
<1>7. new.epoch # 0
  BY <1>6 DEF LeakUsable
<1> DEFINE s == Oldest(leak')
<1>8. s \in leak'
  <2>1. leak' \subseteq LeakSample /\ leak' # {}
    <3>1. leak \subseteq LeakSample
      BY <1>1 DEF HealthTypeOK
    <3>2. /\ leak' \subseteq LeakSample
          /\ leak' = {} => new.retired
      BY <1>1, <1>3, <1>5, <1>6, <3>1, NextSamplesAre
    <3>3. ~new.retired
      BY <1>1, <1>3, <1>4, ConclusionFinds
    <3> QED
      BY <3>2, <3>3
  <2> QED
    BY <2>1, OldestIs
<1>9. new.sample.at - s.at >= LeakWindow /\ s.volume - new.volume >= Loss
  BY <1>6 DEF Leaks
<1> HIDE DEF s
<1>10. s.epoch = new.epoch /\ s \notin spanned'
  BY <1>4, <1>7, <1>8, NoneSpans
<1> QED
  BY <1>2, <1>8, <1>9, <1>10

(* The steps that evaluate nothing keep it: the end of a pour outdates every sample. *)
LEMMA QuietKeepsLeaks ==
  ASSUME HealthInv, LeakKept, Quiet
  PROVE  LeakKept'
<1>1. HealthTypeOK
  BY DEF HealthInv
<1>2. CASE \E at \in 0 .. time, v \in Volume : CompletePour(at, v)
  <2>1. PICK at \in 0 .. time, v \in Volume : CompletePour(at, v)
    BY <1>2
  <2>2. /\ tap'.epoch = tap.epoch /\ tap'.renewed = tap.renewed /\ tap'.sample = tap.sample
        /\ tap'.volume = v /\ tap'.phase = tap.phase
    BY <2>1, CompletePourKeepsHealth
  <2>3. /\ UNCHANGED <<healthUp, time, leak, lapsed, rows>> /\ spanned' = leak
        /\ tap.phase = "pour" /\ tap.volume # None /\ v < tap.volume
    BY <2>1 DEF CompletePour, HealthRunning
  <2>4. ASSUME "suspected_leak" \notin lapsed, tap.epoch # 0, "epoch" \notin tap.renewed,
               NEW s \in leak
        PROVE  /\ s.epoch = tap.epoch /\ tap.sample.at # None /\ s.at <= tap.sample.at
               /\ Waits /\ s.at = tap.sample.at /\ v < s.volume /\ v <= s.volume
               /\ healthUp => tap.sample.at <= time /\ time - tap.sample.at < Degraded
    <3>1. /\ s.epoch = tap.epoch /\ tap.sample.at # None /\ s.at <= tap.sample.at
          /\ Waits /\ s.at = tap.sample.at /\ tap.volume <= s.volume
          /\ healthUp => tap.sample.at <= time /\ time - tap.sample.at < Degraded
      BY <2>3, <2>4 DEF LeakKept
    <3>2. s.volume \in Nat /\ tap.volume \in Nat /\ v \in Nat
      <4>1. tap.volume \in Maybe(Volume)
        BY <1>1, TapFields DEF HealthTypeOK
      <4> QED
        BY <1>1, <2>3, <4>1, Samples, Sizes DEF HealthTypeOK, Maybe
    <3> QED
      BY <2>3, <3>1, <3>2
  <2>5. Waits' <=> Waits
    BY <2>2, <2>3 DEF Waits
  <2> QED
    BY <2>2, <2>3, <2>4, <2>5 DEF LeakKept
<1>3. CASE EndCooldown
  <2>1. /\ tap'.epoch = tap.epoch /\ tap'.renewed = tap.renewed /\ tap'.sample = tap.sample
        /\ tap'.volume = tap.volume /\ tap'.phase = "ready"
    BY <1>3, EndCooldownKeepsHealth
  <2>2. UNCHANGED <<time, healthUp, leak, lapsed, spanned, rows>>
    BY <1>3 DEF EndCooldown, HealthRunning
  <2> QED
    BY <2>1, <2>2 DEF LeakKept, Waits
<1>4. CASE tap.epochs < MaxEpoch /\ Rebaseline
  BY <1>4, RebaselineKeepsHealth DEF LeakKept
<1>5. CASE \E c \in Check : SweepFails(c)
  <2>1. PICK c \in Check : SweepFails(c)
    BY <1>5
  <2>2. /\ tap'.epoch = tap.epoch /\ tap'.renewed = tap.renewed /\ tap'.sample = tap.sample
        /\ tap'.volume = tap.volume /\ tap'.phase = tap.phase
    BY <2>1, SweepFailsKeepsHealth
  <2>3. UNCHANGED <<time, healthUp, leak, lapsed, spanned, rows>>
    BY <2>1 DEF SweepFails, HealthRunning
  <2> QED
    BY <2>2, <2>3 DEF LeakKept, Waits
<1>6. CASE /\ UNCHANGED <<tap, leak, lapsed, spanned>>
           /\ rows'["suspected_leak"].until = rows["suspected_leak"].until
           /\ healthUp' => healthUp /\ time' = time
  BY <1>6 DEF LeakKept, Waits
<1>7. CASE \/ \E c \in Check : AcknowledgeIncident(c)
           \/ \E c \in Check : \E until \in {None} \cup 0 .. MaxMoment : SetIncidentCooldown(c, until)
           \/ StopMaintenance \/ Pass
  <2>1. CASE \E c \in Check : AcknowledgeIncident(c)
    <3>1. UNCHANGED <<tap, leak, lapsed, spanned, rows, time, healthUp>>
      BY <2>1 DEF AcknowledgeIncident, HealthRunning
    <3> QED
      BY <3>1, <1>6
  <2>2. CASE \E c \in Check : \E until \in {None} \cup 0 .. MaxMoment : SetIncidentCooldown(c, until)
    <3>1. UNCHANGED <<tap, leak, lapsed, spanned, time, healthUp>>
      BY <2>2 DEF SetIncidentCooldown, HealthRunning
    <3>2. rows'["suspected_leak"].until = rows["suspected_leak"].until
      BY <2>2, CooldownKeepsHealth DEF Check
    <3> QED
      BY <3>1, <3>2, <1>6
  <2>3. CASE StopMaintenance \/ Pass
    <3>1. UNCHANGED <<tap, leak, lapsed, spanned, rows>> /\ ~healthUp'
      BY <2>3 DEF StopMaintenance, Pass
    <3> QED
      BY <3>1, <1>6
  <2> QED
    BY <1>7, <2>1, <2>2, <2>3
<1> QED
  BY <1>2, <1>3, <1>4, <1>5, <1>7 DEF Quiet

(* The steps that evaluate nothing raise nothing. *)
LEMMA QuietKeepsIncidents ==
  ASSUME HealthInv, Quiet
  PROVE  IncidentsKept /\ TimersGrounded /\ LeaksGrounded
<1>1. CASE \E c \in Check : AcknowledgeIncident(c)
  <2>1. PICK c \in Check : AcknowledgeIncident(c)
    BY <1>1
  <2>2. UNCHANGED rows
    BY <2>1 DEF AcknowledgeIncident
  <2>3. HealthInv' /\ HealthTypeOK /\ HealthTypeOK'
    BY <2>1, AcknowledgeKeepsHealth DEF HealthInv
  <2>4. IncidentsKept
    <3>1. SUFFICES ASSUME NEW d \in Check, NEW i \in DOMAIN incidents[d]
                   PROVE  \E j \in DOMAIN incidents'[d] : Goes(incidents[d][i], incidents'[d][j])
      BY DEF IncidentsKept, Goes
    <3>2. incidents[d] \in Seq(Incident) /\ incidents'[d] \in Seq(Incident)
      BY <2>3 DEF HealthTypeOK
    <3>3. /\ i \in 1 .. Len(incidents[d]) /\ DOMAIN incidents'[d] = 1 .. Len(incidents'[d])
          /\ Len(incidents'[d]) = Len(incidents[d])
      BY <2>1, <3>2, AcknowledgeKeepsHealth
    <3> QED
      BY <2>1, <3>3, AcknowledgeKeepsHealth
  <2> QED
    BY <2>2, <2>4, SameVerdictsGround
<1>2. CASE \E c \in Check : \E until \in {None} \cup 0 .. MaxMoment : SetIncidentCooldown(c, until)
  <2>1. UNCHANGED incidents /\ \A d \in Check : rows'[d].verdict = rows[d].verdict
    BY <1>2, CooldownKeepsHealth DEF SetIncidentCooldown
  <2> QED
    BY <2>1, SameIncidentsKept, SameVerdictsGround
<1>3. CASE UNCHANGED <<rows, incidents>>
  BY <1>3, SameIncidentsKept, SameVerdictsGround
<1>4. CASE \/ \E at \in 0 .. time, v \in Volume : CompletePour(at, v)
           \/ EndCooldown \/ (tap.epochs < MaxEpoch /\ Rebaseline)
           \/ \E c \in Check : SweepFails(c)
           \/ StopMaintenance \/ Pass
  <2>1. CASE \E at \in 0 .. time, v \in Volume : CompletePour(at, v)
    <3>1. UNCHANGED <<rows, incidents>>
      BY <2>1 DEF CompletePour
    <3> QED
      BY <3>1, <1>3
  <2>2. CASE EndCooldown \/ Rebaseline \/ StopMaintenance \/ Pass
    <3>1. UNCHANGED <<rows, incidents>>
      BY <2>2 DEF EndCooldown, Rebaseline, StopMaintenance, Pass
    <3> QED
      BY <3>1, <1>3
  <2>3. CASE \E c \in Check : SweepFails(c)
    <3>1. UNCHANGED <<rows, incidents>>
      BY <2>3 DEF SweepFails
    <3> QED
      BY <3>1, <1>3
  <2> QED
    BY <1>4, <2>1, <2>2, <2>3
<1> QED
  BY <1>1, <1>2, <1>4 DEF Quiet

(* Every step, and with the samples kept from before the pours. *)
LEMMA HealthNextSound ==
  ASSUME HealthInv, HealthInv', HealthNext
  PROVE  IncidentsKept /\ TimersGrounded
<1>1. CASE Evaluation
  <2>1. PICK new \in Tap : Clocked /\ Follows(new) /\ (EvaluateTap(new) \/ Sweep(new))
    BY <1>1 DEF Evaluation
  <2> QED
    BY <2>1, EvaluationKeepsIncidents, EvaluationGroundsTimers DEF EvaluateTap, Sweep
<1>2. CASE Quiet
  BY <1>2, QuietKeepsIncidents
<1> QED
  BY <1>1, <1>2, HealthSteps DEF HealthInv

LEMMA LeakSteps ==
  WaitCovers /\ HealthInv /\ HealthInv' /\ LeakKept /\ [HealthNext]_healthVars =>
    LeakKept' /\ [IncidentsKept /\ TimersGrounded /\ LeaksGrounded]_healthVars
<1> SUFFICES ASSUME WaitCovers, HealthInv, HealthInv', LeakKept, [HealthNext]_healthVars
             PROVE  LeakKept' /\ [IncidentsKept /\ TimersGrounded /\ LeaksGrounded]_healthVars
  OBVIOUS
<1>1. CASE UNCHANGED healthVars
  BY <1>1 DEF healthVars, LeakKept, Waits
<1>2. CASE HealthNext
  <2>1. IncidentsKept /\ TimersGrounded
    BY <1>2, HealthNextSound
  <2>2. CASE Evaluation
    <3>1. PICK new \in Tap : Clocked /\ Follows(new) /\ (EvaluateTap(new) \/ Sweep(new))
      BY <2>2 DEF Evaluation
    <3>2. Evaluate(new)
      BY <3>1 DEF EvaluateTap, Sweep
    <3>3. LeakKept'
      BY <3>1, <3>2, LeakKeptStays
    <3> QED
      BY <2>1, <3>1, <3>2, <3>3, EvaluationGroundsLeaks
  <2>3. CASE Quiet
    BY <2>1, <2>3, QuietKeepsLeaks, QuietKeepsIncidents
  <2> QED
    BY <1>2, <2>2, <2>3, HealthSteps DEF HealthInv
<1> QED
  BY <1>1, <1>2

(* No step loses an incident or its acknowledgement, and no alarm of the low keg or of the  *)
(* temperature counts time from before the condition began, unless the check was off in the *)
(* meantime (evaluateLowKeg, evaluateServingTemperature).                                   *)
THEOREM TimersAreGrounded == HealthSpec => [][IncidentsKept /\ TimersGrounded]_healthVars
<1>1. HealthInv /\ HealthInv' /\ [HealthNext]_healthVars => [IncidentsKept /\ TimersGrounded]_healthVars
  BY HealthNextSound
<1> QED
  BY <1>1, HealthAlways, PTL DEF HealthSpec

(* When a sample is usable for no longer than the check waits after a pour, a leak alarm     *)
(* counts no beer of a pour or of an earlier epoch either, unless the check was off in the   *)
(* meantime (evaluateSuspectedLeak).  The defaults satisfy this: 5 minutes and 10.           *)
THEOREM AlarmsAreSound ==
  ASSUME Degraded <= Suppressed
  PROVE  HealthSpec => AlarmsSound
<1>1. WaitCovers
  BY DEF WaitCovers
<1>2. HealthInit => LeakKept
  BY DEF HealthInit, LeakKept
<1>3. HealthInv /\ HealthInv' /\ LeakKept /\ [HealthNext]_healthVars =>
        LeakKept' /\ [IncidentsKept /\ TimersGrounded /\ LeaksGrounded]_healthVars
  BY <1>1, LeakSteps
<1> QED
  BY <1>2, <1>3, HealthAlways, PTL DEF HealthSpec, AlarmsSound

-----------------------------------------------------------------------------
(* Both next to one another: what varies in the one leaves the other alone. *)
THEOREM CellarTypes == CellarSpec => []CellarTypeOK
BY SyncTypes, HealthTypes, PTL DEF CellarSpec, CellarTypeOK
=============================================================================
