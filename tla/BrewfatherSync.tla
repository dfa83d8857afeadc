----------------------------- MODULE BrewfatherSync -----------------------------
(***************************************************************************)
(* Synchronisation with one Brewfather account                             *)
(* (src/features/beverages/brewfather/sync.ts, beverages/service.ts) while *)
(* the console goes on.  A run reads the account, its key and the links,   *)
(* then awaits one reply after another; what a reply brings is written     *)
(* only if all that was read still holds.  A second run joins the first.   *)
(* Completing a batch is another call of the same kind.                    *)
(***************************************************************************)
EXTENDS Beverages, FiniteSets

CONSTANTS
  ApiKey,        \* API keys operators enter
  Adapter        \* adapters of the process, as numbers

ASSUME SyncAssumption == None \notin ApiKey /\ Adapter \subseteq Nat \ {0}

VARIABLES
  account,       \* brewfather_accounts
  apiKey,        \* its encrypted_secrets row; `row` tells id and revision apart
  evidence,      \* #brewfatherConnections; `serial` is the identity of the object
  run,           \* #inFlightBrewfatherSync
  call,          \* a completeBatch
  adapters,      \* BrewfatherAdapter objects and how many calls retain them
  cached         \* #adapters: the one of the account, 0 for none

syncVars == <<beverageVars, account, apiKey, evidence, run, call, adapters, cached>>

Account == [enabled : BOOLEAN, user : Optional(User), at : Nat, discovers : BOOLEAN]
StoredKey == [key : Optional(ApiKey), row : Nat]
Read == [account : Account, key : Optional(ApiKey)]
ExpectedLink == [beverage : Beverage, batch : Batch, made : Nat]
Result == [partial : BOOLEAN, auth : BOOLEAN, failing : BOOLEAN, by : Read]
Evidence == [serial : Nat, account : Account, row : Nat, available : BOOLEAN,
             result : Optional(Result)]
NoAccount == [enabled |-> FALSE, user |-> None, at |-> 0, discovers |-> FALSE]
NoEvidence == [serial |-> 0, account |-> NoAccount, row |-> 0, available |-> FALSE,
               result |-> None]
Run == [phase : {"none", "links", "done"}, read : Read, links : SUBSET ExpectedLink,
        serial : Nat, adapter : Adapter \cup {0}, error : BOOLEAN, auth : BOOLEAN,
        linked : BOOLEAN, verified : BOOLEAN]
NothingRead == [account |-> NoAccount, key |-> None]
NoRun == [phase |-> "none", read |-> NothingRead, links |-> {}, serial |-> 0, adapter |-> 0,
          error |-> FALSE, auth |-> FALSE, linked |-> FALSE, verified |-> FALSE]
Completion == [phase : {"none", "read", "patch"}, read : Read, link : Optional(ExpectedLink),
               adapter : Adapter \cup {0}]
NoCall == [phase |-> "none", read |-> NothingRead, link |-> None, adapter |-> 0]
AdapterObject == [open : BOOLEAN, user : Optional(User), key : Optional(ApiKey), uses : Nat]
Closed == [open |-> FALSE, user |-> None, key |-> None, uses |-> 0]

ASSUME ResultAssumption == None \notin Result /\ None \notin ExpectedLink

SyncTypeOK ==
  /\ BeverageTypeOK /\ account \in Account /\ apiKey \in StoredKey /\ evidence \in Evidence
  /\ run \in Run /\ call \in Completion
  /\ adapters \in [Adapter -> AdapterObject] /\ cached \in Adapter \cup {0}

SyncInit ==
  /\ BeverageInit /\ account = NoAccount /\ apiKey = [key |-> None, row |-> 0]
  /\ evidence = NoEvidence /\ run = NoRun /\ call = NoCall
  /\ adapters = [a \in Adapter |-> Closed] /\ cached = 0

Configured == account.user # None

-----------------------------------------------------------------------------
(* The account *)

\* configureBrewfatherAccount: the key is replaced only if one is entered.
ConfigureAccount(user, enabled, discovers, key) ==
  /\ stamp' \in Time
  /\ account' = [enabled |-> enabled, user |-> user, at |-> stamp', discovers |-> discovers]
  /\ apiKey' = IF key = None THEN apiKey ELSE [key |-> key, row |-> apiKey.row + 1]
  /\ evidence' = [NoEvidence EXCEPT !.serial = evidence.serial]
  /\ UNCHANGED <<owner, profiles, links, sources, overrides, snapshots, candidates, fallback,
                 filled, told, run, call, adapters, cached>>

RemoveApiKey ==
  /\ apiKey.key # None /\ apiKey' = [apiKey EXCEPT !.key = None]
  /\ evidence' = [NoEvidence EXCEPT !.serial = evidence.serial]
  /\ UNCHANGED <<beverageVars, account, run, call, adapters, cached>>

\* #refreshBrewfatherConnections: a new object for a new configuration.
SameConfiguration(e) == e.account = account /\ e.row = apiKey.row /\ e.available = (apiKey.key # None)
Refreshed ==
  IF ~Configured THEN NoEvidence
  ELSE IF evidence.account # NoAccount /\ SameConfiguration(evidence) THEN evidence
  ELSE [serial |-> evidence.serial + 1, account |-> account, row |-> apiKey.row,
        available |-> apiKey.key # None, result |-> None]

-----------------------------------------------------------------------------
(* Adapters *)

Retained(pool, a, user, key) ==
  [pool EXCEPT ![a] = [open |-> TRUE, user |-> user, key |-> key, uses |-> @.uses + 1]]
ReplacedPool(pool) ==
  IF cached = 0 \/ pool[cached].uses > 0 THEN pool ELSE [pool EXCEPT ![cached] = Closed]

\* #getOrCreateAdapter and #retainAdapter.
Fits(a) == a # 0 /\ adapters[a].user = account.user /\ adapters[a].key = apiKey.key
Fresh == CHOOSE a \in Adapter : ~adapters[a].open /\ \A c \in Adapter : ~adapters[c].open => a <= c
Acquire ==
  IF Fits(cached)
  THEN adapters' = Retained(adapters, cached, account.user, apiKey.key) /\ UNCHANGED cached
  ELSE /\ \E a \in Adapter : ~adapters[a].open
       /\ adapters' = Retained(ReplacedPool(adapters), Fresh, account.user, apiKey.key)
       /\ cached' = Fresh

\* #releaseAdapter
Release(a) ==
  LET row == adapters[a]
      less == [row EXCEPT !.uses = row.uses - 1]
  IN adapters' = [adapters EXCEPT ![a] = IF row.uses > 1 \/ a = cached THEN less ELSE Closed]

-----------------------------------------------------------------------------
(* What was read still holds *)

CurrentAccount(read) ==
  /\ account.enabled /\ account.user = read.account.user /\ account.at = read.account.at
  /\ apiKey.key = read.key
LinkHolds(l) ==
  LET now == links[l.beverage] IN
  owner[l.beverage] = "brewfather" /\ now # None /\ now.batch = l.batch /\ now.made = l.made
\* As a bug: only the link is looked at again.
LinkOnly(read, l) == LinkHolds(l)
CurrentLink(read, l) == CurrentAccount(read) /\ LinkHolds(l)

Expected(b) == [beverage |-> b, batch |-> links[b].batch, made |-> links[b].made]
WhatIsRead == [account |-> account, key |-> apiKey.key]

-----------------------------------------------------------------------------
(* A run *)

BeginSync ==
  /\ run = NoRun /\ Configured /\ apiKey.key # None
  /\ evidence' = Refreshed /\ Acquire
  /\ run' = [NoRun EXCEPT !.phase = "links", !.read = WhatIsRead,
                          !.links = {Expected(b) : b \in LinkedNow},
                          !.serial = Refreshed.serial, !.adapter = cached']
  /\ UNCHANGED <<beverageVars, account, apiKey, call>>

\* The reply about one link, and the transaction it leads to.
LinkAnswered(l) == run.phase = "links" /\ l \in run.links
Applies(l) == CurrentLink(run.read, l)
LinkFailed(l, state) ==
  links' = IF Applies(l) THEN LinkState(l.beverage, state) ELSE links

ReplyMissing(l) ==
  /\ LinkAnswered(l) /\ LinkFailed(l, "stale")
  /\ run' = [run EXCEPT !.links = @ \ {l}, !.linked = @ \/ Applies(l)]
  /\ UNCHANGED <<owner, profiles, sources, overrides, snapshots, candidates, fallback, filled,
                 told, stamp, account, apiKey, evidence, call, adapters, cached>>
\* A request that fails, or a batch whose recipe cannot be kept.
ReplyError(l, auth, verified) ==
  /\ LinkAnswered(l) /\ LinkFailed(l, "error") /\ ~(auth /\ verified)
  /\ run' = [run EXCEPT !.links = @ \ {l}, !.linked = @ \/ Applies(l), !.auth = @ \/ auth,
                        !.verified = @ \/ verified]
  /\ UNCHANGED <<owner, profiles, sources, overrides, snapshots, candidates, fallback, filled,
                 told, stamp, account, apiKey, evidence, call, adapters, cached>>
ReplyBatch(l, fg, recipe) ==
  /\ LinkAnswered(l)
  /\ run' = [run EXCEPT !.links = @ \ {l}, !.verified = TRUE]
  /\ IF Applies(l)
     THEN Synchronised(l.beverage, [fg |-> fg, user |-> run.read.account.user], recipe)
     ELSE UNCHANGED <<sources, told, snapshots, links>>
  /\ UNCHANGED <<owner, profiles, overrides, candidates, fallback, filled, stamp, account, apiKey,
                 evidence, call, adapters, cached>>

\* The last reply: the batches found, after which the adapter is released.  If the
\* account changed, all that is told of the run is what links brought.
LinkedBatches == {links[b].batch : b \in LinkedNow}
Discovered(found, complete) ==
  [k \in Batch |-> IF found[k] # None THEN [fg |-> found[k].fg, user |-> run.read.account.user]
                   ELSE IF complete /\ k \notin LinkedBatches THEN None ELSE candidates[k]]
Discover(found, outcome, complete) ==
  /\ run.phase = "links" /\ run.links = {}
  /\ complete => outcome = "fine"
  /\ ~run.read.account.discovers => outcome = "fine" /\ complete /\ \A k \in Batch : found[k] = None
  /\ run' = [run EXCEPT !.phase = "done", !.adapter = 0,
       !.error = CurrentAccount(run.read) /\ outcome # "fine",
       !.auth = CurrentAccount(run.read) /\ (@ \/ outcome = "auth"),
       !.verified = @ \/ (CurrentAccount(run.read) /\ outcome = "fine" /\ run.read.account.discovers)]
  /\ candidates' = IF CurrentAccount(run.read) THEN Discovered(found, complete) ELSE candidates
  /\ Release(run.adapter)
  /\ UNCHANGED <<owner, profiles, links, sources, overrides, snapshots, fallback, filled, told,
                 stamp, account, apiKey, evidence, call, cached>>

\* #recordBrewfatherSyncEvidence, on the object the run began with.
NextResult(e) ==
  IF ~run.error /\ ~run.linked /\ ~run.auth /\ ~run.verified
  THEN IF e.result # None /\ e.result.partial THEN e.result ELSE None
  ELSE LET failed == run.error \/ run.auth
           before(part) == e.result # None /\ part
       IN  [partial |-> failed \/ run.linked,
            auth |-> (failed \/ ~run.verified) /\ (run.auth \/ before(e.result.auth)),
            failing |-> failed \/ (~run.verified /\ before(e.result.failing)),
            by |-> run.read]
\* As a bug: whatever object is there now takes the result.
AnyObject(e) == e.available
SameObject(e) == e.serial = run.serial /\ e.available
FinishSync ==
  /\ run.phase = "done" /\ run' = NoRun
  /\ evidence' = IF SameObject(Refreshed) THEN [Refreshed EXCEPT !.result = NextResult(Refreshed)]
                 ELSE Refreshed
  /\ UNCHANGED <<beverageVars, account, apiKey, call, adapters, cached>>

-----------------------------------------------------------------------------
(* Completing a batch after its last Fill *)

BeginCompletion(b) ==
  /\ call = NoCall /\ b \in LinkedNow /\ account.enabled /\ apiKey.key # None
  /\ Acquire
  /\ call' = [phase |-> "read", read |-> WhatIsRead, link |-> Expected(b), adapter |-> cached']
  /\ UNCHANGED <<beverageVars, account, apiKey, evidence, run>>
EndCompletion ==
  /\ call # NoCall /\ call' = NoCall /\ Release(call.adapter)
  /\ UNCHANGED <<beverageVars, account, apiKey, evidence, run, cached>>

Eligible(read, l) == CurrentLink(read, l) /\ l.beverage \notin filled
PatchBatch ==
  /\ call.phase = "read" /\ Eligible(call.read, call.link)
  /\ call' = [call EXCEPT !.phase = "patch"]
  /\ UNCHANGED <<beverageVars, account, apiKey, evidence, run, adapters, cached>>

-----------------------------------------------------------------------------
\* Evidence and adapters live in the process; so do the calls.
SyncRestart ==
  /\ evidence' = NoEvidence /\ run' = NoRun /\ call' = NoCall
  /\ adapters' = [a \in Adapter |-> Closed] /\ cached' = 0
  /\ UNCHANGED <<beverageVars, account, apiKey>>

ConsoleStep(edits, rewrites) ==
  Console(edits, rewrites) /\ UNCHANGED <<account, apiKey, evidence, run, call, adapters, cached>>
AccountStep ==
  \/ \E user \in User, enabled, discovers \in BOOLEAN, key \in Optional(ApiKey) :
       ConfigureAccount(user, enabled, discovers, key)
  \/ RemoveApiKey
SyncStep(gravities) ==
  \/ BeginSync \/ FinishSync \/ SyncRestart
  \/ \E l \in run.links : ReplyMissing(l)
  \/ \E l \in run.links, auth, verified \in BOOLEAN : ReplyError(l, auth, verified)
  \/ \E l \in run.links, fg \in gravities, recipe \in Optional(Recipe) : ReplyBatch(l, fg, recipe)
  \/ \E found \in [Batch -> Optional([fg : gravities])], complete \in BOOLEAN,
        outcome \in {"fine", "auth", "other"} : Discover(found, outcome, complete)
  \/ \E b \in Beverage : BeginCompletion(b)
  \/ EndCompletion \/ PatchBatch

SyncNext ==
  ConsoleStep(Profile, Override) \/ AccountStep \/ SyncStep(Optional(Gravity))

SyncSpec == SyncInit /\ [][SyncNext]_syncVars

-----------------------------------------------------------------------------
\* What the console shows of the connection was learned with the user and the key
\* that are configured now, whatever was changed while a run was under way
\* (#recordBrewfatherSyncEvidence, #refreshBrewfatherConnections).
EvidenceCurrent ==
  Refreshed.result # None =>
    Refreshed.result.by.account.user = account.user /\ Refreshed.result.by.key = apiKey.key

\* An adapter is open as long as a call uses it, and no other than the cached one is
\* open without a use (#retainAdapter, #releaseAdapter).
AdaptersHeld ==
  LET users(a) == {x \in {run, call} : x.adapter = a} IN
  /\ \A a \in Adapter : adapters[a].open <=> users(a) # {} \/ a = cached
  /\ \A a \in Adapter : adapters[a].uses = Cardinality(users(a))
  /\ \A x \in {run, call} : x.adapter # 0 =>
       adapters[x.adapter].user = x.read.account.user /\ adapters[x.adapter].key = x.read.key

\* Nothing that was asked for under another user or key is written, and no batch
\* is completed that is not linked any more or that is on tap again
\* (isCurrentBeverageLink, currentAccount, completionStillEligible).
NothingStale ==
  /\ \A b \in Beverage :
       sources'[b] # sources[b] /\ sources'[b] # None /\ links[b] # None =>
         sources'[b].user = account.user /\ account.enabled
  /\ \A k \in Batch : candidates'[k] # candidates[k] =>
       account.enabled /\ apiKey.key = run.read.key
       /\ (candidates'[k] # None => candidates'[k].user = account.user)
  /\ call.phase = "read" /\ call'.phase = "patch" =>
       /\ call.link.beverage \notin filled
       /\ links[call.link.beverage] # None /\ links[call.link.beverage].batch = call.link.batch

SyncSound == EvidenceCurrent /\ AdaptersHeld
NeverStale == [][NothingStale]_syncVars
=============================================================================
