------------------------------- MODULE MCConsole -------------------------------
(***************************************************************************)
(* Everything of the console that shares no state with the rest: the five  *)
(* services, the Beverages with their synchronisation, and the health      *)
(* checks of a Tap.  `focus` says what moves while the others rest as they *)
(* begin.  Of the Beverages it is the gravities of one, two that take      *)
(* turns at one batch, the account under a run, or the adapters of a run   *)
(* and a completion; of the health checks, one of them.                    *)
(***************************************************************************)
EXTENDS Services, Cellar, FiniteSets

CONSTANTS c1, x1, p1, k1, o1, s1, v1, b1, r1, u1

VARIABLE focus
Focus ==
  {"throttle", "pin", "lifetimes", "secrets", "limiter", "workspaces", "autosave",
   "density", "links", "account", "adapters"} \cup Check

cellarVars == <<syncVars, healthVars>>

TwoPolicies == {[inactivity |-> 1, absolute |-> 3], [inactivity |-> 2, absolute |-> 4]}
TwoLimits == {[rate |-> 1, burst |-> 2], [rate |-> 3, burst |-> 1]}

(* What the operator types: a name with a space around it is stored without. *)
Trimmed == [v \in {"a", "b", "b ", "!"} |-> IF v = "b " THEN "b" ELSE v]

-----------------------------------------------------------------------------
(* Authentication: the throttle under parallel guesses while time passes; the PIN *)
(* and changes of it in parallel at one time; the lifetimes of one user's sessions. *)
InOrder == sessions'[x1].state = "new" => \A x \in Session : sessions'[x].state = "new"
OnlySessionsOf(kind) == \A c \in Call : calls'[c] = Idle \/ calls'[c].kind = kind
ThrottleStep ==
  /\ AuthNext /\ UNCHANGED <<credential, policy>> /\ OnlySessionsOf("login")
  /\ \A x \in Session : sessions'[x] # sessions[x] => sessions[x].state = "new"
  /\ Cardinality({x \in Session : sessions'[x].state # "new"}) <= 1
PinStep ==
  /\ AuthNext /\ UNCHANGED <<clock, policy>>
  /\ \A x \in Session : sessions'[x].until = sessions'[x].absolute /\ sessions'[x].state # "pruned"
LifetimeStep ==
  /\ AuthNext /\ UNCHANGED credential /\ OnlySessionsOf("login")
  /\ policy'.revision <= 2 /\ guesses'.tried <= 1
  /\ \A c \in Call : calls'[c] = Idle \/ (c = c1 /\ calls'[c].pin = p1)
  /\ clock' # clock => calls[c1] = Idle
  /\ \A x \in Session : sessions'[x].state = "pruned" => sessions[x].state # "revoked"

(* Secrets: the second operator rotates only next to the first; one slot with all *)
(* edits, the others hold one plaintext.                                           *)
SecretStep ==
  /\ SecretNext /\ configured' # None
  /\ serverKey' = configured' \/ generation' + secrets'[s1].revision > 0
  /\ configured' # configured => \A o \in Operator : rotations[o] = NoRotation
  /\ \A s \in Slot : secrets'[s].revision <= 2
  /\ \A s \in Slot \ {s1} : secrets'[s].plain \in {None, v1} /\ removing' # s
  /\ \A o \in Operator : rotations'[o].old = None \/ rotations'[o].old # rotations'[o].new
  /\ \A o \in Operator \ {o1} :
       rotations[o] = NoRotation /\ rotations'[o] # NoRotation =>
         rotations[o1] # NoRotation /\ rotations'[o].old = k1

(* Workspaces: two pages and two requests at a time. *)
WorkspaceStep ==
  /\ WorkspaceNext
  /\ Cardinality(pages') <= 2 /\ Cardinality(requests') <= 2 /\ stored'.revision <= 4

(* Autosave: the server normalises and refuses names, a display it takes as it is. *)
AutosaveStep ==
  AutosaveNext /\ \A f \in PlainForm : forms'[f].dom \in {"a", "b"} /\ row'[f] \in {"a", "b"}

(* Beverages.  The first recipe of any is r1. *)
OneBeverage == \A b \in Beverage : b # b1 => owner'[b] = "absent"
NoRecipes == \A b \in Beverage : snapshots'[b] = <<>>
NoGravities == [fg : {None}, manual : {None}]
LinkFirst ==
  /\ \E k \in Batch : LinkBrewfatherCandidate(b1, k, NoOverride)
  /\ UNCHANGED <<account, apiKey, evidence, run, call, adapters, cached>>

DensityStep ==
  /\ \/ ConsoleStep({p \in Profile : p.manual # 1},
                    {o \in Override : o.manual # 1 /\ (o.set \/ o.fg = None)})
     \/ SyncStep(Optional(Gravity))
  /\ UNCHANGED <<account, apiKey, call, stamp, filled>> /\ OneBeverage /\ NoRecipes
  /\ evidence'.result = None /\ ~run'.linked /\ ~run'.auth /\ ~run'.error
  /\ links'[b1] # None => links'[b1].state \in {"pending", "synced"}
LinksStep ==
  /\ ConsoleStep(NoGravities, {NoOverride}) \/ SyncStep({None})
  /\ UNCHANGED fallback
  /\ evidence'.result = None /\ \A b \in Beverage : b # b1 => snapshots'[b] = <<>>
  /\ ~run'.auth
ChangedStep ==
  /\ AccountStep \/ SyncStep({None}) \/ (LinkFirst /\ run = NoRun)
  /\ UNCHANGED call /\ NoRecipes
  /\ account'.discovers /\ (account'.enabled \/ account'.user = u1)
  /\ evidence'.serial <= 2 /\ stamp' = account'.at /\ ~run'.error
  /\ links'[b1] # None => links'[b1].state # "stale"
AdaptersStep ==
  /\ AccountStep \/ SyncStep({None}) \/ LinkFirst
  /\ UNCHANGED apiKey /\ NoRecipes
  /\ account'.enabled /\ account'.discovers /\ account'.at = stamp' /\ evidence'.serial <= 2
  /\ evidence'.result = None /\ ~run'.linked /\ ~run'.auth /\ ~run'.error
  /\ sources' = sources \/ run = NoRun

BeverageStep ==
  /\ \/ focus = "density" /\ DensityStep
     \/ focus = "links" /\ LinksStep
     \/ focus = "account" /\ ChangedStep
     \/ focus = "adapters" /\ AdaptersStep
  /\ apiKey'.row <= 2 /\ evidence'.serial <= 3
  /\ \A b \in Beverage :
       /\ Len(snapshots'[b]) <= MaxVersions
       /\ snapshots'[b] # <<>> => snapshots'[b][1].recipe = r1

(* Health: one check at a time is on, or is switched; only its inputs vary.  In the *)
(* second epoch it is on and the process up.                                        *)
Times == Arrivals \cap (IF focus = "scale_availability" THEN Instant ELSE time - 1 .. time)
Degrees ==
  IF focus = "serving_temperature" THEN {None, "normal", IF time = 0 THEN "hot" ELSE "warm"}
  ELSE {"normal"}
Statuses ==
  {NoReading} \cup
  (IF focus \in {"serving_temperature", "scale_availability"}
   THEN [at : 0 .. time - 1, degrees : {"normal", "warm"}] ELSE {})
Seen ==
  LET unseen == CASE focus = "low_keg" -> {"pour"}
                  [] focus = "suspected_leak" -> {"warning"}
                  [] focus = "scale_availability" -> {}
                  [] OTHER -> {"ready", "pour", "warning"}
  IN {f \in Findings : f.phase \notin unseen}
Steady == tap.authority # None => tap'.authority = tap.authority
InTime == tap'.status.at # None => tap'.status.at <= time
Uncleaned == tap'.cleaned = None
Temperate == tap'.status.at # None => tap'.status.degrees = "normal"
Unhandled ==
  /\ rows'[focus].cooldown = None
  /\ \A i \in DOMAIN incidents'[focus] : ~incidents'[focus][i].acknowledged
HealthStep ==
  /\ SampleArrives(Times, Degrees, Seen) \/ OfCheck(focus) \/ OfTap(Statuses)
  /\ tap'.enabled \subseteq {focus} /\ Len(incidents'[focus]) <= MaxIncidents
  /\ healthUp' \/ time' <= 2
  /\ tap'.epochs = 2 => healthUp' /\ tap'.enabled = {focus}
  /\ CASE focus = "line_cleaning_due" ->
            /\ tap'.epochs = 0 /\ tap'.authority = None /\ healthUp'
            /\ tap'.cleaned \in {None, 0, time, tap.cleaned}
            /\ rows'[focus].cooldown \in {None, rows[focus].cooldown, time + 2}
       [] focus = "scale_availability" -> Unhandled /\ Uncleaned /\ Temperate /\ tap'.epochs = 0
       [] focus = "low_keg" ->
            Unhandled /\ Uncleaned /\ Temperate /\ Steady /\ InTime /\ ~tap'.retired
       [] focus = "serving_temperature" ->
            /\ Unhandled /\ Uncleaned /\ Steady /\ InTime /\ ~tap'.retired
            /\ tap'.volume = None /\ tap'.epochs <= 1 /\ Len(incidents'[focus]) <= 1
            /\ tap'.status.at # None =>
                 tap'.status.degrees \in {"normal", IF time = 0 THEN "hot" ELSE "warm"}
       [] focus = "suspected_leak" ->
            /\ Unhandled /\ Uncleaned /\ Temperate /\ InTime /\ ~tap'.retired /\ healthUp'
            /\ tap.authority # None => tap'.authority = 0
            /\ tap'.volume # 2

-----------------------------------------------------------------------------
MCInit ==
  /\ focus \in Focus
  /\ AuthInit /\ SecretInit /\ Init /\ WorkspaceInit /\ AutosaveInit
  /\ focus # "lifetimes" => policy.inactivity = 2
  /\ configured = k1
  /\ focus # "limiter" => limits.rate = 1 /\ now = 0
  /\ focus # "autosave" => \A f \in Form : row[f] = "a"
  /\ BeverageInit /\ fallback = 1 /\ evidence = NoEvidence /\ run = NoRun /\ call = NoCall
  /\ account = [enabled |-> TRUE, user |-> u1, at |-> 0, discovers |-> TRUE]
  /\ apiKey = [key |-> k1, row |-> 1]
  /\ adapters = [a \in Adapter |-> Closed] /\ cached = 0
  /\ HealthInit /\ tap.enabled \subseteq {focus}

ServicesStep ==
  \/ /\ \/ focus = "throttle" /\ ThrottleStep
        \/ focus = "pin" /\ PinStep
        \/ focus = "lifetimes" /\ LifetimeStep
        \/ focus \in {"throttle", "lifetimes"} /\ SetPin(p1)
     /\ InOrder /\ UNCHANGED <<secretVars, vars, workspaceVars, autosaveVars>>
  \/ /\ focus = "secrets" /\ SecretStep
     /\ UNCHANGED <<authVars, vars, workspaceVars, autosaveVars>>
  \/ /\ focus = "limiter" /\ Next
     /\ UNCHANGED <<authVars, secretVars, workspaceVars, autosaveVars>>
  \/ /\ focus = "workspaces" /\ WorkspaceStep
     /\ UNCHANGED <<authVars, secretVars, vars, autosaveVars>>
  \/ /\ focus = "autosave" /\ AutosaveStep
     /\ UNCHANGED <<authVars, secretVars, vars, workspaceVars>>
CellarStep ==
  \/ BeverageStep /\ UNCHANGED healthVars
  \/ focus \in Check /\ HealthStep /\ UNCHANGED syncVars
MCNext ==
  /\ UNCHANGED focus
  /\ \/ ServicesStep /\ UNCHANGED cellarVars
     \/ CellarStep /\ UNCHANGED servicesVars
MCSpec == MCInit /\ [][MCNext]_<<servicesVars, cellarVars, focus>>
=============================================================================
