# Tapboard: verification project

Tapboard v2 is one Node 24 process over one SQLite database (`src/architecture.md`). It shows
what is on tap, takes scale readings over HTTP, turns them into pours, and tells other systems
through an outbox. This directory holds TLA+ models of the parts where order, failure and time
decide correctness, the TLC runs that check them on small instances, and TLAPS proofs of their
invariants for every instance.

Contents: [1 The system](#1-the-system) · [2 The modules](#2-the-modules) ·
[3 The runs](#3-the-runs) · [4 Fairness](#4-fairness) · [5 What is proved](#5-what-is-proved) ·
[6 Where code and documents differ](#6-where-code-and-documents-differ) ·
[7 What is left out](#7-what-is-left-out) · [8 Plan](#8-plan)

## 1 The system

All paths are under `src/src/`. The process is single threaded: code between two `await`s is
atomic, a repository transaction (`BEGIN IMMEDIATE`) is synchronous and therefore one step. What
interleaves are HTTP requests with awaited bodies, timers, socket callbacks and continuations of
network calls; what fails are network calls, transactions (which roll back) and the process.

| component | state | operations | hard behaviour | what makes it correct |
| --- | --- | --- | --- | --- |
| Outbox delivery (`outbox/repository.ts`, `outbound/repository.ts`, `outbound/service.ts`) | `outbound_deliveries` rows with lease, revision, cycle and failure clocks; destination switches and versions | admit, claim, apply result, release, retry, dismiss, enable, disable, edit, retire, prune | lease expiry against late answers; operator commands against sends; switching while leased | exclusive leases, final is final, no old result settles a newer attempt, secrets never follow a destination to a new origin |
| Outbound worker (`outbound/worker.ts`) | timer, generation, in-flight marks, running sends and probes | poll, send, probe, connection report, start, stop, crash | everything read before an `await` is stale after it; an error ends a poll while other sends run on | one send per destination, bounded concurrency, exact bookkeeping, evidence belongs to what it is shown for |
| Outbound transports (`outbound/transports/`) | one WebSocket per Home Assistant destination, pending requests, timers; webhooks keep none | connect, authenticate, send, probe, replace, close, stop | callbacks of replaced sockets, shared connect promise, reconnect and timeout timers | every caller answered, one live socket, reconnect armed, evidence true |
| Telemetry ingestion (`telemetry/service.ts`, `repository.ts`, `routes.ts`, `rate-limiter.ts`) | sources, authority, receipts, measurements, watermarks, settings, token buckets | authenticate, ingest one or a batch, assign authority, disable, settings, prune | requests authenticated before their body arrives; retries; settings changed under way; clock jumps | accepted samples in order, retries answered alike, nothing from a disabled source, bounded rate |
| Pour detector (`telemetry/detector.ts`, `detector-service.ts`) | an epoch per Tap with a phase machine, sample history, arbitration groups, pours | open, close, replace epochs; sample; timer; group changes | late and early samples against a timer, ties, several Taps of one group | one pour per group, a pour counted once, sound times, every timer call ends |
| Outbox admission (`outbox/repository.ts`) | quotas, overflow incidents, retention | mutate and admit, coalesce, prune, recover capacity | bounds at the limit, incidents opened and closed | bounded tables, no silent loss |
| Taps, Fills, Kegs (`taps/`, `fills/`, `kegs/`) | Taps, Kegs, Fills with their place on deck, assignments | create, assign, move, unassign, kick, end, reorder, retire, delete with cascades | several aggregates changed in one transaction, hooks into telemetry and Tap Wars, cascades without hooks | a Keg, Fill and Tap are in one place at a time; telemetry is read by what is configured now |
| Beverages and Brewfather (`beverages/`, `beverages/brewfather/`) | Beverages, links, source profiles, overrides, recipe snapshots, candidates, one account and its key, adapters, connection evidence | edit, link, unlink, delete, synchronise, discover, complete a batch | a run awaits one reply after another while the account, the key or a link changes, and changes back | nothing asked under an old account, key or link is written; telemetry counts with the effective density; adapters close when their last user is gone |
| Authentication, machine keys, secrets (`auth/`, `machine-keys/`, `secrets/`) | verifier, throttle, sessions, keys, encrypted values | log in, change PIN, revoke, rotate | attempts in parallel with an asynchronous hash; rotation that fails half way | the throttle counts every attempt; rotation is all or nothing |
| Health (`health/`) | a row, leak samples and incidents per check and Tap | evaluate, sweep, acknowledge, cool down, record maintenance, configure | timers and samples carried through new epochs, gaps, restarts and configuration changes | one open incident per check, exactly while it alarms; every alarm has a cause |
| Tap Wars (`tap-wars/`) | one war, two counters | start, vote, pause, resume, stop | votes against stop; assignment changes | frozen results, one unfinished war |
| Live events (`infrastructure/sse/hub.ts`, `live/`, `public/js/`) | bounded queue per client; in the page a queue of dirty targets and its requests | publish, drain, disconnect; fetch, hold, reconcile | slow clients, coalescing, overflow, answers older than a reconciliation | no missed refresh, no step back to an older picture |
| Display settings (`display/`, `public/js/admin-autosave.js`) | card and name of a Tap, one revision for both | save by itself, undo, conflict, reload | a save answered while the operator types on and other pages write | what says it is saved is what was typed last; nothing unseen is overwritten |
| Simulation workspace (`simulation/`) | stored mode, the open data set, the change under way | enable, disable, reset, start, stop | requests draining while the database changes; dying half way | no page or request meets a data set other than its own |
| Application (`application.ts`, `main.ts`) | acquired resources | start, stop, fail while starting | stop during start, a disposer that throws | every resource disposed once, in order |
| System, display, dashboard, story, forecasting, activity, web pages, HTTP, database, operator tools | see `PROJECT.json` | mostly projections, parsing and presentation | little of their own | |

How they interact: HTTP routes call services; services open transactions on the shared database and
call each other's hooks synchronously inside them (an accepted sample calls the detector, a completed
pour and a status change call the outbox); only the outbound worker, the Home Assistant socket,
Brewfather synchronisation, the hashing of PINs and a change of the workspace await in the middle of their work. The detector
and the worker run from timers. After a commit, the live service publishes to SSE clients.

`PROJECT.json` lists every component with its status, and under `hazards` what can go wrong at which
line, with the properties that would notice.

## 2 The modules

| module | models | checked in run | proved in |
| --- | --- | --- | --- |
| `DeliveryContract` | what the outbox promises of each delivery, without leases, clocks and attempts | refined by `OutboxDelivery` | |
| `OutboxDelivery` | every transaction on a delivery row or a destination's switches | `outbox` | `OutboxDeliveryProofs` |
| `OutboxPause` | `OutboxDelivery` with what a pause should preserve | `pause_clocks` | |
| `OutboundWorker` | the worker object, its sends and probes | `worker`, `progress` | `ProgressProofs` |
| `HomeAssistantConnection` | the WebSocket connection manager of one destination | `ha_connection` | `HomeAssistantConnectionProofs` |
| `TelemetryIngestion` | requests, batches, receipts, watermarks, authority, pruning | `ingestion`, `ingestion_batch` | `TelemetryIngestionProofs` |
| `PourDetector` | epochs, phases, arbitration, the timer | `pour_detector`, `detector_suppression` | `PourDetectorProofs` |
| `KegLine`, `TapWars`, `TelemetryEpochs` | what is on which Tap; the votes; the snapshot telemetry is read by | through `House` | |
| `House` | the three composed as `application.ts` composes them | `house`, `deck_places` | `HouseProofs` |
| `Authentication`, `SecretStore`, `TelemetryRateLimiter`, `Workspaces`, `Autosave` | the PIN and its sessions; encrypted credentials; the token bucket of a source; the two data sets; forms that save themselves | through `Services` | |
| `Services` | the five next to one another | `console` | `ServicesProofs` |
| `Beverages`, `BrewfatherSync` | Beverages and the density they are poured with; runs and completions that await Brewfather | through `Cellar` | |
| `Health` | the five checks of one Tap, their timers, samples and incidents | through `Cellar` | |
| `Cellar` | synchronisation and health next to one another | `console` | `CellarProofs` |
| `LiveUpdates` | the hub's stream to one dashboard, and what the page does with it | `progress` | `ProgressProofs` |
| `Shared` | the absent value, the earlier and the later of two times | | |
| `MC...` | the instances for TLC | | |

A definition preceded or followed by a comment `mutant` or `as a bug` is not part of the model: it is
a plausible mistake, used to show that a property would notice it (`mutants` in `PROJECT.json`).

**OutboxDelivery.** `row[<<event, destination>>]` is a row of `outbound_deliveries` (the schema makes
the pair unique); `enabled`, `disabledAt`, `retired`, `version`, `originSince` are the destination's
columns and versions; `claims` holds the `DeliveryClaim`s whose result has not come back, including
those whose lease ran out. Each action is one transaction: admission with coalescing, `claimDue` with
the sweep that ends exhausted rows, `applyDeliveryResult`, `releaseClaim`, `retryDelivery`,
`dismissDelivery`, `setEnabledState`, an edit with or without a new origin, `setRetired`, the loss of
a secret, pruning. A status change may admit an event in the same transaction, as
`mutateAndAdmit` does. The clock is a number; the model has no quota.

**OutboundWorker.** One action is what runs between two awaits. The outbox is reduced to what the
worker can tell: instead of clocks a row has the flag `due` (its backoff or its lease has run out);
instead of revisions each running send knows whether it still `holds` its row, and each reading of a
destination whether it is still `fresh`; every write of that revision in any action clears the
flag. A destination's secret is there, missing, or there again after it was missing: a task that read
the destination before the loss must not pass for one that read it after. `tasks` are `processClaim`
calls, `probes` are `probeHomeAssistant` calls outside a task; each carries the generation,
configuration version and credential revision it read. `Poll` is a whole `#pollOnce` up to its first
await, including a claim that is handed back, one whose secret is missing, and one whose processing
throws.

**HomeAssistantConnection.** `conn[c]` is one `Connection` object; a replaced object lives on while
callers hold it. `calls[k]` is one `sendEvent` or `ensureAuthenticated`: waiting for the shared
connect promise, resumed, sent, or done. Actions are socket events (open, message, close, error),
timers (authentication, request, reconnect), continuations, and `closeDestination` and `stop`.
`shown` is the evidence last given to `onConnectionState`.

**TelemetryIngestion.** `db` are the tables; a transaction `tx` works on a copy, sample by sample, and
either replaces the tables or is dropped. `reading` are requests that were authenticated and wait for
their body: between the two anything may be reconfigured (`routes.ts`). The history in
`db` (`log`, `answers`, `unlike`, `overruled`) remembers what was accepted, first answered and answered
differently later: `unlike` by a look-up of the receipt, `overruled` by a conflict inside a batch, which is
decided before any receipt is looked at. `limits` remembers how far the settings ever went. Assumed: the clock
does not step back here (`TelemetryRateLimiter` has the clock that does); whether the limiter has a
token is left open; a batch is a set whose order at equal measured times is left open; moving a
Fill is an unassignment and an assignment; a pruning pass is one step that removes at most
`PruneBatch` of the expired rows of each table.

**PourDetector.** Volumes are abstracted to what the phases ask of them: whether a sample jumps,
settles a window, shows a loss. Times are kept, because the hazards are in them: a sample may be
measured late or, up to `Skew`, ahead of the clock; `Measured` is the bound on when. `det[t]` is the row of
`telemetry_epoch_state`; the loss is kept only while a candidate waits and the time of the last
flow only while a pour runs, which is where the code reads them. `after[t]` joins the watermark of
ingestion and the start of the epoch: a sample must be newer than both. `pours` is the history of
completed pours of open epochs; a completed pour may be dropped in the same step, which is the
rebound below the minimum volume. `pass` is the clock a running `processDue` was called with: it is
one transaction, so nothing else runs until it ends, but the model shows every turn of its loop. The loop
gives up after `MaxTurns` turns (500) and each turn sees the oldest `MaxRows` rows of a query (`LIMIT` 500)
that lists a pour as soon as its quiet period is over, at rest or not (`Listings`).
There is one arbitration group; Taps outside it detect alone. Its `Dominates` is the code's
comparison with a division, written as a product, including the case of a runner-up without
loss.

**KegLine, TapWars, TelemetryEpochs, House.** One action of `KegLine` is one operation of the Tap, Fill
or Keg service; a refused operation changes nothing and is no step; rows are the numbered ones that will
be inserted. `TapWars` has the table of wars, its own operations, and, as operators, what the hooks of
other services do to a war. An epoch of `TelemetryEpochs` is the snapshot of everything by which raw
telemetry of a Tap is read; whatever changes one of them closes the epoch and opens the next. `House`
gives every operation its hooks in the order of `application.ts`: a deletion by cascade has none, and the
reconciliation that follows its commit is lost when the process dies (`missed`).

**Authentication.** A PIN is checked and hashed asynchronously: a login, a change and the operator's reset
begin with what they read and end in a transaction after others ran (`calls`). `guesses` is history:
PINs tried since the last login. Time does not go back. `setPin` has no caller in the program; the
operator's reset inserts the first PIN.

**SecretStore.** An envelope is the key it was made with and the plaintext. The server and the operator's
commands are processes of their own, and a read outside a transaction is a step. Row ids and nonces
are left out, which lets the model confuse more than the code can.

**TelemetryRateLimiter.** Tokens are integers: one token is `Unit` parts and a unit of time refills
`rate` parts, so the fractions of the code are exact.

**Workspaces.** Workspace 0 is the normal one, a simulation is named by its data set. A change of mode is a
sequence of steps with awaits between them (drain, open, commit, close); requests arrive and answer
meanwhile, the process is stopped or dies. `pages` are history: what was rendered where and for whom.
`torn` marks a reset the process did not survive.

**Autosave.** A form is one value with what is typed, what was acknowledged, a request under way and one
waiting. Saves compare the Tap's `updated_at`, taken to differ between two transactions. Leaving a field for the Undo button commits
it first. `unnoticed` are forms whose row was changed by the ordinary submission, which leaves
`updated_at` alone.

**Beverages, BrewfatherSync.** Each console operation is a transaction. A run reads account, key and links and
awaits a reply for each link, then discovery; each reply is an action that repeats the code's checks
before it writes. `serial` is the identity of the evidence object; `adapters[a].uses` the number of
calls that retain an adapter. One account; a recipe is told apart by its fingerprint; the order of links
is left open; the sanitiser's null profile, retries and limits inside the adapter are left out.

**Health.** `Tap` is what the checks read; every hook, sweep and configuration change evaluates all checks in one
step, as `evaluateTap` does. A verdict is the state and severity. `dip` and `hot` are history: since
when the volume is low, the beer out of range; `lapsed` are checks that were switched off while they held
a timer or samples; `spanned` are the leak samples that the end of a pour has outdated. Global configuration is committed before the sweep, which may fail. The cap of 100
pruned incidents per evaluation is left out; two transactions are not in the same millisecond.

**LiveUpdates.** One dashboard. `stream` and `wire` are the hub's client and what the browser has not read;
`page` is the queue of dirty targets with its reconciliation; `fetches` and `snapshot` are its requests.
Events only name what changed. `unseen` are changes between the rendering of the page and its first
stream, which nothing announces (section 6).

**The MC modules** carry a variable `focus` that says which of several independent parts moves in a
behaviour, so that one run covers what would otherwise be a product of unrelated state spaces.

## 3 The runs

Twelve runs; each asks a question of its own. Bounds are in the `.cfg` files.

| run | question and what it shows | instance, and why it is enough |
| --- | --- | --- |
| `outbox` | Can two deliveries of one destination be leased at once, an ended one revived, a row break a CHECK, an old result settle a newer claim (`DestinationsSound`, `ClaimsSound`, `SupersededResultIgnored`)? Does every step keep the contract (`ImplementsContract`)? No; yes. | Two events on one destination, cycle of 2, three time units: leases expire while results are outstanding, a claim is superseded, a cycle is exhausted. Or two destinations at one instant: fan-out, coalescing and pruning concern pairs. Every property relates at most two rows or two claims. |
| `pause_clocks` | Does a pause preserve the clocks, as ADR 0007 says? **No**, see section 6. | One delivery. |
| `worker` | Are sends per destination and in total bounded, is the bookkeeping exact, can a poll wedge the worker, can a destination look healthy that never answered at its present address and credentials (`SendsSound`), can an old answer settle a delivery (`SettledByOwnSend`)? No. | Three webhook destinations, two slots, one stop or crash: capacity is contended and errors end polls early. Destinations are interchangeable with their delivery (`PairsExchanged`). Or one probed Home Assistant, two versions of configuration and credentials: evidence never crosses destinations. |
| `progress` | Does every delivery end (`EveryDeliveryEnds`)? Does a page never forget a change it was told of (`ScreenSound`), never go back (`NeverOlder`), and show what the server has once changes stop (`ScreenCatchesUp`)? Yes. | Two deliveries that compete for one destination. Two targets, one of which is asked for at once, queues and limits of one, two disturbances. |
| `ha_connection` | Can a caller be stranded, a replaced socket survive, a destination be left without a reconnect, false evidence be shown (`ConnectionSound`, `EveryCallAnswered`)? No. | Two callers, two bindings, two connection objects, one pending request allowed: the limit, the shared promise and a replacement all happen. |
| `ingestion` | Are retries answered alike (`RepliesAgree`)? Does each raw measurement keep its receipt and the assignment of its time (`MeasurementsSound`)? Is anything accepted twice or out of order, or from a disabled source (`AcceptedInOrder`, `NothingFromDisabled`)? Yes, but for retries in a batch that contradicts them; no. | One source with client and fallback identities, batches of two, a horizon that changes and receipts kept one skew longer than the longest; or receipts that go before their horizon ends, single samples and two assignments. |
| `ingestion_batch` | Does a sample that has a receipt always get its answer (`ReceiptsAnswer`)? **No**, see section 6. | The same. |
| `pour_detector` | Can two Taps of a group pour at once, a late sample count a pour again, a pour have impossible times, the timer spin (`PoursSound`), a call of the timer return with something overdue (`NothingOverdue`)? No. | Two Taps; arbitration compares the best candidate with the second. One Tap can measure at every moment 0 to 4, the other at 0 and 1: the first has time for a pour, its cooldown and a second session, both for a contested pour. `Arbitration` is 2, so that a late sample can fall between the start of a candidate and its activation and end the pour before it; `SettledSpan` 0 and `History` 1 let samples fall out of the window; losses of -1, 1 and 3 give runners-up that gained beer, are close, or are far behind. Two rows and four turns a call, exactly what two open epochs need; all four are taken. |
| `detector_suppression` | Does a pour always suppress a candidate that falls due while it lasts? **No**, see section 6. | Two Taps, every moment measurable, no skew. |
| `house` | Can any order of operations and deletions leave something poured from what is gone, an epoch that reads with an old setting, a war that counts for a competitor that left (`HouseSafe`, `WarsSound`, `WarsFair`)? No. | Two Taps, two Kegs, one Beverage, three Fills and assignments, two wars of one vote a side; each setting of an epoch varies in a focus of its own, since it changes one field. |
| `deck_places` | Are places on deck dense, as the status document says? **No**, see section 6. | The same. |
| `console` | What shares no state with the rest, one part at a time (`focus`). Services: are guesses bounded and sessions proven (`AuthenticationSound`, `SessionsFinal`), no secret lost (`SecretsSound`), the rate kept (`RateBounded`), no page on another data set (`WorkspacesSound`), nothing overwritten unseen (`AutosaveSound`)? Beverages and their synchronisation: do the rows agree with the owner and telemetry with the density (`BeveragesSound`), is evidence current and no adapter lost (`SyncSound`), is nothing stale written (`NeverStale`)? Health: has every alarm one incident and a cause (`IncidentsSound`, `AlarmsSound`)? Yes. | Two calls, two sessions, two PINs; two operators with two keys; one bucket (buckets are independent); two simulations and four sessions; two forms, the one with names the server normalises or refuses, the other with an ordinary form too. Two Beverages that take turns at one batch, two users, three adapters. For each check two epochs, two incidents, four moments, and thresholds one or two apart, so that each is met exactly and missed; no grace after a pour, so that only the wait of the leak check stands between a pour and an alarm. |

`CHECK_DEADLOCK FALSE` is set where the counters' bounds (`MaxRevision`, `MaxVersion`, `MaxFills`,
`MaxClock`, ...) or the fixed set of connection objects, none of them a limit of the program, end a
behaviour. Telemetry and the detector never stop and are checked for deadlock.

Two settings outside the checked ones were looked at and are recorded as hazards. With receipts kept
exactly as long as the horizon and a positive future skew (which `updateSettings` accepts), a retry
can be judged anew; `RepliesAgree` therefore speaks of receipts that were always kept for the longest
horizon and the largest skew together, as the defaults have it (86400 s against 21600 s and 300 s). When more
rows have expired than a pass of pruning removes, and its batch of measurements ends between two of one
time, a receipt can be gone before its raw measurement until the next pass (`MeasurementsSound` fails with
`PruneBatch` 1 and `MaxTime` 4); its theorem states what excludes that as a hypothesis.

Within `PoursSound`, `SessionsApart` leaves out pours after which a jump was seen: the warning replaces
the cooldown and its end leads straight to `ready`. Without that exception the property fails, and the
code means it: after a jump the baseline is a new one or the old level was restored.

## 4 Fairness

Only `progress` and `ha_connection` need it. In `progress`, for the worker: the poll timer fires while
the worker runs; the process boots again after a crash; a send or probe answers, because each transport
has its timeout (`webhook.ts` 30 s, the request and connection timers of `home-assistant.ts`); leases and
backoffs run out, because time passes. For the page: the browser reconnects and reads its stream, a
socket that is read drains, requests are answered and answers handled. The page's requests have no
timeout of their own, so that they are answered is an assumption about the browser and the network.
Changes, votes and faults are finite in number, because what is claimed holds once they stop. Nothing is
assumed of operators, connection reports or errors.
`ha_connection`: continuations run, timers fire, and a socket that is being opened either
opens or fails, which the platform's WebSocket guarantees; the `connecting` phase has no timer of its own, so
`EveryCallAnswered` rests on that.

For the detector, progress is stated as safety, which is stronger and cheaper: `PassProgresses` says
each turn of the loop of `processDue` changes a due epoch, `NothingOverdue` what has been achieved
when it returns, although it stops after 500 turns and sees 500 rows at a time. It holds as long as the
turns are twice the open epochs and the rows as many as they are (`WithinReach`). Beyond that, with more than
250 open epochs, or with 500 listed pours that have not come to rest before the one that has, a
call may leave something overdue until a later tick; no document promises otherwise.


## 5 What is proved

TLAPS proves the following for every set of events, destinations, callers, Taps, Kegs, forms, adapters and
so on, and every value of the limits and thresholds, from the assumptions the modules name
(`ConstantsAssumption`, `WorkerAssumption`, `HealthAssumption`, ...): in short, that limits are natural
numbers, positive where the code checks or fixes them so, that the markers for "none" are not members of the sets
they are joined to, and for `Autosave` that normalising a value twice changes nothing more. TLC
evaluates the assumptions in every run.

| module | theorem | what always holds |
| --- | --- | --- |
| `OutboxDeliveryProofs` | `Inductive`, `TypeCorrect`, `LeasesExclusive`, `DisabledHoldsNoLease`, `RetiredIsDone`, `SecretsKeepTheirOrigin`, `DestinationsAreSound` | `TypeOK`, `DestinationsSound` and its parts |
| | `ClaimsAreSound`, `OvertakenResultsIgnored` | `ClaimsSound`; every step satisfies `SupersededResultIgnored` |
| | `OutboxImplementsContract` | `OutboxDelivery` implements the safety of `DeliveryContract` |
| `ProgressProofs` | `WorkerTypes`, `SendsAreSound`, `OnlyTheHolderSettles` | `TypeOK`, `SendsSound`, `SettledByOwnSend` of `OutboundWorker` |
| | `ScreenIsSound`, `ScreenNeverGoesBack` | `ScreenSound` and `NeverOlder` of `LiveUpdates` |
| `HomeAssistantConnectionProofs` | `Inductive`, `TypeCorrect`, `NoOrphans`, `NoLostCaller`, `AttemptsAreBounded`, `AlwaysReconnects`, `EvidenceIsTrue`, `ConnectionsAreSound` | `TypeOK`, `ConnectionSound` and its parts |
| `TelemetryIngestionProofs` | `TypeCorrect`, `OrderOfAccepted`, `DisabledIsFinal`, `OnTapAsMeasured` | `TypeOK`, `AcceptedInOrder`, `NothingFromDisabled`, `OnTapWhenMeasured` |
| | `MeasurementsAreSound` | `MeasurementsSound`, if no pass of pruning ends between two measurements of one time (`BatchesApart`) |
| | `RetriesAreAnswered` | `RepliesAgree`, which excepts replies to a batch that contradicts itself |
| `PourDetectorProofs` | `Inductive`, `TypeCorrect`, `OnePour`, `CooldownRespected`, `RecordedTimes`, `EveryPassEnds`, `NoneLeftOverdue`, `PoursAreSound` | every property of `pour_detector`, for every `MaxTurns` and `MaxRows` |
| `HouseProofs` | `HouseTypes`, `HouseIsSafe`, `WarsAreSound`, `WarsAreFair` | every property of `house` |
| `ServicesProofs` | `AuthenticationTypes`, `AuthenticationIsSound`, `EndedSessionsStayEnded`, `SecretTypes`, `SecretsAreSound`, `LimiterTypes`, `RateIsBounded`, `WorkspaceTypes`, `WorkspacesAreSound`, `AutosaveTypes`, `AutosaveIsSound`, `ServicesTypes` | every property of `console` about a service, each for its own component |
| `CellarProofs` | `CellarTypes`, `BeveragesAreSound`, `SyncIsSound`, `NothingGetsStale`, `IncidentsAreSound`, `TimersAreGrounded` | the other properties of `console` but the last conjunct of `AlarmsSound` |
| | `AlarmsAreSound` | `AlarmsSound`, if a sample is usable for no longer than the leak check waits after a pour, as it is by default |

### The arguments

**Outbox.** `IInv` is asked of any table `rows` and any switches, because a handler changes the table and
then, in the same transaction, may admit an event into it: `AdmitIntoOK` shows that admission keeps
it, whatever the first half did, and each handler needs only its own half. `RetiredHasNoWork` is not
inductive alone: a retired destination must also stay off, or `claimDue` could lease a row of it.
`ResendableMatchesOrigin` needs `originSince <= version`, since admission takes the current version.
Exclusive leases rest on the guard of `claimDue`, on a claim taking at most one row per destination, and on
disabling taking every lease back. For the history, every action is summed up as an evolution of each row
(`Evolution`) followed by an admission. A result is fenced by the revision of its claim, and a
revision never comes back because an ended row is not inserted again; both `ClaimsSound` and the
refinement follow from that, row by row.

**Worker.** The sends of the present life are of distinct deliveries and are exactly what the in-flight marks
say; all other tasks are of earlier lives. The bounds, stated with `Cardinality`, then follow from
injections between sends, marks and destinations. Evidence needs that every claim made for a reading still
holds when it is `fresh`. This proof found the model too generous: a secret that was lost and given again
could pass for the one before, which is why `secrets` has three values. The theorems are about
`Spec`, in which every destination is in use; each focus of the run uses some of them.

**Live updates.** `LiveInv` says which requests are out (one for exactly each running target), that the page recovers as
long as it asks for everything, and that meanwhile every other request is outdated; that the wire
belongs to the stream; and that versions grow from the screen over what is about to be shown to the server.
`NeverOlder` follows from the last part: a single answer is shown only outside a recovery, since one that
began before is outdated, so the answer to a recovery is never overtaken. For `ScreenSound`, what is known to be dirty
must survive every change of the page's queue. Such a change is a relation between two queues
(`Later`: nothing is forgotten or stopped; `Without`: one run has ended) that composes. An event names any number of
targets, and a recovery releases any number of held ones, so the code's loops are folds over sequences of any
length. `FoldLeft` recurses over the set of positions; `PositionsInduction` and `IterationExists` give the
induction that the prover lacks, from the well-foundedness of strict subsets among finite sets.

**Home Assistant.** Each connection object keeps a `Shape` relating phase, socket, timers, promise and
pending requests; exactly the current object is not closed; callers and promises agree. `OneSocket` needs that an
object closes only when it is replaced; `ReconnectArmed` needs the shape of all the other phases, because
each of them may fail into one that must be armed.

**Ingestion.** `Sound` says of a copy of the tables that the watermark is at least everything accepted, and that
what was accepted is strictly ordered. It is asked of the tables and of the copy of an open transaction.
`NothingFromDisabled` needs, besides, that an open transaction has touched nothing of a disabled source.
`MeasurementsSound` needs that a receipt outlives its measurement. One expires no earlier, but a pass
of pruning takes a bounded number of each. Were a receipt taken and its measurement left, the batch of
measurements would be full of older ones; their receipts are older too, all different, and would be in the
batch of receipts with that one, which is one too many. Older is where the hypothesis comes in: the
queries order rows of one time by their random ids. `RepliesAgree` needs that every identity has one
receipt, and that an answer whose receipt is gone concerns a sample that lies, by the shortest retention and the
largest skew there ever were, too far back to be accepted (`Remembered`). These limits (`limits`, a history) only
widen, so what is once out of reach stays there through every change of the settings, and settings that once
did not cover the horizon never count as covering again.

**Detector.** `Sound` is asked of a working copy, since one transaction advances, arbitrates and reduces
in turn; each of these has a lemma that keeps it. An epoch may be advanced on its own only if it is
not a grouped candidate that is due (`Alone`): whatever else activates one is arbitration, which has
one winner because two winners would each be the other's runner-up and not `ArbitrationMinimum`
behind. `Apart` carries the end of a pour's cooldown through the phases: into `until`, then into the newest
sample, then into the start of the next candidate, which is why a late sample cannot go behind it; a
warning lets go of it, and marks the pour. For the timer, what is due by the clock of the call is due by its
own due time too (`DueAtItsOwnTime`), and the first due candidate of a group takes part in the
arbitration held then. So every turn changes the phase of the epoch it takes, and no step
of a turn moves any epoch away from its cooldown (`Falls`). `Left`, two for a candidate and one for
a pour, therefore falls with each turn (`LeftFalls`), and turns taken and `Left` together never exceed
twice the open epochs (`TurnsInv`). When the turns are used up nothing is pending; otherwise the listing was
whole (`NothingCutOff`) and whatever is overdue is listed and due (`OverdueIsListed`).

**House.** `LineInv` (of the Taps, Kegs and Fills) is inductive by itself. Then every operation, with all its
hooks, is summed up by what it does to the other two modules: which epochs it turns, what was
measured, whom it serves, what it unveils. The wars and the epochs are shown against the summaries, not
against each of some thirty operations. The order on deck needs lemmas about its maximum and its renumbering.

**Services.** *Authentication*: a call that awaits its hash read the present PIN or an older one,
and only one that read the present PIN is let through; live sessions carry the PIN of now and end no later
than the policy sets; guesses fill whole windows. *Secrets*: outside a rotation every row is of one key
(`OneKey`), and a rotation replaces exactly the rows it read (`Kept`). *Limiter*: `Allowance`, tokens plus what
was spent stay within the burst plus the rate times the time the bucket has seen; a refill adds the
same to both sides, a sample moves a token from one term to the other, growing limits only add on the
right. *Workspaces*: the invariant says what each step of a change leaves behind, in the stored mode, in
the process and in the two data sets, so that a failure or a crash after it can be taken up. *Autosave*:
who knows the server's revision is informed about all forms; only such a page can write, and what it
writes is what was typed last.

**Cellar.** *Beverages*: each Beverage has the rows of its owner, and the density telemetry was told is
the effective one, Beverage by Beverage. *Synchronisation*: the evidence is always of the present
configuration; its serial ties a run to what it read, so that a configuration that is changed and changed
back is still noticed; the users of an adapter are counted call by call. *Health*: every step that evaluates
is one `Evaluation`, in which the Tap that is left *follows* the one before, and each of the five
checks is shown against that. The incidents of a check are in order, the last one at the level of the verdict
unless a cooldown has silenced it, and those that have expired are its first few, so pruning cannot
reach the open one. The timers of the low keg and the temperature never start before the condition did. For
the leak, the samples kept are of the present epoch; in a pour, and of those that the end of a pour has
outdated, there is the last sample only, and the check waits for the whole settling time after it.

The hypothesis of `AlarmsAreSound`, `Degraded <= Suppressed`, says that no sample is usable for longer than the
leak check waits. The defaults satisfy it (`config.ts`: 5 and 10 minutes), but `health-validation.ts` does not
ask for it: with `Degraded` 2, `Suppressed` 1 and no grace TLC finds a pour counted as a leak. The step
that needs it is the first sample after a pour: it is usable, so it is less than `Degraded` younger
than the last one before, and the check still waits and starts anew from it.

### What stays with TLC

Liveness under fairness (`EveryDeliveryEnds`, `EveryCallAnswered`, `ScreenCatchesUp`) is beyond the
installed provers, as are `ENABLED`, recursive operators and the library's induction theorems, which take an operator; no module that is
proved about declares a recursive operator, and what is said of folds rests on the induction described above.

## 6 Where code and documents differ

Four runs expect a violation:

1. `pause_clocks`: ADR 0007 says that disabling pauses the due and failure-window clocks and
   re-enabling shifts them forward. The code overwrites `next_attempt_at` when it disables, so the
   rest of a backoff is lost, and restarts the failure window when it re-enables. The run violates even the
   weakest reading, that one of the two clocks survives.
2. `detector_suppression`: `architecture.md` says that a pouring member suppresses a later due candidate.
   `processDue` does decide what is due in logical order, but a sample of the pouring Tap completes its
   pour at once; a candidate of the group that fell due during that pour is decided after it,
   finds nobody pouring, and is activated at a time when the member poured. The pours of a group
   are still not pouring *in the database* at once: `OnePourPerGroup` holds.
3. `deck_places`: the status document promises a dense order on deck; ending or removing a Fill, and
   deletions by cascade, leave a gap until the next reordering.
4. `ingestion_batch`: ADR 0004 says that same identity and digest returns the original durable outcome, and
   `architecture.md` (line 86) that an existing same-digest receipt returns its original outcome. A sample that comes
   in one batch with a different one of its identity is answered as a conflict whatever its receipt says,
   because `ingestBatch` finds conflicts inside a batch before it looks up receipts. The account of
   batches in `architecture.md` (line 90) has that rule, but neither promise names the exception. Sent without the
   other, the sample gets its first answer again; nothing is written either way.

What else was met while modelling and proving, and is in the models as the code has it:

- *Health.* A check that is switched off keeps its timers and leak samples (`engine.ts`, about 212–226), so a
  pour made meanwhile is reported as a leak when it is switched on again, against the comment at
  769–773; the properties except it. If the kept samples are of an earlier epoch, the check that is switched
  on begins anew before it looks for a pour (`engine.ts`, about 818, against 843–866) and drops its wait: in the middle of
  a pour it takes the volume of before as its baseline and reports the pour; with the exception
  of that case left out (`Unwatched`) TLC finds it within five moments. A device clock ahead within the allowed skew makes
  the availability check take a fresh sample for unusable (about 449). With at most two samples kept, the
  start of the leak window never moves.
- *Live events.* Nothing announces what changes between the rendering of a page and the opening of its first
  stream (`unseen`); later openings reconcile. Deleting a Keg or a Beverage publishes no change of the
  deck; a synchronised Beverage is not announced to it either. Requests of the page have no timeout.
- *Autosave.* The ordinary form for a card does not touch `taps.updated_at` (`taps/service.ts:368`), so a page
  that saves by itself is not told of it (`unnoticed`). Two forms of one page that save at once conflict with
  one another. A save whose answer is lost is not repeated when the operator goes back to the old value.
- *Workspaces.* A crash in the middle of a reset leaves the sessions of the old data set valid (`torn`).
- *Outbox and worker.* A poll waits for all its sends. Handing back a claim of a destination that already
  sends uses up an attempt of its cycle. A claim whose secret is missing is settled by several statements
  outside one transaction.
- *Telemetry.* A token of the limiter that a transaction took is not given back when it rolls back.
- *Brewfather.* A synchronisation does not touch `beverages.updated_at`. Discovery that finds the account changed
  drops the authentication failures of the links before it. Kicking a Fill awaits the network after
  its commit.

## 7 What is left out

- Outbox quotas, overflow incidents and retention settings; the webhook transport (address checks and one
  request, no state) and the formatters.
- Telemetry: creating and renaming sources, tokens of rotated keys, parsing, unit conversion.
- Detector: volumes and their medians, the limits of 500 rows per query, names and overrides of
  groups, the activity log, what a completed pour triggers.
- Health: the evidence shown with a verdict, transitions and histories, the cap of 100 pruned incidents.
- Brewfather: more than one account; retries and limits inside the adapter.
- Simulation: the simulated sensors and what the seeded data set holds.
- Live events: which operation publishes what; the limit of the hub in bytes; several dashboards.
- Every component with status `not_modelled` in `PROJECT.json`, with the reason there. Web pages, rendering, HTTP
  parsing, story, dashboard and forecasting are presentation or pure functions.

## 8 Plan

To prove: every safety property of the runs that expect to pass is a theorem. What the theorems assume beyond
the constants is in two of them, `BatchesApart` and `Degraded <= Suppressed`, and TLC refutes both properties
without. The next results are the theorems of the modules to come, their contracts first.

To model, most important first:

1. Outbox admission: global and per-destination bounds, pruning of ended history, overflow incidents and
   recovery. Abstract promise: bounded tables, and every refused event leaves an incident.
2. Announcements: which operation publishes which event, against what the page shows.
3. Application lifecycle: start, failure and stop, every resource disposed once; machine keys.
4. The webhook request, the adapter of Brewfather with its retries, the simulated sensors, retention.
