-------------------------------- MODULE LiveUpdates --------------------------------
(***************************************************************************)
(* Live updates of the dashboard: infrastructure/sse/hub.ts on the server, *)
(* public/js/sse.js, dirty-targets.js and dashboard.js in one browser.     *)
(* An event only names what changed; the page fetches it again.  A page    *)
(* whose stream was lost fetches everything.                               *)
(***************************************************************************)
EXTENDS SequencesExt

CONSTANTS Event,       \* the events an application publishes (name and Tap)
          Target,      \* what the page fetches on its own: a Tap, the header, the deck ...
          Dirties,     \* [Event -> Seq(Target)]: what the page takes an event to concern
          AtOnce,      \* the target a page fetches as soon as it is there ("tapwars")
          MaxQueued,   \* events the hub keeps for a client that does not read
          MaxRunning,  \* fetches at a time
          HeldLimit,   \* RECONNECT_DIRTY_LIMIT
          MaxWire, MaxChanges, MaxDisturbances \* bounds of the model

ASSUME LiveAssumption ==
  /\ Dirties \in [Event -> Seq(Target)] /\ AtOnce \in Target
  /\ "hello" \notin Event                                        \* it is a frame of the hub's own
  /\ {MaxRunning, MaxWire} \subseteq Nat \ {0}
  /\ {MaxQueued, HeldLimit, MaxChanges, MaxDisturbances} \subseteq Nat

VARIABLES published,   \* the version of every target on the server
          stream,      \* the hub's client
          wire,        \* frames written and not yet read by the browser
          source,      \* the page's EventSource
          page,        \* the queue of dirty targets and the reconciliation
          fetches,     \* the page's request for each target
          snapshot,    \* its request for the whole dashboard
          screen,      \* the version of every target it shows
          unseen,      \* targets that changed between the rendering and the first stream
          disturbances \* faults, votes and midnights so far
hubVars == <<published, stream, wire>>
pageVars == <<page, fetches, snapshot, screen>>
liveVars == <<hubVars, source, pageVars, unseen, disturbances>>

Version == 0 .. MaxChanges
Stream == [phase : {"none", "open", "ended"}, blocked : BOOLEAN, queue : Seq(Event)]
Source == [phase : {"connecting", "open", "waiting"}, reconnecting : BOOLEAN]
Page == [queued : Seq(Target), running : SUBSET Target, rerun : SUBSET Target,
         recovering : BOOLEAN, again : BOOLEAN, held : Seq(Target)]
Fetch == [phase : {"none", "asked", "answered"}, value : Version, outdated : BOOLEAN]
Snapshot == [phase : {"none", "asked", "answered", "pause"}, values : [Target -> Version]]

LiveTypeOK ==
  /\ published \in [Target -> Version] /\ screen \in [Target -> Version]
  /\ stream \in Stream /\ source \in Source /\ page \in Page
  /\ wire \in Seq(Event \cup {"hello"}) /\ Len(wire) <= MaxWire
  /\ fetches \in [Target -> Fetch] /\ snapshot \in Snapshot
  /\ unseen \subseteq Target /\ disturbances \in 0 .. MaxDisturbances

NoStream == [phase |-> "none", blocked |-> FALSE, queue |-> <<>>]
NoFetch == [phase |-> "none", value |-> 0, outdated |-> FALSE]
Asked == [NoFetch EXCEPT !.phase = "asked"]
NoSnapshot == [phase |-> "none", values |-> [t \in Target |-> 0]]

(* The page was rendered with everything at its first version and has asked for AtOnce. *)
LiveInit ==
  /\ published = [t \in Target |-> 0] /\ screen = published
  /\ stream = NoStream /\ wire = <<>>
  /\ source = [phase |-> "connecting", reconnecting |-> FALSE]
  /\ page = [queued |-> <<>>, running |-> {AtOnce}, rerun |-> {},
             recovering |-> FALSE, again |-> FALSE, held |-> <<>>]
  /\ fetches = [t \in Target |-> IF t = AtOnce THEN Asked ELSE NoFetch]
  /\ snapshot = NoSnapshot /\ unseen = {} /\ disturbances = 0

Disturbed == disturbances < MaxDisturbances /\ disturbances' = disturbances + 1

-----------------------------------------------------------------------------
(* The page's queue: at most MaxRunning targets are fetched, each by one request; one *)
(* that gets dirty meanwhile runs again.  While the page recovers, nothing is fetched: *)
(* dirty targets are held, and beyond the limit the page recovers once more.          *)
With(targets, t) == IF Contains(targets, t) THEN targets ELSE Append(targets, t)

Hold(p, t) ==
  IF Contains(p.held, t) THEN p
  ELSE IF Len(p.held) >= HeldLimit THEN [p EXCEPT !.again = TRUE]
  ELSE [p EXCEPT !.held = Append(@, t)]

(* A run that starts while the page recovers only holds its target. *)
Pump(p) ==
  LET free == MaxRunning - Cardinality(p.running)
      n == IF Len(p.queued) < free THEN Len(p.queued) ELSE free
  IN  IF p.recovering /\ free > 0 THEN FoldLeft(Hold, [p EXCEPT !.queued = <<>>], p.queued)
      ELSE [p EXCEPT !.queued = SubSeq(@, n + 1, Len(@)),
                     !.running = @ \cup ToSet(SubSeq(p.queued, 1, n))]

Queue(p, t) ==
  Pump(IF t \in p.running THEN [p EXCEPT !.rerun = @ \cup {t}]
       ELSE [p EXCEPT !.queued = With(@, t)])

QueueDirty(p, t) == IF p.recovering THEN Hold(p, t) ELSE Queue(p, t)

RunEndsForgetting(p, t) == \* mutant: what got dirty meanwhile is not fetched again
  Pump([p EXCEPT !.running = @ \ {t}, !.rerun = @ \ {t}])
RunEndsIdle(p, t) == \* mutant: the next target is not started
  [p EXCEPT !.running = @ \ {t}, !.rerun = @ \ {t},
            !.queued = IF t \in p.rerun THEN With(@, t) ELSE @]
RunEnds(p, t) ==
  Pump([p EXCEPT !.running = @ \ {t}, !.rerun = @ \ {t},
                 !.queued = IF t \in p.rerun THEN With(@, t) ELSE @])

StartRecovery(p) == [p EXCEPT !.recovering = TRUE, !.again = p.recovering]
EndRecovery(p) == FoldLeft(Queue, [p EXCEPT !.recovering = FALSE, !.held = <<>>], p.held)

(* What becomes of the requests when `ended` has ended and the page is p next; requests *)
(* that were out when a recovery began are outdated.                                   *)
FetchesNeverOutdated(p, ended) == \* mutant: a recovery forgets the requests that are out
  [t \in Target |-> IF t \notin p.running THEN NoFetch
                    ELSE IF t \notin page.running \ ended THEN Asked ELSE fetches[t]]
FetchesOf(p, ended) ==
  [t \in Target |->
     IF t \notin p.running THEN NoFetch
     ELSE IF t \notin page.running \ ended THEN Asked
     ELSE [fetches[t] EXCEPT !.outdated = @ \/ p.recovering]]

Becomes(p, ended) == page' = p /\ fetches' = FetchesOf(p, ended)

Recover(p, ended) ==
  /\ Becomes(p, ended)
  /\ IF page.recovering THEN UNCHANGED snapshot
     ELSE snapshot' = [NoSnapshot EXCEPT !.phase = "asked"]

-----------------------------------------------------------------------------
(* The hub.  A write may say that the client's buffer is full; events then wait, one of *)
(* each kind, and a client with too many of them is dropped.                           *)
Blocks(after) == IF Len(after) = MaxWire THEN {TRUE} ELSE BOOLEAN

Connect ==
  /\ source.phase = "connecting" /\ stream.phase = "none"
  /\ wire' = <<"hello">>
  /\ \E b \in Blocks(wire') : stream' = [NoStream EXCEPT !.phase = "open", !.blocked = b]
  /\ UNCHANGED <<published, source, pageVars, unseen, disturbances>>

(* The hub is full or stopped, or the process is down. *)
Refuse ==
  /\ source.phase = "connecting" /\ stream.phase = "none" /\ Disturbed
  /\ stream' = [stream EXCEPT !.phase = "ended"]
  /\ UNCHANGED <<published, wire, source, pageVars, unseen>>

Waiting(e) == With(stream.queue, e)

Publish(e) ==
  CASE stream.phase # "open" -> UNCHANGED <<stream, wire>>
    [] stream.phase = "open" /\ ~stream.blocked ->
         /\ wire' = Append(wire, e)
         /\ \E b \in Blocks(wire') : stream' = [stream EXCEPT !.blocked = b]
    [] stream.phase = "open" /\ stream.blocked ->
         /\ stream' = IF Len(Waiting(e)) > MaxQueued THEN [NoStream EXCEPT !.phase = "ended"]
                      ELSE [stream EXCEPT !.queue = Waiting(e)]
         /\ UNCHANGED wire

(* The application commits a change and announces it. *)
Change(e) ==
  /\ published' = [t \in Target |-> IF Contains(Dirties[e], t) THEN published[t] + 1
                                    ELSE published[t]]
  /\ \A t \in Target : published'[t] <= MaxChanges
  /\ Publish(e)
  /\ unseen' = IF stream.phase = "none" /\ ~source.reconnecting /\ source.phase = "connecting"
               THEN unseen \cup ToSet(Dirties[e]) ELSE unseen \ ToSet(Dirties[e])
  /\ UNCHANGED <<source, pageVars, disturbances>>

(* The browser has read everything: the hub writes what waits until it blocks again. *)
Drain ==
  /\ stream.phase = "open" /\ stream.blocked /\ wire = <<>>
  /\ \E n \in {i \in 0 .. Len(stream.queue) : i <= MaxWire} :
       /\ wire' = SubSeq(stream.queue, 1, n)
       /\ n < Len(stream.queue) => n > 0
       /\ \E b \in (IF n = 0 THEN {FALSE} ELSE Blocks(wire')) :
            /\ ~b => n = Len(stream.queue)
            /\ stream' = [stream EXCEPT !.blocked = b,
                                        !.queue = SubSeq(@, n + 1, Len(@))]
  /\ UNCHANGED <<published, source, pageVars, unseen, disturbances>>

(* The process, a restore, a change of workspace or the network ends the stream. *)
Cut ==
  /\ stream.phase = "open" /\ Disturbed
  /\ stream' = [NoStream EXCEPT !.phase = "ended"]
  /\ UNCHANGED <<published, wire, source, pageVars, unseen>>

-----------------------------------------------------------------------------
(* The page's EventSource.  What was written before the stream ended may still arrive. *)
Opened ==
  /\ wire # <<>> /\ Head(wire) = "hello" /\ wire' = Tail(wire)
  /\ source' = [phase |-> "open", reconnecting |-> FALSE]
  /\ IF source.reconnecting THEN Recover(StartRecovery(page), {})
     ELSE UNCHANGED <<page, fetches, snapshot>>
  /\ UNCHANGED <<published, stream, screen, unseen, disturbances>>

Deliver ==
  /\ wire # <<>> /\ Head(wire) # "hello" /\ wire' = Tail(wire)
  /\ Becomes(FoldLeft(QueueDirty, page, Dirties[Head(wire)]), {})
  /\ UNCHANGED <<published, stream, source, snapshot, screen, unseen, disturbances>>

Lost ==
  /\ stream.phase = "ended"
  /\ stream' = NoStream /\ wire' = <<>>
  /\ source' = [source EXCEPT !.phase = "waiting"]
  /\ UNCHANGED <<published, pageVars, unseen, disturbances>>

Reopen ==
  /\ source.phase = "waiting"
  /\ source' = [phase |-> "connecting", reconnecting |-> TRUE]
  /\ UNCHANGED <<hubVars, pageVars, unseen, disturbances>>

-----------------------------------------------------------------------------
(* The page's requests.  The answer to one that is older than a recovery is dropped and *)
(* its target is dirty again; one that fails starts a recovery.                        *)
AnswerFetch(t) ==
  /\ fetches[t].phase = "asked"
  /\ fetches' = [fetches EXCEPT ![t].phase = "answered", ![t].value = published[t]]
  /\ UNCHANGED <<hubVars, source, page, snapshot, screen, unseen, disturbances>>

Patch(t) ==
  /\ fetches[t].phase = "answered" /\ ~fetches[t].outdated
  /\ screen' = [screen EXCEPT ![t] = fetches[t].value]
  /\ Becomes(RunEnds(page, t), {t})
  /\ UNCHANGED <<hubVars, source, snapshot, unseen, disturbances>>

DropOutdated(t) ==
  /\ fetches[t].outdated
  /\ (fetches[t].phase = "answered" /\ UNCHANGED disturbances) \/ Disturbed
  /\ Becomes(RunEnds(QueueDirty(page, t), t), {t})
  /\ UNCHANGED <<hubVars, source, snapshot, screen, unseen>>

FailFetch(t) ==
  /\ fetches[t].phase # "none" /\ ~fetches[t].outdated /\ Disturbed
  /\ Recover(RunEnds(StartRecovery(page), t), {t})
  /\ UNCHANGED <<hubVars, source, screen, unseen>>

AnswerSnapshot ==
  /\ snapshot.phase = "asked"
  /\ snapshot' = [phase |-> "answered", values |-> published]
  /\ UNCHANGED <<hubVars, source, page, fetches, screen, unseen, disturbances>>

(* The authoritative answer replaces everything on the page. *)
Reconcile ==
  /\ snapshot.phase = "answered"
  /\ screen' = snapshot.values
  /\ unseen' = {t \in unseen : screen'[t] # published[t]}
  /\ IF page.again
     THEN /\ Becomes([page EXCEPT !.again = FALSE], {})
          /\ snapshot' = [NoSnapshot EXCEPT !.phase = "asked"]
     ELSE Becomes(EndRecovery(page), {}) /\ snapshot' = NoSnapshot
  /\ UNCHANGED <<hubVars, source, disturbances>>

FailSnapshot ==
  /\ snapshot.phase \in {"asked", "answered"} /\ Disturbed
  /\ snapshot' = [NoSnapshot EXCEPT !.phase = "pause"]
  /\ UNCHANGED <<hubVars, source, page, fetches, screen, unseen>>

RetrySnapshot ==
  /\ snapshot.phase = "pause"
  /\ snapshot' = [NoSnapshot EXCEPT !.phase = "asked"]
  /\ Becomes([page EXCEPT !.again = FALSE], {})
  /\ UNCHANGED <<hubVars, source, screen, unseen, disturbances>>

(* A vote, or the turn of the UTC day, dirties a target with no event. *)
Nudge(t) ==
  /\ Disturbed
  /\ Becomes(QueueDirty(page, t), {})
  /\ UNCHANGED <<hubVars, source, snapshot, screen, unseen>>

-----------------------------------------------------------------------------
(* What goes on without any change, fault or visitor. *)
StreamProgress == Connect \/ Opened \/ Deliver \/ Lost \/ Reopen \/ Drain
FetchProgress(t) == AnswerFetch(t) \/ Patch(t) \/ DropOutdated(t)
SnapshotProgress == AnswerSnapshot \/ Reconcile \/ RetrySnapshot
LiveNext ==
  \/ StreamProgress \/ SnapshotProgress
  \/ \E t \in Target : FetchProgress(t)
  \/ \E e \in Event : Change(e)
  \/ Refuse \/ Cut \/ FailSnapshot
  \/ \E t \in Target : FailFetch(t) \/ Nudge(t)
LiveSpec == LiveInit /\ [][LiveNext]_liveVars

-----------------------------------------------------------------------------
(* What a page shows of a target is what the server has, or the page still learns that *)
(* it is not: a message about it is on its way, a request not yet answered (or one that *)
(* will be repeated) is out, or the page is going to fetch everything.                 *)
Announced(t) ==
  \E e \in ToSet(wire) \cup ToSet(stream.queue) : e # "hello" /\ Contains(Dirties[e], t)
Refetched(t) ==
  \/ Contains(page.queued, t) \/ t \in page.rerun \/ Contains(page.held, t)
  \/ fetches[t].phase = "asked" \/ fetches[t].outdated
  \/ fetches[t].phase = "answered" /\ fetches[t].value = published[t]
Reconciled(t) ==
  \/ stream.phase = "ended" \/ source.phase = "waiting" \/ source.reconnecting
  \/ snapshot.phase \in {"asked", "pause"} \/ page.again
  \/ snapshot.phase = "answered" /\ snapshot.values[t] = published[t]
ScreenCurrent ==
  \A t \in Target : \/ screen[t] = published[t] \/ t \in unseen
                    \/ Announced(t) \/ Refetched(t) \/ Reconciled(t)

ScreenSound == LiveTypeOK /\ ScreenCurrent

(* No target is ever shown in an older version than it was. *)
ScreenNeverOlder == \A t \in Target : screen'[t] >= screen[t]
NeverOlder == [][ScreenNeverOlder]_liveVars

(* Once changes stop, every page shows what the server has. *)
ScreenCatchesUp == <>[](\A t \in Target : screen[t] = published[t] \/ t \in unseen)
=============================================================================
