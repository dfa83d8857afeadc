------------------------ MODULE HomeAssistantConnection ------------------------
(***************************************************************************)
(* The connection manager of one Home Assistant destination                *)
(* (src/features/outbound/transports/home-assistant.ts): one persistent    *)
(* WebSocket shared by every send and probe, authenticated, re-opened      *)
(* after a failure, replaced when address or credentials change.           *)
(*                                                                         *)
(* One action is one callback or one continuation of a caller.  A Conn is  *)
(* a connection object; replaced objects live on while callers still hold  *)
(* them.  Version metadata, delays and texts are left out.                 *)
(***************************************************************************)
EXTENDS Integers, FiniteSets

CONSTANTS
  Conn,         \* connection objects
  Caller,       \* concurrent sendEvent and ensureAuthenticated calls
  Binding,      \* address and credentials, the bindingKey
  MaxPending,   \* maxPendingRequests
  None          \* no connection

ASSUME ConnectionAssumption ==
  None \notin Conn /\ IsFiniteSet(Caller) /\ MaxPending \in Nat \ {0}

VARIABLES
  conn,         \* the connection objects
  current,      \* #connections.get(destinationId)
  stopped,
  calls         \* where each caller stands

vars == <<conn, current, stopped, calls>>

Phase == {"idle", "connecting", "authenticating", "ready", "closed"}
Connection ==
  [binding : Binding, phase : Phase, socket : BOOLEAN, authSent : BOOLEAN,
   invalidAuth : BOOLEAN, promise : BOOLEAN, pending : SUBSET Caller, authTimer : BOOLEAN,
   reconnectTimer : BOOLEAN, retry : {"none", "waiting", "failed"}, closed : BOOLEAN,
   shown : {"none", "success", "failure"}]
Call == [at : {"idle"}] \cup
        [at : {"waiting", "connected", "sent"}, purpose : {"send", "probe"}, conn : Conn]

TypeOK ==
  /\ conn \in [Conn -> Connection] /\ current \in Conn \cup {None}
  /\ stopped \in BOOLEAN /\ calls \in [Caller -> Call]
  /\ \A c \in Conn : Cardinality(conn[c].pending) <= MaxPending

Idle == [at |-> "idle"]
Fresh(b) ==
  [binding |-> b, phase |-> "idle", socket |-> FALSE, authSent |-> FALSE,
   invalidAuth |-> FALSE, promise |-> FALSE, pending |-> {}, authTimer |-> FALSE,
   reconnectTimer |-> FALSE, retry |-> "none", closed |-> FALSE, shown |-> "none"]

Init ==
  /\ \E b \in Binding :
       conn = [c \in Conn |-> [Fresh(b) EXCEPT !.phase = "closed", !.closed = TRUE]]
  /\ current = None /\ stopped = FALSE
  /\ calls = [k \in Caller |-> Idle]

-------------------------------------------------------------------------------
(* What the helpers do to a connection object r *)

(* connectPromise settled: finishConnectSuccess, finishConnectFailure *)
PromiseKept(r) == [r EXCEPT !.promise = FALSE, !.retry = "none"]
PromiseBroken(r) == [r EXCEPT !.promise = FALSE,
                              !.retry = IF @ = "waiting" THEN "failed" ELSE @]

ClosedWithoutSocket(r) == \* mutant: the socket of a replaced connection stays open
  [PromiseBroken(r) EXCEPT !.closed = TRUE, !.phase = "closed", !.authTimer = FALSE,
                           !.reconnectTimer = FALSE, !.pending = {}]
Closing(r) ==
  IF r.closed THEN r
  ELSE [PromiseBroken(r) EXCEPT !.closed = TRUE, !.phase = "closed", !.authTimer = FALSE,
                                !.reconnectTimer = FALSE, !.pending = {}, !.socket = FALSE]

(* scheduleReconnect; it and emitState refuse a connection that is not current *)
(* or whose manager has stopped, which OneSocket shows is closed already.      *)
Rescheduled(r) ==
  IF r.closed \/ r.invalidAuth \/ r.phase = "ready" THEN r
  ELSE [r EXCEPT !.reconnectTimer = TRUE]

(* emitState *)
Shown(r, result) == [r EXCEPT !.shown = result]

(* onSocketFailure *)
Ignored(r) ==
  r.closed \/ r.invalidAuth \/ (~r.socket /\ r.phase = "idle" /\ ~r.promise)
Failed(r) ==
  IF Ignored(r) THEN r
  ELSE Rescheduled(Shown([PromiseBroken(r) EXCEPT !.phase = "idle", !.authTimer = FALSE,
                                                  !.pending = {}, !.socket = FALSE],
                         "failure"))

(* onOpen; the authentication timer is armed *)
Opened(r) == [r EXCEPT !.phase = "authenticating", !.authSent = FALSE, !.authTimer = TRUE]

(* The attempts ensureReady may make when none is under way: the socket is     *)
(* created, created and already open, or the factory throws.                   *)
Attempts(r) ==
  LET opening == [r EXCEPT !.phase = "connecting", !.promise = TRUE, !.socket = TRUE]
  IN  {opening, Opened(opening), Failed([opening EXCEPT !.socket = FALSE])}

(* What ensureReady may leave of r, whose reconnect timer is always cleared.   *)
TimerCleared(r) == [r EXCEPT !.reconnectTimer = FALSE]
Ensured(r) ==
  LET q == TimerCleared(r)
  IN  IF (q.phase = "ready" /\ q.socket) \/ q.invalidAuth \/ q.promise THEN {q}
      ELSE Attempts(q)

(* Where a caller of ensureReady on connection c, left as r, continues. *)
Continued(c, r, purpose) ==
  IF r.promise THEN [at |-> "waiting", purpose |-> purpose, conn |-> c]
  ELSE IF r.phase = "ready" THEN [at |-> "connected", purpose |-> purpose, conn |-> c]
  ELSE Idle

AnsweredWaiting(f, c, places) == \* mutant: pending requests are forgotten
  [k \in Caller |-> IF f[k].at = "waiting" /\ f[k].conn = c THEN Idle ELSE f[k]]
(* The callers of c that a settled promise or rejected requests give an answer. *)
Answered(f, c, places) ==
  [k \in Caller |-> IF f[k].at \in places /\ f[k].conn = c THEN Idle ELSE f[k]]
Connected(f, c) ==
  [k \in Caller |-> IF f[k].at = "waiting" /\ f[k].conn = c
                    THEN [f[k] EXCEPT !.at = "connected"] ELSE f[k]]

-------------------------------------------------------------------------------
(* sendEvent and ensureAuthenticated *)

(* No caller and nothing of the manager refers to the object any more. *)
Unused(c) ==
  /\ c # current /\ conn[c].closed /\ ~conn[c].socket /\ conn[c].retry = "none"
  /\ \A k \in Caller : calls[k].at # "idle" => calls[k].conn # c

Reuses(b) == current # None /\ conn[current].binding = b

(* connectionFor keeps the connection of the same binding ... *)
CallCurrent(k, b, purpose) ==
  /\ ~stopped /\ calls[k].at = "idle" /\ Reuses(b)
  /\ \E r \in Ensured(conn[current]) :
       /\ conn' = [conn EXCEPT ![current] = r]
       /\ calls' = [calls EXCEPT ![k] = Continued(current, r, purpose)]
  /\ UNCHANGED <<current, stopped>>

(* ... and replaces that of another. *)
CallFresh(k, b, purpose) ==
  /\ ~stopped /\ calls[k].at = "idle" /\ ~Reuses(b)
  /\ \E c \in Conn :
       /\ Unused(c)
       /\ \E r \in Ensured(Fresh(b)) :
            /\ conn' = [e \in Conn |-> IF e = c THEN r
                                       ELSE IF e = current THEN Closing(conn[e]) ELSE conn[e]]
            /\ calls' = [Answered(calls, current, {"waiting", "sent"}) EXCEPT
                           ![k] = Continued(c, r, purpose)]
       /\ current' = c
  /\ UNCHANGED stopped

(* A probe whose connection is ready has its answer. *)
ProbeContinues(k) ==
  /\ calls[k].at = "connected" /\ calls[k].purpose = "probe"
  /\ calls' = [calls EXCEPT ![k] = Idle]
  /\ UNCHANGED <<conn, current, stopped>>

(* fireEvent: not sent, the socket throws, or the request is pending.  The     *)
(* throw answers this caller and, through onSocketFailure, all others.         *)
CanSendOneMore(r) == \* mutant
  r.phase = "ready" /\ r.socket /\ Cardinality(r.pending) <= MaxPending
CanSend(r) == r.phase = "ready" /\ r.socket /\ Cardinality(r.pending) < MaxPending

NotSent(k) ==
  /\ calls[k].at = "connected" /\ calls[k].purpose = "send"
  /\ ~CanSend(conn[calls[k].conn])
  /\ calls' = [calls EXCEPT ![k] = Idle]
  /\ UNCHANGED <<conn, current, stopped>>

Send(k) ==
  /\ calls[k].at = "connected" /\ calls[k].purpose = "send"
  /\ CanSend(conn[calls[k].conn])
  /\ conn' = [conn EXCEPT ![calls[k].conn].pending = @ \cup {k}]
  /\ calls' = [calls EXCEPT ![k].at = "sent"]
  /\ UNCHANGED <<current, stopped>>

SendThrows(k) ==
  /\ calls[k].at = "connected" /\ calls[k].purpose = "send"
  /\ LET c == calls[k].conn
     IN  /\ CanSend(conn[c])
         /\ conn' = [conn EXCEPT ![c] = Failed(@)]
         /\ calls' = [Answered(calls, c, {"waiting", "sent"}) EXCEPT ![k] = Idle]
  /\ UNCHANGED <<current, stopped>>

-------------------------------------------------------------------------------
(* Events of the socket a connection listens to *)

Open(c) ==
  /\ conn[c].socket /\ ~conn[c].closed /\ conn[c].phase = "connecting"
  /\ conn' = [conn EXCEPT ![c] = Opened(@)]
  /\ UNCHANGED <<current, stopped, calls>>

AuthRequired(c) ==
  /\ conn[c].socket /\ ~conn[c].closed
  /\ conn[c].phase = "authenticating" /\ ~conn[c].authSent
  /\ conn' = [conn EXCEPT ![c].authSent = TRUE]
  /\ UNCHANGED <<current, stopped, calls>>

AuthOk(c) ==
  /\ conn[c].socket /\ ~conn[c].closed
  /\ conn[c].phase = "authenticating" /\ conn[c].authSent
  /\ conn' = [conn EXCEPT ![c] = Shown(PromiseKept(TimerCleared(
                [@ EXCEPT !.authTimer = FALSE, !.phase = "ready"])), "success")]
  /\ calls' = Connected(calls, c)
  /\ UNCHANGED <<current, stopped>>

AuthInvalid(c) ==
  /\ conn[c].socket /\ ~conn[c].closed /\ conn[c].phase # "connecting"
  /\ conn' = [conn EXCEPT ![c] = Shown(
                [PromiseBroken(@) EXCEPT !.invalidAuth = TRUE, !.phase = "closed",
                   !.authTimer = FALSE, !.pending = {}, !.socket = FALSE], "failure")]
  /\ calls' = Answered(calls, c, {"waiting", "sent"})
  /\ UNCHANGED <<current, stopped>>

Result(c, k) ==
  /\ conn[c].socket /\ ~conn[c].closed /\ k \in conn[c].pending
  /\ conn' = [conn EXCEPT ![c].pending = @ \ {k}]
  /\ calls' = [calls EXCEPT ![k] = Idle]
  /\ UNCHANGED <<current, stopped>>

(* Socket error or close, authentication timeout, request timeout, and a       *)
(* failed write of the token: all of them end in onSocketFailure.              *)
Fails(c) ==
  /\ conn' = [conn EXCEPT ![c] = Failed(@)]
  /\ calls' = IF Ignored(conn[c]) THEN calls ELSE Answered(calls, c, {"waiting", "sent"})
  /\ UNCHANGED <<current, stopped>>

SocketLost(c) == conn[c].socket /\ Fails(c)
AuthTimesOut(c) ==
  /\ conn[c].authTimer /\ conn[c].phase # "ready" /\ ~conn[c].closed
  /\ Fails(c)
RequestTimesOut(c) == conn[c].pending # {} /\ Fails(c)

-------------------------------------------------------------------------------
(* Reconnecting, closing *)

ReconnectDue(c) ==
  /\ conn[c].reconnectTimer
  /\ LET q == TimerCleared(conn[c])
     IN  IF q.closed \/ q.invalidAuth \/ stopped \/ current # c
         THEN conn' = [conn EXCEPT ![c] = q]
         ELSE \E r \in Ensured(q) :
                conn' = [conn EXCEPT ![c] = [r EXCEPT !.retry =
                           IF r.promise THEN "waiting"
                           ELSE IF r.phase = "ready" THEN "none" ELSE "failed"]]
  /\ UNCHANGED <<current, stopped, calls>>

(* The catch of the attempt made by the reconnect timer *)
ReconnectFailed(c) ==
  /\ conn[c].retry = "failed"
  /\ LET q == [conn[c] EXCEPT !.retry = "none"]
     IN  conn' = [conn EXCEPT ![c] = IF stopped \/ current # c THEN q ELSE Rescheduled(q)]
  /\ UNCHANGED <<current, stopped, calls>>

CloseCurrent ==
  /\ conn' = [c \in Conn |-> IF c = current THEN Closing(conn[c]) ELSE conn[c]]
  /\ calls' = Answered(calls, current, {"waiting", "sent"})
  /\ current' = None

CloseDestination == current # None /\ CloseCurrent /\ UNCHANGED stopped
Stop == ~stopped /\ stopped' = TRUE /\ CloseCurrent

-------------------------------------------------------------------------------
Continues(k) == ProbeContinues(k) \/ NotSent(k) \/ Send(k) \/ SendThrows(k)

Next ==
  \/ \E k \in Caller, b \in Binding, purpose \in {"send", "probe"} :
       CallCurrent(k, b, purpose) \/ CallFresh(k, b, purpose)
  \/ \E k \in Caller : Continues(k)
  \/ \E c \in Conn : \/ Open(c) \/ AuthRequired(c) \/ AuthOk(c) \/ AuthInvalid(c)
                     \/ SocketLost(c) \/ AuthTimesOut(c) \/ RequestTimesOut(c)
                     \/ ReconnectDue(c) \/ ReconnectFailed(c)
  \/ \E c \in Conn, k \in Caller : Result(c, k)
  \/ CloseDestination \/ Stop

Spec == Init /\ [][Next]_vars

(* Continuations run and timers fire; a socket that is being opened either     *)
(* opens or fails, which the WebSocket of the platform guarantees.             *)
Fairness ==
  /\ \A k \in Caller : WF_vars(Continues(k))
  /\ \A c \in Conn :
       /\ WF_vars(AuthTimesOut(c)) /\ WF_vars(RequestTimesOut(c))
       /\ WF_vars(ReconnectDue(c)) /\ WF_vars(ReconnectFailed(c))
       /\ WF_vars(conn[c].phase = "connecting" /\ (Open(c) \/ SocketLost(c)))
FairSpec == Spec /\ Fairness

-------------------------------------------------------------------------------
(* Properties *)

(* No replaced, closed or stopped connection leaves a socket or a timer        *)
(* behind: the only live connection is the current one, and `stop` leaves none.*)
OneSocket ==
  \A c \in Conn :
    /\ ~conn[c].closed => c = current /\ ~stopped
    /\ conn[c].closed => ~conn[c].socket /\ ~conn[c].authTimer /\ ~conn[c].reconnectTimer

(* No caller waits for an answer nobody will give: who waits for a connection  *)
(* waits for an attempt under way, and who sent has a pending request, whose   *)
(* timer runs, on a connection that is authenticated.                          *)
CallersTracked ==
  /\ \A k \in Caller : calls[k].at = "waiting" => conn[calls[k].conn].promise
  /\ \A k \in Caller, c \in Conn :
       k \in conn[c].pending <=> calls[k].at = "sent" /\ calls[k].conn = c
  /\ \A c \in Conn : conn[c].pending # {} => conn[c].phase = "ready" /\ conn[c].socket

(* An attempt is under way exactly while the connection opens or authenticates,*)
(* and an authentication always has its timer.                                 *)
AttemptBounded ==
  \A c \in Conn :
    /\ conn[c].promise <=> conn[c].phase \in {"connecting", "authenticating"}
    /\ conn[c].promise => conn[c].socket
    /\ conn[c].authTimer <=> conn[c].phase = "authenticating"

(* An enabled destination is never left without a connection and without a     *)
(* reconnect, unless its credentials were refused; those never open a socket   *)
(* again.                                                                      *)
ReconnectArmed ==
  \A c \in Conn :
    /\ c = current /\ conn[c].phase \in {"idle", "closed"} =>
         conn[c].reconnectTimer \/ conn[c].invalidAuth
    /\ conn[c].invalidAuth => ~conn[c].socket /\ ~conn[c].promise

(* The evidence last reported for the current connection agrees with it: it    *)
(* says success exactly while the connection is authenticated.                 *)
EvidenceMatches ==
  current # None => (conn[current].shown = "success" <=> conn[current].phase = "ready")

(* Everything above at once: what the callbacks, timers and callers of all     *)
(* connections may never get into.                                             *)
ConnectionSound ==
  OneSocket /\ CallersTracked /\ AttemptBounded /\ ReconnectArmed /\ EvidenceMatches

(* Every call of the transport is answered, whatever the peer does.            *)
EveryCallAnswered == \A k \in Caller : calls[k].at # "idle" ~> calls[k].at = "idle"
===============================================================================
