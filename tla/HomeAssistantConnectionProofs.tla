--------------------- MODULE HomeAssistantConnectionProofs ---------------------
(***************************************************************************)
(* Proofs about HomeAssistantConnection for every finite set of callers,   *)
(* every set of connection objects and bindings and every limit.           *)
(***************************************************************************)
EXTENDS HomeAssistantConnection, FiniteSetTheorems, TLAPS

(* What every connection object satisfies by itself.  Shape holds also inside *)
(* a callback; Sound adds what scheduleReconnect establishes at its end.      *)
Shape(r) ==
  /\ r \in Connection
  /\ Cardinality(r.pending) <= MaxPending
  /\ r.promise <=> r.phase \in {"connecting", "authenticating"}
  /\ r.promise \/ r.phase = "ready" => r.socket
  /\ r.authTimer <=> r.phase = "authenticating"
  /\ r.pending # {} => r.phase = "ready"
  /\ r.invalidAuth => r.phase = "closed" /\ ~r.socket
  /\ r.closed => r.phase = "closed" /\ ~r.socket /\ ~r.reconnectTimer
  /\ r.phase = "closed" => r.closed \/ r.invalidAuth
  /\ ~r.closed => (r.shown = "success" <=> r.phase = "ready")
Sound(r) == Shape(r) /\ (r.phase = "idle" => r.reconnectTimer)

CallersOK(table, f) ==
  \A k \in Caller :
    /\ f[k].at = "waiting" => table[f[k].conn].promise
    /\ \A c \in Conn : k \in table[c].pending <=> f[k].at = "sent" /\ f[k].conn = c

(* The inductive invariant.  OneSocket is not inductive alone: an object      *)
(* closes only when it is replaced, so the current one must be the only open  *)
(* one; ReconnectArmed needs the shape of every other phase.                  *)
IInv ==
  /\ conn \in [Conn -> Connection] /\ current \in Conn \cup {None}
  /\ stopped \in BOOLEAN /\ calls \in [Caller -> Call]
  /\ \A c \in Conn : Sound(conn[c])
  /\ \A c \in Conn : ~conn[c].closed <=> c = current
  /\ current # None => ~stopped
  /\ CallersOK(conn, calls)

-------------------------------------------------------------------------------
(* The helpers keep the shape of a connection object. *)

LEMMA EmptyPending == Cardinality({}) <= MaxPending
BY FS_EmptySet, ConnectionAssumption

LEMMA OneMorePending ==
  ASSUME NEW S \in SUBSET Caller, NEW k, Cardinality(S) < MaxPending
  PROVE  Cardinality(S \cup {k}) <= MaxPending
<1>1. IsFiniteSet(S)
  BY FS_Subset, ConnectionAssumption
<1>2. Cardinality(S) \in Nat
  BY <1>1, FS_CardinalityType
<1> DEFINE n == Cardinality(S)
<1>3. Cardinality(S \cup {k}) = IF k \in S THEN n ELSE n + 1
  BY <1>1, FS_AddElement
<1>4. n \in Nat /\ n < MaxPending
  BY <1>2
<1> HIDE DEF n
<1> QED BY <1>3, <1>4, ConnectionAssumption

LEMMA ClosingSound ==
  ASSUME NEW r, Sound(r)
  PROVE  /\ Sound(Closing(r)) /\ Closing(r).closed
         /\ Closing(r).promise = FALSE /\ Closing(r).pending = {}
BY EmptyPending DEF Sound, Shape, Closing, PromiseBroken, Connection, Phase

LEMMA FailedSound ==
  ASSUME NEW r \in Connection, ~Ignored(r)
  PROVE  /\ Sound(Failed(r)) /\ ~Failed(r).closed
         /\ Failed(r).promise = FALSE /\ Failed(r).pending = {}
<1> DEFINE u == PromiseBroken(r)
           v == [u EXCEPT !.phase = "idle", !.authTimer = FALSE, !.pending = {},
                          !.socket = FALSE]
           w == Shown(v, "failure")
<1>1. u \in Connection /\ ~u.closed /\ ~u.invalidAuth /\ ~u.promise
  BY DEF Ignored, PromiseBroken, Connection
<1>2. /\ v \in Connection /\ ~v.closed /\ ~v.invalidAuth /\ ~v.promise /\ v.phase = "idle"
      /\ ~v.authTimer /\ v.pending = {} /\ ~v.socket
  <2> HIDE DEF u
  <2> QED BY <1>1 DEF Connection, Phase
<1>3. /\ w \in Connection /\ ~w.closed /\ ~w.invalidAuth /\ ~w.promise /\ w.phase = "idle"
      /\ ~w.authTimer /\ w.pending = {} /\ ~w.socket /\ w.shown = "failure"
  <2> HIDE DEF v
  <2> QED BY <1>2 DEF Connection, Shown
<1>4. Failed(r) = Rescheduled(w)
  BY DEF Failed
<1>5. Rescheduled(w) = [w EXCEPT !.reconnectTimer = TRUE]
  BY <1>3 DEF Rescheduled
<1> HIDE DEF w
<1>6. /\ Sound(Rescheduled(w)) /\ ~Rescheduled(w).closed
      /\ Rescheduled(w).promise = FALSE /\ Rescheduled(w).pending = {}
  BY <1>3, <1>5, EmptyPending DEF Sound, Shape, Connection, Phase
<1> QED BY <1>4, <1>6

LEMMA OpenedShape ==
  ASSUME NEW r \in Connection
  PROVE  Opened(r) \in Connection
BY DEF Opened, Connection, Phase

LEMMA FreshShape ==
  ASSUME NEW b \in Binding
  PROVE  Fresh(b) \in Connection /\ Shape(Fresh(b))
BY EmptyPending DEF Fresh, Shape, Connection, Phase

LEMMA EnsuredSound ==
  ASSUME NEW r, Shape(r), ~r.closed, NEW q \in Ensured(r)
  PROVE  /\ Sound(q) /\ ~q.closed /\ q.pending = r.pending
         /\ r.promise => q.promise
<1> DEFINE t == TimerCleared(r)
<1>1. /\ Shape(t) /\ ~t.closed /\ t.pending = r.pending /\ t.promise = r.promise
      /\ t.phase = r.phase /\ t.invalidAuth = r.invalidAuth /\ t.socket = r.socket
  BY DEF Shape, TimerCleared, Connection
<1>2. CASE (t.phase = "ready" /\ t.socket) \/ t.invalidAuth \/ t.promise
  <2>1. q = t
    BY <1>2 DEF Ensured
  <2>2. t.phase # "idle"
    BY <1>1, <1>2 DEF Shape, Connection
  <2> QED BY <1>1, <2>1, <2>2 DEF Sound
<1>3. CASE ~((t.phase = "ready" /\ t.socket) \/ t.invalidAuth \/ t.promise)
  <2>1. q \in Attempts(t)
    BY <1>3 DEF Ensured
  <2>2. t.phase = "idle" /\ t.pending = {} /\ ~t.promise
    BY <1>1, <1>3 DEF Shape, Connection, Phase
  <2> DEFINE o == [t EXCEPT !.phase = "connecting", !.promise = TRUE, !.socket = TRUE]
             f == [o EXCEPT !.socket = FALSE]
  <2>3. Shape(o) /\ o.phase = "connecting" /\ ~o.closed /\ o.pending = {} /\ o.promise
    BY <1>1, <1>3, <2>2 DEF Shape, Connection, Phase
  <2>4. q = o \/ q = Opened(o) \/ q = Failed(f)
    BY <2>1 DEF Attempts
  <2>5. CASE q = o
    BY <1>1, <2>2, <2>3, <2>5 DEF Sound
  <2>6. CASE q = Opened(o)
    <3> HIDE DEF o
    <3>1. Sound(Opened(o)) /\ ~Opened(o).closed /\ Opened(o).pending = {} /\ Opened(o).promise
      BY <2>3 DEF Sound, Shape, Opened, Connection, Phase
    <3> QED BY <1>1, <2>2, <2>6, <3>1
  <2>7. CASE q = Failed(f)
    <3>1. f \in Connection /\ ~f.closed /\ ~f.invalidAuth /\ f.phase = "connecting"
      <4>1. o \in Connection /\ ~o.invalidAuth
        BY <2>3 DEF Shape
      <4> HIDE DEF o
      <4> QED BY <2>3, <4>1 DEF Connection
    <3>2. Sound(Failed(f)) /\ ~Failed(f).closed /\ Failed(f).pending = {}
      <4> HIDE DEF f
      <4> QED BY <3>1, FailedSound DEF Ignored
    <3> HIDE DEF f
    <3> QED BY <1>1, <2>2, <2>7, <3>2
  <2> QED BY <2>4, <2>5, <2>6, <2>7
<1> QED BY <1>2, <1>3
-------------------------------------------------------------------------------
(* A step that turns one connection object c into r, and moves callers of c,  *)
(* keeps the invariant.                                                       *)

LEMMA OneChanged ==
  ASSUME IInv, NEW c \in Conn, NEW r,
         Sound(r), r.closed = conn[c].closed,
         conn' = [conn EXCEPT ![c] = r], current' = current, stopped' = stopped,
         calls' \in [Caller -> Call],
         \A k \in Caller :
           /\ calls'[k] = calls[k] 
              \/ /\ (calls[k].at = "idle" \/ calls[k].conn = c)
                 /\ (calls'[k].at = "idle" \/ calls'[k].conn = c)
           /\ calls'[k].at = "waiting" /\ calls'[k].conn = c => r.promise
           /\ k \in r.pending <=> calls'[k].at = "sent" /\ calls'[k].conn = c
  PROVE  IInv'
<1>1. conn' \in [Conn -> Connection]
  BY DEF IInv, Sound, Shape
<1>2. \A e \in Conn : Sound(conn'[e]) /\ conn'[e].closed = conn[e].closed
  BY DEF IInv
<1>3. \A e \in Conn : e # c => conn'[e] = conn[e]
  BY DEF IInv
<1>4. conn'[c] = r
  BY DEF IInv
<1>5. CallersOK(conn', calls')
  <2> SUFFICES ASSUME NEW k \in Caller
               PROVE  /\ calls'[k].at = "waiting" => conn'[calls'[k].conn].promise
                      /\ \A e \in Conn : k \in conn'[e].pending <=>
                                          calls'[k].at = "sent" /\ calls'[k].conn = e
    BY DEF CallersOK
  <2>1. calls'[k].at = "waiting" => conn'[calls'[k].conn].promise
    <3>1. calls'[k].at = "waiting" => calls'[k].conn \in Conn
      BY DEF Call
    <3>2. calls[k].at = "waiting" => conn[calls[k].conn].promise
      BY DEF IInv, CallersOK
    <3> QED BY <1>3, <1>4, <3>1, <3>2
  <2>2. ASSUME NEW e \in Conn
        PROVE  k \in conn'[e].pending <=> calls'[k].at = "sent" /\ calls'[k].conn = e
    <3>1. k \in conn[e].pending <=> calls[k].at = "sent" /\ calls[k].conn = e
      BY DEF IInv, CallersOK
    <3> QED BY <1>3, <1>4, <3>1
  <2> QED BY <2>1, <2>2
<1> QED BY <1>1, <1>2, <1>5 DEF IInv, CallersOK

(* Answering the callers of c leaves no one waiting or sent there.            *)
LEMMA AnsweredCalls ==
  ASSUME NEW f \in [Caller -> Call], NEW c
  PROVE  /\ Answered(f, c, {"waiting", "sent"}) \in [Caller -> Call]
         /\ \A k \in Caller :
              LET g == Answered(f, c, {"waiting", "sent"})
              IN  /\ g[k] = f[k] \/ (f[k].conn = c /\ g[k].at = "idle")
                  /\ ~(g[k].at = "waiting" /\ g[k].conn = c)
                  /\ ~(g[k].at = "sent" /\ g[k].conn = c)
BY DEF Answered, Idle, Call

(* A socket failure answers every caller of the connection.                   *)
LEMMA FailsKeeps ==
  ASSUME IInv, NEW c \in Conn, Fails(c)
  PROVE  IInv'
<1>1. CASE Ignored(conn[c])
  <2>1. conn' = conn /\ calls' = calls
    BY <1>1 DEF Fails, Failed, IInv
  <2> QED BY <2>1 DEF Fails, IInv, CallersOK
<1>2. CASE ~Ignored(conn[c])
  <2> DEFINE r == Failed(conn[c])
  <2>1. Sound(r) /\ ~r.closed /\ ~r.promise /\ r.pending = {} /\ r.closed = conn[c].closed
    <3>1. conn[c] \in Connection /\ ~conn[c].closed /\ conn[c].closed \in BOOLEAN
      BY <1>2 DEF IInv, Ignored, Connection
    <3>2. Sound(r) /\ ~r.closed /\ ~r.promise /\ r.pending = {}
      BY <1>2, <3>1, FailedSound
    <3>3. r \in Connection
      BY <3>2 DEF Sound, Shape
    <3>4. r.closed \in BOOLEAN
      BY <3>3 DEF Connection
    <3> QED BY <3>1, <3>2, <3>4
  <2>2. /\ conn' = [conn EXCEPT ![c] = r] /\ current' = current /\ stopped' = stopped
        /\ calls' = Answered(calls, c, {"waiting", "sent"})
    BY <1>2 DEF Fails
  <2>3. calls \in [Caller -> Call]
    BY DEF IInv
  <2> HIDE DEF r
  <2>4. calls' \in [Caller -> Call]
    BY <2>2, <2>3, AnsweredCalls
  <2>5. \A k \in Caller :
          /\ calls'[k] = calls[k] \/ (calls[k].conn = c /\ calls'[k].at = "idle")
          /\ ~(calls'[k].at = "waiting" /\ calls'[k].conn = c)
          /\ ~(calls'[k].at = "sent" /\ calls'[k].conn = c)
    BY <2>2, <2>3, AnsweredCalls
  <2>6. \A k \in Caller :
          /\ \/ calls'[k] = calls[k]
             \/ /\ (calls[k].at = "idle" \/ calls[k].conn = c)
                /\ (calls'[k].at = "idle" \/ calls'[k].conn = c)
          /\ calls'[k].at = "waiting" /\ calls'[k].conn = c => r.promise
          /\ k \in r.pending <=> calls'[k].at = "sent" /\ calls'[k].conn = c
    BY <2>1, <2>5
  <2> QED BY <2>1, <2>2, <2>4, <2>6, OneChanged
<1> QED BY <1>1, <1>2

-------------------------------------------------------------------------------
(* One lemma per group of actions. *)

LEMMA CallCurrentKeeps ==
  ASSUME IInv, NEW k \in Caller, NEW b \in Binding, NEW purpose \in {"send", "probe"},
         CallCurrent(k, b, purpose)
  PROVE  IInv'
<1> DEFINE c == current
<1>1. c \in Conn /\ ~conn[c].closed /\ Sound(conn[c]) /\ calls[k].at = "idle"
  BY DEF IInv, CallCurrent, Reuses
<1>2. PICK r \in Ensured(conn[c]) :
        /\ conn' = [conn EXCEPT ![c] = r]
        /\ calls' = [calls EXCEPT ![k] = Continued(c, r, purpose)]
  BY DEF CallCurrent
<1>3. /\ Sound(r) /\ ~r.closed /\ r.pending = conn[c].pending
      /\ conn[c].promise => r.promise
  BY <1>1, EnsuredSound DEF Sound
<1>4. r.closed = conn[c].closed
  BY <1>1, <1>3 DEF Sound, Shape, Connection
<1>5. LET q == Continued(c, r, purpose)
      IN  /\ q \in Call /\ q.at # "sent" /\ (q.at = "waiting" => r.promise)
          /\ q.at # "idle" => q.conn = c
  BY <1>1 DEF Continued, Call, Idle
<1>6. calls' \in [Caller -> Call]
  BY <1>2, <1>5 DEF IInv
<1>7. current' = current /\ stopped' = stopped
  BY DEF CallCurrent
<1>8. \A l \in Caller :
        /\ \/ calls'[l] = calls[l]
           \/ /\ (calls[l].at = "idle" \/ calls[l].conn = c)
              /\ (calls'[l].at = "idle" \/ calls'[l].conn = c)
        /\ calls'[l].at = "waiting" /\ calls'[l].conn = c => r.promise
        /\ l \in r.pending <=> calls'[l].at = "sent" /\ calls'[l].conn = c
  <2> SUFFICES ASSUME NEW l \in Caller
               PROVE  /\ \/ calls'[l] = calls[l]
                         \/ /\ (calls[l].at = "idle" \/ calls[l].conn = c)
                            /\ (calls'[l].at = "idle" \/ calls'[l].conn = c)
                      /\ calls'[l].at = "waiting" /\ calls'[l].conn = c => r.promise
                      /\ l \in r.pending <=> calls'[l].at = "sent" /\ calls'[l].conn = c
    OBVIOUS
  <2>1. /\ calls[l].at = "waiting" => conn[calls[l].conn].promise
        /\ l \in conn[c].pending <=> calls[l].at = "sent" /\ calls[l].conn = c
    BY <1>1 DEF IInv, CallersOK
  <2>2. l # k => calls'[l] = calls[l]
    BY <1>2 DEF IInv
  <2>3. calls'[k] = Continued(c, r, purpose)
    BY <1>2 DEF IInv
  <2> QED BY <1>1, <1>3, <1>5, <2>1, <2>2, <2>3
<1> HIDE DEF c
<1> QED BY <1>1, <1>2, <1>3, <1>4, <1>6, <1>7, <1>8, OneChanged

LEMMA ContinuesKeeps ==
  ASSUME IInv, NEW k \in Caller, Continues(k)
  PROVE  IInv'
<1> DEFINE c == calls[k].conn
<1>1. /\ calls \in [Caller -> Call] /\ calls[k].at = "connected" /\ c \in Conn
      /\ Sound(conn[c]) /\ conn \in [Conn -> Connection]
  BY DEF IInv, Continues, ProbeContinues, NotSent, Send, SendThrows, Call
<1>2. CASE ProbeContinues(k) \/ NotSent(k)
  <2>1. conn' = conn /\ current' = current /\ stopped' = stopped
        /\ calls' = [calls EXCEPT ![k] = Idle]
    BY <1>2 DEF ProbeContinues, NotSent
  <2>2. calls' \in [Caller -> Call]
    BY <1>1, <2>1 DEF Idle, Call
  <2>3. CallersOK(conn', calls')
    BY <1>1, <2>1 DEF IInv, CallersOK, Idle
  <2> QED BY <2>1, <2>2, <2>3 DEF IInv
<1>3. CASE Send(k)
  <2> DEFINE r == [conn[c] EXCEPT !.pending = @ \cup {k}]
  <2>1. /\ conn' = [conn EXCEPT ![c] = r] /\ current' = current /\ stopped' = stopped
        /\ calls' = [calls EXCEPT ![k].at = "sent"] /\ CanSend(conn[c])
    BY <1>1, <1>3 DEF Send
  <2>2. Cardinality(r.pending) <= MaxPending
    <3>1. conn[c].pending \in SUBSET Caller
      BY <1>1 DEF Connection
    <3>2. Cardinality(conn[c].pending) < MaxPending
      BY <2>1 DEF CanSend
    <3>3. Cardinality(conn[c].pending \cup {k}) <= MaxPending
      BY <3>1, <3>2, OneMorePending
    <3>4. r.pending = conn[c].pending \cup {k}
      BY <1>1 DEF Connection
    <3> QED BY <3>3, <3>4
  <2>3. Sound(r) /\ r.closed = conn[c].closed /\ r.promise = conn[c].promise
        /\ r.pending = conn[c].pending \cup {k}
    <3> DEFINE q == conn[c]
    <3>1. q \in Connection /\ Sound(q) /\ CanSend(q)
      BY <1>1, <2>1
    <3> HIDE DEF q
    <3> QED BY <2>2, <3>1 DEF Sound, Shape, Connection, CanSend, q
  <2>4. /\ calls' \in [Caller -> Call] /\ calls'[k].at = "sent" /\ calls'[k].conn = c
        /\ \A l \in Caller : l # k => calls'[l] = calls[l]
    BY <1>1, <2>1 DEF Call
  <2>5. \A l \in Caller :
          /\ \/ calls'[l] = calls[l]
             \/ /\ (calls[l].at = "idle" \/ calls[l].conn = c)
                /\ (calls'[l].at = "idle" \/ calls'[l].conn = c)
          /\ calls'[l].at = "waiting" /\ calls'[l].conn = c => r.promise
          /\ l \in r.pending <=> calls'[l].at = "sent" /\ calls'[l].conn = c
    BY <1>1, <2>3, <2>4 DEF IInv, CallersOK
  <2> HIDE DEF r, c
  <2> QED BY <1>1, <2>1, <2>3, <2>4, <2>5, OneChanged
<1>4. CASE SendThrows(k)
  <2> DEFINE r == Failed(conn[c])
             g == Answered(calls, c, {"waiting", "sent"})
  <2>1. /\ conn' = [conn EXCEPT ![c] = r] /\ current' = current /\ stopped' = stopped
        /\ calls' = [g EXCEPT ![k] = Idle] /\ CanSend(conn[c])
    BY <1>4 DEF SendThrows
  <2>2. ~Ignored(conn[c]) /\ ~conn[c].closed /\ conn[c].closed \in BOOLEAN
    BY <1>1, <2>1 DEF CanSend, Ignored, Sound, Shape, Connection
  <2>3. Sound(r) /\ ~r.closed /\ ~r.promise /\ r.pending = {}
    BY <1>1, <2>2, FailedSound
  <2>4. r.closed = conn[c].closed
    <3>1. r \in Connection
      BY <2>3 DEF Sound, Shape
    <3>2. r.closed \in BOOLEAN
      BY <3>1 DEF Connection
    <3> QED BY <2>2, <2>3, <3>2
  <2>5. /\ g \in [Caller -> Call]
        /\ \A l \in Caller : /\ g[l] = calls[l] \/ (calls[l].conn = c /\ g[l].at = "idle")
                             /\ ~(g[l].at = "waiting" /\ g[l].conn = c)
                             /\ ~(g[l].at = "sent" /\ g[l].conn = c)
    BY <1>1, AnsweredCalls
  <2> HIDE DEF g, r
  <2>6. calls' \in [Caller -> Call] /\ calls'[k] = Idle
        /\ \A l \in Caller : l # k => calls'[l] = g[l]
    BY <2>1, <2>5 DEF Call, Idle
  <2>7. \A l \in Caller :
          /\ \/ calls'[l] = calls[l]
             \/ /\ (calls[l].at = "idle" \/ calls[l].conn = c)
                /\ (calls'[l].at = "idle" \/ calls'[l].conn = c)
          /\ calls'[l].at = "waiting" /\ calls'[l].conn = c => r.promise
          /\ l \in r.pending <=> calls'[l].at = "sent" /\ calls'[l].conn = c
    BY <2>3, <2>5, <2>6 DEF Idle
  <2> HIDE DEF c
  <2> QED BY <1>1, <2>1, <2>3, <2>4, <2>6, <2>7, OneChanged
<1> QED BY <1>2, <1>3, <1>4 DEF Continues

(* A callback of connection c that leaves every caller where it is.           *)
LEMMA CallersStay ==
  ASSUME IInv, NEW c \in Conn, NEW r, Sound(r), r.closed = conn[c].closed,
         r.pending = conn[c].pending, conn[c].promise => r.promise,
         conn' = [conn EXCEPT ![c] = r], UNCHANGED <<current, stopped, calls>>
  PROVE  IInv'
<1>1. calls' \in [Caller -> Call] /\ calls' = calls
  BY DEF IInv
<1>2. \A k \in Caller :
        /\ calls[k].at = "waiting" => conn[calls[k].conn].promise
        /\ k \in conn[c].pending <=> calls[k].at = "sent" /\ calls[k].conn = c
  BY DEF IInv, CallersOK
<1>3. \A k \in Caller :
        /\ \/ calls'[k] = calls[k]
           \/ /\ (calls[k].at = "idle" \/ calls[k].conn = c)
              /\ (calls'[k].at = "idle" \/ calls'[k].conn = c)
        /\ calls'[k].at = "waiting" /\ calls'[k].conn = c => r.promise
        /\ k \in r.pending <=> calls'[k].at = "sent" /\ calls'[k].conn = c
  BY <1>1, <1>2
<1> QED BY <1>1, <1>3, OneChanged

LEMMA SocketEventsKeep ==
  ASSUME IInv, NEW c \in Conn, Open(c) \/ AuthRequired(c) \/ AuthOk(c) \/ AuthInvalid(c)
  PROVE  IInv'
<1> DEFINE q == conn[c]
<1>1. q \in Connection /\ Sound(q) /\ conn \in [Conn -> Connection]
  BY DEF IInv
<1>2. CASE Open(c)
  <2>1. Sound(Opened(q)) /\ Opened(q).closed = q.closed /\ Opened(q).pending = q.pending
        /\ Opened(q).promise = q.promise
    <3>1. q.phase = "connecting" /\ ~q.closed
      BY <1>2 DEF Open
    <3> HIDE DEF q
    <3> QED BY <1>1, <3>1 DEF Sound, Shape, Opened, Connection, Phase
  <2>2. conn' = [conn EXCEPT ![c] = Opened(q)] /\ UNCHANGED <<current, stopped, calls>>
    BY <1>2 DEF Open
  <2> QED BY <2>1, <2>2, CallersStay
<1>3. CASE AuthRequired(c)
  <2> DEFINE r == [q EXCEPT !.authSent = TRUE]
  <2>1. Sound(r) /\ r.closed = q.closed /\ r.pending = q.pending /\ r.promise = q.promise
    <3> HIDE DEF q
    <3> QED BY <1>1 DEF Sound, Shape, Connection
  <2>2. conn' = [conn EXCEPT ![c] = r] /\ UNCHANGED <<current, stopped, calls>>
    BY <1>3 DEF AuthRequired
  <2> HIDE DEF r
  <2> QED BY <2>1, <2>2, CallersStay
<1>4. CASE AuthOk(c)
  <2> DEFINE r == Shown(PromiseKept(TimerCleared(
                    [q EXCEPT !.authTimer = FALSE, !.phase = "ready"])), "success")
  <2>1. q.phase = "authenticating" /\ q.socket /\ ~q.closed
    BY <1>4 DEF AuthOk
  <2>2. Sound(r) /\ r.closed = q.closed /\ r.pending = q.pending
    <3> HIDE DEF q
    <3> QED BY <1>1, <2>1 DEF Sound, Shape, Shown, PromiseKept, TimerCleared, Connection, Phase
  <2>3. /\ conn' = [conn EXCEPT ![c] = r] /\ current' = current /\ stopped' = stopped
        /\ calls' = Connected(calls, c)
    BY <1>4 DEF AuthOk
  <2>4. /\ calls' \in [Caller -> Call]
        /\ \A k \in Caller :
             /\ \/ calls'[k] = calls[k]
                \/ calls[k].at = "waiting" /\ calls[k].conn = c
                   /\ calls'[k].at = "connected" /\ calls'[k].conn = c
             /\ ~(calls'[k].at = "waiting" /\ calls'[k].conn = c)
    BY <2>3 DEF IInv, Connected, Call
  <2>5. \A k \in Caller : k \in q.pending <=> calls[k].at = "sent" /\ calls[k].conn = c
    BY DEF IInv, CallersOK
  <2>6. \A k \in Caller :
          /\ \/ calls'[k] = calls[k]
             \/ /\ (calls[k].at = "idle" \/ calls[k].conn = c)
                /\ (calls'[k].at = "idle" \/ calls'[k].conn = c)
          /\ calls'[k].at = "waiting" /\ calls'[k].conn = c => r.promise
          /\ k \in r.pending <=> calls'[k].at = "sent" /\ calls'[k].conn = c
    <3> HIDE DEF r, q
    <3> QED BY <2>2, <2>4, <2>5
  <2> HIDE DEF r
  <2> QED BY <2>2, <2>3, <2>4, <2>6, OneChanged
<1>5. CASE AuthInvalid(c)
  <2> DEFINE r == Shown([PromiseBroken(q) EXCEPT !.invalidAuth = TRUE, !.phase = "closed",
                           !.authTimer = FALSE, !.pending = {}, !.socket = FALSE], "failure")
  <2>1. Sound(r) /\ r.closed = q.closed /\ r.pending = {}
    <3>1. ~q.closed
      BY <1>5 DEF AuthInvalid
    <3>2. PromiseBroken(q) \in Connection /\ PromiseBroken(q).promise = FALSE
          /\ PromiseBroken(q).closed = q.closed
      <4> HIDE DEF q
      <4> QED BY <1>1 DEF PromiseBroken, Connection
    <3> DEFINE u == PromiseBroken(q)
    <3> HIDE DEF u
    <3>3. u \in Connection /\ u.promise = FALSE /\ u.closed = q.closed
      BY <3>2 DEF u
    <3>4. r = Shown([u EXCEPT !.invalidAuth = TRUE, !.phase = "closed",
                       !.authTimer = FALSE, !.pending = {}, !.socket = FALSE], "failure")
      BY DEF u
    <3> HIDE DEF r, q
    <3> QED BY <3>1, <3>3, <3>4, EmptyPending DEF Sound, Shape, Shown, Connection, Phase
  <2>2. /\ conn' = [conn EXCEPT ![c] = r] /\ current' = current /\ stopped' = stopped
        /\ calls' = Answered(calls, c, {"waiting", "sent"})
    BY <1>5 DEF AuthInvalid
  <2>3. calls \in [Caller -> Call]
    BY DEF IInv
  <2> HIDE DEF r, q
  <2>4. calls' \in [Caller -> Call]
    BY <2>2, <2>3, AnsweredCalls
  <2>5. \A k \in Caller :
          /\ calls'[k] = calls[k] \/ (calls[k].conn = c /\ calls'[k].at = "idle")
          /\ ~(calls'[k].at = "waiting" /\ calls'[k].conn = c)
          /\ ~(calls'[k].at = "sent" /\ calls'[k].conn = c)
    BY <2>2, <2>3, AnsweredCalls
  <2>6. \A k \in Caller :
          /\ \/ calls'[k] = calls[k]
             \/ /\ (calls[k].at = "idle" \/ calls[k].conn = c)
                /\ (calls'[k].at = "idle" \/ calls'[k].conn = c)
          /\ calls'[k].at = "waiting" /\ calls'[k].conn = c => r.promise
          /\ k \in r.pending <=> calls'[k].at = "sent" /\ calls'[k].conn = c
    BY <2>1, <2>5
  <2> USE DEF q
  <2> QED BY <2>1, <2>2, <2>4, <2>6, OneChanged
<1> QED BY <1>2, <1>3, <1>4, <1>5

LEMMA OneLessPending ==
  ASSUME NEW S \in SUBSET Caller, NEW k, Cardinality(S) <= MaxPending
  PROVE  Cardinality(S \ {k}) <= MaxPending
<1>1. IsFiniteSet(S)
  BY FS_Subset, ConnectionAssumption
<1>2. IsFiniteSet(S \ {k}) /\ Cardinality(S \ {k}) <= Cardinality(S)
  BY <1>1, FS_Subset
<1>3. Cardinality(S) \in Nat /\ Cardinality(S \ {k}) \in Nat
  BY <1>1, <1>2, FS_CardinalityType
<1> QED BY <1>2, <1>3, ConnectionAssumption

LEMMA ResultKeeps ==
  ASSUME IInv, NEW c \in Conn, NEW k \in Caller, Result(c, k)
  PROVE  IInv'
<1> DEFINE q == conn[c]
           r == [q EXCEPT !.pending = @ \ {k}]
<1>1. q \in Connection /\ Sound(q) /\ calls \in [Caller -> Call]
  BY DEF IInv
<1>2. Sound(r) /\ r.closed = q.closed /\ r.pending = q.pending \ {k} /\ r.promise = q.promise
  <2> HIDE DEF q
  <2>1. q.pending \in SUBSET Caller /\ Cardinality(q.pending) <= MaxPending
    BY <1>1 DEF Sound, Shape, Connection
  <2>2. Cardinality(q.pending \ {k}) <= MaxPending
    BY <2>1, OneLessPending
  <2> QED BY <1>1, <2>2 DEF Sound, Shape, Connection
<1>3. /\ conn' = [conn EXCEPT ![c] = r] /\ current' = current /\ stopped' = stopped
      /\ calls' = [calls EXCEPT ![k] = Idle] /\ k \in q.pending
  BY DEF Result
<1>4. /\ calls' \in [Caller -> Call] /\ calls'[k] = Idle
      /\ \A l \in Caller : l # k => calls'[l] = calls[l]
  BY <1>1, <1>3 DEF Call, Idle
<1>5. \A l \in Caller :
        /\ calls[l].at = "waiting" => conn[calls[l].conn].promise
        /\ l \in q.pending <=> calls[l].at = "sent" /\ calls[l].conn = c
  BY DEF IInv, CallersOK
<1> HIDE DEF r
<1>6. \A l \in Caller :
        /\ \/ calls'[l] = calls[l]
           \/ /\ (calls[l].at = "idle" \/ calls[l].conn = c)
              /\ (calls'[l].at = "idle" \/ calls'[l].conn = c)
        /\ calls'[l].at = "waiting" /\ calls'[l].conn = c => r.promise
        /\ l \in r.pending <=> calls'[l].at = "sent" /\ calls'[l].conn = c
  BY <1>2, <1>3, <1>4, <1>5 DEF Idle
<1> QED BY <1>2, <1>3, <1>4, <1>6, OneChanged

LEMMA ReconnectKeeps ==
  ASSUME IInv, NEW c \in Conn, ReconnectDue(c) \/ ReconnectFailed(c)
  PROVE  IInv'
<1> DEFINE q == conn[c]
<1>1. q \in Connection /\ Sound(q) /\ (~q.closed <=> c = current) /\ q.closed \in BOOLEAN
  BY DEF IInv, Connection
<1>2. CASE ReconnectDue(c)
  <2> DEFINE t == TimerCleared(q)
  <2>1. q.reconnectTimer /\ UNCHANGED <<current, stopped, calls>>
    BY <1>2 DEF ReconnectDue
  <2>2. ~q.closed
    BY <1>1, <2>1 DEF Sound, Shape
  <2>3. /\ Shape(t) /\ t.closed = q.closed /\ t.pending = q.pending /\ t.promise = q.promise
        /\ t.invalidAuth = q.invalidAuth /\ t.phase = q.phase
    <3> HIDE DEF q
    <3> QED BY <1>1 DEF Sound, Shape, TimerCleared, Connection
  <2>4. c = current /\ ~stopped
    BY <1>1, <2>2, ConnectionAssumption DEF IInv
  <2>5. CASE t.invalidAuth
    <3>1. conn' = [conn EXCEPT ![c] = t]
      BY <1>2, <2>5 DEF ReconnectDue
    <3>2. t.phase # "idle"
      BY <2>3, <2>5 DEF Shape
    <3>3. Sound(t)
      BY <2>3, <3>2 DEF Sound
    <3> HIDE DEF t
    <3> QED BY <2>1, <2>3, <3>1, <3>3, CallersStay
  <2>6. CASE ~t.invalidAuth
    <3>1. PICK r \in Ensured(t) :
            conn' = [conn EXCEPT ![c] = [r EXCEPT !.retry =
                       IF r.promise THEN "waiting"
                       ELSE IF r.phase = "ready" THEN "none" ELSE "failed"]]
      BY <1>2, <2>2, <2>3, <2>4, <2>6 DEF ReconnectDue
    <3> HIDE DEF t
    <3>2. Sound(r) /\ ~r.closed /\ r.pending = t.pending /\ (t.promise => r.promise)
      BY <2>2, <2>3, EnsuredSound
    <3> DEFINE s == [r EXCEPT !.retry = IF r.promise THEN "waiting"
                                       ELSE IF r.phase = "ready" THEN "none" ELSE "failed"]
    <3>3. Sound(s) /\ ~s.closed /\ s.pending = r.pending /\ s.promise = r.promise
          /\ s.closed \in BOOLEAN
      BY <3>2 DEF Sound, Shape, Connection
    <3>4. conn' = [conn EXCEPT ![c] = s]
      BY <3>1
    <3> HIDE DEF s
    <3> QED BY <1>1, <2>1, <2>2, <2>3, <3>2, <3>3, <3>4, CallersStay
  <2> QED BY <2>5, <2>6
<1>3. CASE ReconnectFailed(c)
  <2> DEFINE u == [q EXCEPT !.retry = "none"]
             r == IF stopped \/ current # c THEN u ELSE Rescheduled(u)
  <2>1. conn' = [conn EXCEPT ![c] = r] /\ UNCHANGED <<current, stopped, calls>>
    BY <1>3 DEF ReconnectFailed
  <2>2. Sound(u) /\ u.closed = q.closed /\ u.pending = q.pending /\ u.promise = q.promise
    <3> HIDE DEF q
    <3> QED BY <1>1 DEF Sound, Shape, Connection
  <2>3. /\ Sound(Rescheduled(u)) /\ Rescheduled(u).closed = u.closed
        /\ Rescheduled(u).pending = u.pending /\ Rescheduled(u).promise = u.promise
    <3> HIDE DEF u
    <3> QED BY <2>2 DEF Sound, Shape, Rescheduled, Connection
  <2>4. Sound(r) /\ r.closed = q.closed /\ r.pending = q.pending /\ r.promise = q.promise
    <3> HIDE DEF u, q
    <3> QED BY <2>2, <2>3
  <2> HIDE DEF r
  <2> QED BY <2>1, <2>4, CallersStay
<1> QED BY <1>2, <1>3

LEMMA CloseKeeps ==
  ASSUME IInv, CloseCurrent, stopped' \in BOOLEAN
  PROVE  IInv'
<1>1. /\ calls \in [Caller -> Call] /\ conn \in [Conn -> Connection]
      /\ conn' = [c \in Conn |-> IF c = current THEN Closing(conn[c]) ELSE conn[c]]
      /\ calls' = Answered(calls, current, {"waiting", "sent"}) /\ current' = None
  BY DEF IInv, CloseCurrent
<1>2. \A c \in Conn : Sound(conn'[c]) /\ conn'[c].closed
  <2> SUFFICES ASSUME NEW c \in Conn PROVE Sound(conn'[c]) /\ conn'[c].closed
    OBVIOUS
  <2>1. Sound(conn[c]) /\ (~conn[c].closed <=> c = current)
    BY DEF IInv
  <2>2. Sound(Closing(conn[c])) /\ Closing(conn[c]).closed
    BY <2>1, ClosingSound
  <2> QED BY <1>1, <2>1, <2>2
<1>3. conn' \in [Conn -> Connection]
  BY <1>1, <1>2 DEF Sound, Shape
<1>4. calls' \in [Caller -> Call]
  BY <1>1, AnsweredCalls
<1>5. CallersOK(conn', calls')
  <2> SUFFICES ASSUME NEW k \in Caller
               PROVE  /\ calls'[k].at = "waiting" => conn'[calls'[k].conn].promise
                      /\ \A c \in Conn : k \in conn'[c].pending <=>
                                          calls'[k].at = "sent" /\ calls'[k].conn = c
    BY DEF CallersOK
  <2>1. /\ calls'[k] = calls[k] \/ (calls[k].conn = current /\ calls'[k].at = "idle")
        /\ ~(calls'[k].at = "waiting" /\ calls'[k].conn = current)
        /\ ~(calls'[k].at = "sent" /\ calls'[k].conn = current)
    BY <1>1, AnsweredCalls
  <2>2. /\ calls[k].at = "waiting" => conn[calls[k].conn].promise /\ calls[k].conn \in Conn
        /\ \A c \in Conn : k \in conn[c].pending <=> calls[k].at = "sent" /\ calls[k].conn = c
    BY <1>1 DEF IInv, CallersOK, Call
  <2>3. \A c \in Conn : /\ c # current => conn'[c] = conn[c]
                        /\ c = current => conn'[c].pending = {}
    BY <1>1, ClosingSound DEF IInv
  <2>4. calls'[k].at = "waiting" => conn'[calls'[k].conn].promise
    BY <2>1, <2>2, <2>3
  <2>5. ASSUME NEW c \in Conn
        PROVE  k \in conn'[c].pending <=> calls'[k].at = "sent" /\ calls'[k].conn = c
    <3>1. k \in conn[c].pending <=> calls[k].at = "sent" /\ calls[k].conn = c
      BY <2>2
    <3> QED BY <2>1, <2>3, <3>1
  <2> QED BY <2>4, <2>5
<1> QED BY <1>1, <1>2, <1>3, <1>4, <1>5, ConnectionAssumption DEF IInv

LEMMA CallFreshKeeps ==
  ASSUME IInv, NEW k \in Caller, NEW b \in Binding, NEW purpose \in {"send", "probe"},
         CallFresh(k, b, purpose)
  PROVE  IInv'
<1>1. PICK c \in Conn :
        /\ Unused(c) /\ current' = c
        /\ \E r \in Ensured(Fresh(b)) :
             /\ conn' = [e \in Conn |-> IF e = c THEN r
                                        ELSE IF e = current THEN Closing(conn[e]) ELSE conn[e]]
             /\ calls' = [Answered(calls, current, {"waiting", "sent"}) EXCEPT
                            ![k] = Continued(c, r, purpose)]
  BY DEF CallFresh
<1>2. PICK r \in Ensured(Fresh(b)) :
        /\ conn' = [e \in Conn |-> IF e = c THEN r
                                   ELSE IF e = current THEN Closing(conn[e]) ELSE conn[e]]
        /\ calls' = [Answered(calls, current, {"waiting", "sent"}) EXCEPT
                       ![k] = Continued(c, r, purpose)]
  BY <1>1
<1>3. Sound(r) /\ ~r.closed /\ r.pending = {} /\ c # current
  <2>1. Shape(Fresh(b)) /\ ~Fresh(b).closed /\ Fresh(b).pending = {}
    BY FreshShape DEF Fresh
  <2> QED BY <1>1, <2>1, EnsuredSound DEF Unused
<1>4. /\ calls \in [Caller -> Call] /\ conn \in [Conn -> Connection]
      /\ stopped' = stopped /\ ~stopped /\ calls[k].at = "idle"
  BY DEF IInv, CallFresh
<1> DEFINE g == Answered(calls, current, {"waiting", "sent"})
           q == Continued(c, r, purpose)
<1>5. /\ g \in [Caller -> Call]
      /\ \A l \in Caller :
           /\ g[l] = calls[l] \/ (calls[l].conn = current /\ g[l].at = "idle")
           /\ ~(g[l].at = "waiting" /\ g[l].conn = current)
           /\ ~(g[l].at = "sent" /\ g[l].conn = current)
  BY <1>4, AnsweredCalls
<1>6. /\ q \in Call /\ q.at # "sent" /\ (q.at = "waiting" => r.promise /\ q.conn = c)
  BY DEF Continued, Call, Idle
<1>7. /\ calls' \in [Caller -> Call] /\ calls'[k] = q
      /\ \A l \in Caller : l # k => calls'[l] = g[l]
  <2> HIDE DEF g, q
  <2> QED BY <1>2, <1>5, <1>6 DEF g, q
<1>8. \A e \in Conn :
        /\ Sound(conn'[e])
        /\ ~conn'[e].closed <=> e = c
        /\ e # c /\ e # current => conn'[e] = conn[e]
        /\ e = current => conn'[e].pending = {}
  <2> SUFFICES ASSUME NEW e \in Conn
               PROVE  /\ Sound(conn'[e])
                      /\ ~conn'[e].closed <=> e = c
                      /\ e # c /\ e # current => conn'[e] = conn[e]
                      /\ e = current => conn'[e].pending = {}
    OBVIOUS
  <2>1. Sound(conn[e]) /\ (~conn[e].closed <=> e = current)
    BY DEF IInv
  <2>2. /\ Sound(Closing(conn[e])) /\ Closing(conn[e]).closed
        /\ Closing(conn[e]).pending = {}
    BY <2>1, ClosingSound
  <2> QED BY <1>2, <1>3, <2>1, <2>2
<1>9. CallersOK(conn', calls')
  <2> SUFFICES ASSUME NEW l \in Caller
               PROVE  /\ calls'[l].at = "waiting" => conn'[calls'[l].conn].promise
                      /\ \A e \in Conn : l \in conn'[e].pending <=>
                                          calls'[l].at = "sent" /\ calls'[l].conn = e
    BY DEF CallersOK
  <2> HIDE DEF g, q
  <2>1. /\ calls[l].at = "waiting" => conn[calls[l].conn].promise /\ calls[l].conn \in Conn
        /\ \A e \in Conn : l \in conn[e].pending <=> calls[l].at = "sent" /\ calls[l].conn = e
    BY <1>4 DEF IInv, CallersOK, Call
  <2>2. conn'[c] = r /\ conn'[c].pending = {}
    BY <1>2, <1>3
  <2>3. calls[l].at # "idle" => calls[l].conn # c
    BY <1>1 DEF Unused
  <2>4. CASE l = k
    BY <1>4, <1>5, <1>6, <1>7, <1>8, <2>1, <2>2, <2>4
  <2>5. CASE l # k
    <3>1. calls'[l] = g[l]
      BY <1>7, <2>5
    <3> QED BY <1>5, <1>8, <2>1, <2>2, <2>3, <3>1
  <2> QED BY <2>4, <2>5
<1>10. conn' \in [Conn -> Connection]
  BY <1>2, <1>8 DEF Sound, Shape
<1> QED BY <1>1, <1>4, <1>7, <1>8, <1>9, <1>10 DEF IInv

-------------------------------------------------------------------------------
(* The object pool starts closed; every step keeps the invariant.             *)
THEOREM Inductive == Spec => []IInv
<1>1. Init => IInv
  <2> SUFFICES ASSUME Init PROVE IInv
    OBVIOUS
  <2>1. PICK b \in Binding :
          conn = [c \in Conn |-> [Fresh(b) EXCEPT !.phase = "closed", !.closed = TRUE]]
    BY DEF Init
  <2> DEFINE r == [Fresh(b) EXCEPT !.phase = "closed", !.closed = TRUE]
  <2>2. Sound(r) /\ r.closed /\ r.pending = {} /\ r \in Connection
    BY EmptyPending DEF Fresh, Sound, Shape, Connection, Phase
  <2>3. \A c \in Conn : conn[c] = r
    BY <2>1
  <2>4. conn \in [Conn -> Connection]
    BY <2>1, <2>2
  <2> HIDE DEF r
  <2>5. calls \in [Caller -> Call] /\ \A k \in Caller : calls[k].at = "idle"
    BY DEF Init, Idle, Call
  <2>6. CallersOK(conn, calls)
    BY <2>2, <2>3, <2>5 DEF CallersOK
  <2>7. current = None /\ stopped = FALSE
    BY DEF Init
  <2>8. \A c \in Conn : c # None
    BY ConnectionAssumption
  <2> QED BY <2>2, <2>3, <2>4, <2>5, <2>6, <2>7, <2>8 DEF IInv
<1>2. IInv /\ [Next]_vars => IInv'
  <2> SUFFICES ASSUME IInv, [Next]_vars PROVE IInv'
    OBVIOUS
  <2>1. CASE UNCHANGED vars
    BY <2>1 DEF vars, IInv, CallersOK
  <2>2. ASSUME NEW k \in Caller, NEW b \in Binding, NEW purpose \in {"send", "probe"},
               CallCurrent(k, b, purpose) \/ CallFresh(k, b, purpose)
        PROVE  IInv'
    BY <2>2, CallCurrentKeeps, CallFreshKeeps
  <2>3. ASSUME NEW k \in Caller, Continues(k) PROVE IInv'
    BY <2>3, ContinuesKeeps
  <2>4. ASSUME NEW c \in Conn, Open(c) \/ AuthRequired(c) \/ AuthOk(c) \/ AuthInvalid(c)
        PROVE  IInv'
    BY <2>4, SocketEventsKeep
  <2>5. ASSUME NEW c \in Conn, SocketLost(c) \/ AuthTimesOut(c) \/ RequestTimesOut(c)
        PROVE  IInv'
    BY <2>5, FailsKeeps DEF SocketLost, AuthTimesOut, RequestTimesOut
  <2>6. ASSUME NEW c \in Conn, ReconnectDue(c) \/ ReconnectFailed(c) PROVE IInv'
    BY <2>6, ReconnectKeeps
  <2>7. ASSUME NEW c \in Conn, NEW k \in Caller, Result(c, k) PROVE IInv'
    BY <2>7, ResultKeeps
  <2>8. CASE CloseDestination \/ Stop
    BY <2>8, CloseKeeps DEF CloseDestination, Stop, IInv
  <2> QED BY <2>1, <2>2, <2>3, <2>4, <2>5, <2>6, <2>7, <2>8 DEF Next
<1> QED BY <1>1, <1>2, PTL DEF Spec

(* TypeOK, with the limit of pending requests, for every instance.            *)
THEOREM TypeCorrect == Spec => []TypeOK
<1>1. IInv => TypeOK
  BY DEF IInv, TypeOK, Sound, Shape
<1> QED BY <1>1, Inductive, PTL

(* No replaced, closed or stopped connection leaves a socket or a timer       *)
(* behind.                                                                    *)
THEOREM NoOrphans == Spec => []OneSocket
<1>1. IInv => OneSocket
  BY ConnectionAssumption DEF IInv, OneSocket, Sound, Shape
<1> QED BY <1>1, Inductive, PTL

(* No caller waits for an answer that nobody will give.                       *)
THEOREM NoLostCaller == Spec => []CallersTracked
<1>1. IInv => CallersTracked
  BY DEF IInv, CallersTracked, CallersOK, Sound, Shape
<1> QED BY <1>1, Inductive, PTL

(* An attempt is under way exactly while the connection opens or              *)
(* authenticates, and an authentication always has its timer.                 *)
THEOREM AttemptsAreBounded == Spec => []AttemptBounded
<1>1. IInv => AttemptBounded
  BY DEF IInv, AttemptBounded, Sound, Shape
<1> QED BY <1>1, Inductive, PTL

(* A current connection without a socket has its reconnect timer, unless its  *)
(* credentials were refused.                                                  *)
THEOREM AlwaysReconnects == Spec => []ReconnectArmed
<1>1. IInv => ReconnectArmed
  BY DEF IInv, ReconnectArmed, Sound, Shape
<1> QED BY <1>1, Inductive, PTL

(* The evidence last reported agrees with the connection.                     *)
THEOREM EvidenceIsTrue == Spec => []EvidenceMatches
<1>1. IInv => EvidenceMatches
  BY DEF IInv, EvidenceMatches, Sound, Shape
<1> QED BY <1>1, Inductive, PTL

(* All of them together, as the run checks them.                              *)
THEOREM ConnectionsAreSound == Spec => []ConnectionSound
<1>1. OneSocket /\ CallersTracked /\ AttemptBounded /\ ReconnectArmed /\ EvidenceMatches
      => ConnectionSound
  BY DEF ConnectionSound
<1> QED BY <1>1, NoOrphans, NoLostCaller, AttemptsAreBounded, AlwaysReconnects,
           EvidenceIsTrue, PTL
===============================================================================
