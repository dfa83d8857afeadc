----------------------------- MODULE Authentication -----------------------------
(***************************************************************************)
(* The PIN, the login throttle and the Admin sessions                      *)
(* (src/features/auth).  Checking or hashing a PIN is slow and             *)
(* asynchronous, so a login, a PIN change and the operator's reset each    *)
(* begin with what they read and end in one transaction after others ran.  *)
(* Time is a counter of units; it never goes back here.                    *)
(***************************************************************************)
EXTENDS Shared

CONSTANTS
  Pin, Session, Call,
  Policy,        \* [inactivity, absolute] lifetimes operators choose from
  Attempts,      \* guesses in a window: 5
  Window,        \* length of a window: 15 minutes
  TouchAfter,    \* a session in use is written again after this long: 5 minutes
  MaxClock,      \* bound on time
  MaxRevision    \* bound on PIN changes, policy changes and logins

Lifetimes == [inactivity : Nat \ {0}, absolute : Nat \ {0}]
ASSUME AuthAssumption ==
  /\ None \notin Pin /\ Attempts \in Nat \ {0} /\ Window \in Nat \ {0}
  /\ TouchAfter \in Nat \ {0} /\ MaxClock \in Nat /\ MaxRevision \in Nat
  /\ Policy \subseteq {p \in Lifetimes : p.inactivity <= p.absolute}

VARIABLES
  clock,
  credential,  \* admin_credentials: revision 0 before the first PIN
  throttle,    \* login_throttle
  policy,      \* auth_session_settings; the configured lifetimes of the process
               \* while `configured` is FALSE
  sessions,    \* admin_sessions; `pin` and `until` are history: the PIN its
               \* chain of rotations was opened with and the end it had then
  calls,       \* asynchronous calls and what they read before the first await
  guesses      \* history: PINs tried since the last login, and when the first was

authVars == <<clock, credential, throttle, policy, sessions, calls, guesses>>

NoPin == [revision |-> 0, pin |-> None]
Credential == [revision : Nat, pin : Pin \cup {None}]
Throttle == [generation : Nat, started : Nat \cup {None}, count : 0 .. Attempts,
             blocked : Nat \cup {None}]
SessionRow == [state : {"new", "live", "revoked", "pruned"}, revision : Nat, created : Nat,
               used : Nat, expires : Nat, absolute : Nat, pin : Pin \cup {None}, until : Nat]
NewSession == [state |-> "new", revision |-> 0, created |-> 0, used |-> 0, expires |-> 0,
               absolute |-> 0, pin |-> None, until |-> 0]
PendingCall == [kind : {"idle", "login", "change", "reset"}, pin : Pin \cup {None},
                next : Pin \cup {None}, seen : Credential, allowed : BOOLEAN,
                generation : Nat, at : Nat]
Idle == [kind |-> "idle", pin |-> None, next |-> None, seen |-> NoPin, allowed |-> FALSE,
         generation |-> 0, at |-> 0]

AuthTypeOK ==
  /\ clock \in Nat /\ credential \in Credential /\ throttle \in Throttle
  /\ policy \in [configured : BOOLEAN, revision : Nat, inactivity : Nat, absolute : Nat]
  /\ sessions \in [Session -> SessionRow] /\ calls \in [Call -> PendingCall]
  /\ guesses \in [tried : Nat, first : Nat]
  /\ (throttle.started = None) <=> (throttle.count = 0)
  /\ throttle.blocked # None => throttle.count = Attempts

Inherited(p) == [configured |-> FALSE, revision |-> 0, inactivity |-> p.inactivity,
                 absolute |-> p.absolute]
AuthInit ==
  /\ clock = 0 /\ credential = NoPin
  /\ throttle = [generation |-> 0, started |-> None, count |-> 0, blocked |-> None]
  /\ \E p \in Policy : policy = Inherited(p)
  /\ sessions = [s \in Session |-> NewSession]
  /\ calls = [c \in Call |-> Idle]
  /\ guesses = [tried |-> 0, first |-> 0]

-----------------------------------------------------------------------------
(* The throttle *)

WindowOver(t) ==
  \/ t.started = None \/ clock >= t.started + Window
  \/ t.blocked # None /\ clock >= t.blocked
\* As a bug: a window that is over leaves its block behind.
InWindowBlocked(t) ==
  IF WindowOver(t) THEN [t EXCEPT !.started = clock, !.count = 0] ELSE t
InWindow(t) ==
  IF WindowOver(t) THEN [t EXCEPT !.started = clock, !.count = 0, !.blocked = None] ELSE t

\* As a bug: the block begins one guess late.
CountedLate(t) ==
  [t EXCEPT !.count = Earlier(@ + 1, Attempts),
            !.blocked = IF t.count >= Attempts THEN t.started + Window ELSE None]
Counted(t) ==
  [t EXCEPT !.count = Earlier(@ + 1, Attempts),
            !.blocked = IF t.count + 1 >= Attempts THEN t.started + Window ELSE None]
Allowed(t) == t.blocked = None
Reserved(t) == IF Allowed(InWindow(t)) THEN Counted(InWindow(t)) ELSE InWindow(t)
ThrottleReset(t) ==
  [generation |-> t.generation + 1, started |-> None, count |-> 0, blocked |-> None]

-----------------------------------------------------------------------------
(* Sessions *)

AbsoluteEnd(s) ==
  IF policy.configured THEN Earlier(s.absolute, s.created + policy.absolute) ELSE s.absolute
End(s) ==
  IF policy.configured
  THEN Earlier(s.expires, Earlier(AbsoluteEnd(s), s.used + policy.inactivity)) ELSE s.expires
Active(s) ==
  /\ s.state = "live" /\ s.revision = credential.revision
  /\ clock < End(s) /\ clock < AbsoluteEnd(s)
ActiveSession(x) == Active(sessions[x])

Made(at, cap, pin, until) ==
  [state |-> "live", revision |-> credential.revision, created |-> at, used |-> at,
   expires |-> Earlier(at + policy.inactivity, cap), absolute |-> cap, pin |-> pin,
   until |-> until]
Revoke(rows, xs) ==
  [x \in Session |-> IF x \in xs /\ rows[x].state = "live"
                     THEN [rows[x] EXCEPT !.state = "revoked"] ELSE rows[x]]
Unopened == {x \in Session : sessions[x].state = "new"}

\* As a bug: only the deadlines an active session is judged by are shortened.
KeptDeadlines(s, p) == s
Limited(s, p) ==
  IF s.state = "live"
  THEN [s EXCEPT !.expires = Earlier(Earlier(@, s.absolute),
                                   Earlier(s.used + p.inactivity, s.created + p.absolute)),
                 !.absolute = Earlier(@, s.created + p.absolute)]
  ELSE s

-----------------------------------------------------------------------------
(* Logging in.  authenticate reserves its guess before the PIN is checked,   *)
(* and opens the session only if credential and throttle are still those of  *)
(* the reservation.                                                          *)

BeginLogin(c, pin) ==
  /\ calls[c] = Idle
  /\ throttle' = Reserved(throttle)
  /\ calls' = [calls EXCEPT ![c] =
       [Idle EXCEPT !.kind = "login", !.pin = pin, !.seen = credential, !.at = clock,
                    !.allowed = Allowed(InWindow(throttle)), !.generation = throttle.generation]]
  /\ guesses' = IF ~Allowed(InWindow(throttle)) THEN guesses
                ELSE [tried |-> guesses.tried + 1,
                      first |-> IF guesses.tried = 0 THEN clock ELSE guesses.first]
  /\ UNCHANGED <<clock, credential, policy, sessions>>

Matches(call) == call.allowed /\ call.seen # NoPin /\ call.pin = call.seen.pin

StillProven(call) ==
  /\ Matches(call)
  /\ throttle.generation = call.generation /\ credential.revision = call.seen.revision

EndLogin(c, x, old) ==
  LET call == calls[c]
      end == call.at + policy.absolute
  IN  /\ call.kind = "login" /\ StillProven(call) /\ x \in Unopened
      /\ sessions' = [Revoke(sessions, {old}) EXCEPT
                        ![x] = Made(call.at, end, call.pin, end)]
      /\ throttle' = ThrottleReset(throttle) /\ guesses' = [tried |-> 0, first |-> 0]
      /\ calls' = [calls EXCEPT ![c] = Idle]
      /\ UNCHANGED <<clock, credential, policy>>
FailLogin(c) ==
  /\ calls[c].kind = "login" /\ ~StillProven(calls[c])
  /\ calls' = [calls EXCEPT ![c] = Idle]
  /\ UNCHANGED <<clock, credential, throttle, policy, sessions, guesses>>

-----------------------------------------------------------------------------
(* The PIN.  Every change of it revokes every session. *)

Replaced(pin) ==
  /\ credential' = [revision |-> credential.revision + 1, pin |-> pin]
  /\ sessions' = Revoke(sessions, Session)
  /\ UNCHANGED <<clock, throttle, policy, guesses>>

SetPin(pin) == credential = NoPin /\ Replaced(pin) /\ UNCHANGED calls

BeginChange(c, pin, next) ==
  /\ calls[c] = Idle /\ credential # NoPin
  /\ calls' = [calls EXCEPT ![c] = [Idle EXCEPT !.kind = "change", !.pin = pin, !.next = next,
                                                !.seen = credential]]
  /\ UNCHANGED <<clock, credential, throttle, policy, sessions, guesses>>
BeginReset(c, next) ==
  /\ calls[c] = Idle
  /\ calls' = [calls EXCEPT ![c] = [Idle EXCEPT !.kind = "reset", !.next = next,
                                                !.seen = credential]]
  /\ UNCHANGED <<clock, credential, throttle, policy, sessions, guesses>>

Accepted(call) ==
  /\ call.kind = "change" => call.pin = call.seen.pin
  /\ call.seen.revision = credential.revision
EndChange(c) ==
  /\ calls[c].kind \in {"change", "reset"}
  /\ calls' = [calls EXCEPT ![c] = Idle]
  /\ IF Accepted(calls[c]) THEN Replaced(calls[c].next)
     ELSE UNCHANGED <<clock, credential, throttle, policy, sessions, guesses>>

-----------------------------------------------------------------------------
(* Sessions *)

\* authenticateSession: a session in use is written again, but not each time.
Due(s) ==
  4 * (clock - s.used) >= Earlier(4 * TouchAfter, Earlier(policy.inactivity, End(s) - s.used))
AuthenticateSession(x) ==
  /\ ActiveSession(x) /\ Due(sessions[x])
  /\ AbsoluteEnd(sessions[x]) > clock
  /\ sessions' = [sessions EXCEPT ![x].used = clock,
                    ![x].expires = Earlier(clock + policy.inactivity, AbsoluteEnd(sessions[x]))]
  /\ UNCHANGED <<clock, credential, throttle, policy, calls, guesses>>

RevokeSessions(xs) ==
  /\ sessions' = Revoke(sessions, xs)
  /\ UNCHANGED <<clock, credential, throttle, policy, calls, guesses>>
RevokeSessionById(x) == ActiveSession(x) /\ RevokeSessions({x})
RevokeByToken(x) == sessions[x].state = "live" /\ RevokeSessions({x})
RevokeAll == RevokeSessions(Session)

RotationEnd(s) == Earlier(clock + policy.absolute, AbsoluteEnd(s))
RotateForWorkspace(x, y) ==
  /\ ActiveSession(x) /\ y \in Unopened
  /\ sessions' = [Revoke(sessions, Session) EXCEPT
       ![y] = Made(clock, RotationEnd(sessions[x]), sessions[x].pin, sessions[x].until)]
  /\ UNCHANGED <<clock, credential, throttle, policy, calls, guesses>>

Prunable(s) == \/ s.state = "revoked"
               \/ s.state = "live" /\ (s.expires <= clock \/ s.absolute <= clock)
PruneSessions ==
  /\ sessions' = [x \in Session |-> IF Prunable(sessions[x])
                                    THEN [NewSession EXCEPT !.state = "pruned"] ELSE sessions[x]]
  /\ UNCHANGED <<clock, credential, throttle, policy, calls, guesses>>

UpdateSessionPolicy(p) ==
  /\ policy' = [configured |-> TRUE, revision |-> policy.revision + 1,
                inactivity |-> p.inactivity, absolute |-> p.absolute]
  /\ ~(policy.configured /\ policy.inactivity = p.inactivity /\ policy.absolute = p.absolute)
  /\ sessions' = [x \in Session |-> Limited(sessions[x], p)]
  /\ UNCHANGED <<clock, credential, throttle, calls, guesses>>

-----------------------------------------------------------------------------
Wait == clock' = clock + 1
        /\ UNCHANGED <<credential, throttle, policy, sessions, calls, guesses>>

\* The server starts again, perhaps with other configured lifetimes; the operator's
\* command is a process of its own and dies by itself.
AuthRestart(p) ==
  /\ calls' = [c \in Call |-> IF calls[c].kind = "reset" THEN calls[c] ELSE Idle]
  /\ policy' = IF policy.configured THEN policy ELSE Inherited(p)
  /\ UNCHANGED <<clock, credential, throttle, sessions, guesses>>
AbandonReset(c) ==
  /\ calls[c].kind = "reset" /\ calls' = [calls EXCEPT ![c] = Idle]
  /\ UNCHANGED <<clock, credential, throttle, policy, sessions, guesses>>

AuthNext ==
  \/ \E c \in Call, pin \in Pin : BeginLogin(c, pin)
  \/ \E c \in Call, x \in Session, old \in Session \cup {None} : EndLogin(c, x, old)
  \/ \E c \in Call : FailLogin(c) \/ EndChange(c) \/ AbandonReset(c)
  \/ \E c \in Call, pin, next \in Pin : credential.revision < MaxRevision /\ BeginChange(c, pin, next)
  \/ \E c \in Call, next \in Pin : credential.revision < MaxRevision /\ BeginReset(c, next)
  \/ \E pin \in Pin : SetPin(pin)
  \/ \E x \in Session : AuthenticateSession(x) \/ RevokeSessionById(x) \/ RevokeByToken(x)
  \/ \E x, y \in Session : RotateForWorkspace(x, y)
  \/ RevokeAll \/ PruneSessions
  \/ \E p \in Policy : policy.revision < MaxRevision /\ UpdateSessionPolicy(p)
  \/ \E p \in Policy : AuthRestart(p)
  \/ clock < MaxClock /\ Wait

AuthSpec == AuthInit /\ [][AuthNext]_authVars

-----------------------------------------------------------------------------
\* Though guesses are checked in parallel and slowly, the PINs tried since the
\* last login are no more than a window's worth for every window begun since the
\* first of them (reserveAttempt counts a guess before it is checked).
GuessesBounded ==
  guesses.tried <= Attempts * (1 + (clock - guesses.first) \div Window)

\* A session that counts as active was opened, at the start of its chain of
\* rotations, by someone who knew the PIN of now, and no rotation or change of
\* policy takes it past the end it had then (authenticate, rotateForWorkspace).
SessionsProven ==
  \A x \in Session : ActiveSession(x) =>
    /\ sessions[x].pin = credential.pin
    /\ clock < sessions[x].until

\* The deadlines stored with each row already are the deadlines the policy sets:
\* the list of sessions, which only reads the rows, shows the sessions a request
\* would be served with (listActiveSessionSummaries, activeSession).
ListedIsActive ==
  \A x \in Session :
    LET s == sessions[x] IN
    /\ s.state = "live" /\ s.revision = credential.revision
    /\ clock < s.expires /\ clock < s.absolute
    => ActiveSession(x)

SessionsSound == SessionsProven /\ ListedIsActive

\* The throttle bounds the guesses, and the sessions are those the PIN of now opened.
AuthenticationSound == GuessesBounded /\ SessionsSound

\* A session that expired or was revoked is never active again, not even when a
\* shorter policy is made longer (limitSessionLifetimes).
NeverRevived ==
  \A x \in Session : sessions[x].state # "new" /\ ~ActiveSession(x) => ~ActiveSession(x)'

\* In no step of the authentication service is an ended session active again.
SessionsFinal == [][NeverRevived]_authVars
=============================================================================
