----------------------------- MODULE ServicesProofs -----------------------------
(***************************************************************************)
(* What is proved of the services of the console: of each one the types,   *)
(* and that the invariants and the action properties of its module hold in *)
(* every behaviour, for every value of the constants; and of all of them   *)
(* next to one another.                                                    *)
(***************************************************************************)
EXTENDS Services, TLAPS

-----------------------------------------------------------------------------
(* AUTHENTICATION.  The invariant says of which credential a pending call and a live *)
(* row can be, and that the guesses since the first fill whole windows.              *)

(* A revision of the credential has one PIN; what a call has read is an older  *)
(* revision, or the credential of now.                                         *)
PinOfRevision == credential.revision = 0 <=> credential = NoPin
CallsAreOld ==
  \A c \in Call :
    /\ calls[c].seen.revision <= credential.revision
    /\ calls[c].seen.revision = credential.revision => calls[c].seen = credential
(* A block begins with the last guess of a window and ends with the window.    *)
ThrottleOK ==
  /\ throttle.started # None => throttle.started <= clock
  /\ (throttle.blocked = None) <=> throttle.count < Attempts
  /\ throttle.blocked # None => throttle.blocked = throttle.started + Window
(* The guesses fill k whole windows since the first, and the present one.      *)
GuessesOK ==
  /\ guesses.first <= clock
  /\ (guesses.tried = 0) <=> throttle.started = None
  /\ throttle.started # None =>
       \E k \in Nat :
         /\ throttle.started >= guesses.first + k * Window
         /\ guesses.tried <= k * Attempts + throttle.count
(* A live opened carries the PIN of now and deadlines no later than it was opened *)
(* with, nor than a configured policy sets.                                    *)
LiveOK(s) ==
  /\ s.revision = credential.revision /\ s.pin = credential.pin
  /\ s.expires <= s.absolute /\ s.absolute <= s.until
  /\ policy.configured =>
       s.absolute <= s.created + policy.absolute /\ s.expires <= s.used + policy.inactivity
SessionsLive == \A x \in Session : sessions[x].state = "live" => LiveOK(sessions[x])

AuthInv == AuthTypeOK /\ PinOfRevision /\ CallsAreOld /\ ThrottleOK /\ GuessesOK /\ SessionsLive

LEMMA LimitedRow ==
  ASSUME NEW s \in SessionRow, NEW p \in Policy
  PROVE  LET n == Limited(s, p) IN
         /\ n \in SessionRow /\ n.state = s.state
         /\ s.state # "live" => n = s
         /\ s.state = "live" =>
              /\ n.revision = s.revision /\ n.pin = s.pin /\ n.until = s.until
              /\ n.expires <= n.absolute /\ n.absolute <= s.absolute /\ n.expires <= s.expires
              /\ n.absolute <= n.created + p.absolute /\ n.expires <= n.used + p.inactivity
<1>1. p.inactivity \in Nat /\ p.absolute \in Nat
  BY AuthAssumption DEF Lifetimes
<1>2. s.created \in Nat /\ s.used \in Nat /\ s.absolute \in Nat /\ s.expires \in Nat
  BY DEF SessionRow
<1>3. CASE s.state # "live"
  BY <1>3 DEF Limited
<1>4. CASE s.state = "live"
  <2> DEFINE a == Earlier(s.absolute, s.created + p.absolute)
             e == Earlier(Earlier(s.expires, s.absolute),
                          Earlier(s.used + p.inactivity, s.created + p.absolute))
  <2>1. Limited(s, p) = [s EXCEPT !.expires = e, !.absolute = a]
    BY <1>4 DEF Limited, SessionRow
  <2>2. /\ a \in Nat /\ e \in Nat /\ e <= a /\ a <= s.absolute /\ e <= s.expires
        /\ a <= s.created + p.absolute /\ e <= s.used + p.inactivity
    BY <1>1, <1>2 DEF Earlier
  <2> HIDE DEF a, e
  <2>3. LET n == [s EXCEPT !.expires = e, !.absolute = a]
        IN  /\ n \in SessionRow /\ n.state = s.state /\ n.revision = s.revision
            /\ n.pin = s.pin /\ n.until = s.until /\ n.expires = e /\ n.absolute = a
            /\ n.created = s.created /\ n.used = s.used
    BY <2>2 DEF SessionRow
  <2> QED
    BY <1>4, <2>1, <2>2, <2>3
<1> QED
  BY <1>3, <1>4

LEMMA TouchedRow ==
  ASSUME AuthTypeOK, NEW s \in SessionRow
  PROVE  /\ AbsoluteEnd(s) \in Nat /\ AbsoluteEnd(s) <= s.absolute
         /\ LET n == [s EXCEPT !.used = clock,
                              !.expires = Earlier(clock + policy.inactivity, AbsoluteEnd(s))]
            IN  /\ n \in SessionRow /\ n.state = s.state
<1>1. clock \in Nat /\ policy.inactivity \in Nat /\ policy.absolute \in Nat
  BY DEF AuthTypeOK
<1>2. s.created \in Nat /\ s.absolute \in Nat
  BY DEF SessionRow
<1>3. AbsoluteEnd(s) \in Nat /\ AbsoluteEnd(s) <= s.absolute
  BY <1>1, <1>2 DEF AbsoluteEnd, Earlier
<1> DEFINE e == Earlier(clock + policy.inactivity, AbsoluteEnd(s))
<1>4. e \in Nat
  <2> DEFINE end == AbsoluteEnd(s)
  <2> HIDE DEF end
  <2>1. Earlier(clock + policy.inactivity, end) \in Nat
    BY <1>1, <1>3 DEF Earlier, end
  <2> QED
    BY <2>1 DEF end
<1> HIDE DEF e
<1>5. LET n == [s EXCEPT !.used = clock, !.expires = e] IN n \in SessionRow /\ n.state = s.state
  BY <1>1, <1>4 DEF SessionRow
<1> QED
  BY <1>3, <1>5 DEF e

LEMMA LoginCall ==
  ASSUME AuthTypeOK, NEW pin \in Pin, NEW allowed \in BOOLEAN
  PROVE  [Idle EXCEPT !.kind = "login", !.pin = pin, !.seen = credential, !.at = clock,
                      !.allowed = allowed, !.generation = throttle.generation] \in PendingCall
<1>1. /\ credential \in Credential /\ clock \in Nat /\ throttle.generation \in Nat
  BY DEF AuthTypeOK, Throttle
<1> QED
  BY <1>1 DEF PendingCall, Idle

LEMMA CountedThrottle ==
  ASSUME NEW w \in Throttle, w.started \in Nat, w.count < Attempts
  PROVE  LET r == Counted(w) IN
         /\ r \in Throttle /\ r.started # None /\ r.count # 0
         /\ r.blocked # None => r.count = Attempts
<1> DEFINE n == Earlier(w.count + 1, Attempts)
           b == IF w.count + 1 >= Attempts THEN w.started + Window ELSE None
<1>1. w.count \in Nat /\ w.started # None
  BY AuthAssumption, NoneAssumption DEF Throttle
<1>2. n \in 0 .. Attempts /\ n # 0 /\ b \in Nat \cup {None} /\ (b # None => n = Attempts)
  BY <1>1, AuthAssumption DEF Earlier
<1>3. Counted(w) = [w EXCEPT !.count = n, !.blocked = b]
  BY DEF Counted, Throttle
<1> HIDE DEF n, b
<1> QED
  BY <1>1, <1>2, <1>3 DEF Throttle

LEMMA ReservedThrottle ==
  ASSUME AuthTypeOK, ThrottleOK
  PROVE  LET r == Reserved(throttle) IN
         /\ r \in Throttle /\ r.started # None /\ r.count # 0
         /\ r.blocked # None => r.count = Attempts
<1> DEFINE w == InWindow(throttle)
<1>1. clock \in Nat /\ throttle \in Throttle
  BY DEF AuthTypeOK
<1>2. CASE WindowOver(throttle)
  <2>1. w = [throttle EXCEPT !.started = clock, !.count = 0, !.blocked = None]
    BY <1>2 DEF InWindow
  <2>2. 0 \in 0 .. Attempts
    BY AuthAssumption
  <2>3. w \in Throttle /\ w.started = clock /\ w.count = 0 /\ w.blocked = None
    BY <1>1, <2>1, <2>2 DEF Throttle
  <2> HIDE DEF w
  <2>4. Reserved(throttle) = Counted(w)
    BY <2>3 DEF Reserved, Allowed, w
  <2>5. w.count < Attempts
    BY <2>3, AuthAssumption
  <2> QED
    BY <1>1, <2>3, <2>4, <2>5, CountedThrottle
<1>3. CASE ~WindowOver(throttle)
  <2>1. w = throttle /\ throttle.started # None /\ throttle.count # 0
    BY <1>3 DEF InWindow, WindowOver, AuthTypeOK
  <2>2. CASE throttle.blocked # None
    BY <1>1, <2>1, <2>2 DEF Reserved, Allowed, AuthTypeOK
  <2>3. CASE throttle.blocked = None
    <3>1. throttle.count < Attempts /\ throttle.started \in Nat
      BY <2>1, <2>3 DEF ThrottleOK, AuthTypeOK, Throttle
    <3>2. Reserved(throttle) = Counted(throttle)
      BY <2>1, <2>3 DEF Reserved, Allowed
    <3> QED
      BY <1>1, <3>1, <3>2, CountedThrottle
  <2> QED
    BY <2>2, <2>3
<1> QED
  BY <1>2, <1>3

LEMMA BeginLoginTyped ==
  ASSUME AuthTypeOK, ThrottleOK, NEW c \in Call, NEW pin \in Pin, BeginLogin(c, pin)
  PROVE  AuthTypeOK'
<1> DEFINE allowed == Allowed(InWindow(throttle))
           call == [Idle EXCEPT !.kind = "login", !.pin = pin, !.seen = credential, !.at = clock,
                                !.allowed = allowed, !.generation = throttle.generation]
<1>1. /\ throttle' \in Throttle /\ throttle'.started # None /\ throttle'.count # 0
      /\ throttle'.blocked # None => throttle'.count = Attempts
  BY ReservedThrottle DEF BeginLogin
<1>2. call \in PendingCall
  <2>1. allowed \in BOOLEAN
    BY DEF Allowed
  <2> HIDE DEF allowed
  <2> QED
    BY <2>1, LoginCall
<1>3. calls' = [calls EXCEPT ![c] = call]
  BY DEF BeginLogin
<1> HIDE DEF call
<1>4. calls' \in [Call -> PendingCall]
  BY <1>2, <1>3 DEF AuthTypeOK
<1>5. guesses' \in [tried : Nat, first : Nat]
  BY DEF AuthTypeOK, BeginLogin
<1> QED
  BY <1>1, <1>4, <1>5 DEF AuthTypeOK, BeginLogin

LEMMA AuthenticateTyped ==
  ASSUME AuthTypeOK, NEW x \in Session, AuthenticateSession(x)
  PROVE  AuthTypeOK'
<1> DEFINE opened == [sessions[x] EXCEPT !.used = clock,
                     !.expires = Earlier(clock + policy.inactivity, AbsoluteEnd(sessions[x]))]
<1>1. opened \in SessionRow
  BY TouchedRow DEF AuthTypeOK
<1>2. sessions' = [sessions EXCEPT ![x] = opened]
  BY DEF AuthenticateSession
<1> HIDE DEF opened
<1>3. sessions' \in [Session -> SessionRow]
  BY <1>1, <1>2 DEF AuthTypeOK
<1> QED
  BY <1>3 DEF AuthTypeOK, AuthenticateSession

LEMMA UpdatePolicyTyped ==
  ASSUME AuthTypeOK, NEW p \in Policy, UpdateSessionPolicy(p)
  PROVE  AuthTypeOK'
<1>1. p.inactivity \in Nat /\ p.absolute \in Nat
  BY AuthAssumption DEF Lifetimes
<1>2. \A s \in SessionRow : Limited(s, p) \in SessionRow
  BY LimitedRow
<1>3. sessions' \in [Session -> SessionRow]
  BY <1>2 DEF UpdateSessionPolicy, AuthTypeOK
<1>4. policy.revision + 1 \in Nat
  BY DEF AuthTypeOK
<1>5. policy' \in [configured : BOOLEAN, revision : Nat, inactivity : Nat, absolute : Nat]
  BY <1>1, <1>4 DEF UpdateSessionPolicy
<1> QED
  BY <1>3, <1>5 DEF UpdateSessionPolicy, AuthTypeOK

LEMMA RevokedRows ==
  ASSUME NEW rows \in [Session -> SessionRow], NEW xs
  PROVE  Revoke(rows, xs) \in [Session -> SessionRow]
<1>1. \A x \in Session : [rows[x] EXCEPT !.state = "revoked"] \in SessionRow
  BY DEF SessionRow
<1> QED
  BY <1>1 DEF Revoke

LEMMA MadeRow ==
  ASSUME AuthTypeOK, NEW at \in Nat, NEW cap \in Nat, NEW pin \in Pin \cup {None}, NEW until \in Nat
  PROVE  Made(at, cap, pin, until) \in SessionRow
<1>1. credential.revision \in Nat /\ policy.inactivity \in Nat
  BY DEF AuthTypeOK, Credential
<1> DEFINE e == Earlier(at + policy.inactivity, cap)
<1>2. e \in Nat
  BY <1>1 DEF Earlier
<1> HIDE DEF e
<1> QED
  BY <1>1, <1>2 DEF Made, SessionRow, e

LEMMA EndLoginTyped ==
  ASSUME AuthTypeOK, NEW c \in Call, NEW x \in Session, NEW old, EndLogin(c, x, old)
  PROVE  AuthTypeOK'
<1> DEFINE end == calls[c].at + policy.absolute
           opened == Made(calls[c].at, end, calls[c].pin, end)
<1>1. calls[c].at \in Nat /\ calls[c].pin \in Pin \cup {None} /\ policy.absolute \in Nat
  BY DEF AuthTypeOK, PendingCall
<1>2. opened \in SessionRow
  <2>1. end \in Nat
    BY <1>1
  <2> HIDE DEF end
  <2> QED
    BY <1>1, <2>1, MadeRow
<1>3. sessions' = [Revoke(sessions, {old}) EXCEPT ![x] = opened]
  BY DEF EndLogin
<1>4. Revoke(sessions, {old}) \in [Session -> SessionRow]
  BY RevokedRows DEF AuthTypeOK
<1> HIDE DEF opened
<1>5. sessions' \in [Session -> SessionRow]
  BY <1>2, <1>3, <1>4
<1>6. throttle' \in Throttle /\ throttle'.started = None /\ throttle'.count = 0
      /\ throttle'.blocked = None
  BY AuthAssumption DEF EndLogin, ThrottleReset, AuthTypeOK, Throttle
<1>7. Idle \in PendingCall
  BY DEF Idle, NoPin, PendingCall, Credential
<1>8. calls' \in [Call -> PendingCall] /\ guesses' \in [tried : Nat, first : Nat]
  BY <1>7 DEF EndLogin, AuthTypeOK
<1> QED
  BY <1>5, <1>6, <1>8 DEF EndLogin, AuthTypeOK

LEMMA EndChangeTyped ==
  ASSUME AuthTypeOK, NEW c \in Call, EndChange(c)
  PROVE  AuthTypeOK'
<1>1. Idle \in PendingCall
  BY DEF Idle, NoPin, PendingCall, Credential
<1>2. calls' \in [Call -> PendingCall]
  BY <1>1 DEF EndChange, AuthTypeOK
<1>3. Revoke(sessions, Session) \in [Session -> SessionRow]
  BY RevokedRows DEF AuthTypeOK
<1>4. [revision |-> credential.revision + 1, pin |-> calls[c].next] \in Credential
  BY DEF AuthTypeOK, Credential, PendingCall
<1>5. CASE Accepted(calls[c])
  BY <1>2, <1>3, <1>4, <1>5 DEF EndChange, Replaced, AuthTypeOK
<1>6. CASE ~Accepted(calls[c])
  BY <1>2, <1>6 DEF EndChange, AuthTypeOK
<1> QED
  BY <1>5, <1>6

LEMMA RevokeTyped ==
  ASSUME AuthTypeOK, NEW xs, RevokeSessions(xs)
  PROVE  AuthTypeOK'
BY RevokedRows DEF AuthTypeOK, RevokeSessions

LEMMA RotateTyped ==
  ASSUME AuthTypeOK, NEW x \in Session, NEW y \in Session, RotateForWorkspace(x, y)
  PROVE  AuthTypeOK'
<1> DEFINE opened == Made(clock, RotationEnd(sessions[x]), sessions[x].pin, sessions[x].until)
<1>1. sessions[x] \in SessionRow /\ clock \in Nat /\ policy.absolute \in Nat
  BY DEF AuthTypeOK
<1>2. sessions[x].pin \in Pin \cup {None} /\ sessions[x].until \in Nat
  BY <1>1 DEF SessionRow
<1>3. RotationEnd(sessions[x]) \in Nat
  <2> DEFINE end == AbsoluteEnd(sessions[x])
  <2>1. end \in Nat
    BY <1>1, TouchedRow
  <2> HIDE DEF end
  <2>2. Earlier(clock + policy.absolute, end) \in Nat
    BY <1>1, <2>1 DEF Earlier
  <2> QED
    BY <2>2 DEF RotationEnd, end
<1>4. opened \in SessionRow
  BY <1>1, <1>2, <1>3, MadeRow
<1>5. Revoke(sessions, Session) \in [Session -> SessionRow]
  BY RevokedRows DEF AuthTypeOK
<1>6. sessions' = [Revoke(sessions, Session) EXCEPT ![y] = opened]
  BY DEF RotateForWorkspace
<1> HIDE DEF opened
<1>7. sessions' \in [Session -> SessionRow]
  BY <1>4, <1>5, <1>6
<1> QED
  BY <1>7 DEF AuthTypeOK, RotateForWorkspace

LEMMA BeginLoginOK ==
  ASSUME AuthInv, NEW c \in Call, NEW pin \in Pin, BeginLogin(c, pin)
  PROVE  AuthInv'
<1> USE DEF AuthInv, BeginLogin, Idle, Reserved, Allowed, InWindow, NoPin, Counted,
     WindowOver, Earlier
<1>1. PinOfRevision' /\ SessionsLive'
  BY DEF PinOfRevision, SessionsLive, LiveOK
<1>2. AuthTypeOK'
  BY BeginLoginTyped
<1>3. CallsAreOld'
  BY DEF AuthTypeOK, CallsAreOld, Credential
<1>4. ThrottleOK'
  BY AuthAssumption, NoneAssumption DEF AuthTypeOK, ThrottleOK, Throttle
<1>5. GuessesOK'
  <2>1. CASE throttle.blocked # None /\ ~WindowOver(throttle)
    BY <2>1 DEF BeginLogin, Reserved, Allowed, InWindow, GuessesOK
  <2>2. CASE throttle.blocked = None /\ ~WindowOver(throttle)
    <3>1. throttle.started \in Nat /\ throttle.count \in Nat /\ throttle.count < Attempts
      BY <2>2, NoneAssumption, AuthAssumption DEF WindowOver, ThrottleOK, AuthTypeOK, Throttle
    <3>2. guesses.tried \in Nat \ {0} /\ guesses.first \in Nat
      BY <3>1, NoneAssumption DEF GuessesOK, AuthTypeOK
    <3>3. PICK k \in Nat : /\ throttle.started >= guesses.first + k * Window
                          /\ guesses.tried <= k * Attempts + throttle.count
      BY <3>1, NoneAssumption DEF GuessesOK
    <3>4. /\ throttle'.started = throttle.started /\ throttle'.count = throttle.count + 1
          /\ guesses' = [tried |-> guesses.tried + 1, first |-> guesses.first]
      BY <2>2, <3>1, <3>2, AuthAssumption
         DEF BeginLogin, Reserved, Allowed, InWindow, Counted, Earlier, AuthTypeOK, Throttle
    <3>5. guesses.tried + 1 <= k * Attempts + (throttle.count + 1)
      BY <3>1, <3>2, <3>3, AuthAssumption
    <3>6. guesses.tried + 1 # 0
      BY <3>2
    <3> QED
      BY <3>1, <3>3, <3>4, <3>5, <3>6, NoneAssumption DEF GuessesOK, BeginLogin
  <2>3. CASE WindowOver(throttle)
    <3>1. /\ throttle'.started = clock /\ throttle'.count = 1
          /\ guesses' = [tried |-> guesses.tried + 1,
                         first |-> IF guesses.tried = 0 THEN clock ELSE guesses.first]
      BY <2>3, AuthAssumption
         DEF BeginLogin, Reserved, Allowed, InWindow, Counted, Earlier, AuthTypeOK, Throttle
    <3>2. clock \in Nat /\ guesses.tried \in Nat /\ guesses.first \in Nat
          /\ throttle.count \in Nat /\ throttle.count <= Attempts
      BY AuthAssumption DEF AuthTypeOK, Throttle
    <3>3. CASE guesses.tried = 0
      <4>1. clock >= clock + 0 * Window /\ 1 <= 0 * Attempts + 1
        BY <3>2, AuthAssumption
      <4> QED
        BY <3>1, <3>2, <3>3, <4>1, NoneAssumption DEF GuessesOK, BeginLogin
    <3>4. CASE guesses.tried # 0
      <4>1. throttle.started \in Nat /\ clock >= throttle.started + Window
        BY <2>3, <3>4, NoneAssumption, AuthAssumption
           DEF GuessesOK, ThrottleOK, WindowOver, AuthTypeOK, Throttle
      <4>2. PICK k \in Nat : /\ throttle.started >= guesses.first + k * Window
                            /\ guesses.tried <= k * Attempts + throttle.count
        BY <4>1, NoneAssumption DEF GuessesOK
      <4>3. /\ k + 1 \in Nat /\ (k + 1) * Window = k * Window + Window
            /\ (k + 1) * Attempts = k * Attempts + Attempts
            /\ k * Window \in Nat /\ k * Attempts \in Nat
        BY AuthAssumption
      <4>4. clock >= guesses.first + (k + 1) * Window
        BY <3>2, <4>1, <4>2, <4>3, AuthAssumption
      <4>5. guesses.tried + 1 <= (k + 1) * Attempts + 1
        BY <3>2, <4>2, <4>3, AuthAssumption
      <4>6. guesses.tried + 1 # 0 /\ clock # None
        BY <3>2, NoneAssumption
      <4> QED
        BY <3>1, <3>4, <4>3, <4>4, <4>5, <4>6 DEF GuessesOK, BeginLogin
    <3> QED
      BY <3>3, <3>4
  <2> QED
    BY <2>1, <2>2, <2>3
<1> QED
  BY <1>1, <1>2, <1>3, <1>4, <1>5 DEF AuthInv

LEMMA EndLoginOK ==
  ASSUME AuthInv, NEW c \in Call, NEW x \in Session, NEW old, EndLogin(c, x, old)
  PROVE  AuthInv'
<1> USE DEF AuthInv, EndLogin, StillProven, Unopened, Revoke, Made, ThrottleReset, Idle,
     Matches, Earlier, NoPin
<1>1. PinOfRevision'
  BY DEF PinOfRevision
<1>2. AuthTypeOK'
  BY EndLoginTyped
<1>3. CallsAreOld'
  BY DEF AuthTypeOK, PinOfRevision, CallsAreOld, Credential
<1>4. ThrottleOK'
  BY AuthAssumption DEF ThrottleOK
<1>5. GuessesOK'
  BY DEF AuthTypeOK, GuessesOK
<1>6. SessionsLive'
  BY DEF AuthTypeOK, CallsAreOld, SessionsLive, SessionRow, PendingCall, LiveOK
<1> QED
  BY <1>1, <1>2, <1>3, <1>4, <1>5, <1>6 DEF AuthInv

LEMMA FailLoginOK ==
  ASSUME AuthInv, NEW c \in Call, FailLogin(c)
  PROVE  AuthInv'
<1> USE DEF AuthInv, FailLogin, StillProven, Idle, Matches, NoPin
<1>1. PinOfRevision' /\ ThrottleOK' /\ GuessesOK' /\ SessionsLive'
  BY DEF PinOfRevision, ThrottleOK, GuessesOK, SessionsLive, LiveOK
<1>2. AuthTypeOK'
  BY DEF AuthTypeOK, Credential, PendingCall
<1>3. CallsAreOld'
  BY DEF AuthTypeOK, PinOfRevision, CallsAreOld, Credential
<1> QED
  BY <1>1, <1>2, <1>3 DEF AuthInv

LEMMA SetPinOK ==
  ASSUME AuthInv, NEW pin \in Pin, SetPin(pin)
  PROVE  AuthInv'
<1> USE DEF AuthInv, SetPin, NoPin, Replaced, Revoke
<1>1. ThrottleOK' /\ GuessesOK'
  BY DEF ThrottleOK, GuessesOK
<1>2. AuthTypeOK'
  BY DEF AuthTypeOK, Credential, SessionRow
<1>3. PinOfRevision'
  BY DEF PinOfRevision
<1>4. CallsAreOld'
  BY DEF AuthTypeOK, CallsAreOld, Credential, PendingCall
<1>5. SessionsLive'
  BY DEF SessionsLive
<1> QED
  BY <1>1, <1>2, <1>3, <1>4, <1>5 DEF AuthInv

LEMMA BeginChangeOK ==
  ASSUME AuthInv, NEW c \in Call, NEW pin \in Pin, NEW next \in Pin, BeginChange(c, pin, next)
  PROVE  AuthInv'
<1> USE DEF AuthInv, BeginChange, Idle, NoPin
<1>1. PinOfRevision' /\ ThrottleOK' /\ GuessesOK' /\ SessionsLive'
  BY DEF PinOfRevision, ThrottleOK, GuessesOK, SessionsLive, LiveOK
<1>2. AuthTypeOK'
  BY DEF AuthTypeOK, PendingCall
<1>3. CallsAreOld'
  BY DEF AuthTypeOK, CallsAreOld, Credential
<1> QED
  BY <1>1, <1>2, <1>3 DEF AuthInv

LEMMA BeginResetOK ==
  ASSUME AuthInv, NEW c \in Call, NEW next \in Pin, BeginReset(c, next)
  PROVE  AuthInv'
<1> USE DEF AuthInv, BeginReset, Idle, NoPin
<1>1. PinOfRevision' /\ ThrottleOK' /\ GuessesOK' /\ SessionsLive'
  BY DEF PinOfRevision, ThrottleOK, GuessesOK, SessionsLive, LiveOK
<1>2. AuthTypeOK'
  BY DEF AuthTypeOK, PendingCall
<1>3. CallsAreOld'
  BY DEF AuthTypeOK, CallsAreOld, Credential
<1> QED
  BY <1>1, <1>2, <1>3 DEF AuthInv

LEMMA EndChangeOK ==
  ASSUME AuthInv, NEW c \in Call, EndChange(c)
  PROVE  AuthInv'
<1> USE DEF AuthInv, EndChange, Idle, Accepted, Replaced, NoPin, Revoke
<1>1. ThrottleOK' /\ GuessesOK'
  BY DEF ThrottleOK, GuessesOK
<1>2. AuthTypeOK'
  BY EndChangeTyped
<1>3. PinOfRevision'
  BY DEF AuthTypeOK, PinOfRevision, Credential
<1>4. CallsAreOld'
  BY DEF AuthTypeOK, PinOfRevision, CallsAreOld, Credential, PendingCall
<1>5. SessionsLive'
  BY DEF AuthTypeOK, SessionsLive, SessionRow, LiveOK
<1> QED
  BY <1>1, <1>2, <1>3, <1>4, <1>5 DEF AuthInv

LEMMA AuthenticateSessionOK ==
  ASSUME AuthInv, NEW x \in Session, AuthenticateSession(x)
  PROVE  AuthInv'
<1> USE DEF AuthInv, AuthenticateSession, ActiveSession, Due, AbsoluteEnd, Earlier, Active,
     End
<1>1. PinOfRevision' /\ CallsAreOld' /\ ThrottleOK' /\ GuessesOK'
  BY DEF PinOfRevision, CallsAreOld, ThrottleOK, GuessesOK
<1>2. AuthTypeOK'
  BY AuthenticateTyped
<1>3. SessionsLive'
  BY DEF AuthTypeOK, SessionsLive, SessionRow, LiveOK
<1> QED
  BY <1>1, <1>2, <1>3 DEF AuthInv

LEMMA RevokeSessionsOK ==
  ASSUME AuthInv, NEW xs, RevokeSessions(xs)
  PROVE  AuthInv'
<1> USE DEF AuthInv, RevokeSessions, Revoke
<1>1. PinOfRevision' /\ CallsAreOld' /\ ThrottleOK' /\ GuessesOK'
  BY DEF PinOfRevision, CallsAreOld, ThrottleOK, GuessesOK
<1>2. AuthTypeOK'
  BY RevokeTyped
<1>3. SessionsLive'
  BY DEF SessionsLive, LiveOK
<1> QED
  BY <1>1, <1>2, <1>3 DEF AuthInv

LEMMA RotateForWorkspaceOK ==
  ASSUME AuthInv, NEW x \in Session, NEW y \in Session, RotateForWorkspace(x, y)
  PROVE  AuthInv'
<1> USE DEF AuthInv, RotateForWorkspace, ActiveSession, Unopened, Revoke, Made, RotationEnd,
     Active, Earlier, AbsoluteEnd, End
<1>1. PinOfRevision' /\ CallsAreOld' /\ ThrottleOK' /\ GuessesOK'
  BY DEF PinOfRevision, CallsAreOld, ThrottleOK, GuessesOK
<1>2. AuthTypeOK'
  BY RotateTyped
<1>3. SessionsLive'
  BY DEF AuthTypeOK, SessionsLive, SessionRow, LiveOK
<1> QED
  BY <1>1, <1>2, <1>3 DEF AuthInv

LEMMA PruneSessionsOK ==
  ASSUME AuthInv, PruneSessions
  PROVE  AuthInv'
<1> USE DEF AuthInv, PruneSessions, Prunable, NewSession
<1>1. PinOfRevision' /\ CallsAreOld' /\ ThrottleOK' /\ GuessesOK'
  BY DEF PinOfRevision, CallsAreOld, ThrottleOK, GuessesOK
<1>2. AuthTypeOK'
  BY DEF AuthTypeOK, SessionRow
<1>3. SessionsLive'
  BY DEF SessionsLive, LiveOK
<1> QED
  BY <1>1, <1>2, <1>3 DEF AuthInv

LEMMA UpdateSessionPolicyOK ==
  ASSUME AuthInv, NEW p \in Policy, UpdateSessionPolicy(p)
  PROVE  AuthInv'
<1> USE DEF AuthInv, UpdateSessionPolicy, Limited, Earlier
<1>1. PinOfRevision' /\ CallsAreOld' /\ ThrottleOK' /\ GuessesOK'
  BY DEF PinOfRevision, CallsAreOld, ThrottleOK, GuessesOK
<1>2. AuthTypeOK'
  BY UpdatePolicyTyped
<1>3. SessionsLive'
  <2> SUFFICES ASSUME NEW x \in Session, sessions'[x].state = "live"
               PROVE  LiveOK(sessions[x])'
    BY DEF SessionsLive
  <2> DEFINE s == sessions[x]
             n == Limited(s, p)
  <2>1. s \in SessionRow /\ sessions'[x] = n
    BY DEF AuthTypeOK, UpdateSessionPolicy
  <2>2. /\ n.state = s.state /\ n \in SessionRow
        /\ s.state = "live" =>
              /\ n.revision = s.revision /\ n.pin = s.pin /\ n.until = s.until
              /\ n.expires <= n.absolute /\ n.absolute <= s.absolute
              /\ n.absolute <= n.created + p.absolute /\ n.expires <= n.used + p.inactivity
    BY <2>1, LimitedRow
  <2>3. s.state = "live" /\ s.revision = credential.revision /\ s.pin = credential.pin
        /\ s.absolute <= s.until
    BY <2>1, <2>2 DEF SessionsLive, LiveOK
  <2>4. policy'.absolute = p.absolute /\ policy'.inactivity = p.inactivity /\ credential' = credential
    BY DEF UpdateSessionPolicy
  <2> HIDE DEF n
  <2>5. n.absolute <= s.until
    BY ONLY <2>1, <2>2, <2>3 DEF SessionRow
  <2> HIDE DEF s
  <2> QED
    BY <2>1, <2>2, <2>3, <2>4, <2>5 DEF LiveOK
<1> QED
  BY <1>1, <1>2, <1>3 DEF AuthInv

LEMMA WaitOK ==
  ASSUME AuthInv, Wait
  PROVE  AuthInv'
<1> USE DEF AuthInv, Wait
<1>1. PinOfRevision' /\ CallsAreOld' /\ SessionsLive'
  BY DEF PinOfRevision, CallsAreOld, SessionsLive, LiveOK
<1>2. AuthTypeOK'
  BY DEF AuthTypeOK
<1>3. ThrottleOK'
  BY DEF AuthTypeOK, ThrottleOK, Throttle
<1>4. GuessesOK'
  BY DEF AuthTypeOK, GuessesOK
<1> QED
  BY <1>1, <1>2, <1>3, <1>4 DEF AuthInv

LEMMA AuthRestartOK ==
  ASSUME AuthInv, NEW p \in Policy, AuthRestart(p)
  PROVE  AuthInv'
<1> USE DEF AuthInv, AuthRestart, Idle, Inherited, NoPin
<1>1. PinOfRevision' /\ ThrottleOK' /\ GuessesOK'
  BY DEF PinOfRevision, ThrottleOK, GuessesOK
<1>2. AuthTypeOK'
  <2>1. p.inactivity \in Nat /\ p.absolute \in Nat
    BY AuthAssumption DEF Lifetimes
  <2>2. policy' \in [configured : BOOLEAN, revision : Nat, inactivity : Nat, absolute : Nat]
    BY <2>1 DEF AuthRestart, Inherited, AuthTypeOK
  <2>3. calls' \in [Call -> PendingCall]
    BY DEF AuthRestart, AuthTypeOK, PendingCall, Credential, Idle, NoPin
  <2> QED
    BY <2>2, <2>3 DEF AuthRestart, AuthTypeOK
<1>3. CallsAreOld'
  BY DEF AuthTypeOK, PinOfRevision, CallsAreOld, Credential
<1>4. SessionsLive'
  BY DEF SessionsLive, LiveOK
<1> QED
  BY <1>1, <1>2, <1>3, <1>4 DEF AuthInv

LEMMA AbandonResetOK ==
  ASSUME AuthInv, NEW c \in Call, AbandonReset(c)
  PROVE  AuthInv'
<1> USE DEF AuthInv, AbandonReset, Idle, NoPin
<1>1. PinOfRevision' /\ ThrottleOK' /\ GuessesOK' /\ SessionsLive'
  BY DEF PinOfRevision, ThrottleOK, GuessesOK, SessionsLive, LiveOK
<1>2. AuthTypeOK'
  BY DEF AuthTypeOK, Credential, PendingCall
<1>3. CallsAreOld'
  BY DEF AuthTypeOK, PinOfRevision, CallsAreOld, Credential
<1> QED
  BY <1>1, <1>2, <1>3 DEF AuthInv

LEMMA AuthInitOK == AuthInit => AuthInv
<1> SUFFICES ASSUME AuthInit
             PROVE  AuthInv
  OBVIOUS
<1> PICK p \in Policy : policy = Inherited(p)
  BY DEF AuthInit
<1>1. p.inactivity \in Nat /\ p.absolute \in Nat
  BY AuthAssumption DEF Lifetimes
<1>2. policy \in [configured : BOOLEAN, revision : Nat, inactivity : Nat, absolute : Nat]
  BY <1>1 DEF Inherited
<1>3. NewSession \in SessionRow /\ NoPin \in Credential
  BY DEF NewSession, SessionRow, NoPin, Credential
<1>4. Idle \in PendingCall
  BY <1>3 DEF Idle, PendingCall
<1>5. throttle \in Throttle
  BY AuthAssumption DEF AuthInit, Throttle
<1>6. AuthTypeOK
  BY <1>2, <1>3, <1>4, <1>5 DEF AuthInit, AuthTypeOK
<1>7. PinOfRevision /\ CallsAreOld
  BY DEF AuthInit, PinOfRevision, CallsAreOld, NoPin, Idle
<1>8. ThrottleOK /\ GuessesOK /\ SessionsLive
  BY AuthAssumption DEF AuthInit, ThrottleOK, GuessesOK, SessionsLive, NewSession
<1> QED
  BY <1>6, <1>7, <1>8 DEF AuthInv

LEMMA DivBound ==
  ASSUME NEW W \in Nat \ {0}, NEW x \in Nat, NEW k \in Nat, x >= k * W
  PROVE  x \div W \in Nat /\ x \div W >= k
<1> DEFINE q == x \div W
<1>1. q \in Nat /\ x < W * (q + 1)
  OBVIOUS
<1> HIDE DEF q
<1>2. ASSUME q < k PROVE FALSE
  <2>1. W * (q + 1) <= W * k
    BY <1>1, <1>2
  <2> QED
    BY <1>1, <2>1
<1> QED
  BY <1>1, <1>2 DEF q

LEMMA GuessesAreBounded == AuthInv => GuessesBounded
<1> SUFFICES ASSUME AuthInv
             PROVE  GuessesBounded
  OBVIOUS
<1>1. /\ Attempts \in Nat \ {0} /\ Window \in Nat \ {0} /\ clock \in Nat
      /\ guesses.tried \in Nat /\ guesses.first \in Nat
  BY AuthAssumption DEF AuthInv, AuthTypeOK
<1> DEFINE d == (clock - guesses.first) \div Window
<1>2. CASE throttle.started = None
  <2>1. guesses.tried = 0 /\ clock - guesses.first \in Nat /\ clock - guesses.first >= 0 * Window
    BY <1>1, <1>2 DEF AuthInv, GuessesOK
  <2>2. d \in Nat
    BY <1>1, <2>1, DivBound
  <2> HIDE DEF d
  <2>3. 0 <= Attempts * (1 + d)
    BY <1>1, <2>2
  <2> QED
    BY <2>1, <2>3 DEF GuessesBounded, d
<1>3. CASE throttle.started # None
  <2>1. throttle.started \in Nat /\ throttle.started <= clock /\ throttle.count \in Nat
        /\ throttle.count <= Attempts
    BY <1>3, AuthAssumption DEF AuthInv, AuthTypeOK, Throttle, ThrottleOK
  <2>2. PICK k \in Nat : /\ throttle.started >= guesses.first + k * Window
                        /\ guesses.tried <= k * Attempts + throttle.count
    BY <1>3 DEF AuthInv, GuessesOK
  <2>3. k * Window \in Nat /\ k * Attempts \in Nat
    BY <1>1
  <2>4. clock - guesses.first \in Nat /\ clock - guesses.first >= k * Window
    BY <1>1, <2>1, <2>2, <2>3
  <2>5. d \in Nat /\ d >= k
    BY <1>1, <2>4, DivBound
  <2> HIDE DEF d
  <2>6. k * Attempts <= d * Attempts /\ d * Attempts \in Nat
        /\ Attempts * (1 + d) = Attempts + d * Attempts
    BY <1>1, <2>5
  <2>7. guesses.tried <= Attempts * (1 + d)
    BY <1>1, <2>1, <2>2, <2>3, <2>6
  <2> QED
    BY <2>7 DEF GuessesBounded, d
<1> QED
  BY <1>2, <1>3

(* Under the invariant the deadlines stored with a opened are those it is judged by. *)
LEMMA ActiveIs ==
  AuthInv =>
    \A x \in Session :
      ActiveSession(x) <=> sessions[x].state = "live" /\ clock < sessions[x].expires
<1> SUFFICES ASSUME AuthInv, NEW x \in Session
             PROVE  ActiveSession(x) <=> sessions[x].state = "live" /\ clock < sessions[x].expires
  OBVIOUS
<1> DEFINE s == sessions[x]
<1>1. /\ s \in SessionRow /\ clock \in Nat /\ policy.absolute \in Nat /\ policy.inactivity \in Nat
      /\ policy.configured \in BOOLEAN
  BY DEF AuthInv, AuthTypeOK
<1>2. /\ s.created \in Nat /\ s.used \in Nat /\ s.expires \in Nat /\ s.absolute \in Nat
  BY <1>1 DEF SessionRow
<1>3. s.state = "live" => LiveOK(s)
  BY DEF AuthInv, SessionsLive
<1> HIDE DEF s
<1>4. CASE s.state = "live" /\ policy.configured
  BY <1>1, <1>2, <1>3, <1>4 DEF ActiveSession, Active, End, AbsoluteEnd, Earlier, LiveOK, s
<1>5. CASE s.state = "live" /\ ~policy.configured
  BY <1>1, <1>2, <1>3, <1>5 DEF ActiveSession, Active, End, AbsoluteEnd, Earlier, LiveOK, s
<1>6. CASE s.state # "live"
  BY <1>6 DEF ActiveSession, Active, s
<1> QED
  BY <1>1, <1>4, <1>5, <1>6 DEF s

LEMMA SessionsAreSound == AuthInv => SessionsSound
<1> SUFFICES ASSUME AuthInv, NEW x \in Session
             PROVE  /\ ActiveSession(x) => /\ sessions[x].pin = credential.pin
                                         /\ clock < sessions[x].until
                    /\ sessions[x].state = "live" /\ clock < sessions[x].expires => ActiveSession(x)
  BY DEF SessionsSound, SessionsProven, ListedIsActive
<1>1. sessions[x] \in SessionRow /\ clock \in Nat
  BY DEF AuthInv, AuthTypeOK
<1>2. /\ sessions[x].expires \in Nat /\ sessions[x].absolute \in Nat /\ sessions[x].until \in Nat
  BY <1>1 DEF SessionRow
<1>3. sessions[x].state = "live" => LiveOK(sessions[x])
  BY DEF AuthInv, SessionsLive
<1> QED
  BY <1>1, <1>2, <1>3, ActiveIs DEF LiveOK

LEMMA AuthNextOK ==
  ASSUME AuthInv, [AuthNext]_authVars
  PROVE  AuthInv'
<1>1. CASE AuthNext
  BY <1>1, BeginLoginOK, EndLoginOK, FailLoginOK, SetPinOK, BeginChangeOK, BeginResetOK,
     EndChangeOK, AuthenticateSessionOK, RevokeSessionsOK, RotateForWorkspaceOK,
     PruneSessionsOK, UpdateSessionPolicyOK, WaitOK, AuthRestartOK, AbandonResetOK
     DEF AuthNext, RevokeSessionById, RevokeByToken, RevokeAll
<1>2. CASE UNCHANGED authVars
  BY <1>2 DEF AuthInv, AuthTypeOK, PinOfRevision, CallsAreOld, ThrottleOK, GuessesOK,
              SessionsLive, LiveOK, authVars
<1> QED
  BY <1>1, <1>2

(* Only a session that is active gains time, and time only passes. *)
LEMMA RowsOnlyEnd ==
  ASSUME AuthInv, [AuthNext]_authVars, NEW x \in Session, sessions[x].state # "new",
         ~ActiveSession(x)
  PROVE  /\ clock <= clock'
         /\ sessions'[x].state = "live" =>
              sessions[x].state = "live" /\ sessions'[x].expires <= sessions[x].expires
<1>1. /\ clock \in Nat /\ sessions \in [Session -> SessionRow] /\ sessions[x].expires \in Nat
  BY DEF AuthInv, AuthTypeOK, SessionRow
<1>2. ASSUME NEW xs
      PROVE  Revoke(sessions, xs)[x] = sessions[x] \/ Revoke(sessions, xs)[x].state = "revoked"
  BY <1>1 DEF Revoke, SessionRow
<1>3. CASE \E c \in Call, y \in Session, old \in Session \cup {None} : EndLogin(c, y, old)
  <2>1. PICK c \in Call, y \in Session, old \in Session \cup {None} : EndLogin(c, y, old)
    BY <1>3
  <2>2. sessions'[x] = Revoke(sessions, {old})[x] /\ clock' = clock
    BY <2>1 DEF EndLogin, Unopened, Revoke
  <2> QED
    BY <1>1, <1>2, <2>2
<1>4. CASE \E y, z \in Session : RotateForWorkspace(y, z)
  <2>1. sessions'[x] = Revoke(sessions, Session)[x] /\ clock' = clock
    BY <1>4 DEF RotateForWorkspace, Unopened, Revoke
  <2> QED
    BY <1>1, <1>2, <2>1
<1>5. ASSUME NEW pin, Replaced(pin)
      PROVE  /\ clock <= clock'
             /\ sessions'[x].state = "live" =>
                  sessions[x].state = "live" /\ sessions'[x].expires <= sessions[x].expires
  BY <1>1, <1>2, <1>5 DEF Replaced
<1>6. ASSUME NEW xs, RevokeSessions(xs)
      PROVE  /\ clock <= clock'
             /\ sessions'[x].state = "live" =>
                  sessions[x].state = "live" /\ sessions'[x].expires <= sessions[x].expires
  BY <1>1, <1>2, <1>6 DEF RevokeSessions
<1>7. CASE \E y \in Session : AuthenticateSession(y)
  <2>1. sessions'[x] = sessions[x] /\ clock' = clock
    BY <1>1, <1>7 DEF AuthenticateSession
  <2> QED
    BY <1>1, <2>1
<1>8. CASE PruneSessions
  BY <1>1, <1>8 DEF PruneSessions, NewSession
<1>9. CASE \E p \in Policy : UpdateSessionPolicy(p)
  <2>1. PICK p \in Policy : UpdateSessionPolicy(p)
    BY <1>9
  <2>2. sessions'[x] = Limited(sessions[x], p) /\ clock' = clock
    BY <2>1 DEF UpdateSessionPolicy
  <2>3. Limited(sessions[x], p).state = sessions[x].state
        /\ (sessions[x].state = "live" => Limited(sessions[x], p).expires <= sessions[x].expires)
    BY <1>1, LimitedRow
  <2> QED
    BY <1>1, <2>2, <2>3
<1>10. CASE Wait
  BY <1>1, <1>10 DEF Wait
<1>11. CASE UNCHANGED <<clock, sessions>>
  BY <1>1, <1>11
<1> QED
  BY <1>3, <1>4, <1>5, <1>6, <1>7, <1>8, <1>9, <1>10, <1>11
     DEF AuthNext, BeginLogin, FailLogin, SetPin, BeginChange, BeginReset, EndChange,
         RevokeSessionById, RevokeByToken, RevokeAll, AuthRestart, AbandonReset, authVars

LEMMA AuthAlways == AuthSpec => []AuthInv
<1>1. AuthInit => AuthInv
  BY AuthInitOK
<1>2. AuthInv /\ [AuthNext]_authVars => AuthInv'
  BY AuthNextOK
<1> QED
  BY <1>1, <1>2, PTL DEF AuthSpec

\* The types of the credential, the throttle, the sessions and the calls under way.
THEOREM AuthenticationTypes == AuthSpec => []AuthTypeOK
<1>1. AuthInv => AuthTypeOK
  BY DEF AuthInv
<1> QED
  BY <1>1, AuthAlways, PTL

\* However calls overlap with slow hashes, guesses keep to the windows of the throttle and
\* only the PIN of now has active sessions (reserveAttempt, authenticate, changePin).
THEOREM AuthenticationIsSound == AuthSpec => []AuthenticationSound
<1>1. AuthInv => AuthenticationSound
  BY GuessesAreBounded, SessionsAreSound DEF AuthenticationSound
<1> QED
  BY <1>1, AuthAlways, PTL

\* No step makes an ended session active again: not a new policy, not a rotation, not a
\* login whose hash was begun before (updateSessionPolicy, rotateForWorkspace).
THEOREM EndedSessionsStayEnded == AuthSpec => SessionsFinal
<1>1. AuthInv' => (\A x \in Session : ActiveSession(x) <=>
                     sessions[x].state = "live" /\ clock < sessions[x].expires)'
  BY ActiveIs, PTL
<1>2. AuthInv /\ AuthInv' /\ [AuthNext]_authVars => NeverRevived
  <2> SUFFICES ASSUME AuthInv, AuthInv', [AuthNext]_authVars, NEW x \in Session,
                      sessions[x].state # "new", ~ActiveSession(x)
               PROVE  ~ActiveSession(x)'
    BY DEF NeverRevived
  <2>1. ActiveSession(x) <=> sessions[x].state = "live" /\ clock < sessions[x].expires
    BY ActiveIs
  <2>2. ActiveSession(x)' <=> sessions'[x].state = "live" /\ clock' < sessions'[x].expires
    BY <1>1
  <2>3. /\ clock <= clock'
        /\ sessions'[x].state = "live" =>
             sessions[x].state = "live" /\ sessions'[x].expires <= sessions[x].expires
    BY RowsOnlyEnd
  <2>4. /\ clock \in Nat /\ clock' \in Nat /\ sessions[x].expires \in Nat
        /\ sessions'[x].expires \in Nat
    BY DEF AuthInv, AuthTypeOK, SessionRow
  <2> QED
    BY <2>1, <2>2, <2>3, <2>4
<1> QED
  BY <1>2, AuthAlways, PTL DEF AuthSpec, SessionsFinal

-----------------------------------------------------------------------------
(* SECRETS.  Credentials survive edits, removals and rotations in every order, for any  *)
(* number of slots, keys and rotation commands at once.  SecretsSound is inductive      *)
(* together with the types: the server stores with its own key only if that key opens   *)
(* every row, and a rotation replaces exactly the rows it read.                         *)

Kept == \A s \in Slot : secrets[s].plain = latest[s]
SecretInv == SecretTypeOK /\ Kept /\ OneKey

\* A secret that is encrypted again keeps its plaintext and is still a secret.
LEMMA ReencryptedRow ==
  ASSUME NEW secret \in SecretRow, (secret.revision = 0) <=> (secret = NoSecret), NEW key \in Key \cup {None}
  PROVE  LET new == Reencrypted(secret, key) IN
         /\ new \in SecretRow /\ new.plain = secret.plain
         /\ (new.revision = 0) <=> (new = NoSecret)
         /\ new # NoSecret => new.key = key
<1>1. CASE secret = NoSecret  BY <1>1 DEF Reencrypted, NoSecret, SecretRow
<1>2. CASE secret # NoSecret
  <2> DEFINE new == [secret EXCEPT !.revision = @ + 1, !.key = key]
  <2>1. Reencrypted(secret, key) = new
    BY <1>2 DEF Reencrypted
  <2>2. secret.revision + 1 \in Nat /\ secret.revision + 1 # 0  BY DEF SecretRow
  <2>3. /\ new \in SecretRow /\ new.plain = secret.plain /\ new.key = key
        /\ new.revision = secret.revision + 1
    BY <2>2 DEF SecretRow
  <2>4. new # NoSecret  BY <2>2, <2>3 DEF NoSecret
  <2> HIDE DEF new
  <2> QED BY <2>1, <2>2, <2>3, <2>4
<1> QED BY <1>1, <1>2

LEMMA SecretInitOK == SecretInit => SecretInv
<1> SUFFICES ASSUME SecretInit PROVE SecretInv  OBVIOUS
<1> USE DEF SecretInit
<1>1. NoSecret \in SecretRow /\ NoSecret.revision = 0 /\ NoSecret.plain = None
  BY DEF NoSecret, SecretRow
<1>2. NoRotation \in Rotation  BY DEF NoRotation, Rotation
<1>3. secrets \in Table /\ \A s \in Slot : secrets[s] = NoSecret  BY <1>1 DEF Table
<1>4. SecretTypeOK  BY <1>1, <1>2, <1>3 DEF SecretTypeOK
<1>5. Kept  BY <1>1, <1>3 DEF Kept
<1>6. OneKey  BY <1>3 DEF OneKey, Stored
<1> QED BY <1>4, <1>5, <1>6 DEF SecretInv

\* Storing a secret: what the server's key opens, it may join.
LEMMA UpsertKeeps ==
  ASSUME SecretInv, NEW s \in Slot, NEW p \in Plain, Upsert(s, p)  PROVE SecretInv'
<1>1. PICK secret \in SecretRow :
        secret = [revision |-> secrets[s].revision + 1, key |-> serverKey, plain |-> p]
  <2>1. secrets[s] \in SecretRow /\ serverKey \in Key \cup {None}
    BY DEF SecretInv, SecretTypeOK, Table
  <2>2. secrets[s].revision + 1 \in Nat  BY <2>1 DEF SecretRow
  <2> QED BY <2>1, <2>2 DEF SecretRow
<1>2. secret.revision # 0 /\ secret # NoSecret /\ secret.plain = p /\ secret.key = serverKey
  <2>1. secrets[s].revision \in Nat  BY DEF SecretInv, SecretTypeOK, Table, SecretRow
  <2> QED BY <1>1, <2>1 DEF NoSecret
<1>3. secrets' = [secrets EXCEPT ![s] = secret]
  <2>1. secrets' = [secrets EXCEPT ![s] = [revision |-> @.revision + 1, key |-> serverKey, plain |-> p]]
    BY DEF Upsert
  <2> QED BY <1>1, <2>1
<1>4. secrets \in [Slot -> SecretRow]  BY DEF SecretInv, SecretTypeOK, Table
<1>5. /\ secrets' \in [Slot -> SecretRow] /\ secrets'[s] = secret
      /\ \A t \in Slot \ {s} : secrets'[t] = secrets[t]
  BY <1>3, <1>4
<1>6. /\ latest' = [latest EXCEPT ![s] = p] /\ latest \in [Slot -> Plain \cup {None}]
      /\ UNCHANGED <<generation, serverKey, configured, removing, rotations>>
  BY DEF Upsert, SecretInv, SecretTypeOK
<1>7. SecretTypeOK'  BY <1>2, <1>5, <1>6 DEF SecretInv, SecretTypeOK, Table
<1>8. Kept'  BY <1>2, <1>5, <1>6 DEF SecretInv, Kept
<1>9. \A t \in Stored' : secrets'[t].key = serverKey
  <2>1. \A t \in Stored : secrets[t].key = serverKey  BY DEF Upsert, UsableKey, Readable
  <2> QED BY <1>2, <1>5, <2>1 DEF Stored
<1> QED BY <1>7, <1>8, <1>9 DEF SecretInv, OneKey

\* Removing a secret leaves fewer rows.
LEMMA CommitRemoveKeeps == ASSUME SecretInv, CommitRemove  PROVE SecretInv'
<1>1. removing \in Slot  BY DEF CommitRemove, SecretInv, SecretTypeOK
<1>2. secrets \in [Slot -> SecretRow] /\ latest \in [Slot -> Plain \cup {None}]
  BY DEF SecretInv, SecretTypeOK, Table
<1>3. NoSecret \in SecretRow /\ NoSecret.revision = 0 /\ NoSecret.plain = None
  BY DEF NoSecret, SecretRow
<1>4. /\ secrets' \in [Slot -> SecretRow] /\ secrets'[removing] = NoSecret
      /\ \A t \in Slot \ {removing} : secrets'[t] = secrets[t]
  BY <1>1, <1>2, <1>3 DEF CommitRemove
<1>5. /\ latest' \in [Slot -> Plain \cup {None}] /\ latest'[removing] = None
      /\ \A t \in Slot \ {removing} : latest'[t] = latest[t]
  BY <1>1, <1>2 DEF CommitRemove
<1>6. removing' = None /\ UNCHANGED <<generation, serverKey, configured, rotations>>
  BY DEF CommitRemove
<1>7. SecretTypeOK'  BY <1>3, <1>4, <1>5, <1>6 DEF SecretInv, SecretTypeOK, Table
<1>8. Kept'  BY <1>3, <1>4, <1>5 DEF SecretInv, Kept
<1>9. OneKey'
  <2>1. Stored' \subseteq Stored /\ \A t \in Stored' : secrets'[t] = secrets[t]
    BY <1>4 DEF Stored
  <2> QED BY <2>1 DEF SecretInv, OneKey
<1> QED BY <1>7, <1>8, <1>9 DEF SecretInv

\* What a command reads leaves the table alone.
LEMMA RotationsKeep ==
  ASSUME SecretInv, rotations' \in [Operator -> Rotation],
         UNCHANGED <<secrets, generation, serverKey, configured, removing, latest>>
  PROVE  SecretInv'
<1>1. SecretTypeOK'  BY DEF SecretInv, SecretTypeOK
<1>2. Kept' /\ OneKey'  BY DEF SecretInv, Kept, OneKey, Stored
<1> QED BY <1>1, <1>2 DEF SecretInv

LEMMA BeginRotationKeeps ==
  ASSUME SecretInv, NEW o \in Operator, NEW old \in Key, NEW new \in Key, BeginRotation(o, old, new)
  PROVE  SecretInv'
<1>1. generation \in Nat /\ rotations \in [Operator -> Rotation]  BY DEF SecretInv, SecretTypeOK
<1>2. [NoRotation EXCEPT !.phase = "begun", !.old = old, !.new = new, !.generation = generation]
        \in Rotation
  BY <1>1 DEF NoRotation, Rotation
<1>3. rotations' \in [Operator -> Rotation]  BY <1>1, <1>2 DEF BeginRotation
<1> QED BY <1>3, RotationsKeep DEF BeginRotation

LEMMA ReadSnapshotKeeps ==
  ASSUME SecretInv, NEW o \in Operator, ReadSnapshot(o)  PROVE SecretInv'
<1>1. secrets \in Table /\ rotations \in [Operator -> Rotation]  BY DEF SecretInv, SecretTypeOK
<1>2. NoRotation \in Rotation  BY DEF NoRotation, Rotation
<1>3. \A r \in Rotation : [r EXCEPT !.phase = "ready", !.snapshot = secrets] \in Rotation
  BY <1>1 DEF Rotation
<1>4. rotations' \in [Operator -> Rotation]  BY <1>1, <1>2, <1>3 DEF ReadSnapshot
<1> QED BY <1>4, RotationsKeep DEF ReadSnapshot

LEMMA AbandonRotationKeeps ==
  ASSUME SecretInv, NEW o \in Operator, AbandonRotation(o)  PROVE SecretInv'
<1>1. NoRotation \in Rotation  BY DEF NoRotation, Rotation
<1>2. rotations' \in [Operator -> Rotation]
  BY <1>1 DEF AbandonRotation, SecretInv, SecretTypeOK
<1> QED BY <1>2, RotationsKeep DEF AbandonRotation

\* The transaction of a rotation: a table that changed since it was read is left
\* as it is, and otherwise every secret gets the new key.
LEMMA CommitRotationKeeps ==
  ASSUME SecretInv, NEW o \in Operator, CommitRotation(o)  PROVE SecretInv'
<1> DEFINE r == rotations[o]
<1>1. NoRotation \in Rotation  BY DEF NoRotation, Rotation
<1>2. rotations' \in [Operator -> Rotation]
  BY <1>1 DEF CommitRotation, SecretInv, SecretTypeOK
<1>3. CASE ~Undisturbed(r)
  <2>1. UNCHANGED <<secrets, generation, serverKey, configured, removing, latest>>
    BY <1>3 DEF CommitRotation
  <2> QED BY <1>2, <2>1, RotationsKeep
<1>4. CASE Undisturbed(r)
  <2>1. r.snapshot = secrets  BY <1>4 DEF Undisturbed
  <2>2. /\ secrets' = [s \in Slot |-> Reencrypted(secrets[s], r.new)]
        /\ generation' = generation + 1
        /\ UNCHANGED <<serverKey, configured, removing, latest>>
    BY <1>4, <2>1 DEF CommitRotation
  <2>3. r.new \in Key \cup {None}  BY DEF SecretInv, SecretTypeOK, Rotation
  <2>4. ASSUME NEW s \in Slot
        PROVE  /\ secrets'[s] \in SecretRow /\ secrets'[s].plain = secrets[s].plain
               /\ (secrets'[s].revision = 0) <=> (secrets'[s] = NoSecret)
               /\ secrets'[s] # NoSecret => secrets'[s].key = r.new
    <3>1. secrets[s] \in SecretRow /\ ((secrets[s].revision = 0) <=> (secrets[s] = NoSecret))
      BY DEF SecretInv, SecretTypeOK, Table
    <3>2. secrets'[s] = Reencrypted(secrets[s], r.new)  BY <2>2
    <3> HIDE DEF r
    <3> QED BY <2>3, <3>1, <3>2, ReencryptedRow
  <2> HIDE DEF r
  <2>5. secrets' \in Table  BY <2>2, <2>4 DEF Table
  <2>6. SecretTypeOK'  BY <1>2, <2>2, <2>4, <2>5 DEF SecretInv, SecretTypeOK
  <2>7. Kept'  BY <2>2, <2>4 DEF SecretInv, Kept
  <2>8. OneKey'  BY <2>4 DEF OneKey, Stored
  <2> QED BY <2>6, <2>7, <2>8 DEF SecretInv
<1> QED BY <1>3, <1>4

LEMMA SecretNextOK == SecretInv /\ [SecretNext]_secretVars => SecretInv'
<1> SUFFICES ASSUME SecretInv, [SecretNext]_secretVars PROVE SecretInv'  OBVIOUS
<1>1. ASSUME NEW s \in Slot, NEW p \in Plain, Upsert(s, p) PROVE SecretInv'
  BY <1>1, UpsertKeeps
<1>2. CASE CommitRemove  BY <1>2, CommitRemoveKeeps
<1>3. ASSUME NEW s \in Slot, BeginRemove(s) PROVE SecretInv'
  <2>1. SecretTypeOK'  BY <1>3 DEF BeginRemove, SecretInv, SecretTypeOK
  <2>2. Kept' /\ OneKey'  BY <1>3 DEF BeginRemove, SecretInv, Kept, OneKey, Stored
  <2> QED BY <2>1, <2>2 DEF SecretInv
<1>4. ASSUME NEW o \in Operator, NEW old \in Key, NEW new \in Key, BeginRotation(o, old, new)
      PROVE  SecretInv'
  BY <1>4, BeginRotationKeeps
<1>5. ASSUME NEW o \in Operator, ReadSnapshot(o) \/ CommitRotation(o) \/ AbandonRotation(o)
      PROVE  SecretInv'
  BY <1>5, ReadSnapshotKeeps, CommitRotationKeeps, AbandonRotationKeeps
<1>6. ASSUME NEW key \in Key \cup {None}, Configure(key) PROVE SecretInv'
  <2>1. SecretTypeOK'  BY <1>6 DEF Configure, SecretInv, SecretTypeOK
  <2>2. Kept' /\ OneKey'  BY <1>6 DEF Configure, SecretInv, Kept, OneKey, Stored
  <2> QED BY <2>1, <2>2 DEF SecretInv
<1>7. CASE SecretRestart
  <2>1. SecretTypeOK'  BY <1>7 DEF SecretRestart, SecretInv, SecretTypeOK
  <2>2. Kept' /\ OneKey'  BY <1>7 DEF SecretRestart, SecretInv, Kept, OneKey, Stored
  <2> QED BY <2>1, <2>2 DEF SecretInv
<1>8. CASE UNCHANGED secretVars
  <2>1. SecretTypeOK'  BY <1>8 DEF secretVars, SecretInv, SecretTypeOK
  <2>2. Kept' /\ OneKey'  BY <1>8 DEF secretVars, SecretInv, Kept, OneKey, Stored
  <2> QED BY <2>1, <2>2 DEF SecretInv
<1> QED BY <1>1, <1>2, <1>3, <1>4, <1>5, <1>6, <1>7, <1>8 DEF SecretNext

LEMMA SecretAlways == SecretSpec => []SecretInv
BY SecretInitOK, SecretNextOK, PTL DEF SecretSpec

\* The table of credentials keeps its shape: no secret without a revision, and every
\* rotation under way holds a table or none (SecretRepository, rotateRootKey).
THEOREM SecretTypes == SecretSpec => []SecretTypeOK
<1>1. SecretInv => SecretTypeOK  BY DEF SecretInv
<1> QED BY <1>1, SecretAlways, PTL

\* However edits, removals, restarts and any number of rotations overlap, the table
\* holds the plaintexts last accepted, under one key (rotateRootKey,
\* #requireUsableRootKey).
THEOREM SecretsAreSound == SecretSpec => []SecretsSound
<1>1. SecretInv => SecretsSound
  BY DEF SecretInv, Kept, SecretsSound, SecretsKept, Revealed
<1> QED BY <1>1, SecretAlways, PTL

-----------------------------------------------------------------------------
(* THE RATE LIMITER, for every set of sources and limits, every unit and every behaviour *)
(* of the wall clock.  Allowance is inductive together with the types: a refill adds to  *)
(* the tokens what the passing of the bucket's own clock adds to the allowance, and a    *)
(* sample moves one token from the bucket to what was spent.                             *)

LimiterInv == TypeOK /\ Allowance

\* Allowance, of one bucket and its past.
Within(b, p) ==
  /\ b.used => b.tokens + p.spent * Unit <= p.burst * Unit + p.rate * (b.last - p.first)
  /\ b.used => p.first <= b.last
  /\ ~b.used => b = Unused /\ p = NoPast

\* What the allowance is worth does not shrink when a limit grows.
LEMMA Grows ==
  ASSUME NEW a \in Nat, NEW b \in Nat, NEW c \in Nat, a <= b
  PROVE  a * c \in Nat /\ a * c <= b * c
<1>1. PICK d \in Nat : b = a + d  OBVIOUS
<1> QED BY <1>1

\* A refill over x units of time at a rate below the highest, y units after the
\* first call, stays within the allowance.
LEMMA Refill ==
  ASSUME NEW k \in Nat, NEW n \in Nat, NEW x \in Nat, NEW y \in Nat,
         NEW B \in Nat, NEW C \in Nat, NEW R \in Nat, NEW Q \in Nat, NEW q \in Nat,
         k + n <= B + R * y, B <= C, R <= Q, q <= Q
  PROVE  k + x * q + n <= C + Q * (x + y)
<1>1. R * y \in Nat /\ R * y <= Q * y  BY Grows
<1>2. q * x \in Nat /\ q * x <= Q * x  BY Grows
<1>3. Q * x \in Nat /\ Q * y \in Nat  BY Grows
<1>4. Q * (x + y) = Q * x + Q * y /\ x * q = q * x  OBVIOUS
<1> QED BY <1>1, <1>2, <1>3, <1>4

\* A call, before it takes a token: the bucket is refilled, the past knows the
\* limits of the moment, and both agree again.
LEMMA CallKeeps ==
  ASSUME LimiterAssumption, now \in Nat, limits \in Limit,
         NEW b \in Bucket, NEW p \in Past, Within(b, p)
  PROVE  /\ Refilled(b) \in Bucket /\ Asked(p, b.used) \in Past
         /\ Refilled(b).used /\ Within(Refilled(b), Asked(p, b.used))
<1> DEFINE c == Refilled(b)
           q == Asked(p, b.used)
           C == limits.burst * Unit
<1>0. Unit \in Nat /\ limits.rate \in Nat /\ limits.burst \in Nat
  BY DEF LimiterAssumption, Limit
<1>1. C \in Nat  BY <1>0, Grows
<1>2. q \in Past /\ q.spent = p.spent /\ q.burst \in Nat /\ q.rate \in Nat
  BY <1>0 DEF Asked, Past, Greatest
<1>3. q.burst >= p.burst /\ q.burst >= limits.burst /\ q.rate >= p.rate /\ q.rate >= limits.rate
  BY <1>0 DEF Asked, Past, Greatest
<1>4. C <= q.burst * Unit /\ p.burst * Unit <= q.burst * Unit /\ q.burst * Unit \in Nat
      /\ p.burst * Unit \in Nat
  BY <1>0, <1>2, <1>3, Grows DEF Past
<1>5. CASE ~b.used
  <2>1. c = [used |-> TRUE, tokens |-> C, last |-> now]  BY <1>5 DEF Refilled
  <2>2. p.spent = 0 /\ q.first = now
    BY <1>5 DEF Within, NoPast, Asked, Past
  <2>3. q.spent * Unit = 0 /\ q.rate * (c.last - q.first) = 0
    <3>1. q.spent = 0 /\ c.last - q.first = 0  BY <1>2, <2>1, <2>2
    <3> QED BY <3>1, <1>0, <1>2
  <2> QED BY <1>0, <1>1, <1>2, <1>4, <2>1, <2>2, <2>3 DEF Within, Bucket
<1>6. CASE b.used
  <2> DEFINE x == Effective(b) - b.last
             y == b.last - p.first
             full == b.tokens + x * limits.rate
  <2>1. Effective(b) \in Nat /\ x \in Nat /\ y \in Nat /\ b.last \in Nat /\ p.first \in Nat
    BY <1>6 DEF Effective, Greatest, Bucket, Past, Within
  <2>2. full \in Nat
    <3>1. x * limits.rate \in Nat  BY <2>1, <1>0, Grows
    <3> QED BY <3>1 DEF Bucket
  <2>3. c = [b EXCEPT !.tokens = Least(C, full), !.last = Effective(b)]
    BY <1>6 DEF Refilled
  <2>4. c \in Bucket /\ c.used /\ c.tokens <= full /\ c.tokens \in Nat /\ c.last = Effective(b)
    <3>1. Least(C, full) \in Nat /\ Least(C, full) <= full  BY <1>1, <2>2 DEF Least
    <3> HIDE DEF full, C, x
    <3> QED BY <1>6, <2>1, <2>3, <3>1 DEF Bucket
  <2>5. q.first = p.first  BY <1>6 DEF Asked, Past
  <2>6. c.last - q.first = x + y /\ q.first <= c.last  BY <2>1, <2>4, <2>5
  <2>7. full + p.spent * Unit <= q.burst * Unit + q.rate * (x + y)
    <3>1. p.spent * Unit \in Nat /\ b.tokens \in Nat /\ p.rate \in Nat
      BY <1>0, Grows DEF Past, Bucket
    <3>2. b.tokens + p.spent * Unit <= p.burst * Unit + p.rate * y
      BY <1>6 DEF Within
    <3> HIDE DEF x, y
    <3> QED BY <1>0, <1>2, <1>3, <1>4, <2>1, <3>1, <3>2, Refill
  <2>8. c.tokens + q.spent * Unit <= q.burst * Unit + q.rate * (c.last - q.first)
    <3>1. p.spent * Unit \in Nat  BY <1>0, Grows DEF Past
    <3>2. q.rate * (x + y) \in Nat  BY <1>2, <2>1, Grows
    <3> HIDE DEF x, y, c, q, full
    <3> QED BY <1>2, <1>4, <2>2, <2>4, <2>6, <2>7, <3>1, <3>2
  <2> HIDE DEF c, q
  <2>9. Within(c, q)  BY <2>4, <2>6, <2>8 DEF Within
  <2> QED BY <1>2, <2>4, <2>9 DEF c, q
<1> QED BY <1>5, <1>6

LEMMA LimiterInitOK == ASSUME LimiterAssumption, Init PROVE LimiterInv
<1>1. limits \in Limit  BY DEF Init, LimiterAssumption
<1>2. now \in Nat  BY DEF Init, LimiterAssumption
<1>3. Unused \in Bucket /\ NoPast \in Past  BY DEF Unused, NoPast, Bucket, Past
<1>4. TypeOK  BY <1>1, <1>2, <1>3 DEF Init, TypeOK
<1>5. Allowance  BY DEF Init, Allowance, Unused
<1> QED BY <1>4, <1>5 DEF LimiterInv

\* Only the bucket of the caller and its past change.
LEMMA OneBucket ==
  ASSUME LimiterInv, NEW s \in Source, NEW b \in Bucket, NEW p \in Past, Within(b, p),
         buckets' = [buckets EXCEPT ![s] = b], history' = [history EXCEPT ![s] = p],
         UNCHANGED <<now, limits>>
  PROVE  LimiterInv'
<1>1. TypeOK'  BY DEF LimiterInv, TypeOK
<1>2. ASSUME NEW t \in Source PROVE Within(buckets'[t], history'[t])
  <2>1. CASE t = s  BY <2>1 DEF LimiterInv, TypeOK
  <2>2. CASE t # s
    <3>1. buckets'[t] = buckets[t] /\ history'[t] = history[t]  BY <2>2 DEF LimiterInv, TypeOK
    <3> QED BY <3>1 DEF LimiterInv, Allowance, Within
  <2> QED BY <2>1, <2>2
<1>3. Allowance'  BY <1>2 DEF Allowance, Within
<1> QED BY <1>1, <1>3 DEF LimiterInv

LEMMA Takes ==
  ASSUME NEW b \in Bucket, Unit \in Nat, b.tokens >= Unit
  PROVE  /\ Took(b) \in Bucket /\ Took(b).used = b.used /\ Took(b).last = b.last
         /\ Took(b).tokens = b.tokens - Unit
<1>1. b.tokens \in Nat /\ b.tokens - Unit \in Nat  BY DEF Bucket
<1> QED BY <1>1 DEF Took, Bucket

LEMMA LimiterNextOK == ASSUME LimiterAssumption, LimiterInv, [Next]_vars PROVE LimiterInv'
<1>0. /\ now \in Nat /\ limits \in Limit
      /\ \A s \in Source : buckets[s] \in Bucket /\ history[s] \in Past
      /\ \A s \in Source : Within(buckets[s], history[s])
  BY DEF LimiterInv, TypeOK, Allowance, Within
<1>1. ASSUME NEW s \in Source, Allow(s) PROVE LimiterInv'
  <2> DEFINE b == Refilled(buckets[s])
             p == Asked(history[s], buckets[s].used)
             c == Took(b)
             r == [p EXCEPT !.spent = @ + 1]
  <2>1. b \in Bucket /\ p \in Past /\ b.used /\ Within(b, p)  BY <1>0, CallKeeps
  <2>2. b.tokens >= Unit /\ Unit \in Nat  BY <1>1 DEF Allow, LimiterAssumption
  <2>3. /\ buckets' = [buckets EXCEPT ![s] = c] /\ history' = [history EXCEPT ![s] = r]
        /\ UNCHANGED <<now, limits>>
    BY <1>1 DEF Allow
  <2> HIDE DEF b, p
  <2>4. c \in Bucket /\ c.used = b.used /\ c.last = b.last /\ c.tokens = b.tokens - Unit
    BY <2>1, <2>2, Takes
  <2>5. /\ r \in Past /\ r.spent = p.spent + 1 /\ r.first = p.first
        /\ r.rate = p.rate /\ r.burst = p.burst
    BY <2>1 DEF Past
  <2>6. c.tokens + r.spent * Unit = b.tokens + p.spent * Unit
    <3>1. (p.spent + 1) * Unit = p.spent * Unit + Unit /\ p.spent * Unit \in Nat
      <4>1. p.spent \in Nat  BY <2>1 DEF Past
      <4>2. p.spent * Unit \in Nat  BY <4>1, <2>2, Grows
      <4> QED BY <4>1, <4>2, <2>2
    <3>2. b.tokens \in Nat  BY <2>1 DEF Bucket
    <3> QED BY <3>1, <3>2, <2>2, <2>4, <2>5
  <2> HIDE DEF c, r
  <2>7. Within(c, r)  BY <2>1, <2>4, <2>5, <2>6 DEF Within
  <2> QED BY <2>3, <2>4, <2>5, <2>7, OneBucket
<1>2. ASSUME NEW s \in Source, Refuse(s) PROVE LimiterInv'
  <2> DEFINE b == Refilled(buckets[s])
             p == Asked(history[s], buckets[s].used)
  <2>1. b \in Bucket /\ p \in Past /\ Within(b, p)  BY <1>0, CallKeeps
  <2>2. /\ buckets' = [buckets EXCEPT ![s] = b] /\ history' = [history EXCEPT ![s] = p]
        /\ UNCHANGED <<now, limits>>
    BY <1>2 DEF Refuse, LimiterInv, TypeOK
  <2> HIDE DEF b, p
  <2> QED BY <2>1, <2>2, OneBucket
<1>3. ASSUME NEW t \in 0 .. MaxTime, SetClock(t) PROVE LimiterInv'
  <2>1. t \in Nat  BY DEF LimiterAssumption
  <2> QED BY <1>3, <2>1 DEF SetClock, LimiterInv, TypeOK, Allowance
<1>4. ASSUME NEW x \in Limits, SetLimits(x) PROVE LimiterInv'
  <2>1. x \in Limit  BY DEF LimiterAssumption
  <2> QED BY <1>4, <2>1 DEF SetLimits, LimiterInv, TypeOK, Allowance
<1>5. CASE Restart
  <2>1. Unused \in Bucket /\ NoPast \in Past  BY DEF Unused, NoPast, Bucket, Past
  <2>2. TypeOK'  BY <1>5, <2>1 DEF Restart, LimiterInv, TypeOK
  <2>3. Allowance'  BY <1>5 DEF Restart, Allowance, Unused
  <2> QED BY <2>2, <2>3 DEF LimiterInv
<1>6. CASE UNCHANGED vars  BY <1>6 DEF vars, LimiterInv, TypeOK, Allowance
<1> QED BY <1>1, <1>2, <1>3, <1>4, <1>5, <1>6 DEF Next

\* The types of the bucket, for every instance.
THEOREM LimiterTypes == Spec => []TypeOK
<1>1. ASSUME LimiterAssumption PROVE Init => LimiterInv  BY <1>1, LimiterInitOK
<1>2. ASSUME LimiterAssumption PROVE LimiterInv /\ [Next]_vars => LimiterInv'  BY <1>2, LimiterNextOK
<1>3. LimiterInv => TypeOK  BY DEF LimiterInv
<1> QED BY <1>1, <1>2, <1>3, LimiterAssumption, PTL DEF Spec

\* The rate bound of consume, for every instance.
THEOREM RateIsBounded == Spec => []RateBounded
<1>1. ASSUME LimiterAssumption PROVE Init => LimiterInv  BY <1>1, LimiterInitOK
<1>2. ASSUME LimiterAssumption PROVE LimiterInv /\ [Next]_vars => LimiterInv'  BY <1>2, LimiterNextOK
<1>3. ASSUME LimiterAssumption, LimiterInv PROVE RateBounded
  <2> SUFFICES ASSUME NEW s \in Source
               PROVE  LET p == history[s] IN
                 p.spent * Unit <= p.burst * Unit + p.rate * (buckets[s].last - p.first)
    BY DEF RateBounded
  <2> DEFINE b == buckets[s]
             p == history[s]
  <2>1. b \in Bucket /\ p \in Past /\ Within(b, p) /\ Unit \in Nat
    BY <1>3 DEF LimiterInv, TypeOK, Allowance, Within, LimiterAssumption
  <2>2. CASE ~b.used
    BY <2>1, <2>2 DEF Within, NoPast, Unused
  <2>3. CASE b.used
    <3>1. b.tokens \in Nat /\ p.spent * Unit \in Nat /\ p.burst * Unit \in Nat
      BY <2>1, Grows DEF Bucket, Past
    <3>2. b.last - p.first \in Nat /\ p.rate \in Nat  BY <2>1, <2>3 DEF Within, Bucket, Past
    <3>3. p.rate * (b.last - p.first) \in Nat  BY <3>2, Grows
    <3> QED BY <2>1, <2>3, <3>1, <3>3 DEF Within
  <2> QED BY <2>2, <2>3
<1> QED BY <1>1, <1>2, <1>3, LimiterAssumption, PTL DEF Spec

-----------------------------------------------------------------------------
(* WORKSPACES.  What each step of a change leaves behind: what the process, the setting *)
(* in the database and the simulation's file agree about, and what the accepted pages   *)
(* and the requests under way were rendered from.  Replacing is a reset that has thrown *)
(* the old data away.                                                                   *)

Replacing == change.kind = "reset" /\ change.step \in {"opening", "commit"}
StoredHome == IF stored.enabled THEN disk ELSE 0

StepsOK ==
  /\ change.kind = "none" => change = NoChange
  /\ change.kind = "restore" =>
       /\ change.step = "opening" /\ stored.enabled
       /\ ~process.enabled /\ process.open = 0 /\ ~process.running
  /\ change.kind = "enable" =>
       change.step \in {"opening", "commit"} /\ (change.step = "opening" <=> process.open = 0)
  /\ change.kind = "disable" =>
       /\ change.step \in {"drain", "commit", "closing"}
       /\ change.step = "closing" => process.open = 0 /\ ~process.running
  /\ change.kind = "reset" =>
       /\ change.step \in {"drain", "discard", "opening", "commit"} /\ process.enabled
       /\ Replacing => (change.step = "opening" <=> process.open = 0)
DownOK == ~process.up => process = Down /\ change = NoChange /\ requests = {}
SessionsOK ==
  /\ \A s \in admitted : s <= issued.sessions
  /\ \A p \in pages : p.session <= issued.sessions
  /\ \A r \in requests : r.session <= issued.sessions
ModeOK ==
  process.up =>
    /\ process.revision = stored.revision
    /\ change.kind # "restore" => process.enabled = stored.enabled
    /\ process.open # 0 => process.open = disk
    /\ process.enabled /\ ~Replacing => process.open # 0
    /\ process.open # 0 /\ ~process.enabled => change.kind = "enable"
    /\ ~process.stopping /\ (change.kind \in {"none", "enable"} \/ Replacing) =>
         (process.running <=> process.open # 0)
RequestsOK ==
  /\ \A r \in requests : r.session \in admitted /\ ~torn => r.home = r.at
  /\ \A r \in Simulated : process.open = r.at /\ process.enabled
  /\ \/ change.kind = "disable" /\ change.step # "drain"
     \/ change.kind = "reset" /\ change.step # "drain"
     => Simulated = {}
BelongOK ==
  ~torn /\ ~Replacing =>
    \A p \in pages : p.session \in admitted => p.home = StoredHome /\ p.revision = stored.revision
DataOK == stored.enabled /\ ~torn /\ ~Replacing => disk # 0
WorkspaceInv == WorkspaceTypeOK /\ StepsOK /\ DownOK /\ SessionsOK /\ ModeOK /\ RequestsOK /\ BelongOK /\ DataOK

LEMMA LoginOK ==
  ASSUME WorkspaceInv, Login
  PROVE  WorkspaceInv'
<1> USE DEF WorkspaceInv, Login, Serving, Changing, NoChange
<1>1. StepsOK' /\ DownOK' /\ ModeOK' /\ DataOK'
  BY DEF StepsOK, DownOK, ModeOK, DataOK, Replacing
<1>2. WorkspaceTypeOK'
  BY DEF WorkspaceTypeOK
<1>3. SessionsOK'
  BY DEF WorkspaceTypeOK, SessionsOK, Page, Request
<1>4. RequestsOK'
  BY DEF WorkspaceTypeOK, SessionsOK, RequestsOK, Simulated
<1>5. BelongOK'
  BY DEF WorkspaceTypeOK, SessionsOK, BelongOK, Replacing, StoredHome
<1> QED
  BY <1>1, <1>2, <1>3, <1>4, <1>5 DEF WorkspaceInv

LEMMA LogoutOK ==
  ASSUME WorkspaceInv, NEW s, Logout(s)
  PROVE  WorkspaceInv'
<1> USE DEF WorkspaceInv, Logout
<1>1. StepsOK' /\ DownOK' /\ ModeOK' /\ DataOK'
  BY DEF StepsOK, DownOK, ModeOK, DataOK, Replacing
<1>2. WorkspaceTypeOK'
  BY DEF WorkspaceTypeOK
<1>3. SessionsOK'
  BY DEF SessionsOK
<1>4. RequestsOK'
  BY DEF RequestsOK, Simulated
<1>5. BelongOK'
  BY DEF BelongOK, Replacing, StoredHome
<1> QED
  BY <1>1, <1>2, <1>3, <1>4, <1>5 DEF WorkspaceInv

LEMMA ViewOK ==
  ASSUME WorkspaceInv, NEW s, View(s)
  PROVE  WorkspaceInv'
<1> USE DEF WorkspaceInv, View, Serving, Here, Changing, NoChange
<1>1. StepsOK' /\ DownOK' /\ ModeOK' /\ RequestsOK' /\ DataOK'
  BY DEF StepsOK, DownOK, ModeOK, RequestsOK, DataOK, Replacing, Simulated
<1>2. WorkspaceTypeOK'
  BY DEF WorkspaceTypeOK, Process, Page
<1>3. SessionsOK'
  BY DEF SessionsOK
<1>4. BelongOK'
  BY DEF ModeOK, BelongOK, Replacing, StoredHome
<1> QED
  BY <1>1, <1>2, <1>3, <1>4 DEF WorkspaceInv

LEMMA SubmitOK ==
  ASSUME WorkspaceInv, NEW p \in pages, Submit(p)
  PROVE  WorkspaceInv'
<1> USE DEF WorkspaceInv, Submit, Serving, Here, Changing, NoChange
<1>1. StepsOK' /\ ModeOK' /\ BelongOK' /\ DataOK'
  BY DEF StepsOK, ModeOK, BelongOK, DataOK, Replacing, StoredHome
<1>2. WorkspaceTypeOK'
  BY DEF WorkspaceTypeOK, Process, Page, Request
<1>3. DownOK'
  BY DEF DownOK
<1>4. SessionsOK'
  BY DEF SessionsOK
<1>5. RequestsOK'
  BY DEF ModeOK, RequestsOK, BelongOK, Replacing, Simulated, StoredHome
<1> QED
  BY <1>1, <1>2, <1>3, <1>4, <1>5 DEF WorkspaceInv

LEMMA AnswerOK ==
  ASSUME WorkspaceInv, NEW r, Answer(r)
  PROVE  WorkspaceInv'
<1> USE DEF WorkspaceInv, Answer
<1>1. StepsOK' /\ ModeOK' /\ BelongOK' /\ DataOK'
  BY DEF StepsOK, ModeOK, BelongOK, DataOK, Replacing, StoredHome
<1>2. WorkspaceTypeOK'
  BY DEF WorkspaceTypeOK
<1>3. DownOK'
  BY DEF DownOK
<1>4. SessionsOK'
  BY DEF SessionsOK
<1>5. RequestsOK'
  BY DEF RequestsOK, Simulated
<1> QED
  BY <1>1, <1>2, <1>3, <1>4, <1>5 DEF WorkspaceInv

LEMMA BeginOK ==
  ASSUME WorkspaceInv, NEW kind \in {"enable", "disable", "reset"}, NEW s, Begin(kind, s)
  PROVE  WorkspaceInv'
<1> USE DEF WorkspaceInv, Begin, Serving, Changing, NoChange
<1>1. SessionsOK'
  BY DEF SessionsOK
<1>2. WorkspaceTypeOK'
  BY DEF WorkspaceTypeOK, Process
<1>3. StepsOK'
  BY DEF StepsOK, Replacing
<1>4. DownOK'
  BY DEF DownOK
<1>5. ModeOK'
  BY DEF ModeOK, Replacing
<1>6. RequestsOK'
  BY DEF RequestsOK, Simulated
<1>7. BelongOK'
  BY DEF BelongOK, Replacing, StoredHome
<1>8. DataOK'
  BY DEF DataOK, Replacing
<1> QED
  BY <1>1, <1>2, <1>3, <1>4, <1>5, <1>6, <1>7, <1>8 DEF WorkspaceInv

LEMMA DrainedOK ==
  ASSUME WorkspaceInv, Drained
  PROVE  WorkspaceInv'
<1> USE DEF WorkspaceInv, Drained, Simulated, Resting
<1>1. SessionsOK'
  BY DEF SessionsOK
<1>2. WorkspaceTypeOK'
  BY DEF WorkspaceTypeOK
<1>3. StepsOK'
  BY DEF StepsOK, NoChange, Replacing
<1>4. DownOK'
  BY DEF DownOK, NoChange
<1>5. ModeOK'
  BY DEF ModeOK, Replacing
<1>6. RequestsOK'
  BY DEF RequestsOK
<1>7. BelongOK'
  BY DEF BelongOK, Replacing, StoredHome
<1>8. DataOK'
  BY DEF DataOK, Replacing
<1> QED
  BY <1>1, <1>2, <1>3, <1>4, <1>5, <1>6, <1>7, <1>8 DEF WorkspaceInv

LEMMA DrainTimeoutOK ==
  ASSUME WorkspaceInv, DrainTimeout
  PROVE  WorkspaceInv'
<1> USE DEF WorkspaceInv, DrainTimeout, Simulated, Failed, NoChange, ClosedSimulation
<1>1. SessionsOK'
  BY DEF SessionsOK
<1>2. WorkspaceTypeOK'
  BY DEF WorkspaceTypeOK, Process
<1>3. StepsOK'
  BY DEF StepsOK
<1>4. DownOK'
  BY DEF DownOK
<1>5. ModeOK'
  BY DEF WorkspaceTypeOK, StepsOK, ModeOK, Process, Replacing
<1>6. RequestsOK'
  BY DEF RequestsOK
<1>7. BelongOK'
  BY DEF BelongOK, Replacing, StoredHome
<1>8. DataOK'
  BY DEF DataOK, Replacing
<1> QED
  BY <1>1, <1>2, <1>3, <1>4, <1>5, <1>6, <1>7, <1>8 DEF WorkspaceInv

LEMMA EnableOK ==
  ASSUME WorkspaceInv, Enable
  PROVE  WorkspaceInv'
<1> USE DEF WorkspaceInv, Enable, OpenData, Opened, Resting
<1>1. WorkspaceTypeOK'
  <2>1. disk' \in Nat /\ issued' \in [sessions : Nat, datasets : Nat]
    BY DEF WorkspaceTypeOK
  <2>2. process' \in Process
    BY <2>1 DEF WorkspaceTypeOK, Process
  <2>3. change' \in [kind : {"none", "restore", "enable", "disable", "reset"}, by : Nat,
                     step : {"none", "opening", "drain", "commit", "discard", "closing"}]
    BY DEF WorkspaceTypeOK
  <2> QED
    BY <2>1, <2>2, <2>3 DEF WorkspaceTypeOK
<1>2. StepsOK'
  BY DEF WorkspaceTypeOK, StepsOK
<1>3. DownOK'
  BY DEF DownOK, NoChange
<1>4. SessionsOK'
  BY DEF WorkspaceTypeOK, SessionsOK
<1>5. ModeOK'
  BY DEF WorkspaceTypeOK, ModeOK
<1>6. RequestsOK'
  BY DEF DownOK, ModeOK, RequestsOK, Simulated
<1>7. BelongOK'
  BY DEF BelongOK, DataOK, Replacing, StoredHome
<1>8. DataOK'
  BY DEF DataOK, Replacing
<1> QED
  BY <1>1, <1>2, <1>3, <1>4, <1>5, <1>6, <1>7, <1>8 DEF WorkspaceInv

LEMMA OpeningFailsOK ==
  ASSUME WorkspaceInv, OpeningFails
  PROVE  WorkspaceInv'
<1> USE DEF WorkspaceInv, OpeningFails, Failed, NoChange, ClosedSimulation
<1>1. SessionsOK'
  BY DEF SessionsOK
<1>2. WorkspaceTypeOK'
  BY DEF WorkspaceTypeOK, Process
<1>3. StepsOK'
  BY DEF StepsOK
<1>4. DownOK'
  BY DEF DownOK
<1>5. ModeOK'
  BY DEF StepsOK, ModeOK, Replacing
<1>6. RequestsOK'
  BY DEF RequestsOK, Simulated
<1>7. BelongOK'
  BY DEF BelongOK, Replacing, StoredHome
<1>8. DataOK'
  BY DEF DataOK, Replacing
<1> QED
  BY <1>1, <1>2, <1>3, <1>4, <1>5, <1>6, <1>7, <1>8 DEF WorkspaceInv

LEMMA CommitOK ==
  ASSUME WorkspaceInv, Commit
  PROVE  WorkspaceInv'
<1> USE DEF WorkspaceInv, Commit, MayCommit, Rotated, ClosedSimulation, NoChange
<1>1. WorkspaceTypeOK'
  <2>1. stored' \in Settings
    BY DEF WorkspaceTypeOK, Settings
  <2>2. process' \in Process
    <3> DEFINE before == IF change.kind = "enable" THEN process ELSE ClosedSimulation
    <3>1. before \in Process
      BY DEF WorkspaceTypeOK, Process
    <3>2. process' = [before EXCEPT !.enabled = stored'.enabled, !.revision = stored'.revision]
      OBVIOUS
    <3> HIDE DEF before
    <3> QED
      BY <2>1, <3>1, <3>2 DEF Process, Settings
  <2>3. issued' \in [sessions : Nat, datasets : Nat] /\ admitted' \subseteq Nat
    BY DEF WorkspaceTypeOK
  <2>4. change' \in [kind : {"none", "restore", "enable", "disable", "reset"}, by : Nat,
                     step : {"none", "opening", "drain", "commit", "discard", "closing"}]
    BY DEF WorkspaceTypeOK, NoChange
  <2> QED
    BY <2>1, <2>2, <2>3, <2>4 DEF WorkspaceTypeOK
<1>2. StepsOK'
  BY DEF StepsOK
<1>3. DownOK'
  BY DEF DownOK
<1>4. SessionsOK'
  BY DEF WorkspaceTypeOK, SessionsOK, Page, Request
<1>5. ModeOK'
  BY DEF WorkspaceTypeOK, StepsOK, ModeOK, Process
<1>6. RequestsOK'
  BY DEF WorkspaceTypeOK, SessionsOK, RequestsOK, Process, Simulated
<1>7. BelongOK'
  BY DEF WorkspaceTypeOK, SessionsOK, BelongOK
<1>8. DataOK'
  BY DEF WorkspaceTypeOK, StepsOK, DownOK, ModeOK, DataOK
<1> QED
  BY <1>1, <1>2, <1>3, <1>4, <1>5, <1>6, <1>7, <1>8 DEF WorkspaceInv

LEMMA CommitFailsOK ==
  ASSUME WorkspaceInv, CommitFails
  PROVE  WorkspaceInv'
<1> USE DEF WorkspaceInv, CommitFails, MayCommit, Failed, NoChange, ClosedSimulation
<1>1. SessionsOK'
  BY DEF SessionsOK
<1>2. WorkspaceTypeOK'
  BY DEF WorkspaceTypeOK, Process
<1>3. StepsOK'
  BY DEF StepsOK
<1>4. DownOK'
  BY DEF DownOK
<1>5. ModeOK'
  BY DEF WorkspaceTypeOK, ModeOK, Process, Replacing
<1>6. RequestsOK'
  BY DEF RequestsOK, Simulated
<1>7. BelongOK'
  BY DEF BelongOK, Replacing, StoredHome
<1>8. DataOK'
  BY DEF DataOK, Replacing
<1> QED
  BY <1>1, <1>2, <1>3, <1>4, <1>5, <1>6, <1>7, <1>8 DEF WorkspaceInv

LEMMA CloseOK ==
  ASSUME WorkspaceInv, Close
  PROVE  WorkspaceInv'
<1> USE DEF WorkspaceInv, Close, NoChange
<1>1. SessionsOK'
  BY DEF SessionsOK
<1>2. WorkspaceTypeOK'
  BY DEF WorkspaceTypeOK
<1>3. StepsOK'
  BY DEF StepsOK
<1>4. DownOK'
  BY DEF DownOK
<1>5. ModeOK'
  BY DEF WorkspaceTypeOK, StepsOK, ModeOK, Replacing
<1>6. RequestsOK'
  BY DEF RequestsOK, Simulated
<1>7. BelongOK'
  BY DEF BelongOK, Replacing, StoredHome
<1>8. DataOK'
  BY DEF DataOK, Replacing
<1> QED
  BY <1>1, <1>2, <1>3, <1>4, <1>5, <1>6, <1>7, <1>8 DEF WorkspaceInv

LEMMA FileUnsafeOK ==
  ASSUME WorkspaceInv, FileUnsafe
  PROVE  WorkspaceInv'
<1> USE DEF WorkspaceInv, FileUnsafe, Failed, NoChange, ClosedSimulation
<1>1. SessionsOK'
  BY DEF SessionsOK
<1>2. WorkspaceTypeOK'
  BY DEF WorkspaceTypeOK, Process
<1>3. StepsOK'
  BY DEF StepsOK
<1>4. DownOK'
  BY DEF DownOK
<1>5. ModeOK'
  BY DEF WorkspaceTypeOK, StepsOK, ModeOK, Process
<1>6. RequestsOK'
  BY DEF RequestsOK, Simulated
<1>7. BelongOK'
  BY DEF BelongOK, Replacing, StoredHome
<1>8. DataOK'
  BY DEF DataOK, Replacing
<1> QED
  BY <1>1, <1>2, <1>3, <1>4, <1>5, <1>6, <1>7, <1>8 DEF WorkspaceInv

LEMMA DiscardOK ==
  ASSUME WorkspaceInv, Discard
  PROVE  WorkspaceInv'
<1> USE DEF WorkspaceInv, Discard, ClosedSimulation, Resting
<1>1. SessionsOK'
  BY DEF SessionsOK
<1>2. WorkspaceTypeOK'
  BY DEF WorkspaceTypeOK, Process
<1>3. StepsOK'
  BY DEF StepsOK, NoChange
<1>4. DownOK'
  BY DEF DownOK, NoChange
<1>5. ModeOK'
  BY DEF WorkspaceTypeOK, StepsOK, ModeOK, NoChange, Replacing
<1>6. RequestsOK'
  BY DEF WorkspaceTypeOK, StepsOK, RequestsOK, NoChange, Simulated
<1>7. BelongOK'
  BY DEF WorkspaceTypeOK, StepsOK, BelongOK, NoChange, Replacing
<1>8. DataOK'
  BY DEF WorkspaceTypeOK, StepsOK, DataOK, NoChange, Replacing
<1> QED
  BY <1>1, <1>2, <1>3, <1>4, <1>5, <1>6, <1>7, <1>8 DEF WorkspaceInv

LEMMA ReopenOK ==
  ASSUME WorkspaceInv, Reopen
  PROVE  WorkspaceInv'
<1> USE DEF WorkspaceInv, Reopen, OpenData, Opened, Resting
<1>1. WorkspaceTypeOK'
  <2>1. disk' \in Nat /\ issued' \in [sessions : Nat, datasets : Nat]
    BY DEF WorkspaceTypeOK
  <2>2. process' \in Process
    BY <2>1 DEF WorkspaceTypeOK, Process
  <2>3. change' \in [kind : {"none", "restore", "enable", "disable", "reset"}, by : Nat,
                     step : {"none", "opening", "drain", "commit", "discard", "closing"}]
    BY DEF WorkspaceTypeOK
  <2> QED
    BY <2>1, <2>2, <2>3 DEF WorkspaceTypeOK
<1>2. StepsOK'
  BY DEF WorkspaceTypeOK, StepsOK
<1>3. DownOK'
  BY DEF DownOK, NoChange
<1>4. SessionsOK'
  BY DEF WorkspaceTypeOK, SessionsOK
<1>5. ModeOK'
  BY DEF WorkspaceTypeOK, StepsOK, ModeOK
<1>6. RequestsOK'
  BY DEF RequestsOK, Simulated
<1>7. BelongOK'
  BY DEF BelongOK, Replacing
<1>8. DataOK'
  BY DEF DataOK, Replacing
<1> QED
  BY <1>1, <1>2, <1>3, <1>4, <1>5, <1>6, <1>7, <1>8 DEF WorkspaceInv

LEMMA CommitResetOK ==
  ASSUME WorkspaceInv, CommitReset
  PROVE  WorkspaceInv'
<1> USE DEF WorkspaceInv, CommitReset, MayCommit, Rotated, NoChange
<1>1. WorkspaceTypeOK'
  BY DEF WorkspaceTypeOK, Settings, Process
<1>2. StepsOK'
  BY DEF StepsOK
<1>3. DownOK'
  BY DEF DownOK
<1>4. SessionsOK'
  BY DEF WorkspaceTypeOK, SessionsOK, Page, Request
<1>5. ModeOK'
  BY DEF StepsOK, ModeOK, Replacing
<1>6. RequestsOK'
  BY DEF WorkspaceTypeOK, SessionsOK, RequestsOK, Simulated
<1>7. BelongOK'
  BY DEF WorkspaceTypeOK, SessionsOK, BelongOK
<1>8. DataOK'
  BY DEF StepsOK, DownOK, ModeOK, DataOK
<1> QED
  BY <1>1, <1>2, <1>3, <1>4, <1>5, <1>6, <1>7, <1>8 DEF WorkspaceInv

LEMMA ResetFailsOK ==
  ASSUME WorkspaceInv, ResetFails
  PROVE  WorkspaceInv'
<1> USE DEF WorkspaceInv, ResetFails, MayCommit, GiveUp, ClosedSimulation, NoChange
<1>1. WorkspaceTypeOK'
  <2>1. stored' \in Settings
    BY DEF WorkspaceTypeOK, Settings
  <2>2. process' \in Process
    BY <2>1 DEF WorkspaceTypeOK, Process, Settings
  <2> QED
    BY <2>1, <2>2 DEF WorkspaceTypeOK, NoChange
<1>2. StepsOK'
  BY DEF StepsOK
<1>3. DownOK'
  BY DEF DownOK
<1>4. SessionsOK'
  BY DEF SessionsOK
<1>5. ModeOK'
  BY DEF ModeOK
<1>6. RequestsOK'
  BY DEF RequestsOK, Simulated
<1>7. BelongOK'
  BY DEF BelongOK
<1>8. DataOK'
  BY DEF DataOK
<1> QED
  BY <1>1, <1>2, <1>3, <1>4, <1>5, <1>6, <1>7, <1>8 DEF WorkspaceInv

LEMMA StartOK ==
  ASSUME WorkspaceInv, Start
  PROVE  WorkspaceInv'
<1> USE DEF WorkspaceInv, Start, Down, NoChange
<1>1. SessionsOK'
  BY DEF SessionsOK
<1>2. WorkspaceTypeOK'
  BY DEF WorkspaceTypeOK, Settings, Process
<1>3. StepsOK'
  BY DEF StepsOK
<1>4. DownOK'
  BY DEF DownOK
<1>5. ModeOK'
  BY DEF WorkspaceTypeOK, ModeOK, Settings
<1>6. RequestsOK'
  BY DEF DownOK, RequestsOK, Simulated
<1>7. BelongOK'
  BY DEF DownOK, BelongOK, Replacing, StoredHome
<1>8. DataOK'
  BY DEF DownOK, DataOK, Replacing
<1> QED
  BY <1>1, <1>2, <1>3, <1>4, <1>5, <1>6, <1>7, <1>8 DEF WorkspaceInv

LEMMA RestoreOK ==
  ASSUME WorkspaceInv, Restore
  PROVE  WorkspaceInv'
<1> USE DEF WorkspaceInv, Restore, OpenData, Opened, NoChange
<1>1. WorkspaceTypeOK'
  <2>1. disk' \in Nat /\ issued' \in [sessions : Nat, datasets : Nat]
    BY DEF WorkspaceTypeOK
  <2>2. process' \in Process
    BY <2>1 DEF WorkspaceTypeOK, Process
  <2>3. change' \in [kind : {"none", "restore", "enable", "disable", "reset"}, by : Nat,
                     step : {"none", "opening", "drain", "commit", "discard", "closing"}]
    BY DEF WorkspaceTypeOK, NoChange
  <2> QED
    BY <2>1, <2>2, <2>3 DEF WorkspaceTypeOK
<1>2. StepsOK'
  BY DEF StepsOK
<1>3. DownOK'
  BY DEF DownOK
<1>4. SessionsOK'
  BY DEF WorkspaceTypeOK, SessionsOK
<1>5. ModeOK'
  <2>1. /\ process \in Process /\ change' = NoChange /\ UNCHANGED stored
        /\ process' = [Opened(disk') EXCEPT !.enabled = TRUE]
    BY DEF WorkspaceTypeOK
  <2>2. /\ process'.up = process.up /\ process'.enabled /\ process'.open = disk'
        /\ process'.running /\ process'.revision = process.revision
        /\ process'.stopping = process.stopping
    BY <2>1 DEF Process
  <2>3. disk' # 0
    BY DEF WorkspaceTypeOK
  <2> QED
    BY <2>1, <2>2, <2>3 DEF ModeOK, StepsOK, Replacing
<1>6. RequestsOK'
  BY DEF DownOK, ModeOK, RequestsOK, Simulated
<1>7. BelongOK'
  BY DEF BelongOK, DataOK, Replacing, StoredHome
<1>8. DataOK'
  BY DEF DataOK, Replacing
<1> QED
  BY <1>1, <1>2, <1>3, <1>4, <1>5, <1>6, <1>7, <1>8 DEF WorkspaceInv

LEMMA RestoreFailsOK ==
  ASSUME WorkspaceInv, RestoreFails
  PROVE  WorkspaceInv'
<1> USE DEF WorkspaceInv, RestoreFails, GiveUp, ClosedSimulation, NoChange
<1>1. WorkspaceTypeOK'
  <2>1. stored' \in Settings
    BY DEF WorkspaceTypeOK, Settings
  <2>2. process' \in Process
    BY <2>1 DEF WorkspaceTypeOK, Process, Settings
  <2> QED
    BY <2>1, <2>2 DEF WorkspaceTypeOK, NoChange
<1>2. StepsOK'
  BY DEF StepsOK
<1>3. DownOK'
  BY DEF DownOK
<1>4. SessionsOK'
  BY DEF SessionsOK
<1>5. ModeOK'
  BY DEF ModeOK
<1>6. RequestsOK'
  BY DEF StepsOK, RequestsOK, Simulated
<1>7. BelongOK'
  BY DEF BelongOK
<1>8. DataOK'
  BY DEF DataOK
<1> QED
  BY <1>1, <1>2, <1>3, <1>4, <1>5, <1>6, <1>7, <1>8 DEF WorkspaceInv

LEMMA StopOK ==
  ASSUME WorkspaceInv, Stop
  PROVE  WorkspaceInv'
<1> USE DEF WorkspaceInv, Stop
<1>1. SessionsOK' /\ BelongOK' /\ DataOK'
  BY DEF SessionsOK, BelongOK, DataOK, Replacing, StoredHome
<1>2. WorkspaceTypeOK'
  BY DEF WorkspaceTypeOK, Process
<1>3. StepsOK'
  BY DEF StepsOK, Replacing
<1>4. DownOK'
  BY DEF DownOK
<1>5. ModeOK'
  BY DEF ModeOK, Replacing
<1>6. RequestsOK'
  BY DEF RequestsOK, Simulated
<1> QED
  BY <1>1, <1>2, <1>3, <1>4, <1>5, <1>6 DEF WorkspaceInv

LEMMA StoppedOK ==
  ASSUME WorkspaceInv, Stopped
  PROVE  WorkspaceInv'
<1> USE DEF WorkspaceInv, Stopped, Changing, Down, NoChange
<1>1. WorkspaceTypeOK'
  BY DEF WorkspaceTypeOK, Process
<1>2. StepsOK'
  BY DEF StepsOK
<1>3. DownOK'
  BY DEF DownOK
<1>4. SessionsOK'
  BY DEF SessionsOK
<1>5. ModeOK'
  BY DEF ModeOK
<1>6. RequestsOK'
  BY DEF RequestsOK, Simulated
<1>7. BelongOK'
  BY DEF BelongOK, Replacing, StoredHome
<1>8. DataOK'
  BY DEF DataOK, Replacing
<1> QED
  BY <1>1, <1>2, <1>3, <1>4, <1>5, <1>6, <1>7, <1>8 DEF WorkspaceInv

LEMMA CrashOK ==
  ASSUME WorkspaceInv, Crash
  PROVE  WorkspaceInv'
<1> USE DEF WorkspaceInv, Crash, Down, NoChange
<1>1. WorkspaceTypeOK'
  BY DEF WorkspaceTypeOK, Process
<1>2. StepsOK'
  BY DEF StepsOK
<1>3. DownOK'
  BY DEF DownOK
<1>4. SessionsOK'
  BY DEF SessionsOK
<1>5. ModeOK'
  BY DEF ModeOK
<1>6. RequestsOK'
  BY DEF RequestsOK, Simulated
<1>7. BelongOK'
  BY DEF BelongOK, Replacing, StoredHome
<1>8. DataOK'
  BY DEF DataOK, Replacing
<1> QED
  BY <1>1, <1>2, <1>3, <1>4, <1>5, <1>6, <1>7, <1>8 DEF WorkspaceInv

LEMMA WorkspaceInitOK == WorkspaceInit => WorkspaceInv
<1> SUFFICES ASSUME WorkspaceInit
             PROVE  WorkspaceInv
  OBVIOUS
<1> USE DEF WorkspaceInit, NoChange, Down
<1>1. WorkspaceTypeOK
  <2>1. /\ stored \in Settings /\ process \in Process
        /\ issued \in [sessions : Nat, datasets : Nat]
    BY DEF Settings, Process
  <2> QED
    BY <2>1 DEF WorkspaceTypeOK
<1>2. StepsOK /\ DownOK /\ ModeOK
  BY DEF StepsOK, DownOK, ModeOK, Replacing
<1>3. SessionsOK /\ RequestsOK /\ BelongOK /\ DataOK
  BY DEF SessionsOK, RequestsOK, BelongOK, DataOK, Simulated, Replacing
<1> QED
  BY <1>1, <1>2, <1>3 DEF WorkspaceInv

LEMMA WorkspaceNextOK == WorkspaceInv /\ [WorkspaceNext]_workspaceVars => WorkspaceInv'
<1> SUFFICES ASSUME WorkspaceInv, [WorkspaceNext]_workspaceVars
             PROVE  WorkspaceInv'
  OBVIOUS
<1>1. CASE Login \/ \E s \in admitted : Logout(s) \/ View(s)
  BY <1>1, LoginOK, LogoutOK, ViewOK
<1>2. CASE (\E p \in pages : Submit(p)) \/ (\E r \in requests : Answer(r))
  BY <1>2, SubmitOK, AnswerOK
<1>3. CASE \E kind \in {"enable", "disable", "reset"}, s \in admitted : Begin(kind, s)
  BY <1>3, BeginOK
<1>4. CASE Enable \/ Reopen \/ Restore
  BY <1>4, EnableOK, ReopenOK, RestoreOK
<1>5. CASE Drained \/ DrainTimeout \/ OpeningFails \/ Commit \/ CommitFails \/ Close
  BY <1>5, DrainedOK, DrainTimeoutOK, OpeningFailsOK, CommitOK, CommitFailsOK, CloseOK
<1>6. CASE FileUnsafe \/ Discard \/ CommitReset \/ ResetFails
  BY <1>6, FileUnsafeOK, DiscardOK, CommitResetOK, ResetFailsOK
<1>7. CASE Start \/ RestoreFails \/ Stop \/ Stopped \/ Crash
  BY <1>7, StartOK, RestoreFailsOK, StopOK, StoppedOK, CrashOK
<1>8. CASE UNCHANGED workspaceVars
  BY <1>8 DEF workspaceVars, WorkspaceInv, WorkspaceTypeOK, StepsOK, DownOK, SessionsOK, ModeOK, RequestsOK,
     BelongOK, DataOK, Simulated, Replacing, StoredHome
<1> QED
  BY <1>1, <1>2, <1>3, <1>4, <1>5, <1>6, <1>7, <1>8 DEF WorkspaceNext

LEMMA WorkspaceInvSound == WorkspaceInv => PagesBelong /\ ModeAgrees
<1> SUFFICES ASSUME WorkspaceInv
             PROVE  PagesBelong /\ ModeAgrees
  OBVIOUS
<1>1. PagesBelong
  BY DEF WorkspaceInv, PagesBelong, WorkspaceTypeOK, StepsOK, DownOK, ModeOK, RequestsOK, BelongOK, DataOK, Serving, Changing, Here,
     Replacing, StoredHome, NoChange, Process
<1>2. ModeAgrees
  BY DEF WorkspaceInv, ModeAgrees, WorkspaceTypeOK, StepsOK, DownOK, ModeOK, DataOK, Serving, Changing, NoChange, Replacing, Process
<1> QED
  BY <1>1, <1>2

\* The types of the setting, the process, its pages and its requests.
THEOREM WorkspaceTypes == WorkspaceSpec => []WorkspaceTypeOK
<1>1. WorkspaceInv => WorkspaceTypeOK
  BY DEF WorkspaceInv
<1> QED
  BY <1>1, WorkspaceInitOK, WorkspaceNextOK, PTL DEF WorkspaceSpec

\* A page reaches only the workspace it was rendered in, and the process serves the mode
\* of the database, through every change, failure, stop and crash (#transition, #start).
THEOREM WorkspacesAreSound == WorkspaceSpec => []WorkspacesSound
<1>1. WorkspaceInv => WorkspacesSound
  BY WorkspaceInvSound DEF WorkspacesSound
<1> QED
  BY <1>1, WorkspaceInitOK, WorkspaceNextOK, PTL DEF WorkspaceSpec

-----------------------------------------------------------------------------
(* AUTOSAVE.  A form knows the revision of the server if the request it has out carries *)
(* it or an answer brings it; a page or a form that knows it is informed of every form. *)
(* A save makes a revision nobody else knows, and its answer brings it to the page only *)
(* together with the value that was stored.                                             *)

Saved(form) == form.reply # None /\ form.reply.kind = "saved"
FormOK(form) ==
  /\ form.sent = None => form.pending = None /\ form.reply = None
  /\ Normal[form.acked] = form.acked
  /\ Saved(form) => form.reply.value = Normal[form.sent]
  /\ form.typed # None => Normal[form.dom] = Normal[form.typed]
  /\ form.typed = None =>
       /\ Normal[form.dom] = Normal[form.wanted]
       /\ form.pending # None => form.dom = form.pending
       /\ form.pending = None /\ form.sent # None => form.dom = form.sent
       /\ form.sent = None /\ form.status = "saved" => form.dom = form.acked
Dated(form, u) ==
  form.sentRevision <= u /\ (form.reply # None => form.reply.revision <= u)

Knows(form, u) ==
  IF form.reply = None THEN form.sent # None /\ form.sentRevision = u
  ELSE Saved(form) /\ form.reply.revision = u
KnownBesides(f) == shown = updatedAt \/ \E g \in Form \ {f} : Knows(forms[g], updatedAt)
Informed(f) ==
  /\ KnownBesides(f) =>
       forms[f].acked = row[f] /\ (Saved(forms[f]) => forms[f].reply.value = row[f])
  /\ Knows(forms[f], updatedAt) =>
       IF forms[f].reply = None THEN forms[f].acked = row[f] ELSE forms[f].reply.value = row[f]

AutosaveInv ==
  /\ AutosaveTypeOK /\ shown <= updatedAt
  /\ \A f \in Form : Normal[row[f]] = row[f] /\ FormOK(forms[f]) /\ Dated(forms[f], updatedAt)
  /\ \A f \in Form \ unnoticed : Informed(f)

(* A form about to send what waits, and one about to queue what it shows. *)
Ready(form) ==
  /\ form.sent = None => form.reply = None
  /\ Normal[form.acked] = form.acked
  /\ Saved(form) => form.reply.value = Normal[form.sent]
  /\ form.typed # None => Normal[form.dom] = Normal[form.typed]
  /\ form.typed = None =>
       /\ Normal[form.dom] = Normal[form.wanted]
       /\ form.pending # None => form.dom = form.pending
       /\ form.pending = None /\ form.sent # None => form.dom = form.sent
       /\ form.pending = None /\ form.sent = None /\ form.status = "saved" => form.dom = form.acked
Entered(form) ==
  /\ form.sent = None => form.pending = None /\ form.reply = None
  /\ Normal[form.acked] = form.acked
  /\ Saved(form) => form.reply.value = Normal[form.sent]
  /\ form.typed = None /\ Normal[form.dom] = Normal[form.wanted]

(* A step of the page to the form n sends at most what it knows now. *)
Follows(n, form) ==
  /\ n.acked = form.acked
  /\ \/ n.sent = form.sent /\ n.sentRevision = form.sentRevision /\ n.reply = form.reply
     \/ n.reply = None /\ n.sentRevision = shown
     \/ n.reply = None /\ n.sent = None

LEMMA Sends ==
  ASSUME NEW form \in FormState, Ready(form), NEW r \in Revision, NEW u \in Revision, r <= u,
         Dated(form, u)
  PROVE  LET n == SentNext(form, r) IN
         /\ n \in FormState /\ FormOK(n) /\ Dated(n, u) /\ n.acked = form.acked
         /\ \/ n = form
            \/ form.sent = None /\ n.reply = None /\ n.sentRevision = r
<1> DEFINE n == SentNext(form, r)
<1>1. CASE Running(form) \/ form.pending = None
  <2>1. n = form
    BY <1>1 DEF SentNext
  <2>2. FormOK(form)
    BY <1>1 DEF FormOK, Ready, Running
  <2> QED
    BY <2>1, <2>2
<1>2. CASE ~(Running(form) \/ form.pending = None)
  <2>1. n = [form EXCEPT !.sent = form.pending, !.sentRevision = r, !.reply = None,
                         !.pending = None, !.status = "saving"]
    BY <1>2 DEF SentNext
  <2>2. form.pending \in Value /\ form.pending # None /\ form.sent = None
    BY <1>2 DEF FormState, Running
  <2>3. /\ n \in FormState /\ n.sent = form.pending /\ n.sentRevision = r /\ n.reply = None
        /\ n.pending = None /\ n.status = "saving" /\ n.acked = form.acked
        /\ n.dom = form.dom /\ n.typed = form.typed /\ n.wanted = form.wanted
    BY <2>1, <2>2 DEF FormState
  <2> HIDE DEF n
  <2>4. FormOK(n) /\ Dated(n, u)
    BY <2>2, <2>3 DEF FormOK, Ready, Saved, Dated
  <2> QED
    BY <2>2, <2>3, <2>4 DEF n
<1> QED
  BY <1>1, <1>2

LEMMA Enqueues ==
  ASSUME NEW form \in FormState, Entered(form)
  PROVE  LET n == Enqueued(form) IN
         /\ n \in FormState /\ Ready(n) /\ n.acked = form.acked /\ n.sent = form.sent
         /\ n.sentRevision = form.sentRevision /\ n.reply = form.reply
<1> DEFINE n == Enqueued(form)
<1>1. form.dom \in Value /\ form.dom # None
  BY AutosaveAssumption DEF FormState
<1>2. CASE form.dom = form.pending \/ (~Running(form) /\ form.dom = form.acked)
  <2>1. n = form
    BY <1>2 DEF Enqueued
  <2>2. Ready(form)
    BY <1>1, <1>2 DEF Ready, Entered, Running
  <2> QED
    BY <2>1, <2>2
<1>3. CASE ~(form.dom = form.pending \/ (~Running(form) /\ form.dom = form.acked))
  <2>1. n = [form EXCEPT !.undo = None, !.pending = form.dom]
    BY <1>3 DEF Enqueued
  <2>2. /\ n \in FormState /\ n.pending = form.dom /\ n.acked = form.acked /\ n.sent = form.sent
        /\ n.sentRevision = form.sentRevision /\ n.reply = form.reply /\ n.dom = form.dom
        /\ n.typed = form.typed /\ n.wanted = form.wanted
    BY <1>1, <2>1 DEF FormState
  <2> HIDE DEF n
  <2>3. Ready(n)
    BY <1>1, <2>2 DEF Ready, Entered, Saved
  <2> QED
    BY <2>2, <2>3 DEF n
<1> QED
  BY <1>2, <1>3

(* What the page does to one form without a new revision. *)
LEMMA Quiet ==
  ASSUME AutosaveInv, UNCHANGED <<tapVars, shown, unnoticed>>, edits' \in 0 .. MaxEdits,
         NEW f \in Form, NEW n \in FormState, forms' = [forms EXCEPT ![f] = n],
         FormOK(n), Dated(n, updatedAt), Follows(n, forms[f])
  PROVE  AutosaveInv'
<1>1. forms'[f] = n /\ \A g \in Form \ {f} : forms'[g] = forms[g]
  BY DEF AutosaveInv, AutosaveTypeOK
<1>2. AutosaveTypeOK' /\ shown' <= updatedAt'
  BY DEF AutosaveInv, AutosaveTypeOK, tapVars
<1>3. \A g \in Form : Normal[row'[g]] = row'[g] /\ FormOK(forms'[g]) /\ Dated(forms'[g], updatedAt')
  BY <1>1 DEF AutosaveInv, tapVars
<1>4. FormOK(forms[f]) /\ forms[f].acked = n.acked
  BY DEF AutosaveInv, Follows
<1>5. Knows(n, updatedAt) => shown = updatedAt \/ Knows(forms[f], updatedAt)
  BY DEF Knows, Follows, Saved
<1>6. \A g \in Form : KnownBesides(g)' => KnownBesides(g)
  BY <1>1, <1>5 DEF KnownBesides, tapVars
<1>7. ASSUME NEW g \in Form \ unnoticed'
      PROVE  Informed(g)'
  <2>0. Informed(g)
    BY <1>7 DEF AutosaveInv
  <2>1. KnownBesides(g)' =>
          forms'[g].acked = row'[g] /\ (Saved(forms'[g]) => forms'[g].reply.value = row'[g])
    BY <1>1, <1>4, <1>6, <1>7, <2>0 DEF Informed, Follows, Saved, tapVars
  <2>2. Knows(forms'[g], updatedAt') =>
          IF forms'[g].reply = None THEN forms'[g].acked = row'[g] ELSE forms'[g].reply.value = row'[g]
    <3>1. CASE g = f
      <4>1. Knows(n, updatedAt) =>
              IF n.reply = None THEN n.acked = row[f] ELSE n.reply.value = row[f]
        <5>1. CASE shown = updatedAt /\ n.reply = None
          BY <1>4, <2>0, <3>1, <5>1 DEF Informed, KnownBesides
        <5>2. CASE ~(shown = updatedAt /\ n.reply = None)
          BY <1>4, <1>5, <2>0, <3>1, <5>2 DEF Informed, Follows, Knows, Saved
        <5> QED
          BY <5>1, <5>2
      <4> QED
        BY <1>1, <3>1, <4>1 DEF tapVars
    <3>2. CASE g # f
      BY <1>1, <1>7, <2>0, <3>2 DEF Informed, tapVars
    <3> QED
      BY <3>1, <3>2
  <2> QED
    BY <2>1, <2>2 DEF Informed
<1> QED
  BY <1>2, <1>3, <1>7 DEF AutosaveInv

LEMMA AutosaveInitOK == AutosaveInit => AutosaveInv
<1> SUFFICES ASSUME AutosaveInit
             PROVE  AutosaveInv
  OBVIOUS
<1>1. row \in [Form -> Value] /\ \A f \in Form : Normal[row[f]] = row[f]
  BY AutosaveAssumption DEF AutosaveInit
<1>2. \A v \in Value : Loaded(v) \in FormState
  BY AutosaveAssumption DEF Loaded, FormState, Revision
<1>3. AutosaveTypeOK /\ shown <= updatedAt
  BY <1>1, <1>2, AutosaveAssumption DEF AutosaveInit, AutosaveTypeOK, Revision
<1>4. \A f \in Form : forms[f] = Loaded(row[f])
  BY DEF AutosaveInit
<1>6. \A v : LET form == Loaded(v) IN
        /\ form.acked = v /\ form.dom = v /\ form.wanted = v
        /\ form.typed = None /\ form.pending = None /\ form.sent = None
        /\ form.reply = None /\ form.sentRevision = 0 /\ form.status # "saved"
  BY DEF Loaded
<1>5. ASSUME NEW f \in Form
      PROVE  FormOK(forms[f]) /\ Dated(forms[f], updatedAt) /\ Informed(f)
  <2>1. /\ forms[f].acked = row[f] /\ forms[f].dom = row[f] /\ forms[f].wanted = row[f]
        /\ forms[f].typed = None /\ forms[f].pending = None /\ forms[f].sent = None
        /\ forms[f].reply = None /\ forms[f].sentRevision = 0 /\ forms[f].status # "saved"
    BY <1>4, <1>6
  <2>2. Normal[row[f]] = row[f] /\ updatedAt = 0
    BY <1>1 DEF AutosaveInit
  <2> DEFINE form == forms[f]
  <2> HIDE DEF form
  <2>3. FormOK(form)
    BY <2>1, <2>2 DEF FormOK, Saved, form
  <2>4. Informed(f)
    BY <2>1, <2>2 DEF Informed, Saved, Knows
  <2>5. Dated(form, updatedAt)
    <3>1. form.sentRevision = 0 /\ form.reply = None
      BY <2>1 DEF form
    <3>2. 0 <= 0
      OBVIOUS
    <3> QED
      BY <2>2, <3>1, <3>2 DEF Dated
  <2> QED
    BY <2>3, <2>4, <2>5 DEF form
<1> QED
  BY <1>1, <1>3, <1>5 DEF AutosaveInv

LEMMA TypeIntoOK ==
  ASSUME AutosaveInv, NEW f \in Form, NEW v \in Value, TypeInto(f, v)
  PROVE  AutosaveInv'
<1> DEFINE form == forms[f]
           n == [form EXCEPT !.dom = v, !.typed = v]
<1>1. form \in FormState /\ FormOK(form) /\ Dated(form, updatedAt)
  BY DEF AutosaveInv, AutosaveTypeOK
<1>2. /\ n \in FormState /\ n.dom = v /\ n.typed = v /\ n.acked = form.acked /\ n.sent = form.sent
      /\ n.sentRevision = form.sentRevision /\ n.reply = form.reply /\ n.pending = form.pending
  BY <1>1 DEF FormState
<1>3. forms' = [forms EXCEPT ![f] = n] /\ UNCHANGED <<tapVars, shown, unnoticed>>
  BY <1>1 DEF TypeInto, AutosaveInv, AutosaveTypeOK
<1>6. edits' \in 0 .. MaxEdits
  BY AutosaveAssumption DEF AutosaveInv, AutosaveTypeOK, TypeInto
<1>0. v # None
  BY AutosaveAssumption
<1> HIDE DEF n, form
<1>4. FormOK(n)
  BY <1>0, <1>1, <1>2 DEF FormOK, Saved
<1>5. Dated(n, updatedAt) /\ Follows(n, form)
  BY <1>1, <1>2 DEF Dated, Follows
<1> QED
  BY <1>2, <1>3, <1>4, <1>5, <1>6, Quiet DEF form

LEMMA QueuesOK == \* what was entered is queued, and sent if nothing is out
  ASSUME AutosaveInv, UNCHANGED <<tapVars, shown, unnoticed, edits>>, NEW f \in Form,
         NEW entered \in FormState, Entered(entered), Follows(entered, forms[f]),
         entered.reply = forms[f].reply, entered.sentRevision = forms[f].sentRevision,
         forms' = [forms EXCEPT ![f] = SentNext(Enqueued(entered), shown)]
  PROVE  AutosaveInv'
<1> DEFINE queued == Enqueued(entered)
           n == SentNext(queued, shown)
<1>1. /\ Dated(forms[f], updatedAt) /\ shown \in Revision /\ updatedAt \in Revision
      /\ shown <= updatedAt /\ edits \in 0 .. MaxEdits
  BY DEF AutosaveInv, AutosaveTypeOK
<1>2. /\ queued \in FormState /\ Ready(queued) /\ queued.acked = entered.acked
      /\ queued.sent = entered.sent /\ queued.sentRevision = entered.sentRevision
      /\ queued.reply = entered.reply
  BY Enqueues
<1> HIDE DEF queued
<1>3. Dated(queued, updatedAt)
  BY <1>1, <1>2 DEF Dated
<1>4. /\ n \in FormState /\ FormOK(n) /\ Dated(n, updatedAt) /\ n.acked = queued.acked
      /\ \/ n = queued
         \/ queued.sent = None /\ n.reply = None /\ n.sentRevision = shown
  BY <1>1, <1>2, <1>3, Sends
<1> HIDE DEF n
<1>5. Follows(n, forms[f])
  BY <1>2, <1>4 DEF Follows
<1>6. forms' = [forms EXCEPT ![f] = n]
  BY DEF n, queued
<1> QED
  BY <1>1, <1>4, <1>5, <1>6, Quiet

LEMMA CommitFormOK ==
  ASSUME AutosaveInv, NEW f \in Form, CommitForm(f)
  PROVE  AutosaveInv'
<1> DEFINE form == forms[f]
           n == Committed(form)
<1>1. form \in FormState /\ FormOK(form) /\ form.typed # None
  BY DEF AutosaveInv, AutosaveTypeOK, CommitForm
<1>2. /\ n \in FormState /\ n.dom = form.dom /\ n.typed = None /\ n.wanted = form.typed
      /\ n.acked = form.acked /\ n.sent = form.sent /\ n.sentRevision = form.sentRevision
      /\ n.reply = form.reply /\ n.pending = form.pending
  BY <1>1 DEF Committed, FormState
<1>3. forms' = [forms EXCEPT ![f] = SentNext(Enqueued(n), shown)]
      /\ UNCHANGED <<tapVars, shown, unnoticed, edits>>
  BY DEF CommitForm
<1> HIDE DEF n, form
<1>4. Entered(n) /\ Follows(n, form)
  BY <1>1, <1>2 DEF Entered, FormOK, Saved, Follows
<1> QED
  BY <1>2, <1>3, <1>4, QueuesOK DEF form

LEMMA UndoSaveOK ==
  ASSUME AutosaveInv, NEW f \in Form, UndoSave(f)
  PROVE  AutosaveInv'
<1> DEFINE form == forms[f]
           n == Restored(form)
<1>1. form \in FormState /\ FormOK(form) /\ form.undo # None /\ form.typed = None
  BY DEF AutosaveInv, AutosaveTypeOK, UndoSave
<1>2. /\ n \in FormState /\ n.dom = form.undo /\ n.typed = None /\ n.wanted = form.undo
      /\ n.acked = form.acked /\ n.sent = form.sent /\ n.sentRevision = form.sentRevision
      /\ n.reply = form.reply /\ n.pending = form.pending
  BY <1>1 DEF Restored, FormState
<1>3. forms' = [forms EXCEPT ![f] = SentNext(Enqueued(n), shown)]
      /\ UNCHANGED <<tapVars, shown, unnoticed, edits>>
  BY DEF UndoSave
<1> HIDE DEF n, form
<1>4. Entered(n) /\ Follows(n, form)
  BY <1>1, <1>2 DEF Entered, FormOK, Saved, Follows
<1> QED
  BY <1>2, <1>3, <1>4, QueuesOK DEF form

LEMMA UndoExpiresOK ==
  ASSUME AutosaveInv, NEW f \in Form, UndoExpires(f)
  PROVE  AutosaveInv'
<1> DEFINE form == forms[f]
           n == [form EXCEPT !.undo = None]
<1>1. form \in FormState /\ FormOK(form) /\ Dated(form, updatedAt) /\ edits \in 0 .. MaxEdits
  BY DEF AutosaveInv, AutosaveTypeOK
<1>2. /\ n \in FormState /\ n.dom = form.dom /\ n.typed = form.typed /\ n.wanted = form.wanted
      /\ n.acked = form.acked /\ n.sent = form.sent /\ n.sentRevision = form.sentRevision
      /\ n.reply = form.reply /\ n.pending = form.pending /\ n.status = form.status
  BY <1>1 DEF FormState
<1>3. forms' = [forms EXCEPT ![f] = n] /\ UNCHANGED <<tapVars, shown, unnoticed, edits>>
  BY DEF UndoExpires
<1> HIDE DEF n, form
<1>4. FormOK(n) /\ Dated(n, updatedAt) /\ Follows(n, form)
  BY <1>1, <1>2 DEF FormOK, Saved, Dated, Follows
<1> QED
  BY <1>1, <1>2, <1>3, <1>4, Quiet DEF form

(* The end of a request, and the next one. *)
LEMMA EndsTyped ==
  ASSUME NEW form \in FormState,
         NEW r \in Revision, NEW u \in Revision, r <= u, Dated(form, u),
         Ready([form EXCEPT !.sent = None, !.reply = None])
  PROVE  LET n == Ended(form, r) IN
         /\ n \in FormState /\ FormOK(n) /\ Dated(n, u) /\ n.acked = form.acked
         /\ n.reply = None /\ (n.sent = None \/ n.sentRevision = r)
<1> DEFINE m == [form EXCEPT !.sent = None, !.reply = None]
           n == SentNext(m, r)
<1>1. /\ m \in FormState /\ m.sent = None /\ m.reply = None /\ m.acked = form.acked
      /\ m.sentRevision = form.sentRevision
  BY DEF FormState
<1>2. n = Ended(form, r)
  BY DEF Ended
<1> HIDE DEF m
<1>3. Dated(m, u)
  BY <1>1 DEF Dated
<1>4. /\ n \in FormState /\ FormOK(n) /\ Dated(n, u) /\ n.acked = m.acked
      /\ \/ n = m
         \/ m.sent = None /\ n.reply = None /\ n.sentRevision = r
  BY <1>1, <1>3, Sends DEF m
<1> QED
  BY <1>1, <1>2, <1>4

LEMMA RefusedEnds ==
  ASSUME NEW form \in FormState, FormOK(form), form.sent # None,
         NEW r \in Revision, NEW u \in Revision, r <= u, Dated(form, u)
  PROVE  LET n == Ended(Refused(form), r) IN
         /\ n \in FormState /\ FormOK(n) /\ Dated(n, u) /\ n.acked = form.acked
         /\ n.reply = None /\ (n.sent = None \/ n.sentRevision = r)
<1> DEFINE s == IF form.reply # None /\ form.reply.kind = "conflict" THEN "conflict" ELSE "error"
           m == Refused(form)
           k == [m EXCEPT !.sent = None, !.reply = None]
<1>1. m = [form EXCEPT !.undo = None, !.status = s] /\ s \in {"conflict", "error"}
  BY DEF Refused
<1> HIDE DEF s
<1>2. /\ m \in FormState /\ m.sent = form.sent /\ m.reply = form.reply /\ m.acked = form.acked
      /\ m.sentRevision = form.sentRevision /\ m.status = s /\ m.dom = form.dom
      /\ m.typed = form.typed /\ m.wanted = form.wanted /\ m.pending = form.pending
  BY <1>1 DEF FormState
<1> HIDE DEF m
<1>3. /\ k \in FormState /\ k.sent = None /\ k.reply = None /\ k.acked = form.acked
      /\ k.status = s /\ k.dom = form.dom
      /\ k.typed = form.typed /\ k.wanted = form.wanted /\ k.pending = form.pending
  BY <1>2 DEF FormState
<1> HIDE DEF k
<1>4. Ready(k) /\ Dated(m, u)
  BY <1>1, <1>2, <1>3 DEF Ready, FormOK, Dated, Saved
<1> QED
  BY <1>2, <1>4, EndsTyped DEF m, k

LEMMA SaveLostOK ==
  ASSUME AutosaveInv, NEW f \in Form, SaveLost(f)
  PROVE  AutosaveInv'
<1> DEFINE form == forms[f]
           m == [form EXCEPT !.reply = None]
           n == Ended(Refused(m), shown)
<1>1. /\ form \in FormState /\ FormOK(form) /\ Dated(form, updatedAt) /\ form.sent # None
      /\ shown \in Revision /\ updatedAt \in Revision /\ shown <= updatedAt
  BY DEF AutosaveInv, AutosaveTypeOK, SaveLost, Running
<1>2. /\ m \in FormState /\ m.dom = form.dom /\ m.typed = form.typed /\ m.wanted = form.wanted
      /\ m.acked = form.acked /\ m.sent = form.sent /\ m.sentRevision = form.sentRevision
      /\ m.reply = None /\ m.pending = form.pending /\ m.status = form.status
  BY <1>1 DEF FormState
<1>3. /\ forms' = [forms EXCEPT ![f] = n] /\ edits' \in 0 .. MaxEdits
      /\ UNCHANGED <<tapVars, shown, unnoticed>>
  BY AutosaveAssumption DEF AutosaveInv, AutosaveTypeOK, SaveLost
<1> HIDE DEF m, form
<1>4. FormOK(m) /\ Dated(m, updatedAt)
  BY <1>1, <1>2 DEF FormOK, Saved, Dated
<1>5. /\ n \in FormState /\ FormOK(n) /\ Dated(n, updatedAt) /\ n.acked = m.acked
      /\ n.reply = None /\ (n.sent = None \/ n.sentRevision = shown)
  BY <1>1, <1>2, <1>4, RefusedEnds
<1> HIDE DEF n
<1>6. Follows(n, form)
  BY <1>2, <1>5 DEF Follows
<1> QED
  BY <1>3, <1>5, <1>6, Quiet DEF form

LEMMA ReloadPageOK ==
  ASSUME AutosaveInv, ReloadPage
  PROVE  AutosaveInv'
<1>1. /\ row \in [Form -> Value] /\ \A f \in Form : Normal[row[f]] = row[f]
      /\ updatedAt \in Revision /\ 0 <= updatedAt /\ edits \in 0 .. MaxEdits
  BY AutosaveAssumption DEF AutosaveInv, AutosaveTypeOK, Revision
<1>2. \A v \in Value : Loaded(v) \in FormState
  BY AutosaveAssumption DEF Loaded, FormState, Revision
<1>3. \A v : LET form == Loaded(v) IN
        /\ form.acked = v /\ form.dom = v /\ form.wanted = v
        /\ form.typed = None /\ form.pending = None /\ form.sent = None
        /\ form.reply = None /\ form.sentRevision = 0 /\ form.status # "saved"
  BY DEF Loaded
<1>4. /\ forms' = [f \in Form |-> Loaded(row[f])] /\ shown' = updatedAt /\ unnoticed' = {}
      /\ row' = row /\ updatedAt' = updatedAt /\ edits' = edits
  BY DEF ReloadPage, tapVars
<1>5. AutosaveTypeOK' /\ shown' <= updatedAt'
  <2>1. updatedAt <= updatedAt
    BY <1>1, AutosaveAssumption DEF Revision
  <2> QED
    BY <1>1, <1>2, <1>4, <2>1 DEF AutosaveTypeOK
<1>6. ASSUME NEW f \in Form
      PROVE  FormOK(forms'[f]) /\ Dated(forms'[f], updatedAt) /\ Informed(f)'
  <2> DEFINE form == forms'[f]
  <2>1. /\ form.acked = row[f] /\ form.dom = row[f] /\ form.wanted = row[f]
        /\ form.typed = None /\ form.pending = None /\ form.sent = None
        /\ form.reply = None /\ form.sentRevision = 0 /\ form.status # "saved"
    BY <1>3, <1>4
  <2>2. Informed(f)'
    BY <1>4, <2>1 DEF Informed, Saved, Knows
  <2> HIDE DEF form
  <2>3. FormOK(form)
    BY <1>1, <2>1 DEF FormOK, Saved
  <2>4. Dated(form, updatedAt)
    BY <1>1, <2>1 DEF Dated
  <2> QED
    BY <2>2, <2>3, <2>4 DEF form
<1> QED
  BY <1>1, <1>4, <1>5, <1>6 DEF AutosaveInv

LEMMA ValueStored ==
  ASSUME AutosaveInv, NEW f \in Form, NEW v \in Value, row' = [row EXCEPT ![f] = Normal[v]]
  PROVE  /\ row' \in [Form -> Value] /\ \A g \in Form : Normal[row'[g]] = row'[g]
         /\ row'[f] = Normal[v] /\ \A g \in Form \ {f} : row'[g] = row[g]
BY AutosaveAssumption DEF AutosaveInv, AutosaveTypeOK

LEMMA NextRevision ==
  ASSUME AutosaveInv, updatedAt < MaxSaves, updatedAt' = updatedAt + 1
  PROVE  /\ updatedAt' \in Revision /\ shown < updatedAt'
         /\ \A f \in Form : Dated(forms[f], updatedAt') /\ ~Knows(forms[f], updatedAt')
<1>1. updatedAt \in 0 .. MaxSaves /\ shown \in 0 .. MaxSaves /\ shown <= updatedAt
  BY DEF AutosaveInv, AutosaveTypeOK, Revision
<1>2. updatedAt' \in Revision /\ shown < updatedAt'
  BY <1>1, AutosaveAssumption DEF Revision
<1>3. ASSUME NEW f \in Form
      PROVE  Dated(forms[f], updatedAt') /\ ~Knows(forms[f], updatedAt')
  <2>1. forms[f].sentRevision \in 0 .. MaxSaves /\ forms[f].sentRevision <= updatedAt
    BY DEF AutosaveInv, AutosaveTypeOK, FormState, Revision, Dated
  <2>2. forms[f].reply # None => /\ forms[f].reply.revision \in 0 .. MaxSaves
                                 /\ forms[f].reply.revision <= updatedAt
    BY DEF AutosaveInv, AutosaveTypeOK, FormState, Reply, Revision, Dated
  <2> DEFINE s == forms[f].sentRevision
             r == forms[f].reply.revision
  <2> HIDE DEF s, r
  <2>3. s <= updatedAt' /\ s # updatedAt'
    BY <1>1, <2>1, AutosaveAssumption DEF s
  <2>4. forms[f].reply # None => r <= updatedAt' /\ r # updatedAt'
    BY <1>1, <2>2, AutosaveAssumption DEF r
  <2> QED
    BY <2>3, <2>4 DEF Dated, Knows, s, r
<1> QED
  BY <1>2, <1>3

LEMMA SavedElsewhereOK ==
  ASSUME AutosaveInv, NEW f \in Form, NEW v \in Value, SavedElsewhere(f, v)
  PROVE  AutosaveInv'
<1>1. /\ updatedAt < MaxSaves /\ updatedAt' = updatedAt + 1
      /\ row' = [row EXCEPT ![f] = Normal[v]] /\ UNCHANGED <<forms, shown, unnoticed, edits>>
  BY DEF SavedElsewhere
<1>2. /\ updatedAt' \in Revision /\ shown < updatedAt'
      /\ \A g \in Form : Dated(forms[g], updatedAt') /\ ~Knows(forms[g], updatedAt')
  BY <1>1, NextRevision
<1>3. row' \in [Form -> Value] /\ \A g \in Form : Normal[row'[g]] = row'[g]
  BY <1>1, ValueStored
<1>4. AutosaveTypeOK'
  BY <1>1, <1>2, <1>3 DEF AutosaveInv, AutosaveTypeOK
<1>5. shown' <= updatedAt' /\ shown' # updatedAt'
  BY <1>1, <1>2, AutosaveAssumption DEF AutosaveInv, AutosaveTypeOK, Revision
<1>6. \A g \in Form : Informed(g)'
  BY <1>1, <1>2, <1>5 DEF Informed, KnownBesides
<1> QED
  BY <1>1, <1>2, <1>3, <1>4, <1>5, <1>6 DEF AutosaveInv

LEMMA PlainPostOK ==
  ASSUME AutosaveInv, NEW f \in Form, NEW v \in Value, PlainPost(f, v)
  PROVE  AutosaveInv'
<1>1. /\ row' = [row EXCEPT ![f] = Normal[v]] /\ UNCHANGED <<updatedAt, forms, shown>>
      /\ unnoticed' = unnoticed \cup {f}
  BY DEF PlainPost
<1>2. /\ row' \in [Form -> Value] /\ \A g \in Form : Normal[row'[g]] = row'[g]
      /\ \A g \in Form \ {f} : row'[g] = row[g]
  BY <1>1, ValueStored
<1>3. edits' \in 0 .. MaxEdits
  BY AutosaveAssumption DEF AutosaveInv, AutosaveTypeOK, PlainPost
<1>4. AutosaveTypeOK' /\ shown' <= updatedAt'
  BY <1>1, <1>2, <1>3 DEF AutosaveInv, AutosaveTypeOK
<1>5. \A g \in Form \ unnoticed' : Informed(g)'
  BY <1>1, <1>2 DEF AutosaveInv, Informed, KnownBesides
<1> QED
  BY <1>1, <1>2, <1>4, <1>5 DEF AutosaveInv

LEMMA ReplyTyped ==
  ASSUME NEW form \in FormState, FormOK(form), form.sent # None, form.reply = None,
         NEW kind \in {"saved", "conflict", "invalid"}, NEW v \in Value \cup {None},
         kind = "saved" => v = Normal[form.sent],
         NEW u \in Revision, Dated(form, u)
  PROVE  LET n == [form EXCEPT !.reply = [kind |-> kind, value |-> v, revision |-> u]] IN
         /\ n \in FormState /\ FormOK(n) /\ Dated(n, u) /\ n.acked = form.acked
         /\ n.reply = [kind |-> kind, value |-> v, revision |-> u] /\ n.reply # None
         /\ n.sentRevision = form.sentRevision
<1> DEFINE r == [kind |-> kind, value |-> v, revision |-> u]
           n == [form EXCEPT !.reply = r]
<1>1. r \in Reply /\ r.kind = kind /\ r.value = v /\ r.revision = u /\ u <= u
  BY AutosaveAssumption DEF Reply, Revision
<1>2. r # None
  BY <1>1, AutosaveAssumption
<1> HIDE DEF r
<1>3. /\ n \in FormState /\ n.dom = form.dom /\ n.typed = form.typed /\ n.wanted = form.wanted
      /\ n.acked = form.acked /\ n.sent = form.sent /\ n.sentRevision = form.sentRevision
      /\ n.reply = r /\ n.pending = form.pending /\ n.status = form.status
  BY <1>1 DEF FormState
<1> HIDE DEF n
<1>4. FormOK(n) /\ Dated(n, u)
  BY <1>1, <1>2, <1>3 DEF FormOK, Saved, Dated
<1> QED
  BY <1>2, <1>3, <1>4 DEF n, r

LEMMA ServeSaveOK ==
  ASSUME AutosaveInv, NEW f \in Form, ServeSave(f)
  PROVE  AutosaveInv'
<1> DEFINE form == forms[f]
           v == form.sent
<1>1. /\ form \in FormState /\ FormOK(form) /\ Dated(form, updatedAt) /\ form.reply = None
      /\ v # None /\ v \in Value /\ Normal[v] \in Value /\ updatedAt \in Revision
      /\ shown <= updatedAt
  BY AutosaveAssumption DEF AutosaveInv, AutosaveTypeOK, FormState, ServeSave, Running
<1>2. UNCHANGED <<shown, unnoticed, edits>>
  BY DEF ServeSave
<1>3. CASE \E kind \in {"invalid", "conflict"} : UNCHANGED tapVars /\ Answered(f, kind, None)
  <2>1. PICK kind \in {"invalid", "conflict"} : UNCHANGED tapVars /\ Answered(f, kind, None)
    BY <1>3
  <2> DEFINE n == [form EXCEPT !.reply = [kind |-> kind, value |-> None, revision |-> updatedAt]]
  <2>2. /\ n \in FormState /\ FormOK(n) /\ Dated(n, updatedAt) /\ n.acked = form.acked
        /\ n.reply = [kind |-> kind, value |-> None, revision |-> updatedAt] /\ n.reply # None
    BY <1>1, ReplyTyped
  <2>3. forms' = [forms EXCEPT ![f] = n] /\ row' = row /\ updatedAt' = updatedAt
    BY <2>1 DEF Answered, tapVars
  <2> HIDE DEF n
  <2>4. forms'[f] = n /\ \A g \in Form \ {f} : forms'[g] = forms[g]
    BY <2>3 DEF AutosaveInv, AutosaveTypeOK
  <2>5. ~Saved(n) /\ ~Knows(n, updatedAt)
    BY <2>2 DEF Saved, Knows
  <2>6. AutosaveTypeOK' /\ shown' <= updatedAt'
    BY <1>2, <2>2, <2>3 DEF AutosaveInv, AutosaveTypeOK
  <2>7. ASSUME NEW g \in Form \ unnoticed'
        PROVE  Informed(g)'
    <3>1. Informed(g) /\ (KnownBesides(g)' => KnownBesides(g))
      BY <1>2, <2>3, <2>4, <2>5 DEF AutosaveInv, KnownBesides
    <3> QED
      BY <2>2, <2>3, <2>4, <2>5, <3>1 DEF Informed
  <2> QED
    BY <2>2, <2>3, <2>4, <2>6, <2>7 DEF AutosaveInv
<1>4. CASE /\ form.sentRevision = updatedAt /\ Answered(f, "saved", Normal[v])
           /\ \/ UNCHANGED tapVars /\ Normal[v] = row[f]
              \/ /\ updatedAt < MaxSaves /\ updatedAt' = updatedAt + 1
                 /\ row' = [row EXCEPT ![f] = Normal[v]]
  <2> DEFINE n == [form EXCEPT !.reply = [kind |-> "saved", value |-> Normal[v],
                                          revision |-> updatedAt']]
  <2>0. \/ row' = row /\ updatedAt' = updatedAt /\ Normal[v] = row[f]
        \/ /\ updatedAt < MaxSaves /\ updatedAt' = updatedAt + 1
           /\ row' = [row EXCEPT ![f] = Normal[v]]
    BY <1>4 DEF tapVars
  <2>1. /\ updatedAt' \in Revision /\ shown <= updatedAt'
        /\ row' \in [Form -> Value] /\ \A g \in Form : Normal[row'[g]] = row'[g]
        /\ row'[f] = Normal[v] /\ \A g \in Form \ {f} : row'[g] = row[g]
        /\ \A g \in Form : Dated(forms[g], updatedAt')
    <3>1. CASE row' = row /\ updatedAt' = updatedAt /\ Normal[v] = row[f]
      BY <1>1, <3>1 DEF AutosaveInv, AutosaveTypeOK
    <3>2. CASE /\ updatedAt < MaxSaves /\ updatedAt' = updatedAt + 1
               /\ row' = [row EXCEPT ![f] = Normal[v]]
      <4>1. /\ updatedAt' \in Revision /\ shown < updatedAt'
            /\ \A g \in Form : Dated(forms[g], updatedAt')
        BY <3>2, NextRevision
      <4>2. shown <= updatedAt'
        BY <1>1, <3>2, AutosaveAssumption DEF AutosaveInv, AutosaveTypeOK, Revision
      <4> QED
        BY <1>1, <3>2, <4>1, <4>2, ValueStored
    <3> QED
      BY <2>0, <3>1, <3>2
  <2>2. /\ n \in FormState /\ FormOK(n) /\ Dated(n, updatedAt') /\ n.acked = form.acked
        /\ n.reply = [kind |-> "saved", value |-> Normal[v], revision |-> updatedAt']
        /\ n.reply # None
    <3> DEFINE u == updatedAt'
    <3>1. u \in Revision /\ Dated(form, u)
      BY <2>1
    <3> HIDE DEF u
    <3>2. LET m == [form EXCEPT !.reply = [kind |-> "saved", value |-> Normal[v], revision |-> u]]
          IN  /\ m \in FormState /\ FormOK(m) /\ Dated(m, u) /\ m.acked = form.acked
              /\ m.reply = [kind |-> "saved", value |-> Normal[v], revision |-> u]
              /\ m.reply # None
      BY <1>1, <3>1, ReplyTyped
    <3> QED
      BY <3>2 DEF u
  <2>3. forms' = [forms EXCEPT ![f] = n]
    BY <1>4 DEF Answered
  <2> HIDE DEF n
  <2>4. forms'[f] = n /\ \A g \in Form \ {f} : forms'[g] = forms[g]
    BY <2>3 DEF AutosaveInv, AutosaveTypeOK
  <2>5. n.reply.value = row'[f] /\ n.reply.kind = "saved" /\ n.reply.revision = updatedAt'
    BY <2>1, <2>2
  <2>6. AutosaveTypeOK' /\ shown' <= updatedAt'
    BY <1>2, <2>1, <2>2, <2>3 DEF AutosaveInv, AutosaveTypeOK
  <2>7. Knows(form, updatedAt)
    BY <1>1, <1>4 DEF Knows
  <2>8. ASSUME NEW g \in Form \ unnoticed'
        PROVE  Informed(g)'
    <3>1. Informed(g)
      BY <1>2, <2>8 DEF AutosaveInv
    <3>2. CASE g # f
      <4>1. /\ forms[g].acked = row[g]
            /\ Saved(forms[g]) => forms[g].reply.value = row[g]
        BY <2>7, <3>1, <3>2 DEF Informed, KnownBesides
      <4>2. forms'[g] = forms[g] /\ row'[g] = row[g]
        BY <2>1, <2>4, <3>2
      <4> QED
        BY <4>1, <4>2 DEF Informed, Knows, Saved
    <3>3. CASE g = f
      <4>1. Knows(n, updatedAt') => n.reply.value = row'[f]
        BY <2>5
      <4>2. ASSUME KnownBesides(f)'
            PROVE  n.acked = row'[f]
        <5>1. CASE updatedAt < MaxSaves /\ updatedAt' = updatedAt + 1
          <6>1. shown' # updatedAt' /\ \A h \in Form : ~Knows(forms[h], updatedAt')
            BY <1>2, <5>1, NextRevision, AutosaveAssumption
               DEF AutosaveInv, AutosaveTypeOK, Revision
          <6> QED
            BY <2>4, <4>2, <6>1 DEF KnownBesides
        <5>2. CASE row' = row /\ updatedAt' = updatedAt /\ Normal[v] = row[f]
          <6>1. KnownBesides(f)
            BY <1>2, <2>4, <4>2, <5>2 DEF KnownBesides
          <6> QED
            BY <2>2, <3>1, <3>3, <5>2, <6>1 DEF Informed
        <5> QED
          BY <2>0, <5>1, <5>2
      <4> QED
        BY <2>2, <2>4, <2>5, <3>3, <4>1, <4>2 DEF Informed, Saved
    <3> QED
      BY <3>2, <3>3
  <2> QED
    BY <2>1, <2>2, <2>4, <2>6, <2>8 DEF AutosaveInv
<1> QED
  BY <1>3, <1>4 DEF ServeSave

LEMMA AcknowledgedEnds ==
  ASSUME NEW form \in FormState, FormOK(form), form.sent # None, Saved(form),
         NEW u \in Revision, Dated(form, u)
  PROVE  LET r == form.reply.revision
             n == Ended(Acknowledged(form), r) IN
         /\ r \in Revision /\ r <= u
         /\ n \in FormState /\ FormOK(n) /\ Dated(n, u) /\ n.acked = form.reply.value
         /\ n.reply = None /\ (n.sent = None \/ n.sentRevision = r)
<1> DEFINE v == form.reply.value
           r == form.reply.revision
           next == IF form.pending = form.sent THEN v ELSE form.pending
           waits == IF next = v THEN None ELSE next
           dom == IF form.dom = form.sent THEN v ELSE form.dom
           undo == IF waits = None /\ form.acked # v THEN form.acked ELSE form.undo
           m == Acknowledged(form)
           k == [m EXCEPT !.sent = None, !.reply = None]
<1>1. form.reply \in Reply /\ r \in Revision /\ r <= u
  BY DEF FormState, Saved, Dated, Reply
<1>2. form.sent \in Value /\ v = Normal[form.sent]
  BY DEF FormState, FormOK
<1>3. v \in Value /\ Normal[v] = v /\ v # None
  BY <1>2, AutosaveAssumption
<1>4. dom \in Value /\ waits \in Value \cup {None} /\ undo \in Value \cup {None}
  BY <1>2, <1>3 DEF FormState
<1>5. m = [form EXCEPT !.dom = dom, !.acked = v, !.pending = waits, !.status = "saved", !.undo = undo]
  BY DEF Acknowledged
<1>6. /\ form.pending = None => dom = (IF form.dom = form.sent THEN v ELSE form.dom) /\ waits = None
      /\ form.pending = form.sent => waits = None
      /\ form.pending = v => waits = None
      /\ form.pending # form.sent /\ form.pending # v => waits = form.pending
  BY <1>2, <1>3
<1>7. (form.dom = form.sent /\ dom = v) \/ (form.dom # form.sent /\ dom = form.dom)
  OBVIOUS
<1> HIDE DEF dom, waits, undo, next, v
<1>8. /\ m \in FormState /\ m.dom = dom /\ m.acked = v /\ m.pending = waits /\ m.status = "saved"
      /\ m.typed = form.typed /\ m.wanted = form.wanted /\ m.sent = form.sent
      /\ m.sentRevision = form.sentRevision /\ m.reply = form.reply
  BY <1>3, <1>4, <1>5 DEF FormState
<1> HIDE DEF m
<1>9. /\ k.sent = None /\ k.reply = None /\ k.acked = v /\ k.dom = dom
      /\ k.typed = form.typed /\ k.wanted = form.wanted /\ k.pending = waits
  BY <1>8 DEF FormState
<1> HIDE DEF k
<1>10. Normal[dom] = Normal[form.dom]
  BY <1>2, <1>3, <1>7
<1>11. form.typed = None =>
         /\ waits # None => dom = waits
         /\ waits = None => dom = v
  BY <1>2, <1>3, <1>6, <1>7 DEF FormOK
<1>12. Ready(k) /\ Dated(m, u)
  BY <1>3, <1>8, <1>9, <1>10, <1>11 DEF Ready, FormOK, Dated, Saved
<1>13. LET n == Ended(m, r) IN
       /\ n \in FormState /\ FormOK(n) /\ Dated(n, u) /\ n.acked = m.acked
       /\ n.reply = None /\ (n.sent = None \/ n.sentRevision = r)
  BY <1>1, <1>8, <1>12, EndsTyped DEF k
<1> QED
  BY <1>1, <1>8, <1>13 DEF m, v

LEMMA SaveAnsweredOK ==
  ASSUME AutosaveInv, NEW f \in Form, SaveAnswered(f)
  PROVE  AutosaveInv'
<1> DEFINE form == forms[f]
<1>1. /\ form \in FormState /\ FormOK(form) /\ Dated(form, updatedAt) /\ form.reply # None
      /\ form.sent # None /\ shown \in Revision /\ updatedAt \in Revision /\ shown <= updatedAt
      /\ edits \in 0 .. MaxEdits
  BY DEF AutosaveInv, AutosaveTypeOK, SaveAnswered, FormOK
<1>2. UNCHANGED <<tapVars, unnoticed, edits>>
  BY DEF SaveAnswered
<1>3. CASE form.reply.kind # "saved"
  <2> DEFINE n == Ended(Refused(form), shown)
  <2>1. forms' = [forms EXCEPT ![f] = n] /\ shown' = shown
    BY <1>3 DEF SaveAnswered
  <2>2. /\ n \in FormState /\ FormOK(n) /\ Dated(n, updatedAt) /\ n.acked = form.acked
        /\ n.reply = None /\ (n.sent = None \/ n.sentRevision = shown)
    BY <1>1, RefusedEnds
  <2> HIDE DEF n
  <2>3. Follows(n, form)
    BY <2>2 DEF Follows
  <2> QED
    BY <1>1, <1>2, <2>1, <2>2, <2>3, Quiet
<1>4. CASE form.reply.kind = "saved"
  <2> DEFINE r == form.reply.revision
             n == Ended(Acknowledged(form), r)
  <2>1. forms' = [forms EXCEPT ![f] = n] /\ shown' = r
    BY <1>4 DEF SaveAnswered
  <2>2. Saved(form)
    BY <1>1, <1>4 DEF Saved
  <2>3. /\ r \in Revision /\ r <= updatedAt
        /\ n \in FormState /\ FormOK(n) /\ Dated(n, updatedAt) /\ n.acked = form.reply.value
        /\ n.reply = None /\ (n.sent = None \/ n.sentRevision = r)
    BY <1>1, <2>2, AcknowledgedEnds
  <2> HIDE DEF n
  <2>4. forms'[f] = n /\ \A g \in Form \ {f} : forms'[g] = forms[g]
    BY <2>1 DEF AutosaveInv, AutosaveTypeOK
  <2>5. AutosaveTypeOK' /\ shown' <= updatedAt'
    BY <1>1, <1>2, <2>1, <2>3 DEF AutosaveInv, AutosaveTypeOK, tapVars
  <2>6. r = updatedAt => Knows(form, updatedAt)
    BY <1>1, <2>2 DEF Knows
  <2>7. Knows(n, updatedAt) => r = updatedAt
    BY <2>3 DEF Knows
  <2>8. \A g \in Form \ {f} : KnownBesides(g)' => KnownBesides(g)
    BY <1>2, <2>1, <2>4, <2>6, <2>7 DEF KnownBesides, tapVars
  <2>9. KnownBesides(f)' => r = updatedAt \/ KnownBesides(f)
    BY <1>2, <2>1, <2>4 DEF KnownBesides, tapVars
  <2>10. ASSUME NEW g \in Form \ unnoticed'
         PROVE  Informed(g)'
    <3>1. Informed(g)
      BY <1>2, <2>10 DEF AutosaveInv
    <3>2. CASE g # f
      BY <1>2, <2>4, <2>8, <2>10, <3>1, <3>2 DEF Informed, Saved, tapVars
    <3>3. CASE g = f
      <4>1. KnownBesides(f)' \/ Knows(n, updatedAt) => n.acked = row[f]
        BY <1>1, <2>2, <2>3, <2>6, <2>7, <2>9, <3>1, <3>3 DEF Informed
      <4> QED
        BY <1>2, <2>3, <2>4, <3>3, <4>1 DEF Informed, Saved, tapVars
    <3> QED
      BY <3>2, <3>3
  <2> QED
    BY <1>2, <2>3, <2>4, <2>5, <2>10 DEF AutosaveInv, tapVars
<1> QED
  BY <1>3, <1>4

LEMMA AutosaveNextOK == AutosaveInv /\ [AutosaveNext]_autosaveVars => AutosaveInv'
<1> SUFFICES ASSUME AutosaveInv, [AutosaveNext]_autosaveVars
             PROVE  AutosaveInv'
  OBVIOUS
<1>1. ASSUME NEW f \in Form, \/ CommitForm(f) \/ UndoSave(f) \/ UndoExpires(f)
                             \/ ServeSave(f) \/ SaveAnswered(f) \/ SaveLost(f)
      PROVE  AutosaveInv'
  BY <1>1, CommitFormOK, UndoSaveOK, UndoExpiresOK, ServeSaveOK, SaveAnsweredOK, SaveLostOK
<1>2. ASSUME NEW f \in Form, NEW v \in Value,
             TypeInto(f, v) \/ SavedElsewhere(f, v) \/ PlainPost(f, v)
      PROVE  AutosaveInv'
  BY <1>2, TypeIntoOK, SavedElsewhereOK, PlainPostOK
<1>3. CASE UNCHANGED autosaveVars
  BY <1>3 DEF autosaveVars, tapVars, AutosaveInv, AutosaveTypeOK, Informed, KnownBesides
<1> QED
  BY <1>1, <1>2, <1>3, ReloadPageOK DEF AutosaveNext

LEMMA AutosaveAlways == AutosaveSpec => []AutosaveInv
BY AutosaveInitOK, AutosaveNextOK, PTL DEF AutosaveSpec

\* The types of the page's forms and of the row and the revision on the server.
THEOREM AutosaveTypes == AutosaveSpec => []AutosaveTypeOK
<1>1. AutosaveInv => AutosaveTypeOK
  BY DEF AutosaveInv
<1> QED
  BY <1>1, AutosaveAlways, PTL

\* What says it is saved is what the operator wrote last, and no save of this page replaces
\* what another one stored without having shown it (admin-autosave.js, updated_at).
THEOREM AutosaveIsSound == AutosaveSpec => []AutosaveSound
<1>1. AutosaveInv => AutosaveSound
  <2> SUFFICES ASSUME AutosaveInv
               PROVE  SavedIsShown /\ SavesInformed
    BY DEF AutosaveSound
  <2>1. SavedIsShown
    BY DEF SavedIsShown, AutosaveInv, FormOK, Running
  <2>2. SavesInformed
    BY DEF SavesInformed, AutosaveInv, Informed, KnownBesides
  <2> QED
    BY <2>1, <2>2
<1> QED
  BY <1>1, AutosaveAlways, PTL

-----------------------------------------------------------------------------
(* ALL OF THEM.  The services share no state, so what each one keeps to all of them do. *)

\* The types of every service, whatever the other services do (Services).
THEOREM ServicesTypes == ServicesSpec => []ServicesTypeOK
<1>1. AuthTypeOK /\ SecretTypeOK /\ TypeOK /\ WorkspaceTypeOK /\ AutosaveTypeOK => ServicesTypeOK
  BY DEF ServicesTypeOK
<1> QED
  BY <1>1, AuthenticationTypes, SecretTypes, LimiterTypes, WorkspaceTypes, AutosaveTypes,
     LimiterAssumption, PTL DEF ServicesSpec
=============================================================================
