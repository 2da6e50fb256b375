----------------------------- MODULE ClientAuth -----------------------------
(***************************************************************************)
(* How the requests of one client share one cookie                         *)
(* (internal/jetkvm/client.go get, login; signaling.go dialSignaling): a   *)
(* request that is answered 401 takes authMu, tries again, and only then   *)
(* logs in.                                                                *)
(*                                                                         *)
(* The device knows one token at a time.  A login, from here or from a     *)
(* browser, replaces it; so does a restart.  A request takes the cookie    *)
(* along when it is sent; it may be lost, cancelled, or time out.          *)
(***************************************************************************)
EXTENDS Naturals, FiniteSets

CONSTANTS
  Requests,    \* authenticated reads and dials of the signaling socket
  MaxRevoked,  \* how often the device forgets its token by itself
  MaxLost,     \* how many requests are lost
  Passwords    \* whether the password may be "right", "wrong" or "absent"

BoundsAssumption == MaxRevoked \in Nat /\ MaxLost \in Nat
PasswordsAssumption == Passwords \subseteq {"right", "wrong", "absent"}

Free == "free"
RequestsAssumption == Free \notin Requests
Ended == {"ok", "denied", "no_password", "refused", "lost"}

VARIABLES
  password,  \* what the credential provider has
  token,     \* what the device accepts
  jar,       \* the cookie of the client; 0 before there is one
  carried,   \* the cookie each request took along
  pc,        \* where each request is
  authMu,    \* who holds the mutex
  logins,    \* how many logins the device has accepted from here
  revoked,   \* how often it has forgotten a token by itself
  lost,      \* how many requests were lost
  seen       \* what had gone wrong when a request logged in

vars == <<password, token, jar, carried, pc, authMu, logins, revoked, lost, seen>>

TypeOK ==
  /\ password \in Passwords
  /\ token \in Nat \ {0} /\ jar \in Nat /\ carried \in [Requests -> Nat]
  /\ pc \in [Requests -> {"new", "first", "wait", "again", "login", "posting", "last"}
                           \cup Ended]
  /\ authMu \in Requests \cup {Free}
  /\ logins \in Nat /\ revoked \in 0..MaxRevoked /\ lost \in 0..MaxLost
  /\ seen \in [Requests -> Nat]
  /\ \A r \in Requests :
       pc[r] \in {"again", "login", "posting", "last"} <=> authMu = r

Init ==
  /\ password \in Passwords /\ token = 1 /\ jar = 0
  /\ carried = [r \in Requests |-> 0] /\ pc = [r \in Requests |-> "new"]
  /\ authMu = Free /\ logins = 0 /\ revoked = 0 /\ lost = 0
  /\ seen = [r \in Requests |-> 0]

\* A request is sent with the cookie of the moment.
Send(r, phase) ==
  /\ pc' = [pc EXCEPT ![r] = phase] /\ carried' = [carried EXCEPT ![r] = jar]

Start(r) ==
  /\ pc[r] = "new" /\ Send(r, "first")
  /\ UNCHANGED <<password, token, jar, authMu, logins, revoked, lost, seen>>

Welcome(r) == carried[r] = token

\* Ends a call, and with it the mutex if the call holds it.
End(r, result) ==
  /\ pc' = [pc EXCEPT ![r] = result]
  /\ authMu' = IF authMu = r THEN Free ELSE authMu

\* The device answers with anything but 401.
Answered(r) ==
  /\ pc[r] \in {"first", "again", "last"} /\ Welcome(r) /\ End(r, "ok")
  /\ UNCHANGED <<password, token, jar, carried, logins, revoked, lost, seen>>

Unauthorized(r) ==
  /\ pc[r] = "first" /\ ~Welcome(r)
  /\ pc' = [pc EXCEPT ![r] = "wait"]
  /\ UNCHANGED <<password, token, jar, carried, authMu, logins, revoked, lost, seen>>

\* Mutant of Lock: who has the mutex logs in at once.
LockAndLogIn(r) ==
  /\ pc[r] = "wait" /\ authMu = Free /\ authMu' = r
  /\ pc' = [pc EXCEPT ![r] = "login"]
  /\ UNCHANGED <<password, token, jar, carried, logins, revoked, lost, seen>>

\* Somebody else may have logged in meanwhile: with the mutex, the request is
\* sent again first.
Lock(r) ==
  /\ pc[r] = "wait" /\ authMu = Free /\ authMu' = r
  /\ Send(r, "again")
  /\ UNCHANGED <<password, token, jar, logins, revoked, lost, seen>>

StillUnauthorized(r) ==
  /\ pc[r] = "again" /\ ~Welcome(r)
  /\ pc' = [pc EXCEPT ![r] = "login"]
  /\ UNCHANGED <<password, token, jar, carried, authMu, logins, revoked, lost, seen>>

NoPassword(r) ==
  /\ pc[r] = "login" /\ password = "absent" /\ End(r, "no_password")
  /\ UNCHANGED <<password, token, jar, carried, logins, revoked, lost, seen>>

\* Mutant of Post: the mutex covers the decision to log in, not the login.
PostUnlocked(r) ==
  /\ pc[r] = "login" /\ password = "right"
  /\ token' = token + 1 /\ logins' = logins + 1
  /\ pc' = [pc EXCEPT ![r] = "posting"]
  /\ carried' = [carried EXCEPT ![r] = token']
  /\ seen' = [seen EXCEPT ![r] = revoked + lost]
  /\ authMu' = Free
  /\ UNCHANGED <<password, jar, revoked, lost>>

\* The device takes the password: there is a new token.
Post(r) ==
  /\ pc[r] = "login" /\ password = "right"
  /\ token' = token + 1 /\ logins' = logins + 1
  /\ pc' = [pc EXCEPT ![r] = "posting"]
  /\ carried' = [carried EXCEPT ![r] = token']
  /\ seen' = [seen EXCEPT ![r] = revoked + lost]
  /\ UNCHANGED <<password, jar, authMu, revoked, lost>>

PostRefused(r) ==
  /\ pc[r] = "login" /\ password = "wrong" /\ End(r, "refused")
  /\ UNCHANGED <<password, token, jar, carried, logins, revoked, lost, seen>>

\* The answer brings the cookie, which the request now takes along.
Posted(r) ==
  /\ pc[r] = "posting" /\ jar' = carried[r]
  /\ pc' = [pc EXCEPT ![r] = "last"]
  /\ UNCHANGED <<password, token, carried, authMu, logins, revoked, lost, seen>>

Denied(r) ==
  /\ pc[r] = "last" /\ ~Welcome(r) /\ End(r, "denied")
  /\ UNCHANGED <<password, token, jar, carried, logins, revoked, lost, seen>>

\* An answer does not come, or nobody waits for it any more; waiting for the
\* mutex nobody looks at the context.
Lose(r) ==
  /\ pc[r] \in {"first", "again", "login", "posting", "last"} /\ lost < MaxLost
  /\ lost' = lost + 1 /\ End(r, "lost")
  /\ UNCHANGED <<password, token, jar, carried, logins, revoked, seen>>

Revoke ==
  /\ revoked < MaxRevoked /\ revoked' = revoked + 1 /\ token' = token + 1
  /\ UNCHANGED <<password, jar, carried, pc, authMu, logins, lost, seen>>

Step(r) ==
  \/ Answered(r) \/ Unauthorized(r) \/ StillUnauthorized(r)
  \/ NoPassword(r) \/ Post(r) \/ PostRefused(r) \/ Posted(r) \/ Denied(r)

Next ==
  \/ \E r \in Requests : Start(r) \/ Lock(r) \/ Step(r) \/ Lose(r)
  \/ Revoke

Spec == Init /\ [][Next]_vars

\* Every request is answered, or times out: http.Client.Timeout bounds it, and
\* sync.Mutex starves nobody who waits for it.
FairSpec == Spec /\ \A r \in Requests : WF_vars(Step(r)) /\ SF_vars(Lock(r))

--------------------------------------------------------------------------
(* Properties *)

\* However many requests find the cookie gone at once, one logs in: a login
\* replaces the token the others have just been given (client.go:227).
OneLoginEach == logins <= 1 + revoked + lost

\* A request is told 401 after its own login only if the device has forgotten
\* that login by itself, never because of another request of this client.
DeniedByDevice ==
  \A r \in Requests : pc[r] = "denied" => revoked + lost > seen[r]

\* Every request that was sent ends, whatever the others run into: the mutex is
\* given back on every path (client.go:224, signaling.go:101).
EveryRequestEnds == \A r \in Requests : pc[r] # "new" ~> pc[r] \in Ended
=============================================================================
