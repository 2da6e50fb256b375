------------------------- MODULE ControlActorProofs -------------------------
(***************************************************************************)
(* Proofs about ControlActor for any processes, devices, capabilities,     *)
(* requests and bounds.                                                    *)
(*                                                                         *)
(* Four invariants are inductive only together, and with the types:        *)
(*   Deadlines       what the deadlines of a handle, and of the handle a   *)
(*                   running command may still publish or put back, owe    *)
(*                   to each other;                                        *)
(*   LockDiscipline  how session, handle and running command are tied to   *)
(*                   the lock file;                                        *)
(*   Fences          how handles, old and current, lie behind the          *)
(*                   generation counter and the IDs drawn;                 *)
(*   Stops           what an actor that stopped has left open.             *)
(***************************************************************************)
EXTENDS ControlActor, TLAPS

\* The deadlines of one handle under an idle timeout.
GoodHandle(h, idle) ==
  /\ h.created <= h.abs
  /\ h.idle <= h.abs
  /\ h.id # 0 => idle <= h.abs - h.created

ActorDeadlines(a) ==
  /\ GoodHandle(current[a], idleTimeout[a])
  /\ cmd[a].req.idle <= cmd[a].req.life
  /\ cmd[a].op = "fence" => GoodHandle(cmd[a].old, idleTimeout[a])

Deadlines == \A a \in Actors : ActorDeadlines(a)

ActorLock(a) ==
  /\ lock[a] => owner[a[2]] = a
  /\ session[a] # 0 => lock[a]
  /\ current[a].id # 0 => lock[a]
  /\ cmd[a].op = "dial" => owner[a[2]] = a /\ ~lock[a]
  /\ cmd[a].op \in {"fence", "redial"} => lock[a] /\ current[a].id = 0
  /\ cmd[a].op \in {"release", "redial"} => session[a] = 0

LockDiscipline == \A a \in Actors : ActorLock(a)

-----------------------------------------------------------------------------
(* Types and deadlines.                                                    *)

LEMMA CommandTypes ==
  /\ NoHandle \in Handle
  /\ NoRequest \in Request
  /\ NoCommand \in Command
BY DEF NoHandle, Handle, Ownerships, HandleStates, NoRequest, Request,
       NoCommand, Command, Ops, Nexts

LEMMA TouchedType ==
  ASSUME NEW h \in Handle, NEW t \in Nat, NEW idle \in Nat
  PROVE  /\ Touched(h, t, idle) \in Handle
         /\ Touched(h, t, idle).created = h.created
         /\ Touched(h, t, idle).abs = h.abs
         /\ Touched(h, t, idle).id = h.id
         /\ Touched(h, t, idle).idle <= h.abs
BY DEF Touched, MinOf, Handle

LEMMA TouchedGood ==
  ASSUME NEW h \in Handle, NEW t \in Nat, NEW idle \in Nat,
         h.created <= h.abs, h.id # 0 => idle <= h.abs - h.created
  PROVE  GoodHandle(Touched(h, t, idle), idle)
BY DEF Touched, MinOf, Handle, GoodHandle

LEMMA NewHandleType ==
  ASSUME NEW id \in Nat, NEW gen \in Nat, NEW req \in Request, NEW t \in Nat,
         req.idle <= req.life
  PROVE  /\ NewHandle(id, gen, req, t) \in Handle
         /\ GoodHandle(NewHandle(id, gen, req, t), req.idle)
BY DEF NewHandle, Handle, Request, HandleStates, GoodHandle

LEMMA RefTypes == nextId \in Nat => Refs \subseteq Ref
BY BoundsAssumption DEF Refs, Ref

LEMMA StateType ==
  ASSUME NEW h \in Handle, NEW state \in HandleStates
  PROVE  [h EXCEPT !.state = state] \in Handle
BY DEF Handle

LEMMA StartCloseType ==
  ASSUME TypeOK, NEW a \in Actors, NEW term \in HandleStates,
         NEW next \in Nexts, NEW req \in Request,
         StartClose(a, term, next, req)
  PROVE  /\ current' \in [Actors -> Handle]
         /\ sessionState' \in [Actors -> SessionStates]
         /\ cmd' \in [Actors -> Command]
<1>1. current' \in [Actors -> Handle]
  BY StateType DEF StartClose, TypeOK, HandleStates
<1>2. sessionState' \in [Actors -> SessionStates]
  BY DEF StartClose, TypeOK, SessionStates
<1>3. cmd' \in [Actors -> Command]
  BY CommandTypes DEF StartClose, TypeOK, Command, Ops
<1> QED BY <1>1, <1>2, <1>3

LEMMA StartAcquireType ==
  ASSUME TypeOK, NEW a \in Actors, NEW req \in Request, NEW t \in Nat,
         StartAcquire(a, req, t)
  PROVE  /\ sessionState' \in [Actors -> SessionStates]
         /\ cmd' \in [Actors -> Command]
<1>1. sessionState' \in [Actors -> SessionStates]
  BY DEF StartAcquire, TypeOK, SessionStates
<1>2. cmd' \in [Actors -> Command]
  BY CommandTypes DEF StartAcquire, TypeOK, Command, Ops
<1> QED BY <1>1, <1>2

LEMMA FinishType ==
  ASSUME TypeOK, NEW a \in Actors, Finish(a)
  PROVE  /\ mode' \in [Actors -> {"serving", "draining", "stopped"}]
         /\ cmd' \in [Actors -> Command]
BY CommandTypes DEF Finish, TypeOK

LEMMA AfterFailedTeardownType ==
  ASSUME TypeOK, NEW a \in Actors, AfterFailedTeardown(a)
  PROVE  /\ sessionState' \in [Actors -> SessionStates]
         /\ cmd' \in [Actors -> Command]
         /\ mode' \in [Actors -> {"serving", "draining", "stopped"}]
         /\ drainErr' \in [Procs -> BOOLEAN]
<1>1. cmd[a] \in Command /\ cmd[a].req \in Request /\ cmd[a].at \in Nat
  BY DEF TypeOK, Command
<1>2. CASE cmd[a].next = "open"
  BY <1>1, <1>2, StartAcquireType DEF AfterFailedTeardown, TypeOK
<1>3. CASE cmd[a].next # "open"
  <2>1. sessionState' \in [Actors -> SessionStates]
    BY <1>3 DEF AfterFailedTeardown, TypeOK, SessionStates
  <2>2. drainErr' \in [Procs -> BOOLEAN]
    BY <1>3 DEF AfterFailedTeardown, TypeOK, Actors
  <2> QED BY <1>3, <2>1, <2>2, FinishType DEF AfterFailedTeardown
<1> QED BY <1>2, <1>3

LEMMA PurgedType ==
  ASSUME TypeOK, NEW a \in Actors
  PROVE  [history EXCEPT ![a] = Purged(a)] \in [Actors -> SUBSET Handle]
BY DEF Purged, TypeOK

LEMMA TypeStep ==
  ASSUME TypeOK, Deadlines, [Next]_vars
  PROVE  TypeOK'
<1>1. ASSUME NEW a \in Actors, Submitted(a)
      PROVE  TypeOK'
  <2>1. ASSUME NEW req \in Request, NEW next \in Nexts,
               BeginExpiry(a, next, req)
        PROVE  TypeOK'
    BY <2>1, StartCloseType, PurgedType
       DEF HandleStates, BeginExpiry, TypeOK, procVars
  <2>2. ASSUME NEW req \in Requests, OpenReuse(a, req)
        PROVE  TypeOK'
    <3> DEFINE h == current[a]
               idle == MinOf(idleTimeout[a], req.idle)
               abs == MinOf(h.abs, h.created + req.life)
    <3>1. h \in Handle /\ req \in Request /\ now \in Nat /\ idleTimeout[a] \in Nat
      BY RequestsAssumption DEF TypeOK
    <3>2. idle \in Nat /\ [h EXCEPT !.abs = abs] \in Handle
      BY <3>1 DEF MinOf, Handle, Request
    <3>3. Touched([h EXCEPT !.abs = abs], now, idle) \in Handle
      BY <3>1, <3>2, TouchedType
    <3> HIDE DEF h, idle, abs
    <3>4. /\ idleTimeout' = [idleTimeout EXCEPT ![a] = idle]
          /\ current' = [current EXCEPT ![a] =
                           Touched([h EXCEPT !.abs = abs], now, idle)]
      BY <2>2 DEF OpenReuse, h, idle, abs
    <3> QED
      BY <2>2, <3>2, <3>3, <3>4, PurgedType DEF OpenReuse, TypeOK, procVars
  <2>3. ASSUME NEW req \in Requests, OpenFresh(a, req)
        PROVE  TypeOK'
    BY <2>3, StartAcquireType, PurgedType, RequestsAssumption
       DEF OpenFresh, TypeOK, procVars
  <2>4. CASE PurgeHistory(a)
    BY <2>4, PurgedType DEF PurgeHistory, TypeOK, procVars
  <2>5. ASSUME NEW ref \in Refs, Get(a, ref)
        PROVE  TypeOK'
    BY <2>5, TouchedType, PurgedType DEF Get, TypeOK, procVars
  <2>6. ASSUME NEW ref \in Refs, NEW cap \in Caps, Execute(a, ref, cap)
        PROVE  TypeOK'
    <3>1. [NoCommand EXCEPT !.op = "exec"] \in Command
      BY CommandTypes DEF Command, Ops
    <3> QED
      BY <2>6, <3>1, PurgedType DEF Execute, TypeOK, procVars
  <2>7. ASSUME NEW ref \in Refs, Close(a, ref)
        PROVE  TypeOK'
    BY <2>7, StartCloseType, CommandTypes
       DEF HandleStates, Nexts, Close, TypeOK, procVars
  <2>8. ASSUME NEW ref \in Refs, SubmitReconnect(a, ref)
        PROVE  TypeOK'
    <3>1. ref \in Ref
      BY RefTypes DEF TypeOK
    <3> QED
      BY <2>8, <3>1 DEF SubmitReconnect, TypeOK, procVars, actorVars
  <2>9. CASE DropReconnect(a)
    BY <2>9 DEF DropReconnect, TypeOK, procVars, actorVars
  <2>10. ASSUME NEW ref \in Refs, Reconnect(a, ref)
         PROVE  TypeOK'
    <3> DEFINE fenced == [current[a] EXCEPT !.state = "fenced"]
               req == [own |-> fenced.own, caps |-> fenced.caps,
                       idle |-> idleTimeout[a],
                       life |-> fenced.abs - fenced.created]
    <3>1. current[a] \in Handle /\ idleTimeout[a] \in Nat
      BY DEF TypeOK
    <3>2. fenced \in Handle
      BY <3>1, StateType DEF HandleStates
    <3>3. req \in Request
      BY <3>1 DEF Deadlines, ActorDeadlines, GoodHandle, Handle, Request
    <3> HIDE DEF fenced, req
    <3>4. [NoCommand EXCEPT !.op = "fence", !.old = fenced, !.req = req]
            \in Command
      BY <3>2, <3>3, CommandTypes DEF Command, Ops
    <3>5. /\ history' = [history EXCEPT ![a] = @ \cup {fenced}]
          /\ cmd' = [cmd EXCEPT ![a] = [NoCommand EXCEPT
                       !.op = "fence", !.old = fenced, !.req = req]]
      BY <2>10 DEF Reconnect, fenced, req
    <3>6. history' \in [Actors -> SUBSET Handle]
      BY <3>2, <3>5 DEF TypeOK
    <3> QED
      BY <2>10, <3>4, <3>5, <3>6, CommandTypes
         DEF Reconnect, TypeOK, procVars, SessionStates
  <2> QED
    BY <1>1, <2>1, <2>2, <2>3, <2>4, <2>5, <2>6, <2>7, <2>8, <2>9, <2>10,
       CommandTypes, RequestsAssumption DEF Submitted, Nexts
<1>2. ASSUME NEW a \in Actors, Continues(a)
      PROVE  TypeOK'
  <2> DEFINE c == cmd[a]
  <2>0. /\ c \in Command /\ c.req \in Request /\ c.at \in Nat
        /\ c.old \in Handle /\ c.term \in HandleStates
        /\ current[a] \in Handle /\ idleTimeout[a] \in Nat
        /\ generation[a] + 1 \in Nat /\ nextId \in Nat /\ now \in Nat
        /\ c.req.idle <= c.req.life
    BY DEF TypeOK, Command, Deadlines, ActorDeadlines
  <2>c. ASSUME NEW op \in Ops
        PROVE  [cmd EXCEPT ![a].op = op] \in [Actors -> Command]
    BY <2>0 DEF TypeOK, Command
  <2>1. CASE ExecuteReturns(a)
    BY <2>0, <2>1, TouchedType, FinishType DEF ExecuteReturns, TypeOK
  <2>2. CASE AcquireOk(a)
    BY <2>2, <2>c DEF AcquireOk, TypeOK, procVars, actorVars, Ops
  <2>3. CASE AcquireFail(a)
    BY <2>3, FinishType DEF AcquireFail, TypeOK, SessionStates
  <2>4. CASE DialOk(a)
    <3>1. NewHandle(nextId, generation[a] + 1, c.req, c.at) \in Handle
      BY <2>0, NewHandleType
    <3>2. /\ current' \in [Actors -> Handle]
          /\ idleTimeout' \in [Actors -> Nat]
          /\ nextId' \in Nat \ {0}
      BY <2>0, <2>4, <3>1 DEF DialOk, DrawId, TypeOK, Request
    <3> QED
      BY <2>4, <3>2, FinishType DEF DialOk, TypeOK, SessionStates
  <2>5. ASSUME NEW released \in BOOLEAN, DialFail(a, released)
        PROVE  TypeOK'
    BY <2>5, FinishType DEF DialFail, TypeOK, SessionStates
  <2>6. ASSUME NEW released \in BOOLEAN, RedialFail(a, released)
        PROVE  TypeOK'
    <3>1. lock' \in [Actors -> BOOLEAN]
      BY <2>6 DEF RedialFail, TypeOK
    <3> QED
      BY <2>6, <3>1, FinishType DEF RedialFail, TypeOK, SessionStates
  <2>7. CASE SessionClosed(a)
    BY <2>7, <2>c DEF SessionClosed, TypeOK, procVars, Ops
  <2>8. CASE SessionCloseFails(a)
    BY <2>8, AfterFailedTeardownType DEF SessionCloseFails, TypeOK
  <2>9. CASE LockReleased(a)
    <3>1. [current[a] EXCEPT !.state = c.term] \in Handle
      BY <2>0, StateType
    <3>2. /\ history' \in [Actors -> SUBSET Handle]
          /\ current' \in [Actors -> Handle]
      BY <2>9, <3>1, CommandTypes DEF LockReleased, TypeOK
    <3>3. /\ mode' \in [Actors -> {"serving", "draining", "stopped"}]
          /\ sessionState' \in [Actors -> SessionStates]
          /\ cmd' \in [Actors -> Command]
      <4>1. CASE c.next = "open"
        BY <2>0, <2>9, <4>1, StartAcquireType DEF LockReleased, TypeOK
      <4>2. CASE c.next # "open"
        BY <2>9, <4>2, FinishType DEF LockReleased, TypeOK, SessionStates
      <4> QED BY <4>1, <4>2
    <3> QED
      BY <2>9, <3>2, <3>3 DEF LockReleased, TypeOK
  <2>10. CASE LockReleaseFails(a)
    BY <2>10, AfterFailedTeardownType DEF LockReleaseFails, TypeOK
  <2>11. CASE FencedSessionClosed(a)
    BY <2>11, <2>c
       DEF FencedSessionClosed, TypeOK, procVars, Ops, SessionStates
  <2>12. CASE FencedSessionCloseFails(a)
    BY <2>0, <2>12, FinishType
       DEF FencedSessionCloseFails, TypeOK, SessionStates
  <2>13. CASE RedialOk(a)
    <3>1. NewHandle(nextId, generation[a] + 1, c.req, now) \in Handle
      BY <2>0, NewHandleType
    <3>2. /\ current' \in [Actors -> Handle]
          /\ idleTimeout' \in [Actors -> Nat]
          /\ nextId' \in Nat \ {0}
      BY <2>0, <2>13, <3>1 DEF RedialOk, DrawId, TypeOK, Request
    <3> QED
      BY <2>13, <3>2, FinishType DEF RedialOk, TypeOK, SessionStates
  <2> QED
    BY <1>2, <2>1, <2>2, <2>3, <2>4, <2>5, <2>6, <2>7, <2>8, <2>9, <2>10,
       <2>11, <2>12, <2>13 DEF Continues
<1>3. ASSUME NEW a \in Actors, Shutdown(a)
      PROVE  TypeOK'
  <2>1. CASE current[a].id = 0
    BY <1>3, <2>1 DEF Shutdown, TypeOK
  <2>2. CASE current[a].id # 0
    BY <1>3, <2>2, StartCloseType, CommandTypes
       DEF Shutdown, TypeOK, HandleStates, Nexts
  <2> QED BY <2>1, <2>2
<1>4. ASSUME NEW a \in Actors, FinalizeLock(a)
      PROVE  TypeOK'
  BY <1>4 DEF FinalizeLock, TypeOK, procVars, actorVars
<1>5. ASSUME NEW p \in Procs, Drains(p)
      PROVE  TypeOK'
  BY <1>5 DEF Drains, DrainStart, BeginDrain, DrainDone, TypeOK, actorVars
<1>6. ASSUME NEW p \in Procs, Restart(p)
      PROVE  TypeOK'
  BY <1>6, CommandTypes DEF Restart, TypeOK, SessionStates
<1>7. CASE Tick
  BY <1>7 DEF Tick, TypeOK, procVars, actorVars
<1>8. CASE UNCHANGED vars
  BY <1>8 DEF vars, TypeOK
<1> QED
  BY <1>1, <1>2, <1>3, <1>4, <1>5, <1>6, <1>7, <1>8 DEF Next

LEMMA StartCloseDeadlines ==
  ASSUME TypeOK, NEW a \in Actors, NEW b \in Actors, ActorDeadlines(b),
         NEW term, NEW next,
         NEW req \in Requests \cup {NoRequest}, idleTimeout' = idleTimeout,
         StartClose(a, term, next, req)
  PROVE  ActorDeadlines(b)'
<1>1. CASE a = b
  <2>1. current[b] \in Handle /\ idleTimeout[b] \in Nat
    BY DEF TypeOK
  <2>2. current'[b] = [current[b] EXCEPT !.state = "draining"]
    BY <1>1 DEF StartClose, TypeOK
  <2>3. GoodHandle(current'[b], idleTimeout'[b])
    BY <2>1, <2>2 DEF ActorDeadlines, GoodHandle, Handle
  <2>4. cmd'[b].req = req /\ cmd'[b].op = "close"
    BY <1>1, CommandTypes DEF StartClose, TypeOK, NoCommand
  <2>5. req.idle <= req.life
    BY RequestsAssumption DEF NoRequest
  <2> QED BY <2>3, <2>4, <2>5 DEF ActorDeadlines
<1>2. CASE a # b
  BY <1>2 DEF StartClose, TypeOK, ActorDeadlines
<1> QED BY <1>1, <1>2

LEMMA StartAcquireDeadlines ==
  ASSUME TypeOK, NEW a \in Actors, NEW b \in Actors, ActorDeadlines(b),
         NEW req, NEW t, req.idle <= req.life,
         current' = current, idleTimeout' = idleTimeout,
         StartAcquire(a, req, t)
  PROVE  ActorDeadlines(b)'
<1>1. CASE a = b
  <2>1. cmd'[b].req = req /\ cmd'[b].op = "acquire"
    BY <1>1, CommandTypes DEF StartAcquire, TypeOK, NoCommand
  <2> QED BY <2>1 DEF ActorDeadlines
<1>2. CASE a # b
  BY <1>2 DEF StartAcquire, TypeOK, ActorDeadlines
<1> QED BY <1>1, <1>2

LEMMA DeadlinesStep ==
  ASSUME TypeOK, Deadlines, [Next]_vars
  PROVE  Deadlines'
<1> SUFFICES ASSUME NEW b \in Actors
             PROVE  ActorDeadlines(b)'
  BY DEF Deadlines
<1>0. /\ ActorDeadlines(b) /\ current[b] \in Handle /\ cmd[b] \in Command
      /\ idleTimeout[b] \in Nat /\ now \in Nat
      /\ cmd[b].req \in Request /\ cmd[b].at \in Nat /\ cmd[b].old \in Handle
      /\ generation[b] + 1 \in Nat /\ nextId \in Nat
      /\ cmd[b].req.idle <= cmd[b].req.life
  BY DEF Deadlines, TypeOK, Command, ActorDeadlines
\* An actor that is not involved keeps its handle, timeout and command.
<1>f. ASSUME current'[b] = current[b], idleTimeout'[b] = idleTimeout[b],
             cmd'[b] = cmd[b]
      PROVE  ActorDeadlines(b)'
  BY <1>0, <1>f DEF ActorDeadlines
<1>h. /\ current[b].created <= current[b].abs
      /\ current[b].id # 0
           => idleTimeout[b] <= current[b].abs - current[b].created
  BY <1>0 DEF ActorDeadlines, GoodHandle
<1>1. ASSUME NEW a \in Actors, Submitted(a)
      PROVE  ActorDeadlines(b)'
  <2>1. ASSUME NEW req \in Requests \cup {NoRequest}, NEW next \in Nexts,
               BeginExpiry(a, next, req)
        PROVE  ActorDeadlines(b)'
    BY <1>0, <2>1, StartCloseDeadlines DEF BeginExpiry
  <2>2. ASSUME NEW req \in Requests, OpenReuse(a, req)
        PROVE  ActorDeadlines(b)'
    <3> DEFINE h == current[b]
               idle == MinOf(idleTimeout[b], req.idle)
               abs == MinOf(h.abs, h.created + req.life)
               tight == [h EXCEPT !.abs = abs]
    <3>1. CASE a = b
      <4>0. req \in Request /\ req.idle <= req.life /\ h.id # 0
        BY <2>2, <3>1, RequestsAssumption DEF OpenReuse, IsReady
      <4>1. /\ idle \in Nat /\ tight \in Handle /\ tight.abs = abs
            /\ tight.created = h.created /\ tight.id = h.id
        BY <1>0, <4>0 DEF MinOf, Handle, Request
      <4>2. h.created <= abs /\ idle <= abs - h.created
        BY <1>0, <4>0 DEF MinOf, Handle, Request, ActorDeadlines, GoodHandle
      <4> HIDE DEF idle, abs, tight
      <4>3. GoodHandle(Touched(tight, now, idle), idle)
        BY <1>0, <4>1, <4>2, TouchedGood
      <4>4. /\ current'[b] = Touched(tight, now, idle)
            /\ idleTimeout'[b] = idle /\ cmd'[b] = cmd[b]
            /\ cmd[b].op = "none"
        BY <2>2, <3>1 DEF OpenReuse, TypeOK, tight, idle, abs, Receiving
      <4> QED BY <1>0, <4>3, <4>4 DEF ActorDeadlines
    <3>2. CASE a # b
      BY <1>f, <2>2, <3>2 DEF OpenReuse, TypeOK
    <3> QED BY <3>1, <3>2
  <2>3. ASSUME NEW req \in Requests, OpenFresh(a, req)
        PROVE  ActorDeadlines(b)'
    BY <1>0, <2>3, StartAcquireDeadlines, RequestsAssumption DEF OpenFresh
  <2>4. CASE PurgeHistory(a)
    BY <1>f, <2>4 DEF PurgeHistory
  <2>5. ASSUME NEW ref \in Refs, Get(a, ref)
        PROVE  ActorDeadlines(b)'
    <3>1. CASE a = b
      <4>1. current'[b] = Touched(current[b], now, idleTimeout[b])
        BY <2>5, <3>1 DEF Get, TypeOK
      <4>2. GoodHandle(current'[b], idleTimeout[b])
        BY <1>0, <1>h, <4>1, TouchedGood
      <4> QED BY <1>0, <2>5, <4>2 DEF Get, ActorDeadlines
    <3> QED BY <1>f, <2>5, <3>1 DEF Get, TypeOK
  <2>6. ASSUME NEW ref \in Refs, NEW cap \in Caps, Execute(a, ref, cap)
        PROVE  ActorDeadlines(b)'
    <3>1. CASE a = b
      <4>1. cmd'[b].req = NoRequest /\ cmd'[b].op = "exec"
        BY <2>6, <3>1, CommandTypes
           DEF Execute, TypeOK, Command, NoCommand
      <4> QED BY <1>0, <2>6, <4>1 DEF Execute, ActorDeadlines, NoRequest
    <3> QED BY <1>f, <2>6, <3>1 DEF Execute, TypeOK
  <2>7. ASSUME NEW ref \in Refs, Close(a, ref)
        PROVE  ActorDeadlines(b)'
    BY <1>0, <2>7, StartCloseDeadlines DEF Close
  <2>8. ASSUME NEW ref \in Refs, SubmitReconnect(a, ref)
        PROVE  ActorDeadlines(b)'
    BY <1>f, <2>8 DEF SubmitReconnect, actorVars
  <2>9. CASE DropReconnect(a)
    BY <1>f, <2>9 DEF DropReconnect, actorVars
  <2>10. ASSUME NEW ref \in Refs, Reconnect(a, ref)
         PROVE  ActorDeadlines(b)'
    <3>1. CASE a = b
      <4> DEFINE fenced == [current[b] EXCEPT !.state = "fenced"]
                 req == [own |-> fenced.own, caps |-> fenced.caps,
                         idle |-> idleTimeout[b],
                         life |-> fenced.abs - fenced.created]
      <4>1. GoodHandle(fenced, idleTimeout[b]) /\ req.idle <= req.life
        BY <1>0, <2>10, <3>1
           DEF Reconnect, Valid, IsReady, ActorDeadlines, GoodHandle, Handle
      <4> HIDE DEF fenced, req
      <4>2. /\ cmd'[b] = [NoCommand EXCEPT !.op = "fence", !.old = fenced,
                                           !.req = req]
            /\ current'[b] = NoHandle
            /\ idleTimeout'[b] = idleTimeout[b]
        BY <2>10, <3>1 DEF Reconnect, TypeOK, fenced, req
      <4>3. cmd'[b].req = req /\ cmd'[b].old = fenced
        BY <4>2 DEF NoCommand
      <4>4. GoodHandle(current'[b], idleTimeout'[b])
        BY <4>2 DEF GoodHandle, NoHandle
      <4> QED BY <4>1, <4>2, <4>3, <4>4 DEF ActorDeadlines
    <3> QED BY <1>f, <2>10, <3>1 DEF Reconnect, TypeOK
  <2> QED
    BY <1>1, <2>1, <2>2, <2>3, <2>4, <2>5, <2>6, <2>7, <2>8, <2>9, <2>10
       DEF Submitted, Nexts
\* A command that ends leaves no deadlines behind but the handle's.
<1>e. ASSUME NEW a \in Actors, Finish(a),
             GoodHandle(current'[b], idleTimeout'[b]),
             a # b => idleTimeout'[b] = idleTimeout[b]
      PROVE  ActorDeadlines(b)'
  <2>1. CASE a = b
    BY <1>e, <2>1 DEF Finish, TypeOK, ActorDeadlines, NoCommand, NoRequest
  <2>2. CASE a # b
    BY <1>0, <1>e, <2>2 DEF Finish, TypeOK, ActorDeadlines
  <2> QED BY <2>1, <2>2
<1>k. GoodHandle(current[b], idleTimeout[b])
  BY <1>0 DEF ActorDeadlines
\* A command that goes on, not to the closing of a fenced session.
<1>p. ASSUME NEW a \in Actors, NEW op, op # "fence",
             current' = current, idleTimeout' = idleTimeout,
             cmd' = [cmd EXCEPT ![a].op = op]
      PROVE  ActorDeadlines(b)'
  <2>1. cmd'[b].req = cmd[b].req
    BY <1>0, <1>p DEF TypeOK, Command
  <2>2. cmd'[b].op = "fence" => cmd[b].op = "fence" /\ cmd'[b].old = cmd[b].old
    BY <1>0, <1>p DEF TypeOK, Command
  <2> QED BY <1>0, <1>p, <2>1, <2>2 DEF ActorDeadlines
<1>t. ASSUME NEW a \in Actors, AfterFailedTeardown(a),
             current' = current, idleTimeout' = idleTimeout
      PROVE  ActorDeadlines(b)'
  <2>1. cmd[a].req.idle <= cmd[a].req.life
    BY DEF Deadlines, ActorDeadlines
  <2> QED
    BY <1>0, <1>e, <1>k, <1>t, <2>1, StartAcquireDeadlines
       DEF AfterFailedTeardown
<1>2. ASSUME NEW a \in Actors, Continues(a)
      PROVE  ActorDeadlines(b)'
  <2>1. CASE ExecuteReturns(a)
    <3>1. GoodHandle(current'[b], idleTimeout'[b])
      <4>1. CASE a = b
        BY <1>0, <1>h, <2>1, <4>1, TouchedGood DEF ExecuteReturns, TypeOK
      <4>2. CASE a # b
        BY <1>k, <2>1, <4>2 DEF ExecuteReturns, TypeOK
      <4> QED BY <4>1, <4>2
    <3> QED BY <1>e, <2>1, <3>1 DEF ExecuteReturns
  <2>2. CASE AcquireOk(a)
    BY <1>p, <2>2 DEF AcquireOk, actorVars
  <2>3. CASE AcquireFail(a)
    BY <1>e, <1>k, <2>3 DEF AcquireFail
  <2>4. CASE DialOk(a)
    <3>1. GoodHandle(current'[b], idleTimeout'[b])
      <4>1. CASE a = b
        BY <1>0, <2>4, <4>1, NewHandleType DEF DialOk, TypeOK
      <4>2. CASE a # b
        BY <1>k, <2>4, <4>2 DEF DialOk, TypeOK
      <4> QED BY <4>1, <4>2
    <3> QED BY <1>e, <2>4, <3>1 DEF DialOk, TypeOK
  <2>5. ASSUME NEW released \in BOOLEAN, DialFail(a, released)
        PROVE  ActorDeadlines(b)'
    BY <1>e, <1>k, <2>5 DEF DialFail
  <2>6. ASSUME NEW released \in BOOLEAN, RedialFail(a, released)
        PROVE  ActorDeadlines(b)'
    BY <1>e, <1>k, <2>6 DEF RedialFail
  <2>7. CASE SessionClosed(a)
    BY <1>p, <2>7 DEF SessionClosed
  <2>8. CASE SessionCloseFails(a)
    BY <1>t, <2>8 DEF SessionCloseFails
  <2>9. CASE LockReleased(a)
    <3>1. GoodHandle(current'[b], idleTimeout'[b])
      <4>1. CASE a = b
        BY <2>9, <4>1 DEF LockReleased, TypeOK, GoodHandle, NoHandle
      <4>2. CASE a # b
        BY <1>k, <2>9, <4>2 DEF LockReleased, TypeOK
      <4> QED BY <4>1, <4>2
    <3>2. CASE cmd[a].next = "open"
      <4>1. CASE a = b
        <5>1. cmd'[b].req = cmd[b].req /\ cmd'[b].op = "acquire"
          <6>1. StartAcquire(b, cmd[b].req, cmd[b].at)
            BY <2>9, <3>2, <4>1 DEF LockReleased
          <6> QED BY <6>1 DEF StartAcquire, TypeOK, NoCommand
        <5> QED BY <1>0, <3>1, <5>1 DEF ActorDeadlines
      <4>2. CASE a # b
        BY <1>f, <2>9, <3>2, <4>2 DEF LockReleased, StartAcquire, TypeOK
      <4> QED BY <4>1, <4>2
    <3>3. CASE cmd[a].next # "open"
      BY <1>e, <2>9, <3>1, <3>3 DEF LockReleased
    <3> QED BY <3>2, <3>3
  <2>10. CASE LockReleaseFails(a)
    BY <1>t, <2>10 DEF LockReleaseFails
  <2>11. CASE FencedSessionClosed(a)
    BY <1>p, <2>11 DEF FencedSessionClosed
  <2>12. CASE FencedSessionCloseFails(a)
    <3>1. GoodHandle(current'[b], idleTimeout'[b])
      <4>1. CASE a = b
        BY <1>0, <2>12, <4>1
           DEF FencedSessionCloseFails, TypeOK, ActorDeadlines
      <4>2. CASE a # b
        BY <1>k, <2>12, <4>2 DEF FencedSessionCloseFails, TypeOK
      <4> QED BY <4>1, <4>2
    <3> QED BY <1>e, <2>12, <3>1 DEF FencedSessionCloseFails
  <2>13. CASE RedialOk(a)
    <3>1. GoodHandle(current'[b], idleTimeout'[b])
      <4>1. CASE a = b
        BY <1>0, <2>13, <4>1, NewHandleType DEF RedialOk, TypeOK
      <4>2. CASE a # b
        BY <1>k, <2>13, <4>2 DEF RedialOk, TypeOK
      <4> QED BY <4>1, <4>2
    <3> QED BY <1>e, <2>13, <3>1 DEF RedialOk, TypeOK
  <2> QED
    BY <1>2, <2>1, <2>2, <2>3, <2>4, <2>5, <2>6, <2>7, <2>8, <2>9, <2>10,
       <2>11, <2>12, <2>13 DEF Continues
<1>3. ASSUME NEW a \in Actors, Shutdown(a)
      PROVE  ActorDeadlines(b)'
  BY <1>0, <1>3, <1>f, StartCloseDeadlines DEF Shutdown
<1>4. ASSUME NEW a \in Actors, FinalizeLock(a)
      PROVE  ActorDeadlines(b)'
  BY <1>4, <1>f DEF FinalizeLock, actorVars
<1>5. ASSUME NEW p \in Procs, Drains(p)
      PROVE  ActorDeadlines(b)'
  BY <1>5, <1>f DEF Drains, DrainStart, BeginDrain, DrainDone, actorVars
<1>6. ASSUME NEW p \in Procs, Restart(p)
      PROVE  ActorDeadlines(b)'
  <2>1. CASE b[1] = p
    BY <1>6, <2>1 DEF Restart, ActorDeadlines, GoodHandle, NoHandle,
                      NoCommand, NoRequest
  <2>2. CASE b[1] # p
    BY <1>6, <1>f, <2>2 DEF Restart
  <2> QED BY <2>1, <2>2
<1>7. CASE Tick
  BY <1>7, <1>f DEF Tick, actorVars
<1>8. CASE UNCHANGED vars
  BY <1>8, <1>f DEF vars
<1> QED
  BY <1>1, <1>2, <1>3, <1>4, <1>5, <1>6, <1>7, <1>8 DEF Next

-----------------------------------------------------------------------------
(* Locks.                                                                  *)

\* What the start of a command and its end leave in an actor's command.
LEMMA CommandOps ==
  ASSUME TypeOK, NEW a \in Actors
  PROVE  /\ \A term, next, req : StartClose(a, term, next, req)
              => /\ cmd'[a].op = "close"
                 /\ current'[a].id = current[a].id
                 /\ \A b \in Actors \ {a} : /\ cmd'[b] = cmd[b]
                                            /\ current'[b] = current[b]
         /\ \A req, t : StartAcquire(a, req, t)
              => /\ cmd'[a].op = "acquire"
                 /\ \A b \in Actors \ {a} : cmd'[b] = cmd[b]
         /\ Finish(a) => /\ cmd'[a].op = "none"
                         /\ \A b \in Actors \ {a} : cmd'[b] = cmd[b]
         /\ AfterFailedTeardown(a)
              => /\ cmd'[a].op \in {"none", "acquire"}
                 /\ \A b \in Actors \ {a} : cmd'[b] = cmd[b]
         /\ \A op : cmd' = [cmd EXCEPT ![a].op = op]
              => /\ cmd'[a].op = op
                 /\ \A b \in Actors \ {a} : cmd'[b] = cmd[b]
<1>1. ASSUME NEW term, NEW next, NEW req, StartClose(a, term, next, req)
      PROVE  /\ cmd'[a].op = "close"
             /\ current'[a].id = current[a].id
             /\ \A b \in Actors \ {a} : /\ cmd'[b] = cmd[b]
                                        /\ current'[b] = current[b]
  <2>1. cmd'[a].op = "close"
    BY <1>1 DEF StartClose, TypeOK, NoCommand
  <2>2. /\ current[a] \in Handle
        /\ current'[a] = [current[a] EXCEPT !.state = "draining"]
    BY <1>1 DEF StartClose, TypeOK
  <2>3. current'[a].id = current[a].id
    BY <2>2 DEF Handle
  <2> QED BY <1>1, <2>1, <2>3 DEF StartClose, TypeOK
<1>2. ASSUME NEW req, NEW t, StartAcquire(a, req, t)
      PROVE  /\ cmd'[a].op = "acquire"
             /\ \A b \in Actors \ {a} : cmd'[b] = cmd[b]
  BY <1>2 DEF StartAcquire, TypeOK, NoCommand
<1>3. ASSUME Finish(a)
      PROVE  /\ cmd'[a].op = "none"
             /\ \A b \in Actors \ {a} : cmd'[b] = cmd[b]
  BY <1>3 DEF Finish, TypeOK, NoCommand
<1>4. ASSUME AfterFailedTeardown(a)
      PROVE  /\ cmd'[a].op \in {"none", "acquire"}
             /\ \A b \in Actors \ {a} : cmd'[b] = cmd[b]
  BY <1>2, <1>3, <1>4 DEF AfterFailedTeardown
<1>5. ASSUME NEW op, cmd' = [cmd EXCEPT ![a].op = op]
      PROVE  /\ cmd'[a].op = op
             /\ \A b \in Actors \ {a} : cmd'[b] = cmd[b]
  BY <1>5 DEF TypeOK, Command
<1> QED BY <1>1, <1>2, <1>3, <1>4, <1>5

\* An actor none of whose state changes keeps its lock discipline as long as
\* nobody takes the lock file from it.
LEMMA LockFrame ==
  ASSUME NEW b \in Actors, ActorLock(b),
         lock'[b] = lock[b], session'[b] = session[b],
         current'[b].id = current[b].id, cmd'[b].op = cmd[b].op,
         owner'[b[2]] = owner[b[2]] \/ owner[b[2]] # b
  PROVE  ActorLock(b)'
BY DEF ActorLock

\* The same when its command starts or ends outside the operations that tie
\* it to the lock.
LEMMA LockQuiet ==
  ASSUME NEW b \in Actors, ActorLock(b),
         lock'[b] = lock[b], session'[b] = session[b],
         current'[b].id \in {0, current[b].id},
         cmd'[b].op \in {"none", "acquire", "exec", "close"},
         owner'[b[2]] = owner[b[2]]
  PROVE  ActorLock(b)'
BY DEF ActorLock

LEMMA ActorFacts ==
  ASSUME NEW a \in Actors
  PROVE  a[2] \in Devices /\ a # NoActor
BY DEF Actors, NoActor

LEMMA TouchKeepsIds ==
  ASSUME TypeOK, NEW a \in Actors, NEW b \in Actors,
         current' = [current EXCEPT ![a] = Touched(@, now, idleTimeout[a])]
  PROVE  current'[b].id = current[b].id
<1>1. current[a] \in Handle /\ now \in Nat /\ idleTimeout[a] \in Nat
  BY DEF TypeOK
<1>2. current'[a].id = current[a].id
  BY <1>1, TouchedType, ZenonT(40) DEF TypeOK
<1> QED BY <1>2 DEF TypeOK

LEMMA LockStep ==
  ASSUME TypeOK, LockDiscipline, [Next]_vars
  PROVE  LockDiscipline'
<1> SUFFICES ASSUME NEW b \in Actors
             PROVE  ActorLock(b)'
  BY DEF LockDiscipline
<1>0. ActorLock(b) /\ b[2] \in Devices /\ b # NoActor
  BY ActorFacts DEF LockDiscipline
<1>1. ASSUME NEW a \in Actors, Submitted(a)
      PROVE  ActorLock(b)'
  <2>0. owner' = owner /\ lock' = lock /\ session' = session
    BY <1>1 DEF Submitted, BeginExpiry, PurgeHistory, Get, Execute, OpenReuse,
                OpenFresh, Close, SubmitReconnect, Reconnect, DropReconnect,
                actorVars
  <2>1. ASSUME NEW req, NEW next, BeginExpiry(a, next, req)
        PROVE  ActorLock(b)'
    BY <1>0, <2>0, <2>1, CommandOps, LockFrame, LockQuiet DEF BeginExpiry
  <2>2. ASSUME NEW req \in Requests, OpenReuse(a, req)
        PROVE  ActorLock(b)'
    <3>1. current'[b].id = current[b].id
      <4> DEFINE idle == MinOf(idleTimeout[a], req.idle)
                 abs == MinOf(current[a].abs, current[a].created + req.life)
      <4>1. /\ current[a] \in Handle /\ current[b] \in Handle
            /\ current' = [current EXCEPT ![a] =
                             Touched([current[a] EXCEPT !.abs = abs], now, idle)]
        BY <2>2 DEF OpenReuse, TypeOK
      <4> HIDE DEF idle, abs
      <4> QED BY <4>1 DEF TypeOK, Touched, Handle
    <3> QED BY <1>0, <2>0, <2>2, <3>1, LockFrame DEF OpenReuse
  <2>3. ASSUME NEW req \in Requests, OpenFresh(a, req)
        PROVE  ActorLock(b)'
    BY <1>0, <2>0, <2>3, CommandOps, LockFrame, LockQuiet DEF OpenFresh
  <2>4. CASE PurgeHistory(a) \/ DropReconnect(a)
    BY <1>0, <2>0, <2>4, LockFrame
       DEF PurgeHistory, DropReconnect, actorVars
  <2>5. ASSUME NEW ref \in Refs, Get(a, ref)
        PROVE  ActorLock(b)'
    <3>1. current'[b].id = current[b].id
      BY <2>5, TouchKeepsIds DEF Get
    <3> QED BY <1>0, <2>0, <2>5, <3>1, LockFrame DEF Get
  <2>6. ASSUME NEW ref \in Refs, NEW cap \in Caps, Execute(a, ref, cap)
        PROVE  ActorLock(b)'
    <3>1. CASE a = b
      <4>1. cmd'[b].op = "exec" /\ current' = current
        BY <2>6, <3>1 DEF Execute, TypeOK, NoCommand
      <4> QED BY <1>0, <2>0, <4>1, LockQuiet
    <3>2. CASE a # b
      BY <1>0, <2>0, <2>6, <3>2, LockFrame DEF Execute, TypeOK
    <3> QED BY <3>1, <3>2
  <2>7. ASSUME NEW ref \in Refs, Close(a, ref)
        PROVE  ActorLock(b)'
    BY <1>0, <2>0, <2>7, CommandOps, LockFrame, LockQuiet DEF Close
  <2>8. ASSUME NEW ref \in Refs, SubmitReconnect(a, ref)
        PROVE  ActorLock(b)'
    BY <1>0, <2>0, <2>8, LockFrame DEF SubmitReconnect, actorVars
  <2>10. ASSUME NEW ref \in Refs, Reconnect(a, ref)
         PROVE  ActorLock(b)'
    <3>1. CASE a = b
      <4>1. cmd'[b].op = "fence" /\ current'[b].id = 0
        BY <2>10, <3>1 DEF Reconnect, TypeOK, NoCommand, NoHandle
      <4>2. current[b].id # 0
        BY <2>10, <3>1 DEF Reconnect, Valid, IsReady
      <4> QED BY <1>0, <2>0, <4>1, <4>2 DEF ActorLock
    <3>2. CASE a # b
      BY <1>0, <2>0, <2>10, <3>2, LockFrame DEF Reconnect, TypeOK
    <3> QED BY <3>1, <3>2
  <2> QED
    BY <1>1, <2>1, <2>2, <2>3, <2>4, <2>5, <2>6, <2>7, <2>8, <2>10
       DEF Submitted
<1>2. ASSUME NEW a \in Actors, Continues(a)
      PROVE  ActorLock(b)'
  \* No command takes the lock file from another actor.
  <2>0. ActorLock(a) /\ a[2] \in Devices /\ a # NoActor
    BY ActorFacts DEF LockDiscipline
  <2>f. ASSUME a # b, lock'[b] = lock[b], session'[b] = session[b],
               current'[b] = current[b], cmd'[b] = cmd[b],
               \/ owner' = owner
               \/ /\ owner[a[2]] \in {NoActor, a}
                  /\ \A d \in Devices \ {a[2]} : owner'[d] = owner[d]
        PROVE  ActorLock(b)'
    <3>1. owner'[b[2]] = owner[b[2]] \/ owner[b[2]] # b
      BY <1>0, <2>f
    <3> QED BY <1>0, <2>f, <3>1, LockFrame
  <2>1. CASE ExecuteReturns(a)
    <3>1. current'[b].id = current[b].id
      BY <2>1, TouchKeepsIds DEF ExecuteReturns
    <3> QED
      BY <1>0, <2>1, <3>1, CommandOps, LockFrame, LockQuiet
         DEF ExecuteReturns
  <2>2. CASE AcquireOk(a)
    <3>1. CASE a = b
      <4>1. /\ cmd'[b].op = "dial" /\ owner'[b[2]] = b
            /\ owner[b[2]] = NoActor
            /\ lock' = lock /\ session' = session /\ current' = current
        BY <1>0, <2>2, <3>1, CommandOps DEF AcquireOk, TypeOK, actorVars
      <4> QED BY <1>0, <4>1 DEF ActorLock
    <3>2. CASE a # b
      BY <2>2, <2>f, <3>2, CommandOps DEF AcquireOk, TypeOK, actorVars
    <3> QED BY <3>1, <3>2
  <2>3. CASE AcquireFail(a)
    BY <1>0, <2>3, CommandOps, LockFrame, LockQuiet DEF AcquireFail
  <2>4. CASE DialOk(a)
    <3>1. CASE a = b
      <4>1. /\ cmd'[b].op = "none" /\ owner'[b[2]] = b /\ lock'[b]
        BY <1>0, <2>4, <3>1, CommandOps DEF DialOk, TypeOK, ActorLock
      <4> QED BY <4>1 DEF ActorLock
    <3>2. CASE a # b
      BY <2>4, <2>f, <3>2, CommandOps DEF DialOk, TypeOK
    <3> QED BY <3>1, <3>2
  <2>5. ASSUME NEW released \in BOOLEAN, DialFail(a, released)
        PROVE  ActorLock(b)'
    <3>1. owner[a[2]] = a /\ ~lock[a] /\ session[a] = 0 /\ current[a].id = 0
      BY <2>0, <2>5 DEF DialFail, ActorLock
    <3>2. CASE a = b
      <4>1. /\ cmd'[b].op = "none" /\ lock' = lock /\ session' = session
            /\ current' = current
        BY <2>5, <3>2, CommandOps DEF DialFail
      <4> QED BY <3>1, <3>2, <4>1 DEF ActorLock
    <3>3. CASE a # b
      <4>1. \A d \in Devices \ {a[2]} : owner'[d] = owner[d]
        BY <2>5 DEF DialFail, TypeOK
      <4> QED BY <2>5, <2>f, <3>1, <3>3, <4>1, CommandOps DEF DialFail
    <3> QED BY <3>2, <3>3
  <2>6. ASSUME NEW released \in BOOLEAN, RedialFail(a, released)
        PROVE  ActorLock(b)'
    <3>1. owner[a[2]] = a /\ lock[a] /\ session[a] = 0 /\ current[a].id = 0
      BY <2>0, <2>6 DEF RedialFail, ActorLock
    <3>2. CASE a = b
      <4>1. /\ cmd'[b].op = "none" /\ session' = session /\ current' = current
            /\ lock'[b] => ~released
        BY <2>6, <3>2, CommandOps DEF RedialFail, TypeOK
      <4>2. ~released => owner' = owner
        BY <2>6 DEF RedialFail
      <4> QED BY <3>1, <3>2, <4>1, <4>2 DEF ActorLock
    <3>3. CASE a # b
      <4>1. \A d \in Devices \ {a[2]} : owner'[d] = owner[d]
        BY <2>6 DEF RedialFail, TypeOK
      <4>2. lock'[b] = lock[b]
        BY <2>6, <3>3 DEF RedialFail, TypeOK
      <4> QED BY <2>6, <2>f, <3>1, <3>3, <4>1, <4>2, CommandOps DEF RedialFail
    <3> QED BY <3>2, <3>3
  <2>7. CASE SessionClosed(a)
    <3>1. CASE a = b
      <4>1. /\ cmd'[b].op = "release" /\ session'[b] = 0
            /\ lock' = lock /\ owner' = owner /\ current' = current
        BY <2>7, <3>1, CommandOps DEF SessionClosed, TypeOK
      <4> QED BY <1>0, <4>1 DEF ActorLock
    <3>2. CASE a # b
      BY <2>7, <2>f, <3>2, CommandOps DEF SessionClosed, TypeOK
    <3> QED BY <3>1, <3>2
  <2>8. CASE SessionCloseFails(a)
    BY <1>0, <2>8, CommandOps, LockFrame, LockQuiet DEF SessionCloseFails
  <2>9. CASE LockReleased(a)
    <3>1. session[a] = 0 /\ (lock[a] => owner[a[2]] = a)
      BY <2>0, <2>9 DEF LockReleased, ActorLock
    <3>c. /\ cmd'[a].op \in {"none", "acquire"}
          /\ \A e \in Actors \ {a} : cmd'[e] = cmd[e]
      BY <2>9, CommandOps DEF LockReleased
    <3>2. CASE a = b
      <4>1. /\ session' = session /\ ~lock'[b] /\ current'[b].id = 0
        BY <2>9, <3>2 DEF LockReleased, TypeOK, NoHandle
      <4> QED BY <3>1, <3>2, <3>c, <4>1 DEF ActorLock
    <3>3. CASE a # b
      <4>1. /\ lock'[b] = lock[b] /\ current'[b] = current[b]
            /\ \A d \in Devices \ {a[2]} : owner'[d] = owner[d]
        BY <2>9, <3>3 DEF LockReleased, TypeOK
      <4>2. lock[a] \/ owner' = owner
        BY <2>9 DEF LockReleased
      <4> QED BY <2>9, <2>f, <3>1, <3>3, <3>c, <4>1, <4>2 DEF LockReleased
    <3> QED BY <3>2, <3>3
  <2>10. CASE LockReleaseFails(a)
    BY <1>0, <2>10, CommandOps, LockFrame, LockQuiet DEF LockReleaseFails
  <2>11. CASE FencedSessionClosed(a)
    <3>1. CASE a = b
      <4>1. /\ cmd'[b].op = "redial" /\ session'[b] = 0 /\ cmd[b].op = "fence"
            /\ lock' = lock /\ owner' = owner /\ current' = current
        BY <2>11, <3>1, CommandOps DEF FencedSessionClosed, TypeOK
      <4> QED BY <1>0, <4>1 DEF ActorLock
    <3>2. CASE a # b
      BY <2>11, <2>f, <3>2, CommandOps DEF FencedSessionClosed, TypeOK
    <3> QED BY <3>1, <3>2
  <2>12. CASE FencedSessionCloseFails(a)
    <3>1. CASE a = b
      <4>1. /\ cmd'[b].op = "none" /\ session' = session
            /\ cmd[b].op = "fence" /\ lock' = lock /\ owner' = owner
        BY <2>12, <3>1, CommandOps DEF FencedSessionCloseFails
      <4> QED BY <1>0, <4>1 DEF ActorLock
    <3>2. CASE a # b
      BY <2>12, <2>f, <3>2, CommandOps DEF FencedSessionCloseFails, TypeOK
    <3> QED BY <3>1, <3>2
  <2>13. CASE RedialOk(a)
    <3>1. CASE a = b
      <4>1. /\ cmd'[b].op = "none" /\ cmd[b].op = "redial" /\ lock' = lock
            /\ owner' = owner
        BY <2>13, <3>1, CommandOps DEF RedialOk
      <4> QED BY <1>0, <4>1 DEF ActorLock
    <3>2. CASE a # b
      BY <2>13, <2>f, <3>2, CommandOps DEF RedialOk, TypeOK
    <3> QED BY <3>1, <3>2
  <2> QED
    BY <1>2, <2>1, <2>2, <2>3, <2>4, <2>5, <2>6, <2>7, <2>8, <2>9, <2>10,
       <2>11, <2>12, <2>13 DEF Continues
<1>3. ASSUME NEW a \in Actors, Shutdown(a)
      PROVE  ActorLock(b)'
  BY <1>0, <1>3, CommandOps, LockFrame, LockQuiet DEF Shutdown
<1>4. ASSUME NEW a \in Actors, FinalizeLock(a)
      PROVE  ActorLock(b)'
  <2>1. CASE a = b
    BY <1>0, <1>4, <2>1 DEF FinalizeLock, ActorLock, actorVars
  <2>2. CASE a # b
    <3>1. owner'[b[2]] = owner[b[2]] \/ owner[b[2]] # b
      BY <1>0, <1>4, <2>2 DEF FinalizeLock, TypeOK
    <3> QED BY <1>0, <1>4, <3>1, LockFrame DEF FinalizeLock, actorVars
  <2> QED BY <2>1, <2>2
<1>5. ASSUME NEW p \in Procs, Drains(p)
      PROVE  ActorLock(b)'
  BY <1>0, <1>5, LockFrame
     DEF Drains, DrainStart, BeginDrain, DrainDone, actorVars
<1>6. ASSUME NEW p \in Procs, Restart(p)
      PROVE  ActorLock(b)'
  <2>1. CASE b[1] = p
    BY <1>6, <2>1 DEF Restart, ActorLock, NoHandle, NoCommand
  <2>2. CASE b[1] # p
    <3>1. owner'[b[2]] = owner[b[2]] \/ owner[b[2]] # b
      BY <1>0, <1>6, <2>2 DEF Restart
    <3> QED BY <1>0, <1>6, <2>2, <3>1, LockFrame DEF Restart
  <2> QED BY <2>1, <2>2
<1>7. CASE Tick \/ UNCHANGED vars
  BY <1>0, <1>7, LockFrame DEF Tick, vars, actorVars
<1> QED
  BY <1>1, <1>2, <1>3, <1>4, <1>5, <1>6, <1>7 DEF Next

-----------------------------------------------------------------------------
(* Theorems.                                                               *)

Inv == TypeOK /\ Deadlines /\ LockDiscipline

LEMMA InitInv == Init => Inv
<1> SUFFICES ASSUME Init PROVE Inv
  OBVIOUS
<1>1. TypeOK
  BY CommandTypes DEF Init, TypeOK, SessionStates
<1>2. Deadlines
  BY DEF Init, Deadlines, ActorDeadlines, GoodHandle, NoHandle, NoCommand,
         NoRequest
<1>3. LockDiscipline
  BY DEF Init, LockDiscipline, ActorLock, NoHandle, NoCommand
<1> QED BY <1>1, <1>2, <1>3 DEF Inv

LEMMA InvInductive == Inv /\ [Next]_vars => Inv'
BY TypeStep, DeadlinesStep, LockStep DEF Inv

LEMMA InvHolds == Spec => []Inv
BY InitInv, InvInductive, PTL DEF Spec

\* The registry's state keeps its types; the only subtraction in the code,
\* the remaining lifetime a reconnect passes on, is never negative.
THEOREM TypeCorrect == Spec => []TypeOK
<1>1. Inv => TypeOK
  BY DEF Inv
<1> QED BY <1>1, InvHolds, PTL

\* A handle's idle deadline never passes its absolute one.
THEOREM IdleBounded == Spec => []IdleWithinAbsolute
<1>1. Inv => IdleWithinAbsolute
  BY DEF Inv, Deadlines, ActorDeadlines, GoodHandle, IdleWithinAbsolute
<1> QED BY <1>1, InvHolds, PTL

\* A session, a dial and an open handle are always under the lock file.
THEOREM LockCovers == Spec => []LockCoversSession
<1>1. Inv => LockCoversSession
  BY DEF Inv, LockDiscipline, ActorLock, LockCoversSession, Engaged
<1> QED BY <1>1, InvHolds, PTL

\* Two actors are never connected to one device.
THEOREM Exclusive == Spec => []DeviceExclusive
<1>1. LockCoversSession => DeviceExclusive
  BY DEF LockCoversSession, DeviceExclusive
<1> QED BY <1>1, LockCovers, PTL

-----------------------------------------------------------------------------
(* Refinement of DeviceLease.                                              *)

\* Outside a restart, a step moves the session and command of one actor.
OneActorMoves ==
  \/ UNCHANGED <<session, cmd>>
  \/ \E a \in Actors : \A b \in Actors \ {a} :
        session'[b] = session[b] /\ cmd'[b] = cmd[b]

LEMMA StepMovesOneActor ==
  ASSUME TypeOK, [Next]_vars
  PROVE  OneActorMoves \/ \E p \in Procs : Restart(p)
<1>1. ASSUME NEW a \in Actors, Submitted(a)
      PROVE  OneActorMoves
  <2>1. session' = session
    BY <1>1 DEF Submitted, BeginExpiry, PurgeHistory, Get, Execute, OpenReuse,
                OpenFresh, Close, SubmitReconnect, Reconnect, DropReconnect,
                actorVars
  <2>2. \A b \in Actors \ {a} : cmd'[b] = cmd[b]
    <3>1. ASSUME NEW req, NEW next, BeginExpiry(a, next, req)
          PROVE  \A b \in Actors \ {a} : cmd'[b] = cmd[b]
      BY <3>1, CommandOps DEF BeginExpiry
    <3>2. ASSUME NEW req, OpenReuse(a, req) \/ OpenFresh(a, req)
          PROVE  \A b \in Actors \ {a} : cmd'[b] = cmd[b]
      BY <3>2, CommandOps DEF OpenReuse, OpenFresh
    <3>3. ASSUME PurgeHistory(a) \/ DropReconnect(a)
          PROVE  \A b \in Actors \ {a} : cmd'[b] = cmd[b]
      BY <3>3 DEF PurgeHistory, DropReconnect
    <3>4. ASSUME NEW ref, \/ Get(a, ref)
                          \/ SubmitReconnect(a, ref)
                          \/ Close(a, ref)
          PROVE  \A b \in Actors \ {a} : cmd'[b] = cmd[b]
      BY <3>4, CommandOps DEF Get, SubmitReconnect, Close
    <3>5. ASSUME NEW ref, \/ \E cap \in Caps : Execute(a, ref, cap)
                          \/ Reconnect(a, ref)
          PROVE  \A b \in Actors \ {a} : cmd'[b] = cmd[b]
      BY <3>5 DEF Execute, Reconnect, TypeOK
    <3> QED
      BY <1>1, <3>1, <3>2, <3>3, <3>4, <3>5 DEF Submitted
  <2> QED BY <2>1, <2>2 DEF OneActorMoves
<1>2. ASSUME NEW a \in Actors, Continues(a)
      PROVE  OneActorMoves
  <2>1. \A b \in Actors \ {a} : session'[b] = session[b]
    BY <1>2 DEF TypeOK, Continues, ExecuteReturns, AcquireOk, AcquireFail,
                DialOk, DialFail, RedialFail, SessionClosed, SessionCloseFails,
                LockReleased, LockReleaseFails, FencedSessionClosed,
                FencedSessionCloseFails, RedialOk, actorVars
  <2>2. \A b \in Actors \ {a} : cmd'[b] = cmd[b]
    BY <1>2, CommandOps
       DEF Continues, ExecuteReturns, AcquireOk, AcquireFail,
           DialOk, DialFail, RedialFail, SessionClosed, SessionCloseFails,
           LockReleased, LockReleaseFails, FencedSessionClosed,
           FencedSessionCloseFails, RedialOk
  <2> QED BY <2>1, <2>2 DEF OneActorMoves
<1>3. ASSUME NEW a \in Actors, Shutdown(a)
      PROVE  OneActorMoves
  BY <1>3, CommandOps DEF Shutdown, OneActorMoves
<1>4. ASSUME \/ \E a \in Actors : FinalizeLock(a)
             \/ \E p \in Procs : Drains(p)
             \/ Tick \/ UNCHANGED vars
      PROVE  OneActorMoves
  BY <1>4 DEF FinalizeLock, Drains, DrainStart, BeginDrain, DrainDone, Tick,
              vars, actorVars, OneActorMoves
<1> QED BY <1>1, <1>2, <1>3, <1>4 DEF Next

\* Every step of the registry is a step of the lease or leaves it alone.
LEMMA LeaseStep ==
  ASSUME Inv, Inv', [Next]_vars
  PROVE  Lease!Next \/ UNCHANGED Connected
<1>1. DeviceExclusive /\ DeviceExclusive'
  BY DEF Inv, LockDiscipline, ActorLock, Engaged, DeviceExclusive
<1>2. Connected \in [Devices -> SUBSET Actors]
  BY DEF Connected
<1>3. CASE UNCHANGED <<session, cmd>>
  BY <1>3 DEF Connected, Engaged
<1>4. ASSUME NEW a \in Actors,
             \A b \in Actors \ {a} : session'[b] = session[b] /\ cmd'[b] = cmd[b]
      PROVE  Lease!Next \/ UNCHANGED Connected
  <2>0. a[2] \in Devices
    BY ActorFacts
  <2>1. \A b \in Actors \ {a} : Engaged(b)' <=> Engaged(b)
    BY <1>4 DEF Engaged
  <2>2. CASE Engaged(a)' <=> Engaged(a)
    BY <2>1, <2>2 DEF Connected
  <2>3. CASE ~Engaged(a) /\ Engaged(a)'
    <3>1. \A b \in Actors : b[2] = a[2] => ~Engaged(b)
      BY <1>1, <2>1, <2>3 DEF DeviceExclusive
    <3>2. Connected[a[2]] = {}
      BY <2>0, <3>1 DEF Connected
    <3>3. Connected' = [Connected EXCEPT ![a[2]] = {a}]
      BY <2>0, <2>1, <2>3, <3>1 DEF Connected
    <3> QED BY <2>0, <3>2, <3>3 DEF Lease!Next, Lease!Engage
  <2>4. CASE Engaged(a) /\ ~Engaged(a)'
    <3>1. \A b \in Actors : b[2] = a[2] => ~Engaged(b)'
      BY <1>1, <2>1, <2>4 DEF DeviceExclusive
    <3>2. Connected[a[2]] # {}
      BY <2>0, <2>4 DEF Connected
    <3>3. Connected' = [d \in Devices |-> IF d \in {a[2]} THEN {}
                                          ELSE Connected[d]]
      BY <2>0, <2>1, <2>4, <3>1 DEF Connected
    <3>4. Lease!Disengage({a[2]})
      BY <2>0, <3>2, <3>3 DEF Lease!Disengage
    <3> QED BY <2>0, <3>4 DEF Lease!Next
  <2> QED BY <2>2, <2>3, <2>4 DEF Engaged
<1>5. ASSUME NEW p \in Procs, Restart(p)
      PROVE  Lease!Next \/ UNCHANGED Connected
  <2> DEFINE D == {d \in Devices : Connected[d] # {} /\ Connected'[d] = {}}
  <2>1. \A b \in Actors : Engaged(b)' <=> Engaged(b) /\ b[1] # p
    BY <1>5 DEF Restart, Engaged, NoCommand
  <2>2. Connected' = [d \in Devices |-> IF d \in D THEN {} ELSE Connected[d]]
    <3>1. ASSUME NEW d \in Devices
          PROVE  Connected'[d] = IF d \in D THEN {} ELSE Connected[d]
      BY <1>1, <2>1 DEF Connected, DeviceExclusive
    <3> QED BY <3>1 DEF Connected
  <2>3. CASE D = {}
    BY <2>2, <2>3 DEF Connected
  <2>4. CASE D # {}
    <3>1. Lease!Disengage(D)
      BY <2>2, <2>4 DEF Lease!Disengage
    <3> QED BY <3>1 DEF Lease!Next
  <2> QED BY <2>3, <2>4
<1> QED
  BY <1>3, <1>4, <1>5, StepMovesOneActor DEF Inv, OneActorMoves

\* The control registry implements DeviceLease.
THEOREM RefinesLease == Spec => ImplementsLease
<1>1. Init => Lease!Init
  BY DEF Init, Lease!Init, Connected, Engaged, NoCommand
<1>2. Inv /\ Inv' /\ [Next]_vars => [Lease!Next]_Connected
  BY LeaseStep
<1> QED
  BY <1>1, <1>2, InvHolds, PTL DEF Spec, ImplementsLease, Lease!Spec

-----------------------------------------------------------------------------
(* Generations, callbacks and the end of a drain.                          *)

\* What the handles an actor has, had, or may put back owe to its generation
\* counter and to the IDs drawn so far; and that a ready handle has the actor's
\* session to itself.
ActorFence(a) ==
  /\ current[a].gen <= generation[a] /\ current[a].id < nextId
  /\ \A h \in history[a] : /\ h.gen <= generation[a]
                           /\ h.id # 0 /\ h.id < nextId
  /\ IsReady(a) => /\ session[a] = current[a].gen
                   /\ generation[a] = current[a].gen
                   /\ sessionState[a] = "ready"
                   /\ cmd[a].op \in {"none", "exec"}
                   /\ \A h \in history[a] : /\ h.gen < current[a].gen
                                            /\ h.id # current[a].id
  /\ cmd[a].op = "exec" => IsReady(a)
  /\ cmd[a].op \in {"close", "release"} => current[a].id # 0
  /\ cmd[a].op = "fence" => /\ cmd[a].old.id # 0 /\ cmd[a].old.id < nextId
                            /\ cmd[a].old.gen <= generation[a]
                            /\ cmd[a].old.state = "fenced"

\* What is left of an actor that stopped: no session is without a handle, save
\* the one being fenced, and the actor stops with neither or with an error.
ActorStops(a) ==
  /\ session[a] # 0 => current[a].id # 0 \/ cmd[a].op = "fence"
  /\ cmd[a].next = "stop" => cmd[a].op \in {"close", "release"}
  /\ mode[a] = "stopped" =>
       /\ cmd[a].op = "none"
       /\ drainErr[a[1]] \/ (session[a] = 0 /\ current[a].id = 0)

Fences == \A a \in Actors : ActorFence(a)
Stops == /\ \A a \in Actors : ActorStops(a)
         /\ \A p \in Procs : registry[p] = "closed" =>
              \A a \in Actors : a[1] = p => mode[a] = "stopped"

\* What the commands of other actors leave alone.
Kept(b) ==
  /\ cmd'[b] = cmd[b] /\ sessionState'[b] = sessionState[b]
  /\ session'[b] = session[b] /\ generation'[b] = generation[b]
  /\ current'[b] = current[b] /\ history'[b] = history[b]
  /\ mode'[b] = mode[b]

LEMMA OthersKeep ==
  ASSUME TypeOK, NEW a \in Actors, NEW b \in Actors, a # b,
         Submitted(a) \/ Continues(a) \/ Shutdown(a) \/ FinalizeLock(a)
  PROVE  Kept(b)
<1>1. CASE Submitted(a)
  BY <1>1 DEF TypeOK, Kept, Submitted, BeginExpiry, PurgeHistory, Get, Execute,
              OpenReuse, OpenFresh, Close, SubmitReconnect, Reconnect,
              DropReconnect, StartClose, StartAcquire, actorVars, procVars
<1>2. CASE Continues(a)
  <2>1. /\ Finish(a) => mode'[b] = mode[b] /\ cmd'[b] = cmd[b]
        /\ \A req, t : StartAcquire(a, req, t) =>
              sessionState'[b] = sessionState[b] /\ cmd'[b] = cmd[b]
    BY DEF TypeOK, Finish, StartAcquire
  <2>2. AfterFailedTeardown(a) =>
          /\ sessionState'[b] = sessionState[b] /\ mode'[b] = mode[b]
          /\ cmd'[b] = cmd[b]
    BY <2>1 DEF AfterFailedTeardown, TypeOK
  <2> QED
    BY <1>2, <2>1, <2>2
       DEF TypeOK, Kept, Continues, ExecuteReturns, AcquireOk, AcquireFail,
           DialOk, DialFail, RedialFail, SessionClosed, SessionCloseFails,
           LockReleased, LockReleaseFails, FencedSessionClosed,
           FencedSessionCloseFails, RedialOk, actorVars, procVars
<1>3. CASE Shutdown(a)
  BY <1>3 DEF TypeOK, Kept, Shutdown, StartClose
<1>4. CASE FinalizeLock(a)
  BY <1>4 DEF Kept, FinalizeLock, actorVars, procVars
<1> QED BY <1>1, <1>2, <1>3, <1>4

LEMMA FenceFrame ==
  ASSUME TypeOK, NEW b \in Actors, ActorFence(b), Kept(b),
         nextId' \in Nat, nextId <= nextId'
  PROVE  ActorFence(b)'
<1>1. /\ current[b] \in Handle /\ cmd[b] \in Command /\ nextId \in Nat
      /\ history[b] \in SUBSET Handle
  BY DEF TypeOK
<1> QED BY <1>1 DEF ActorFence, Kept, IsReady, Handle, Command

\* A teardown that begins: the handle is no longer ready, the rest stays.
LEMMA FenceClose ==
  ASSUME TypeOK, NEW a \in Actors, ActorFence(a), NEW term, NEW next, NEW req,
         current[a].id # 0,
         StartClose(a, term, next, req), generation' = generation,
         history'[a] \subseteq history[a], nextId' = nextId
  PROVE  ActorFence(a)'
<1>1. /\ current[a] \in Handle
      /\ current'[a] = [current[a] EXCEPT !.state = "draining"]
      /\ cmd'[a].op = "close"
  BY DEF TypeOK, StartClose, NoCommand
<1>2. /\ current'[a].id = current[a].id /\ current'[a].gen = current[a].gen
      /\ current'[a].state = "draining"
  BY <1>1 DEF Handle
<1> QED BY <1>1, <1>2 DEF ActorFence, IsReady

\* A command that starts or ends without touching handle, session or counter.
LEMMA FenceQuiet ==
  ASSUME TypeOK, NEW a \in Actors, ActorFence(a),
         cmd'[a].op \in {"none", "acquire"},
         \/ ~IsReady(a)
         \/ cmd'[a].op = "none" /\ sessionState'[a] = sessionState[a],
         current'[a] = current[a], session'[a] = session[a],
         generation' = generation, history'[a] \subseteq history[a],
         nextId' = nextId
  PROVE  ActorFence(a)'
BY DEF ActorFence, IsReady

LEMMA FenceOwn ==
  ASSUME TypeOK, NEW a \in Actors, ActorFence(a), ActorLock(a),
         Submitted(a) \/ Continues(a) \/ Shutdown(a) \/ FinalizeLock(a)
  PROVE  ActorFence(a)'
<1>0. /\ current[a] \in Handle /\ cmd[a] \in Command /\ nextId \in Nat \ {0}
      /\ history[a] \in SUBSET Handle /\ generation[a] \in Nat
      /\ cmd[a].old \in Handle /\ Purged(a) \subseteq history[a]
      /\ idleTimeout[a] \in Nat /\ now \in Nat
  BY DEF TypeOK, Command, Purged
\* A handle that is touched keeps its ID, its generation and its state.
<1>t. ASSUME NEW h \in Handle, NEW t, NEW idle
      PROVE  LET k == Touched(h, t, idle)
             IN  k.id = h.id /\ k.gen = h.gen /\ k.state = h.state
  BY <1>t DEF Touched, Handle
<1>1. CASE Submitted(a)
  <2>1. ASSUME NEW req, NEW next, BeginExpiry(a, next, req)
        PROVE  ActorFence(a)'
    <3>1. history'[a] \subseteq history[a] /\ current[a].id # 0
      BY <1>0, <2>1 DEF BeginExpiry, TypeOK, Due, IsReady
    <3> QED BY <2>1, <3>1, FenceClose DEF BeginExpiry
  <2>2. ASSUME NEW req \in Requests, OpenReuse(a, req)
        PROVE  ActorFence(a)'
    <3>1. PICK abs, idle :
           current'[a] = Touched([current[a] EXCEPT !.abs = abs], now, idle)
      BY <2>2 DEF OpenReuse, TypeOK
    <3>2. /\ current'[a].id = current[a].id /\ current'[a].gen = current[a].gen
          /\ current'[a].state = current[a].state
      BY <1>0, <3>1 DEF Touched, Handle
    <3>3. /\ history'[a] \subseteq history[a] /\ cmd' = cmd /\ session' = session
          /\ sessionState' = sessionState /\ generation' = generation
          /\ nextId' = nextId
      BY <1>0, <2>2 DEF OpenReuse, TypeOK
    <3> QED BY <3>2, <3>3 DEF ActorFence, IsReady
  <2>3. ASSUME NEW req \in Requests, OpenFresh(a, req)
        PROVE  ActorFence(a)'
    <3>1. history'[a] \subseteq history[a] /\ cmd'[a].op = "acquire"
      BY <1>0, <2>3, CommandOps DEF OpenFresh, TypeOK
    <3> QED BY <2>3, <3>1, FenceQuiet DEF OpenFresh
  <2>4. CASE PurgeHistory(a)
    <3>1. history'[a] \subseteq history[a]
      BY <1>0, <2>4 DEF PurgeHistory, TypeOK
    <3> QED BY <2>4, <3>1 DEF ActorFence, IsReady, PurgeHistory
  <2>5. ASSUME NEW ref \in Refs, Get(a, ref)
        PROVE  ActorFence(a)'
    <3>1. /\ current'[a].id = current[a].id /\ current'[a].gen = current[a].gen
          /\ current'[a].state = current[a].state
          /\ history'[a] \subseteq history[a]
      BY <1>0, <1>t, <2>5 DEF Get, TypeOK
    <3> QED BY <2>5, <3>1 DEF ActorFence, IsReady, Get
  <2>6. ASSUME NEW ref \in Refs, NEW cap \in Caps, Execute(a, ref, cap)
        PROVE  ActorFence(a)'
    <3>1. cmd'[a].op = "exec" /\ history'[a] \subseteq history[a]
      BY <1>0, <2>6 DEF Execute, TypeOK, NoCommand
    <3> QED BY <2>6, <3>1 DEF ActorFence, IsReady, Execute, Valid
  <2>7. ASSUME NEW ref \in Refs, Close(a, ref)
        PROVE  ActorFence(a)'
    BY <2>7, FenceClose DEF Close, Valid, IsReady
  <2>8. CASE DropReconnect(a) \/ \E ref \in Refs : SubmitReconnect(a, ref)
    BY <2>8 DEF DropReconnect, SubmitReconnect, ActorFence, IsReady, actorVars
  <2>10. ASSUME NEW ref \in Refs, Reconnect(a, ref)
         PROVE  ActorFence(a)'
    <3> DEFINE fenced == [current[a] EXCEPT !.state = "fenced"]
    <3>1. /\ fenced.id = current[a].id /\ fenced.gen = current[a].gen
          /\ fenced.state = "fenced"
      BY <1>0 DEF Handle
    <3>2. /\ cmd'[a].op = "fence" /\ cmd'[a].old = fenced
          /\ current'[a] = NoHandle /\ history'[a] = history[a] \cup {fenced}
          /\ generation' = generation /\ nextId' = nextId
      BY <2>10 DEF Reconnect, TypeOK, NoCommand
    <3>3. current[a].id # 0
      BY <2>10 DEF Reconnect, Valid, IsReady
    <3> HIDE DEF fenced
    <3> QED
      BY <1>0, <3>1, <3>2, <3>3 DEF ActorFence, IsReady, NoHandle
  <2> QED
    BY <1>1, <2>1, <2>2, <2>3, <2>4, <2>5, <2>6, <2>7, <2>8, <2>10
       DEF Submitted
<1>2. CASE Continues(a)
  \* The handle of a dial is newer than everything the actor knows.
  <2>n. ASSUME NEW req, NEW t, cmd'[a].op = "none",
               generation'[a] = generation[a] + 1,
               session'[a] = generation[a] + 1, sessionState'[a] = "ready",
               current'[a] = NewHandle(nextId, generation[a] + 1, req, t),
               history' = history, nextId' = nextId + 1
        PROVE  ActorFence(a)'
    <3>1. /\ current'[a].id = nextId /\ current'[a].gen = generation[a] + 1
      BY <2>n DEF NewHandle
    <3> QED BY <1>0, <2>n, <3>1 DEF ActorFence, IsReady, Handle
  \* The end of a command that publishes nothing.
  <2>q. ASSUME Finish(a) \/ AfterFailedTeardown(a), ~IsReady(a),
               current' = current, session' = session,
               generation' = generation, history' = history, nextId' = nextId
        PROVE  ActorFence(a)'
    <3>1. cmd'[a].op \in {"none", "acquire"}
      BY <2>q, CommandOps
    <3> QED BY <2>q, <3>1, FenceQuiet
  \* A command that goes on.
  <2>g. ASSUME NEW op \in {"dial", "release", "redial"},
               op = "release" => cmd[a].op = "close",
               cmd' = [cmd EXCEPT ![a].op = op], ~IsReady(a),
               current' = current,
               generation' = generation, history' = history, nextId' = nextId
        PROVE  ActorFence(a)'
    <3>1. cmd'[a].op = op
      BY <2>g, CommandOps
    <3> QED BY <2>g, <3>1 DEF ActorFence, IsReady
  <2>1. CASE ExecuteReturns(a)
    <3>1. /\ current'[a].id = current[a].id /\ current'[a].gen = current[a].gen
          /\ current'[a].state = current[a].state
      BY <1>0, <1>t, <2>1 DEF ExecuteReturns, TypeOK
    <3>2. cmd'[a].op = "none"
      BY <2>1, CommandOps DEF ExecuteReturns
    <3> QED BY <2>1, <3>1, <3>2 DEF ActorFence, IsReady, ExecuteReturns
  <2>2. CASE AcquireOk(a)
    BY <2>2, <2>g DEF AcquireOk, ActorFence, actorVars
  <2>3. CASE AcquireFail(a)
    BY <2>3, <2>q DEF AcquireFail, ActorFence
  <2>4. CASE DialOk(a)
    <3>1. cmd'[a].op = "none"
      BY <2>4, CommandOps DEF DialOk
    <3> QED BY <2>4, <2>n, <3>1 DEF DialOk, DrawId, TypeOK
  <2>5. CASE \E released \in BOOLEAN : \/ DialFail(a, released)
                                       \/ RedialFail(a, released)
    BY <2>5, <2>q DEF DialFail, RedialFail, ActorFence
  <2>7. CASE SessionClosed(a)
    BY <2>7, <2>g DEF SessionClosed, ActorFence
  <2>8. CASE SessionCloseFails(a)
    BY <2>8, <2>q DEF SessionCloseFails, ActorFence
  <2>9. CASE LockReleased(a)
    <3> DEFINE receipt == [current[a] EXCEPT !.state = cmd[a].term]
    <3>1. receipt.id = current[a].id /\ receipt.gen = current[a].gen
      BY <1>0 DEF Handle
    <3>2. /\ current'[a] = NoHandle /\ history'[a] = history[a] \cup {receipt}
          /\ generation' = generation /\ nextId' = nextId
      BY <2>9 DEF LockReleased, TypeOK
    <3>3. cmd'[a].op \in {"none", "acquire"}
      BY <2>9, CommandOps DEF LockReleased
    <3>4. current[a].id # 0
      BY <2>9 DEF ActorFence, LockReleased
    <3> HIDE DEF receipt
    <3> QED
      BY <1>0, <3>1, <3>2, <3>3, <3>4 DEF ActorFence, IsReady, NoHandle
  <2>10. CASE LockReleaseFails(a)
    BY <2>10, <2>q DEF LockReleaseFails, ActorFence
  <2>11. CASE FencedSessionClosed(a)
    BY <2>11, <2>g DEF FencedSessionClosed, ActorFence
  <2>12. CASE FencedSessionCloseFails(a)
    <3>1. cmd'[a].op = "none" /\ current'[a] = cmd[a].old /\ cmd[a].op = "fence"
      BY <2>12, CommandOps DEF FencedSessionCloseFails, TypeOK
    <3> QED BY <2>12, <3>1 DEF FencedSessionCloseFails, ActorFence, IsReady
  <2>13. CASE RedialOk(a)
    <3>1. cmd'[a].op = "none"
      BY <2>13, CommandOps DEF RedialOk
    <3> QED BY <2>13, <2>n, <3>1 DEF RedialOk, DrawId, TypeOK
  <2> QED
    BY <1>2, <2>1, <2>2, <2>3, <2>4, <2>5, <2>7, <2>8, <2>9, <2>10,
       <2>11, <2>12, <2>13 DEF Continues
<1>3. CASE Shutdown(a)
  <2>1. CASE current[a].id = 0
    BY <1>3, <2>1 DEF Shutdown, ActorFence, IsReady
  <2>2. CASE current[a].id # 0
    BY <1>3, <2>2, FenceClose DEF Shutdown
  <2> QED BY <2>1, <2>2
<1>4. CASE FinalizeLock(a)
  BY <1>4 DEF FinalizeLock, ActorFence, IsReady, actorVars
<1> QED BY <1>1, <1>2, <1>3, <1>4

\* Tick, restarts and drains move no command; a restart starts afresh.
LEMMA FenceStep ==
  ASSUME TypeOK, LockDiscipline, Fences, [Next]_vars
  PROVE  Fences'
<1> SUFFICES ASSUME NEW b \in Actors
             PROVE  ActorFence(b)'
  BY DEF Fences
<1>0. ActorFence(b) /\ ActorLock(b) /\ nextId \in Nat \ {0}
  BY DEF Fences, LockDiscipline, TypeOK
<1>1. ASSUME NEW a \in Actors,
             Submitted(a) \/ Continues(a) \/ Shutdown(a) \/ FinalizeLock(a)
      PROVE  ActorFence(b)'
  <2>1. CASE a = b
    BY <1>0, <1>1, <2>1, FenceOwn
  <2>2. CASE a # b
    <3>1. nextId' \in {nextId, nextId + 1}
      BY <1>1
         DEF Submitted, Continues, Shutdown, FinalizeLock, BeginExpiry,
             PurgeHistory, Get, Execute, OpenReuse, OpenFresh, Close,
             SubmitReconnect, Reconnect, DropReconnect, ExecuteReturns,
             AcquireOk, AcquireFail, DialOk, DialFail, RedialFail,
             SessionClosed, SessionCloseFails, LockReleased,
             LockReleaseFails, FencedSessionClosed, FencedSessionCloseFails,
             RedialOk, DrawId
    <3>2. Kept(b)
      BY <1>1, <2>2, OthersKeep
    <3> QED BY <1>0, <3>1, <3>2, FenceFrame
  <2> QED BY <2>1, <2>2
<1>2. CASE \/ \E p \in Procs : Drains(p)
           \/ Tick \/ UNCHANGED vars
  BY <1>0, <1>2
     DEF Drains, DrainStart, BeginDrain, DrainDone, Tick, vars, actorVars,
         ActorFence, IsReady
<1>3. ASSUME NEW p \in Procs, Restart(p)
      PROVE  ActorFence(b)'
  <2>1. CASE b[1] = p
    BY <1>0, <1>3, <2>1
       DEF Restart, ActorFence, IsReady, NoHandle, NoCommand
  <2>2. CASE b[1] # p
    BY <1>0, <1>3, <2>2 DEF Restart, ActorFence, IsReady
  <2> QED BY <2>1, <2>2
<1> QED BY <1>1, <1>2, <1>3 DEF Next

\* What follows the command of an actor after a step of its own.
LEMMA CommandNexts ==
  ASSUME TypeOK, NEW a \in Actors
  PROVE  /\ \A term, next, req : StartClose(a, term, next, req)
              => cmd'[a].op = "close"
         /\ \A req, t : StartAcquire(a, req, t)
              => cmd'[a].op = "acquire" /\ cmd'[a].next = "done"
         /\ Finish(a)
              => /\ cmd'[a].op = "none" /\ cmd'[a].next = "done"
                 /\ mode'[a] = IF cmd[a].next = "stop" THEN "stopped" ELSE mode[a]
         /\ \A op : cmd' = [cmd EXCEPT ![a].op = op]
              => cmd'[a].op = op /\ cmd'[a].next = cmd[a].next
<1>1. \A term, next, req : StartClose(a, term, next, req)
        => cmd'[a].op = "close"
  BY DEF StartClose, TypeOK, NoCommand
<1>2. \A req, t : StartAcquire(a, req, t)
        => cmd'[a].op = "acquire" /\ cmd'[a].next = "done"
  BY DEF StartAcquire, TypeOK, NoCommand
<1>3. Finish(a)
        => /\ cmd'[a].op = "none" /\ cmd'[a].next = "done"
           /\ mode'[a] = IF cmd[a].next = "stop" THEN "stopped" ELSE mode[a]
  BY DEF Finish, TypeOK, NoCommand
<1>4. \A op : cmd' = [cmd EXCEPT ![a].op = op]
        => cmd'[a].op = op /\ cmd'[a].next = cmd[a].next
  BY DEF TypeOK, Command
<1> QED BY <1>1, <1>2, <1>3, <1>4

LEMMA StopsOwn ==
  ASSUME TypeOK, NEW a \in Actors, ActorStops(a), ActorFence(a), ActorLock(a),
         Submitted(a) \/ Continues(a) \/ Shutdown(a) \/ FinalizeLock(a)
  PROVE  ActorStops(a)'
<1>1. CASE Submitted(a)
  <2>0. session' = session /\ mode' = mode /\ drainErr' = drainErr
    BY <1>1 DEF Submitted, BeginExpiry, PurgeHistory, Get, Execute, OpenReuse,
                OpenFresh, Close, SubmitReconnect, Reconnect, DropReconnect,
                actorVars, procVars
  <2>1. CASE \/ \E req, next : BeginExpiry(a, next, req)
             \/ \E ref \in Refs : Close(a, ref)
    BY <2>0, <2>1, CommandOps
       DEF BeginExpiry, Close, Receiving, ActorStops
  <2>2. CASE \E req \in Requests : OpenFresh(a, req)
    BY <2>0, <2>2, CommandNexts DEF OpenFresh, Receiving, ActorStops
  <2>3. ASSUME NEW req \in Requests, OpenReuse(a, req)
        PROVE  ActorStops(a)'
    <3>1. current'[a].id = current[a].id
      <4>1. PICK abs, idle :
             current'[a] = Touched([current[a] EXCEPT !.abs = abs], now, idle)
        BY <2>3 DEF OpenReuse, TypeOK
      <4>2. current[a] \in Handle
        BY DEF TypeOK
      <4> QED BY <4>1, <4>2 DEF Touched, Handle
    <3> QED BY <2>0, <2>3, <3>1 DEF OpenReuse, ActorStops
  <2>4. CASE \E ref \in Refs : Get(a, ref)
    BY <2>0, <2>4, TouchKeepsIds DEF Get, ActorStops
  <2>5. CASE \E ref \in Refs, cap \in Caps : Execute(a, ref, cap)
    <3>1. cmd'[a].op = "exec" /\ cmd'[a].next = "done"
      BY <2>5 DEF Execute, TypeOK, NoCommand
    <3> QED BY <2>0, <2>5, <3>1 DEF Execute, Receiving, ActorStops
  <2>6. CASE \E ref \in Refs : Reconnect(a, ref)
    <3>1. cmd'[a].op = "fence" /\ cmd'[a].next = "done"
      BY <2>6 DEF Reconnect, TypeOK, NoCommand
    <3> QED BY <2>0, <2>6, <3>1 DEF Reconnect, Receiving, ActorStops
  <2>7. CASE \/ PurgeHistory(a) \/ DropReconnect(a)
             \/ \E ref \in Refs : SubmitReconnect(a, ref)
    BY <2>0, <2>7
       DEF PurgeHistory, DropReconnect, SubmitReconnect, actorVars, ActorStops
  <2> QED
    BY <1>1, <2>1, <2>2, <2>3, <2>4, <2>5, <2>6, <2>7 DEF Submitted
<1>2. CASE Continues(a)
  <2>0. cmd[a].op # "none" /\ mode[a] # "stopped"
    BY <1>2 DEF Continues, ExecuteReturns, AcquireOk, AcquireFail, DialOk,
         DialFail, RedialFail, SessionClosed, SessionCloseFails, LockReleased,
         LockReleaseFails, FencedSessionClosed, FencedSessionCloseFails,
         RedialOk, ActorStops
  \* A command outside a teardown ends, and its actor goes on.
  <2>e. ASSUME Finish(a), cmd[a].op \notin {"close", "release"},
               session'[a] # 0 => current'[a].id # 0
        PROVE  ActorStops(a)'
    BY <2>0, <2>e, CommandNexts DEF ActorStops
  <2>1. CASE ExecuteReturns(a)
    BY <2>1, <2>e, TouchKeepsIds DEF ExecuteReturns, ActorStops
  <2>2. CASE AcquireOk(a)
    BY <2>0, <2>2, CommandNexts DEF AcquireOk, ActorStops, actorVars, procVars
  <2>3. CASE AcquireFail(a)
    BY <2>3, <2>e DEF AcquireFail, ActorStops
  <2>4. CASE DialOk(a) \/ RedialOk(a)
    <3>1. current'[a].id = nextId /\ nextId # 0
      BY <2>4 DEF DialOk, RedialOk, TypeOK, NewHandle
    <3> QED BY <2>4, <2>e, <3>1 DEF DialOk, RedialOk
  <2>5. CASE \E released \in BOOLEAN : \/ DialFail(a, released)
                                       \/ RedialFail(a, released)
    BY <2>5, <2>e DEF DialFail, RedialFail, ActorStops
  <2>7. CASE SessionClosed(a)
    <3>1. session'[a] = 0 /\ cmd'[a].op = "release" /\ mode' = mode
      BY <2>7, CommandNexts DEF SessionClosed, TypeOK, procVars
    <3> QED BY <2>0, <3>1 DEF ActorStops
  <2>8. CASE SessionCloseFails(a) \/ LockReleaseFails(a)
    <3>0. session' = session /\ current' = current /\ AfterFailedTeardown(a)
      BY <2>8 DEF SessionCloseFails, LockReleaseFails
    <3>1. CASE cmd[a].next = "open"
      BY <2>0, <2>8, <3>0, <3>1, CommandNexts
         DEF AfterFailedTeardown, ActorStops, SessionCloseFails, LockReleaseFails
    <3>2. CASE cmd[a].next # "open"
      <4>1. drainErr'[a[1]] = (drainErr[a[1]] \/ cmd[a].next = "stop")
        BY <3>0, <3>2 DEF AfterFailedTeardown, TypeOK, Actors
      <4> QED
        BY <2>0, <2>8, <3>0, <3>2, <4>1, CommandNexts
           DEF AfterFailedTeardown, ActorStops, SessionCloseFails, LockReleaseFails
    <3> QED BY <3>1, <3>2
  <2>9. CASE LockReleased(a)
    <3>1. session'[a] = 0 /\ current'[a].id = 0
      BY <2>9 DEF LockReleased, ActorLock, TypeOK, NoHandle
    <3> QED BY <2>0, <2>9, <3>1, CommandNexts DEF LockReleased, ActorStops
  <2>11. CASE FencedSessionClosed(a)
    <3>1. session'[a] = 0 /\ cmd'[a].op = "redial" /\ mode' = mode
          /\ cmd'[a].next = cmd[a].next
      BY <2>11, CommandNexts DEF FencedSessionClosed, TypeOK, procVars
    <3> QED BY <2>0, <2>11, <3>1 DEF ActorStops, FencedSessionClosed
  <2>12. CASE FencedSessionCloseFails(a)
    <3>1. current'[a].id # 0
      BY <2>12 DEF FencedSessionCloseFails, ActorFence, TypeOK
    <3> QED BY <2>12, <2>e, <3>1 DEF FencedSessionCloseFails
  <2> QED
    BY <1>2, <2>1, <2>2, <2>3, <2>4, <2>5, <2>7, <2>8, <2>9,
       <2>11, <2>12 DEF Continues
<1>3. CASE Shutdown(a)
  <2>1. CASE current[a].id = 0
    BY <1>3, <2>1 DEF Shutdown, ActorStops, Receiving, TypeOK
  <2>2. CASE current[a].id # 0
    BY <1>3, <2>2, CommandOps DEF Shutdown, ActorStops, Receiving
  <2> QED BY <2>1, <2>2
<1>4. CASE FinalizeLock(a)
  BY <1>4 DEF FinalizeLock, ActorStops, actorVars, procVars
<1> QED BY <1>1, <1>2, <1>3, <1>4

LEMMA StopsStep ==
  ASSUME TypeOK, LockDiscipline, Fences, Stops, [Next]_vars
  PROVE  Stops'
<1>0. \A b \in Actors : ActorStops(b) /\ ActorFence(b) /\ ActorLock(b)
  BY DEF Stops, Fences, LockDiscipline
<1>1. ASSUME NEW a \in Actors,
             Submitted(a) \/ Continues(a) \/ Shutdown(a) \/ FinalizeLock(a)
      PROVE  Stops'
  <2>1. \A p \in Procs : drainErr[p] => drainErr'[p]
    <3>1. AfterFailedTeardown(a) => \A p \in Procs : drainErr[p] => drainErr'[p]
      BY DEF AfterFailedTeardown, TypeOK, Actors
    <3> QED
      BY <1>1, <3>1
         DEF Submitted, Continues, Shutdown, FinalizeLock, BeginExpiry,
             PurgeHistory, Get, Execute, OpenReuse, OpenFresh, Close,
             SubmitReconnect, Reconnect, DropReconnect, ExecuteReturns,
             AcquireOk, AcquireFail, DialOk, DialFail, RedialFail,
             SessionClosed, SessionCloseFails, LockReleased,
             LockReleaseFails, FencedSessionClosed, FencedSessionCloseFails,
             RedialOk, procVars
  <2>2. registry' = registry
    BY <1>1
       DEF Submitted, Continues, Shutdown, FinalizeLock, BeginExpiry,
           PurgeHistory, Get, Execute, OpenReuse, OpenFresh, Close,
           SubmitReconnect, Reconnect, DropReconnect, ExecuteReturns,
           AcquireOk, AcquireFail, DialOk, DialFail, RedialFail,
           SessionClosed, SessionCloseFails, LockReleased,
           LockReleaseFails, FencedSessionClosed, FencedSessionCloseFails,
           RedialOk, procVars
  <2>3. ASSUME NEW b \in Actors
        PROVE  ActorStops(b)' /\ (mode[b] = "stopped" => mode'[b] = "stopped")
    <3>1. CASE a = b
      <4>1. ActorStops(a)'
        BY <1>0, <1>1, StopsOwn
      <4>2. mode[a] = "stopped" => mode'[a] = "stopped"
        <5>1. mode[a] = "stopped" => ~Continues(a)
          BY <1>0
             DEF ActorStops, Continues, ExecuteReturns, AcquireOk, AcquireFail,
                 DialOk, DialFail, RedialFail, SessionClosed,
                 SessionCloseFails, LockReleased, LockReleaseFails,
                 FencedSessionClosed, FencedSessionCloseFails, RedialOk
        <5> QED
          BY <1>1, <5>1
             DEF Submitted, Shutdown, FinalizeLock, BeginExpiry,
                 PurgeHistory, Get, Execute, OpenReuse, OpenFresh, Close,
                 SubmitReconnect, Reconnect, DropReconnect, Receiving, procVars
      <4> QED BY <3>1, <4>1, <4>2
    <3>2. CASE a # b
      <4>1. Kept(b)
        BY <1>1, <3>2, OthersKeep
      <4>2. b[1] \in Procs
        BY DEF Actors
      <4> QED BY <1>0, <2>1, <4>1, <4>2 DEF ActorStops, Kept
    <3> QED BY <3>1, <3>2
  <2> QED BY <2>2, <2>3 DEF Stops
<1>2. ASSUME NEW p \in Procs, Drains(p)
      PROVE  Stops'
  <2>1. CASE DrainStart(p) \/ DrainDone(p)
    BY <2>1 DEF DrainStart, DrainDone, Stops, ActorStops, actorVars, TypeOK
  <2>2. CASE BeginDrain(p)
    BY <2>2 DEF BeginDrain, Stops, ActorStops, actorVars
  <2> QED BY <1>2, <2>1, <2>2 DEF Drains
<1>3. ASSUME NEW p \in Procs, Restart(p)
      PROVE  Stops'
  <2>1. ASSUME NEW b \in Actors
        PROVE  /\ ActorStops(b)'
               /\ b[1] # p => mode'[b] = mode[b]
    <3>1. CASE b[1] = p
      BY <1>3, <3>1 DEF Restart, ActorStops, NoHandle, NoCommand
    <3>2. CASE b[1] # p
      <4>1. b[1] \in Procs
        BY DEF Actors
      <4> QED BY <1>0, <1>3, <3>2, <4>1 DEF Restart, ActorStops, TypeOK
    <3> QED BY <3>1, <3>2
  <2>2. \A q \in Procs : registry'[q] = "closed" => q # p /\ registry[q] = "closed"
    BY <1>3 DEF Restart, TypeOK
  <2> QED BY <2>1, <2>2 DEF Stops
<1>4. CASE Tick \/ UNCHANGED vars
  BY <1>4 DEF Tick, vars, actorVars, procVars, Stops, ActorStops
<1> QED BY <1>1, <1>2, <1>3, <1>4 DEF Next

FullInv == Inv /\ Fences /\ Stops

LEMMA FullInvHolds == Spec => []FullInv
<1>1. Init => Fences /\ Stops
  BY DEF Init, Fences, Stops, ActorFence, ActorStops, IsReady, NoHandle,
         NoCommand
<1>2. FullInv /\ [Next]_vars => FullInv'
  BY InvInductive, FenceStep, StopsStep DEF FullInv, Inv
<1> QED BY <1>1, <1>2, InitInv, PTL DEF FullInv, Spec

\* A command runs under the generation and in the session it was checked for.
THEOREM CallbacksFenced == Spec => []ExecutesFenced
<1>1. FullInv => ExecutesFenced
  <2> SUFFICES ASSUME FullInv
               PROVE  ExecutesFenced
    OBVIOUS
  <2>1. GenerationFence
    BY DEF FullInv, Fences, ActorFence, GenerationFence
  <2>2. ExecuteOwnsSession
    BY DEF FullInv, Inv, Fences, LockDiscipline, ActorFence, ActorLock,
           ExecuteOwnsSession, IsReady
  <2> QED BY <2>1, <2>2 DEF ExecutesFenced
<1> QED BY <1>1, FullInvHolds, PTL

\* A Drain that reported success left no session, no handle and no command.
THEOREM DrainCloses == Spec => []DrainClosesSessions
<1>1. FullInv => DrainClosesSessions
  BY DEF FullInv, Stops, ActorStops, DrainClosesSessions
<1> QED BY <1>1, FullInvHolds, PTL

\* What HandleOnlyWindsDown asks of one actor.
WindsDown(a) ==
  /\ current[a].id # 0 /\ current'[a].id = current[a].id
       => /\ current'[a].abs <= current[a].abs
          /\ current'[a].state = "ready" => current[a].state = "ready"
  /\ \A h \in history[a] : current'[a].id = h.id => current'[a].state # "ready"

\* The handle stays the same one, at most shorter lived and no readier.
LEMMA SameHandle ==
  ASSUME TypeOK, NEW a \in Actors, ActorFence(a),
         current'[a].id = current[a].id, current'[a].abs <= current[a].abs,
         current'[a].state = "ready" => current[a].state = "ready"
  PROVE  WindsDown(a)
BY DEF WindsDown, ActorFence, IsReady

\* There is another handle, or none.
LEMMA OtherHandle ==
  ASSUME TypeOK, NEW a \in Actors, ActorFence(a),
         \/ current'[a].id = nextId
         \/ current'[a].id # current[a].id /\ current'[a].state # "ready"
         \/ current[a].id = 0 /\ current'[a].state # "ready"
  PROVE  WindsDown(a)
<1>1. /\ nextId \in Nat /\ current[a] \in Handle
      /\ \A h \in history[a] : h \in Handle
  BY DEF TypeOK
<1> QED BY <1>1 DEF WindsDown, ActorFence, Handle

LEMMA WindsDownOwn ==
  ASSUME TypeOK, NEW a \in Actors, ActorFence(a), ActorLock(a),
         Submitted(a) \/ Continues(a) \/ Shutdown(a) \/ FinalizeLock(a)
  PROVE  WindsDown(a)
<1>0. /\ current[a] \in Handle /\ idleTimeout[a] \in Nat /\ now \in Nat
      /\ current[a].abs \in Nat
  BY DEF TypeOK, Handle
\* A teardown begins with a draining handle.
<1>s. ASSUME NEW term, NEW next, NEW req, StartClose(a, term, next, req)
      PROVE  WindsDown(a)
  <2>1. current'[a] = [current[a] EXCEPT !.state = "draining"]
    BY <1>s DEF StartClose, TypeOK
  <2>2. /\ current'[a].id = current[a].id /\ current'[a].abs = current[a].abs
        /\ current'[a].state = "draining"
    BY <1>0, <2>1 DEF Handle
  <2> QED BY <1>0, <2>2, SameHandle
<1>k. ASSUME current'[a] = current[a]
      PROVE  WindsDown(a)
  BY <1>0, <1>k, SameHandle
<1>t. ASSUME current' = [current EXCEPT ![a] = Touched(@, now, idleTimeout[a])]
      PROVE  WindsDown(a)
  <2>1. current'[a] = Touched(current[a], now, idleTimeout[a])
    BY <1>t DEF TypeOK
  <2>2. /\ current'[a].id = current[a].id /\ current'[a].abs = current[a].abs
        /\ current'[a].state = current[a].state
    BY <1>0, <2>1 DEF Touched, Handle
  <2> QED BY <1>0, <2>2, SameHandle
<1>n. NoHandle.id = 0 /\ NoHandle.state # "ready"
  BY DEF NoHandle
<1>1. CASE Submitted(a)
  <2>1. CASE \/ \E req, next : BeginExpiry(a, next, req)
             \/ \E ref \in Refs : Close(a, ref)
    BY <1>s, <2>1 DEF BeginExpiry, Close
  <2>2. ASSUME NEW req \in Requests, OpenReuse(a, req)
        PROVE  WindsDown(a)
    <3> DEFINE abs == MinOf(current[a].abs, current[a].created + req.life)
               idle == MinOf(idleTimeout[a], req.idle)
    <3>1. current'[a] = Touched([current[a] EXCEPT !.abs = abs], now, idle)
      BY <2>2 DEF OpenReuse, TypeOK
    <3>2. abs <= current[a].abs
      BY <1>0, RequestsAssumption DEF MinOf, Handle, Request
    <3> HIDE DEF abs, idle
    <3>3. /\ current'[a].id = current[a].id /\ current'[a].abs = abs
          /\ current'[a].state = current[a].state
      BY <1>0, <3>1 DEF Touched, Handle
    <3> QED BY <3>2, <3>3, SameHandle
  <2>3. CASE \E ref \in Refs : Get(a, ref)
    BY <1>t, <2>3 DEF Get
  <2>4. CASE \E ref \in Refs : Reconnect(a, ref)
    <3>1. current'[a] = NoHandle /\ current[a].id # 0
      BY <2>4 DEF Reconnect, Valid, IsReady, TypeOK
    <3> QED BY <1>n, <3>1, OtherHandle
  <2>5. CASE \/ \E req \in Requests : OpenFresh(a, req)
             \/ \E ref \in Refs : \/ SubmitReconnect(a, ref)
                                  \/ \E cap \in Caps : Execute(a, ref, cap)
             \/ PurgeHistory(a) \/ DropReconnect(a)
    BY <1>k, <2>5
       DEF OpenFresh, SubmitReconnect, Execute, PurgeHistory, DropReconnect,
           actorVars
  <2> QED BY <1>1, <2>1, <2>2, <2>3, <2>4, <2>5 DEF Submitted
<1>2. CASE Continues(a)
  <2>1. CASE ExecuteReturns(a)
    BY <1>t, <2>1 DEF ExecuteReturns
  <2>2. CASE DialOk(a) \/ RedialOk(a)
    <3>1. current'[a].id = nextId
      BY <2>2 DEF DialOk, RedialOk, TypeOK, NewHandle
    <3> QED BY <3>1, OtherHandle
  <2>3. CASE LockReleased(a)
    <3>1. current'[a] = NoHandle
      BY <2>3 DEF LockReleased, TypeOK
    <3> QED BY <1>n, <3>1, OtherHandle
  <2>4. CASE FencedSessionCloseFails(a)
    <3>1. /\ current'[a] = cmd[a].old /\ cmd[a].old.state # "ready"
          /\ current[a].id = 0
      BY <2>4 DEF FencedSessionCloseFails, TypeOK, ActorFence, ActorLock
    <3> QED BY <3>1, OtherHandle
  <2>5. CASE \/ AcquireOk(a) \/ AcquireFail(a) \/ SessionClosed(a)
             \/ SessionCloseFails(a) \/ LockReleaseFails(a)
             \/ FencedSessionClosed(a)
             \/ \E released \in BOOLEAN : \/ DialFail(a, released)
                                           \/ RedialFail(a, released)
    BY <1>k, <2>5
       DEF AcquireOk, AcquireFail, SessionClosed, SessionCloseFails,
           LockReleaseFails, FencedSessionClosed, DialFail, RedialFail,
           actorVars
  <2> QED BY <1>2, <2>1, <2>2, <2>3, <2>4, <2>5 DEF Continues
<1>3. CASE Shutdown(a) \/ FinalizeLock(a)
  BY <1>3, <1>k, <1>s DEF Shutdown, FinalizeLock, actorVars
<1> QED BY <1>1, <1>2, <1>3

\* No step, of whomever, extends or revives a handle.
THEOREM HandlesWindDown == Spec => HandleOnlyWindsDown
<1>1. ASSUME FullInv, [Next]_vars, NEW b \in Actors
      PROVE  WindsDown(b)
  <2>0. /\ TypeOK /\ ActorLock(b) /\ ActorFence(b)
        /\ current[b] \in Handle /\ current[b].abs \in Nat
    BY <1>1 DEF FullInv, Inv, Fences, LockDiscipline, TypeOK, Handle
  <2>1. ASSUME NEW a \in Actors,
               Submitted(a) \/ Continues(a) \/ Shutdown(a) \/ FinalizeLock(a)
        PROVE  WindsDown(b)
    <3>1. CASE a = b
      BY <2>0, <2>1, <3>1, WindsDownOwn
    <3>2. CASE a # b
      <4>1. Kept(b)
        BY <2>0, <2>1, <3>2, OthersKeep
      <4> QED BY <2>0, <4>1, SameHandle DEF Kept
    <3> QED BY <3>1, <3>2
  <2>2. CASE current'[b] = current[b]
    BY <2>0, <2>2, SameHandle
  <2>3. ASSUME NEW p \in Procs, Restart(p), b[1] = p
        PROVE  WindsDown(b)
    BY <2>3 DEF Restart, WindsDown, NoHandle
  <2>4. ASSUME NEW p \in Procs, Restart(p), b[1] # p
        PROVE  current'[b] = current[b]
    BY <2>4 DEF Restart
  <2>5. CASE \/ \E p \in Procs : Drains(p)
             \/ Tick \/ UNCHANGED vars
    BY <2>2, <2>5
       DEF Drains, DrainStart, BeginDrain, DrainDone, Tick, vars, actorVars
  <2> QED BY <1>1, <2>1, <2>2, <2>3, <2>4, <2>5 DEF Next
<1>2. FullInv /\ [Next]_vars =>
        [\A a \in Actors :
           /\ current[a].id # 0 /\ current'[a].id = current[a].id
                => /\ current'[a].abs <= current[a].abs
                   /\ current'[a].state = "ready" => current[a].state = "ready"
           /\ \A h \in history[a] :
                current'[a].id = h.id => current'[a].state # "ready"]_vars
  BY <1>1 DEF WindsDown
<1> QED BY <1>2, FullInvHolds, PTL DEF Spec, HandleOnlyWindsDown
=============================================================================
