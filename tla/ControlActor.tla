---------------------------- MODULE ControlActor ----------------------------
(***************************************************************************)
(* The control registry: one actor goroutine per (process, device) that    *)
(* owns the protocol session of the device, the handles issued for it and  *)
(* the cross-process file lock (internal/control/control.go, actor.go,     *)
(* internal/automation/locker.go).                                         *)
(*                                                                         *)
(* An actor runs one command at a time.  A command whose callback waits    *)
(* for the outside world (lock, device, session close) is split at every   *)
(* such wait; `cmd' says where the running command is.  Actors share only  *)
(* the file lock and the registry's drain flag, so everything between two  *)
(* waits is one step.  Actors are created on first use in the code; here   *)
(* every actor exists from the start with the state of a fresh one.        *)
(***************************************************************************)
EXTENDS Integers, FiniteSets

CONSTANTS
  Procs,      \* processes of the local user (MCP server, CLI commands)
  Devices,    \* stable device identities
  Caps,       \* capabilities a handle can be opened with
  Requests,   \* the open requests clients make
  MaxTime,    \* bound: the clock stops here
  MaxIds      \* bound: handle IDs handed out over all processes

Ownerships == {"owned", "attached"}

\* OpenRequest after defaulting: requested ownership, capabilities, lifetimes.
Request == [own: Ownerships, caps: SUBSET Caps, idle: Nat, life: Nat]

ASSUME RequestsAssumption ==
  /\ Requests \subseteq Request
  /\ \A r \in Requests : 0 < r.idle /\ r.idle <= r.life /\ r.caps # {}
ASSUME BoundsAssumption == MaxTime \in Nat /\ MaxIds \in Nat

Actors == Procs \X Devices
NoActor == <<>>     \* the lock file is free

SessionStates == {"absent", "opening", "ready", "draining", "closing",
                  "closed", "uncertain"}
HandleStates == {"ready", "draining", "expired", "closed", "fenced"}

Handle == [id: Nat, gen: Nat, own: Ownerships, caps: SUBSET Caps,
           state: HandleStates, created: Nat, idle: Nat, abs: Nat]

\* The nil *Handle: real handles have id > 0.
NoHandle == [id |-> 0, gen |-> 0, own |-> "owned", caps |-> {},
             state |-> "closed", created |-> 0, idle |-> 0, abs |-> 0]
NoRequest == [own |-> "owned", caps |-> {}, idle |-> 0, life |-> 0]

\* Where the running command waits: for the file lock, for the device to
\* answer a dial, for an Execute callback, for a session or lock to close.
Ops == {"none", "acquire", "dial", "exec", "close", "release", "fence",
        "redial"}
\* What follows the teardown started by a command: nothing, the open that
\* found an expired handle, or the end of the actor goroutine.
Nexts == {"done", "open", "stop"}

Command == [op: Ops, next: Nexts, term: HandleStates, req: Request,
            at: Nat, old: Handle]
NoCommand == [op |-> "none", next |-> "done", term |-> "closed",
              req |-> NoRequest, at |-> 0, old |-> NoHandle]

VARIABLES
  registry,      \* Registry.state of each process
  drainErr,      \* Registry.drainErr is not nil
  mode,          \* actor.draining, and whether actor.run has returned
  cmd,           \* the command the actor goroutine is running
  sessionState,  \* actorState.sessionState
  session,       \* actorState.session: generation of the live session, 0 nil
  lock,          \* actorState.lock is not nil
  generation,    \* actorState.generation
  current,       \* actorState.current
  history,       \* actorState.history
  idleTimeout,   \* actorState.idleTimeout
  reconnects,    \* reconnect commands submitted and not yet received
  owner,         \* who holds the lock file of each device
  now,           \* Config.Now
  nextId         \* Config.NewHandleID: UUIDs, never repeated

actorVars == <<sessionState, session, lock, generation, current, history,
               idleTimeout>>
procVars == <<registry, drainErr, mode>>
vars == <<registry, drainErr, mode, cmd, sessionState, session, lock,
          generation, current, history, idleTimeout, reconnects, owner, now,
          nextId>>

Ref == [id: Nat, gen: Nat]
\* References clients can present: an ID that was issued, any generation.
Refs == [id: 1..(nextId - 1), gen: 1..MaxIds]

TypeOK ==
  /\ registry \in [Procs -> {"running", "draining", "closed"}]
  /\ drainErr \in [Procs -> BOOLEAN]
  /\ mode \in [Actors -> {"serving", "draining", "stopped"}]
  /\ cmd \in [Actors -> Command]
  /\ sessionState \in [Actors -> SessionStates]
  /\ session \in [Actors -> Nat]
  /\ lock \in [Actors -> BOOLEAN]
  /\ generation \in [Actors -> Nat]
  /\ current \in [Actors -> Handle]
  /\ history \in [Actors -> SUBSET Handle]
  /\ idleTimeout \in [Actors -> Nat]
  /\ reconnects \in [Actors -> SUBSET Ref]
  /\ owner \in [Devices -> Actors \cup {NoActor}]
  /\ now \in Nat
  /\ nextId \in Nat \ {0}

Init ==
  /\ registry = [p \in Procs |-> "running"]
  /\ drainErr = [p \in Procs |-> FALSE]
  /\ mode = [a \in Actors |-> "serving"]
  /\ cmd = [a \in Actors |-> NoCommand]
  /\ sessionState = [a \in Actors |-> "absent"]
  /\ session = [a \in Actors |-> 0]
  /\ lock = [a \in Actors |-> FALSE]
  /\ generation = [a \in Actors |-> 0]
  /\ current = [a \in Actors |-> NoHandle]
  /\ history = [a \in Actors |-> {}]
  /\ idleTimeout = [a \in Actors |-> 0]
  /\ reconnects = [a \in Actors |-> {}]
  /\ owner = [d \in Devices |-> NoActor]
  /\ now = 0
  /\ nextId = 1

-----------------------------------------------------------------------------
(* Helpers of the actor.                                                   *)

\* The actor goroutine is at the top of its loop, ready for a command.
Receiving(a) == mode[a] # "stopped" /\ cmd[a].op = "none"

IsReady(a) == current[a].id # 0 /\ current[a].state = "ready"

\* actorState.validate succeeds.
Valid(a, ref) ==
  /\ IsReady(a)
  /\ current[a].id = ref.id
  /\ current[a].gen = ref.gen

\* expireIfNeeded finds the current handle past one of its deadlines.
Due(a) ==
  /\ IsReady(a)
  /\ ~(now < current[a].idle /\ now < current[a].abs)

\* What expireIfNeeded leaves in the history.
Purged(a) == {h \in history[a] : now < h.abs}

MinOf(x, y) == IF x <= y THEN x ELSE y

\* actorState.touch: a use extends the idle deadline, never past the absolute.
Touched(h, t, idle) == [h EXCEPT !.idle = MinOf(t + idle, h.abs)]

\* The handle an open or a reconnect publishes.
NewHandle(id, gen, req, t) ==
  [id |-> id, gen |-> gen, own |-> req.own, caps |-> req.caps,
   state |-> "ready", created |-> t, idle |-> t + req.idle,
   abs |-> t + req.life]

\* The start of closeSession: handle draining, session closing.
StartClose(a, term, next, req) ==
  /\ current' = [current EXCEPT ![a].state = "draining"]
  /\ sessionState' = [sessionState EXCEPT ![a] = "closing"]
  /\ cmd' = [cmd EXCEPT ![a] = [NoCommand EXCEPT !.op = "close",
                                !.term = term, !.next = next, !.req = req,
                                !.at = now]]

\* open waits for the lock.  (The handle ID drawn just before is an unused
\* UUID until the handle is published, and is drawn there.)
StartAcquire(a, req, t) ==
  /\ sessionState' = [sessionState EXCEPT ![a] = "opening"]
  /\ cmd' = [cmd EXCEPT ![a] = [NoCommand EXCEPT !.op = "acquire",
                                !.req = req, !.at = t]]

\* Config.NewHandleID.
DrawId == nextId <= MaxIds /\ nextId' = nextId + 1

\* The command ends; a shutdown command ends the goroutine with it.
Finish(a) ==
  /\ cmd' = [cmd EXCEPT ![a] = NoCommand]
  /\ mode' = IF cmd[a].next = "stop"
             THEN [mode EXCEPT ![a] = "stopped"] ELSE mode

-----------------------------------------------------------------------------
(* Commands.                                                               *)

\* Mutant: expiry waits for a reconnect that was submitted.
BeginExpiryAfterReconnect(a, next, req) ==
  /\ Receiving(a)
  /\ Due(a)
  /\ reconnects[a] = {}
  /\ next = "open" => mode[a] = "serving"
  /\ history' = [history EXCEPT ![a] = Purged(a)]
  /\ StartClose(a, "expired", next, req)
  /\ UNCHANGED <<procVars, session, lock, generation, idleTimeout,
                 reconnects, owner, now, nextId>>

\* expireIfNeeded when the handle is due.  Every sweep, Get, Execute and Open
\* begins with it; after it validate rejects any Get or Execute (the only
\* ready handle is gone), and an Open goes on to replace the session.
BeginExpiry(a, next, req) ==
  /\ Receiving(a)
  /\ Due(a)
  /\ next = "open" => mode[a] = "serving"
  /\ history' = [history EXCEPT ![a] = Purged(a)]
  /\ StartClose(a, "expired", next, req)
  /\ UNCHANGED <<procVars, session, lock, generation, idleTimeout,
                 reconnects, owner, now, nextId>>

\* A sweep, or a rejected Get or Execute, with no handle due: old receipts go.
PurgeHistory(a) ==
  /\ Receiving(a)
  /\ ~Due(a)
  /\ Purged(a) # history[a]
  /\ history' = [history EXCEPT ![a] = Purged(a)]
  /\ UNCHANGED <<procVars, cmd, sessionState, session, lock, generation,
                 current, idleTimeout, reconnects, owner, now, nextId>>

\* Registry.Get: reading a live handle touches it, while draining too.
Get(a, ref) ==
  /\ Receiving(a)
  /\ ~Due(a)
  /\ Valid(a, ref)
  /\ history' = [history EXCEPT ![a] = Purged(a)]
  /\ current' = [current EXCEPT ![a] = Touched(@, now, idleTimeout[a])]
  /\ UNCHANGED <<procVars, cmd, sessionState, session, lock, generation,
                 idleTimeout, reconnects, owner, now, nextId>>

\* Mutant: only the reference is compared, not the states.
ExecuteByReference(a, ref, cap) ==
  /\ Receiving(a)
  /\ mode[a] = "serving"
  /\ ~Due(a)
  /\ current[a].id = ref.id /\ current[a].gen = ref.gen
  /\ cap \in current[a].caps
  /\ session[a] # 0
  /\ history' = [history EXCEPT ![a] = Purged(a)]
  /\ cmd' = [cmd EXCEPT ![a] = [NoCommand EXCEPT !.op = "exec"]]
  /\ UNCHANGED <<procVars, sessionState, session, lock, generation, current,
                 idleTimeout, reconnects, owner, now, nextId>>

\* Registry.Execute: the callback starts inside the actor.
Execute(a, ref, cap) ==
  /\ Receiving(a)
  /\ mode[a] = "serving"
  /\ ~Due(a)
  /\ Valid(a, ref)
  /\ cap \in current[a].caps
  /\ sessionState[a] = "ready" /\ session[a] # 0
  /\ history' = [history EXCEPT ![a] = Purged(a)]
  /\ cmd' = [cmd EXCEPT ![a] = [NoCommand EXCEPT !.op = "exec"]]
  /\ UNCHANGED <<procVars, sessionState, session, lock, generation, current,
                 idleTimeout, reconnects, owner, now, nextId>>

\* The callback returned, whatever it did; the handle is touched at the
\* time it ended.
ExecuteReturns(a) ==
  /\ cmd[a].op = "exec"
  /\ current' = [current EXCEPT ![a] = Touched(@, now, idleTimeout[a])]
  /\ Finish(a)
  /\ UNCHANGED <<registry, drainErr, sessionState, session, lock, generation,
                 history, idleTimeout, reconnects, owner, now, nextId>>

\* Mutant: joining a handle replaces its deadlines.
OpenReuseExtending(a, req) ==
  LET h == current[a]
  IN /\ Receiving(a)
     /\ mode[a] = "serving"
     /\ IsReady(a) /\ ~Due(a)
     /\ req.own = h.own /\ req.caps \subseteq h.caps
     /\ history' = [history EXCEPT ![a] = Purged(a)]
     /\ idleTimeout' = [idleTimeout EXCEPT ![a] = req.idle]
     /\ current' = [current EXCEPT ![a] =
                      Touched([h EXCEPT !.abs = now + req.life], now, req.idle)]
     /\ UNCHANGED <<procVars, cmd, sessionState, session, lock, generation,
                    reconnects, owner, now, nextId>>

\* Registry.Open joining the live handle: deadlines only tighten.
OpenReuse(a, req) ==
  LET h == current[a]
      idle == MinOf(idleTimeout[a], req.idle)
      abs == MinOf(h.abs, h.created + req.life)
  IN /\ Receiving(a)
     /\ mode[a] = "serving"
     /\ IsReady(a) /\ ~Due(a)
     /\ req.own = h.own /\ req.caps \subseteq h.caps
     /\ history' = [history EXCEPT ![a] = Purged(a)]
     /\ idleTimeout' = [idleTimeout EXCEPT ![a] = idle]
     /\ current' = [current EXCEPT ![a] =
                      Touched([h EXCEPT !.abs = abs], now, idle)]
     /\ UNCHANGED <<procVars, cmd, sessionState, session, lock, generation,
                    reconnects, owner, now, nextId>>

\* Registry.Open with no ready handle.  A handle left by a failed close does
\* not stop it: the lock that handle still holds will.
OpenFresh(a, req) ==
  /\ Receiving(a)
  /\ mode[a] = "serving"
  /\ ~IsReady(a)
  /\ history' = [history EXCEPT ![a] = Purged(a)]
  /\ StartAcquire(a, req, now)
  /\ UNCHANGED <<procVars, session, lock, generation, current, idleTimeout,
                 reconnects, owner, now, nextId>>

\* FileLocker.Acquire got the file lock (an OS lock, one holder per file).
AcquireOk(a) ==
  /\ cmd[a].op = "acquire"
  /\ owner[a[2]] = NoActor
  /\ owner' = [owner EXCEPT ![a[2]] = a]
  /\ cmd' = [cmd EXCEPT ![a].op = "dial"]
  /\ UNCHANGED <<procVars, actorVars, reconnects, now, nextId>>

\* The caller's context ended first, or the lock file is unusable.
AcquireFail(a) ==
  /\ cmd[a].op = "acquire"
  /\ sessionState' = [sessionState EXCEPT ![a] = "absent"]
  /\ Finish(a)
  /\ UNCHANGED <<registry, drainErr, session, lock, generation, current,
                 history, idleTimeout, reconnects, owner, now, nextId>>

\* SessionFactory.Open succeeded for open.
DialOk(a) ==
  /\ cmd[a].op = "dial"
  /\ DrawId
  /\ generation' = [generation EXCEPT ![a] = @ + 1]
  /\ lock' = [lock EXCEPT ![a] = TRUE]
  /\ session' = [session EXCEPT ![a] = generation[a] + 1]
  /\ sessionState' = [sessionState EXCEPT ![a] = "ready"]
  /\ current' = [current EXCEPT ![a] = NewHandle(nextId, generation[a] + 1,
                                                 cmd[a].req, cmd[a].at)]
  /\ idleTimeout' = [idleTimeout EXCEPT ![a] = cmd[a].req.idle]
  /\ Finish(a)
  /\ UNCHANGED <<registry, drainErr, history, reconnects, owner, now>>

\* SessionFactory.Open failed; the local lock is released, and if that fails
\* nobody refers to it any more.
DialFail(a, released) ==
  /\ cmd[a].op = "dial"
  /\ sessionState' = [sessionState EXCEPT ![a] = "absent"]
  /\ owner' = IF released THEN [owner EXCEPT ![a[2]] = NoActor] ELSE owner
  /\ Finish(a)
  /\ UNCHANGED <<registry, drainErr, session, lock, generation, current,
                 history, idleTimeout, reconnects, now, nextId>>

\* Registry.Close of a live handle.  A handle found in the history is
\* returned as it is and changes nothing.
Close(a, ref) ==
  /\ Receiving(a)
  /\ \A h \in history[a] : h.id # ref.id
  /\ Valid(a, ref)
  /\ StartClose(a, "closed", "done", NoRequest)
  /\ UNCHANGED <<procVars, session, lock, generation, history, idleTimeout,
                 reconnects, owner, now, nextId>>

\* closeSession: Session.Close or Disconnect returned no error, or there was
\* no session left to close.
SessionClosed(a) ==
  /\ cmd[a].op = "close"
  /\ session' = [session EXCEPT ![a] = 0]
  /\ cmd' = [cmd EXCEPT ![a].op = "release"]
  /\ UNCHANGED <<procVars, sessionState, lock, generation, current, history,
                 idleTimeout, reconnects, owner, now, nextId>>

\* Mutant: a shutdown loses the error of its teardown.
AfterFailedTeardownSilent(a) ==
  IF cmd[a].next = "open"
  THEN /\ StartAcquire(a, cmd[a].req, cmd[a].at)
       /\ UNCHANGED <<mode, drainErr>>
  ELSE /\ sessionState' = [sessionState EXCEPT ![a] = "uncertain"]
       /\ Finish(a)
       /\ UNCHANGED drainErr

\* How a teardown that gave up goes on: the open that began it still tries to
\* replace the session, a shutdown reports the error and stops.
AfterFailedTeardown(a) ==
  IF cmd[a].next = "open"
  THEN /\ StartAcquire(a, cmd[a].req, cmd[a].at)
       /\ UNCHANGED <<mode, drainErr>>
  ELSE /\ sessionState' = [sessionState EXCEPT ![a] = "uncertain"]
       /\ Finish(a)
       /\ drainErr' = [drainErr EXCEPT ![a[1]] = @ \/ cmd[a].next = "stop"]

\* Mutant: the lock is released although the session did not close.
SessionCloseFailsReleasing(a) ==
  /\ cmd[a].op = "close"
  /\ session[a] # 0
  /\ AfterFailedTeardown(a)
  /\ lock' = [lock EXCEPT ![a] = FALSE]
  /\ owner' = IF lock[a] THEN [owner EXCEPT ![a[2]] = NoActor] ELSE owner
  /\ UNCHANGED <<registry, session, generation, current, history,
                 idleTimeout, reconnects, now, nextId>>

\* closeSession: the session did not close.  Session and lock are kept.
SessionCloseFails(a) ==
  /\ cmd[a].op = "close"
  /\ session[a] # 0
  /\ AfterFailedTeardown(a)
  /\ UNCHANGED <<registry, session, lock, generation, current, history,
                 idleTimeout, reconnects, owner, now, nextId>>

\* closeSession: the lock is released and the handle becomes a receipt.
LockReleased(a) ==
  /\ cmd[a].op = "release"
  /\ lock' = [lock EXCEPT ![a] = FALSE]
  /\ owner' = IF lock[a] THEN [owner EXCEPT ![a[2]] = NoActor] ELSE owner
  /\ history' = [history EXCEPT ![a] =
                   @ \cup {[current[a] EXCEPT !.state = cmd[a].term]}]
  /\ current' = [current EXCEPT ![a] = NoHandle]
  /\ IF cmd[a].next = "open"
     THEN /\ StartAcquire(a, cmd[a].req, cmd[a].at)
          /\ UNCHANGED mode
     ELSE /\ sessionState' = [sessionState EXCEPT ![a] = "closed"]
          /\ Finish(a)
  /\ UNCHANGED <<registry, drainErr, session, generation, idleTimeout,
                 reconnects, now, nextId>>

\* closeSession: Lock.Release returned an error; the handle stays.
LockReleaseFails(a) ==
  /\ cmd[a].op = "release"
  /\ lock[a]
  /\ AfterFailedTeardown(a)
  /\ UNCHANGED <<registry, session, lock, generation, current, history,
                 idleTimeout, reconnects, owner, now, nextId>>

\* Registry.Reconnect passes its checks and waits for the actor, which does
\* not check for a drain again.  Only the submissions that can still succeed
\* are kept: a reference that is not valid now never becomes valid.
SubmitReconnect(a, ref) ==
  /\ registry[a[1]] = "running"
  /\ mode[a] = "serving"
  /\ Valid(a, ref)
  /\ reconnects[a] = {}
  /\ reconnects' = [reconnects EXCEPT ![a] = {ref}]
  /\ UNCHANGED <<procVars, actorVars, cmd, owner, now, nextId>>

\* The actor receives a reconnect for a reference validate rejects, or the
\* caller gives up waiting.
DropReconnect(a) ==
  /\ reconnects[a] # {}
  /\ reconnects' = [reconnects EXCEPT ![a] = {}]
  /\ UNCHANGED <<procVars, actorVars, cmd, owner, now, nextId>>

\* reconnect fences the handle and closes the session it replaces.  There is
\* no expireIfNeeded here.
Reconnect(a, ref) ==
  LET fenced == [current[a] EXCEPT !.state = "fenced"]
  IN /\ Receiving(a)
     /\ ref \in reconnects[a]
     /\ Valid(a, ref)
     /\ reconnects' = [reconnects EXCEPT ![a] = {}]
     /\ history' = [history EXCEPT ![a] = @ \cup {fenced}]
     /\ current' = [current EXCEPT ![a] = NoHandle]
     /\ sessionState' = [sessionState EXCEPT ![a] = "closing"]
     /\ cmd' = [cmd EXCEPT ![a] = [NoCommand EXCEPT !.op = "fence",
                  !.old = fenced,
                  !.req = [own |-> fenced.own, caps |-> fenced.caps,
                           idle |-> idleTimeout[a],
                           life |-> fenced.abs - fenced.created]]]
     /\ UNCHANGED <<procVars, session, lock, generation, idleTimeout, owner,
                    now, nextId>>

\* reconnect: the replaced session closed.
FencedSessionClosed(a) ==
  /\ cmd[a].op = "fence"
  /\ session' = [session EXCEPT ![a] = 0]
  /\ sessionState' = [sessionState EXCEPT ![a] = "opening"]
  /\ cmd' = [cmd EXCEPT ![a].op = "redial"]
  /\ UNCHANGED <<procVars, lock, generation, current, history, idleTimeout,
                 reconnects, owner, now, nextId>>

\* Mutant: a reconnect that gives up releases the lock.
FencedSessionCloseFailsReleasing(a) ==
  /\ cmd[a].op = "fence"
  /\ sessionState' = [sessionState EXCEPT ![a] = "uncertain"]
  /\ current' = [current EXCEPT ![a] = cmd[a].old]
  /\ lock' = [lock EXCEPT ![a] = FALSE]
  /\ owner' = IF lock[a] THEN [owner EXCEPT ![a[2]] = NoActor] ELSE owner
  /\ Finish(a)
  /\ UNCHANGED <<registry, drainErr, session, generation, history,
                 idleTimeout, reconnects, now, nextId>>

\* reconnect: the replaced session did not close; the fenced handle is put
\* back as the current one, with its session and lock.
FencedSessionCloseFails(a) ==
  /\ cmd[a].op = "fence"
  /\ sessionState' = [sessionState EXCEPT ![a] = "uncertain"]
  /\ current' = [current EXCEPT ![a] = cmd[a].old]
  /\ Finish(a)
  /\ UNCHANGED <<registry, drainErr, session, lock, generation, history,
                 idleTimeout, reconnects, owner, now, nextId>>

\* Mutant: the replacing session keeps the old generation.
RedialOkSameGeneration(a) ==
  /\ cmd[a].op = "redial"
  /\ DrawId
  /\ session' = [session EXCEPT ![a] = generation[a]]
  /\ sessionState' = [sessionState EXCEPT ![a] = "ready"]
  /\ current' = [current EXCEPT ![a] = NewHandle(nextId, generation[a],
                                                 cmd[a].req, now)]
  /\ idleTimeout' = [idleTimeout EXCEPT ![a] = cmd[a].req.idle]
  /\ Finish(a)
  /\ UNCHANGED <<registry, drainErr, lock, generation, history, reconnects,
                 owner, now>>

\* SessionFactory.Open succeeded for reconnect: next generation, same lock.
RedialOk(a) ==
  /\ cmd[a].op = "redial"
  /\ DrawId
  /\ generation' = [generation EXCEPT ![a] = @ + 1]
  /\ session' = [session EXCEPT ![a] = generation[a] + 1]
  /\ sessionState' = [sessionState EXCEPT ![a] = "ready"]
  /\ current' = [current EXCEPT ![a] = NewHandle(nextId, generation[a] + 1,
                                                 cmd[a].req, now)]
  /\ idleTimeout' = [idleTimeout EXCEPT ![a] = cmd[a].req.idle]
  /\ Finish(a)
  /\ UNCHANGED <<registry, drainErr, lock, history, reconnects, owner, now>>

\* SessionFactory.Open failed for reconnect; releaseLock may fail as well.
RedialFail(a, released) ==
  /\ cmd[a].op = "redial"
  /\ sessionState' = [sessionState EXCEPT ![a] = "closed"]
  /\ lock' = [lock EXCEPT ![a] = @ /\ ~released]
  /\ owner' = IF lock[a] /\ released
              THEN [owner EXCEPT ![a[2]] = NoActor] ELSE owner
  /\ Finish(a)
  /\ UNCHANGED <<registry, drainErr, session, generation, current, history,
                 idleTimeout, reconnects, now, nextId>>

-----------------------------------------------------------------------------
(* Registry.Drain, process death, the operating system.                    *)

\* Registry.Drain, first call: no new work is accepted.
DrainStart(p) ==
  /\ registry[p] = "running"
  /\ registry' = [registry EXCEPT ![p] = "draining"]
  /\ UNCHANGED <<drainErr, mode, actorVars, cmd, reconnects, owner, now,
                 nextId>>

\* performDrain: beginDrain of every actor, under Registry.mu.
BeginDrain(p) ==
  /\ registry[p] = "draining"
  /\ \E a \in Actors : a[1] = p /\ mode[a] = "serving"
  /\ mode' = [a \in Actors |-> IF a[1] = p THEN "draining" ELSE mode[a]]
  /\ UNCHANGED <<registry, drainErr, actorVars, cmd, reconnects, owner, now,
                 nextId>>

\* Mutant: an actor without a current handle has nothing to shut down.
ShutdownHandleOnly(a) ==
  /\ Receiving(a)
  /\ mode[a] = "draining"
  /\ current[a].id # 0
  /\ StartClose(a, "closed", "stop", NoRequest)
  /\ UNCHANGED <<registry, drainErr, mode, session, lock, generation, history,
                 idleTimeout, reconnects, owner, now, nextId>>

\* The shutdown command: an actor without a current handle just stops.
Shutdown(a) ==
  /\ Receiving(a)
  /\ mode[a] = "draining"
  /\ IF current[a].id = 0
     THEN /\ mode' = [mode EXCEPT ![a] = "stopped"]
          /\ UNCHANGED <<current, sessionState, cmd>>
     ELSE /\ StartClose(a, "closed", "stop", NoRequest)
          /\ UNCHANGED mode
  /\ UNCHANGED <<registry, drainErr, session, lock, generation, history,
                 idleTimeout, reconnects, owner, now, nextId>>

\* performDrain: every shutdown returned.
DrainDone(p) ==
  /\ registry[p] = "draining"
  /\ \A a \in Actors : a[1] = p => mode[a] = "stopped"
  /\ registry' = [registry EXCEPT ![p] = "closed"]
  /\ UNCHANGED <<drainErr, mode, actorVars, cmd, reconnects, owner, now,
                 nextId>>

\* The process ends, in an orderly way or not, and another is started: its
\* memory is gone, its connections drop, the OS frees its file locks.
Restart(p) ==
  LET Reset(f, v) == [a \in Actors |-> IF a[1] = p THEN v ELSE f[a]]
  IN /\ registry' = [registry EXCEPT ![p] = "running"]
     /\ drainErr' = [drainErr EXCEPT ![p] = FALSE]
     /\ mode' = Reset(mode, "serving")
     /\ cmd' = Reset(cmd, NoCommand)
     /\ sessionState' = Reset(sessionState, "absent")
     /\ session' = Reset(session, 0)
     /\ lock' = Reset(lock, FALSE)
     /\ generation' = Reset(generation, 0)
     /\ current' = Reset(current, NoHandle)
     /\ history' = Reset(history, {})
     /\ idleTimeout' = Reset(idleTimeout, 0)
     /\ reconnects' = Reset(reconnects, {})
     /\ owner' = [d \in Devices |-> IF owner[d] = <<p, d>>
                                    THEN NoActor ELSE owner[d]]
     /\ UNCHANGED <<now, nextId>>

\* A lock nobody refers to any more is closed, and so freed, by the runtime's
\* finalizer for files.
FinalizeLock(a) ==
  /\ owner[a[2]] = a
  /\ ~lock[a]
  /\ cmd[a].op # "dial"
  /\ owner' = [owner EXCEPT ![a[2]] = NoActor]
  /\ UNCHANGED <<procVars, actorVars, cmd, reconnects, now, nextId>>

Tick ==
  /\ now < MaxTime
  /\ now' = now + 1
  /\ UNCHANGED <<procVars, actorVars, cmd, reconnects, owner, nextId>>

-----------------------------------------------------------------------------
\* A command a client or the sweeper submits.
Submitted(a) ==
  \/ BeginExpiry(a, "done", NoRequest)
  \/ \E req \in Requests : \/ BeginExpiry(a, "open", req)
                           \/ OpenReuse(a, req)
                           \/ OpenFresh(a, req)
  \/ PurgeHistory(a)
  \/ \E ref \in Refs : \/ Get(a, ref)
                       \/ \E cap \in Caps : Execute(a, ref, cap)
                       \/ Close(a, ref)
                       \/ SubmitReconnect(a, ref)
                       \/ Reconnect(a, ref)
  \/ DropReconnect(a)

\* What the running command waited for happened.
Continues(a) ==
  \/ ExecuteReturns(a)
  \/ AcquireOk(a)
  \/ AcquireFail(a)
  \/ DialOk(a)
  \/ \E released \in BOOLEAN : DialFail(a, released) \/ RedialFail(a, released)
  \/ SessionClosed(a)
  \/ SessionCloseFails(a)
  \/ LockReleased(a)
  \/ LockReleaseFails(a)
  \/ FencedSessionClosed(a)
  \/ FencedSessionCloseFails(a)
  \/ RedialOk(a)

Drains(p) == DrainStart(p) \/ BeginDrain(p) \/ DrainDone(p)

Next ==
  \/ \E a \in Actors : Submitted(a) \/ Continues(a) \/ Shutdown(a)
                       \/ FinalizeLock(a)
  \/ \E p \in Procs : Drains(p) \/ Restart(p)
  \/ Tick

Spec == Init /\ [][Next]_vars

\* What the runtime schedules.  Commands in flight end: callbacks and dials
\* are bounded by their contexts, closes by CleanupTimeout.  The sweeper
\* ticks every SweepInterval until Drain stops it; Drain's goroutine runs.
\* Clients, crashes and Drain itself happen or not; the clock moves on.
Fairness ==
  /\ \A a \in Actors : /\ WF_vars(Continues(a))
                       /\ WF_vars(BeginExpiry(a, "done", NoRequest))
                       /\ WF_vars(Shutdown(a))
  /\ \A p \in Procs : WF_vars(BeginDrain(p)) /\ WF_vars(DrainDone(p))

FairSpec == Spec /\ Fairness

-----------------------------------------------------------------------------
(* Properties.                                                             *)

\* The actor has, or is about to have, a connection to its device: a session
\* that is not known to be closed, or a dial in progress.
Engaged(a) == session[a] # 0 \/ cmd[a].op \in {"dial", "redial"}

\* The connections the devices see.
Connected == [d \in Devices |-> {a \in Actors : a[2] = d /\ Engaged(a)}]

Lease == INSTANCE DeviceLease WITH Controllers <- Actors,
                                   connected <- Connected

\* The registry implements the lease: every dial happens on a device that no
\* process is connected to, and no step hands a device from one process to
\* another while the first is still connected.
ImplementsLease == Lease!Spec

\* Two processes never drive one device at the same time, whatever closes,
\* releases and dials fail and whoever crashes (Locker "prevents independent
\* local processes from controlling one device at the same time").
DeviceExclusive ==
  \A a, b \in Actors :
    a # b /\ a[2] = b[2] => ~(Engaged(a) /\ Engaged(b))

\* A lock is "held for the complete lifetime of a device session": a session
\* whose close failed keeps the file lock, so does the handle it belongs to.
LockCoversSession ==
  \A a \in Actors :
    /\ Engaged(a) => owner[a[2]] = a
    /\ session[a] # 0 => lock[a]
    /\ current[a].id # 0 => lock[a]

\* Generations fence: a ready handle carries the generation of the session
\* behind it, and that generation is greater than that of every handle the
\* actor still remembers.
GenerationFence ==
  \A a \in Actors : IsReady(a) =>
    /\ session[a] = current[a].gen /\ generation[a] = current[a].gen
    /\ \A h \in history[a] : h.gen < current[a].gen /\ h.id # current[a].id

\* A callback only runs on a session nobody is replacing, through a handle
\* that is still ready.
ExecuteOwnsSession ==
  \A a \in Actors : cmd[a].op = "exec" =>
    IsReady(a) /\ sessionState[a] = "ready" /\ owner[a[2]] = a

\* A command runs under the generation and in the session it was checked for,
\* whatever was reconnected, expired or closed meanwhile (actor.go:283).
ExecutesFenced == GenerationFence /\ ExecuteOwnsSession

\* A handle's idle deadline never passes its absolute one, however often it
\* is touched or joined by a later open.
IdleWithinAbsolute ==
  \A a \in Actors : current[a].idle <= current[a].abs

\* No use of a handle ever extends its absolute deadline, and a handle that
\* stopped being ready (draining, fenced, expired) never is ready again.
HandleOnlyWindsDown ==
  [][\A a \in Actors :
       /\ current[a].id # 0 /\ current'[a].id = current[a].id
            => /\ current'[a].abs <= current[a].abs
               /\ current'[a].state = "ready" => current[a].state = "ready"
       /\ \A h \in history[a] :
            current'[a].id = h.id => current'[a].state # "ready"]_vars

\* When Drain has returned no error every session of the process is closed
\* and no handle is left open.
DrainClosesSessions ==
  \A p \in Procs : registry[p] = "closed" /\ ~drainErr[p] =>
    \A a \in Actors : a[1] = p =>
      session[a] = 0 /\ current[a].id = 0 /\ cmd[a].op = "none"

\* Registry.Drain's comment: it "closes owned sessions, and releases all
\* cross-process locks"; so a Drain that reports success left no lock behind.
DrainReleasesLocks ==
  \A p \in Procs : registry[p] = "closed" /\ ~drainErr[p] =>
    \A a \in Actors : a[1] = p => ~lock[a]

\* A drain that began ends, unless the process is restarted under it.
DrainTerminates ==
  \A p \in Procs : registry[p] = "draining" ~> registry[p] # "draining"

\* A ready handle whose absolute deadline has passed does not stay ready:
\* the sweeper, a client or a drain takes it down.
ExpiredHandleEnds ==
  \A a \in Actors : (IsReady(a) /\ now >= current[a].abs) ~>
                     ~(IsReady(a) /\ now >= current[a].abs)
=============================================================================
