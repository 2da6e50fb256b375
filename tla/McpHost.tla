------------------------------- MODULE McpHost -------------------------------
(***************************************************************************)
(* The owner of the MCP connection (internal/app/mcp_host.go) and the      *)
(* lifetime of the runtimes it loads (internal/app/runtime.go).            *)
(*                                                                         *)
(* Every request passes a readers-writer gate.  A request that finds the   *)
(* configuration on disk changed takes the gate alone and replaces the     *)
(* runtime; so does the browser in which a human approves a change.  The   *)
(* configuration may also be edited from outside at any moment.            *)
(*                                                                         *)
(* The gate is Go's sync.RWMutex: a writer that waits turns later readers  *)
(* away, and lets in those it has turned away when it is done.             *)
(***************************************************************************)
EXTENDS Naturals, Sequences

CONSTANTS
  Calls,     \* requests of MCP peers, each one after another
  Changers,  \* browser handlers that commit an approved change
  Closer,    \* the goroutine that closes the host
  None,
  MaxRev     \* bound on the revisions of the configuration

ASSUME DistinctAssumption ==
  /\ Calls \cap Changers = {} /\ Closer \notin Calls \cup Changers
  /\ None \notin Calls \cup Changers \cup {Closer}
  /\ MaxRev \in Nat \ {0}

VARIABLES
  disk,   \* the configuration file: its revision, and whether it is there
  runs,   \* runtimes loaded so far: revision, open, has an active control
  host,   \* MCPHost: the index of its runtime (0: none), closed
  gate,   \* readers inside, and the writer that is inside or waits for them
  at      \* where each goroutine is

vars == <<disk, runs, host, gate, at>>

Kinds == {"initialize", "jetkvm_close_control", "jetkvm_open_control",
          "jetkvm_get_status"}
Goroutines == Calls \cup Changers \cup {Closer}

\* kind: the request; retried: the reconciliation before it failed;
\* since: the revision on disk when it came; run: the runtime that serves it;
\* told: the revision a human was told is active.
Idle == [pc |-> "idle", kind |-> "initialize", retried |-> FALSE, since |-> 0,
         run |-> 0, told |-> 0]

\* NewMCPHost: with no configuration there is no runtime.
Init ==
  \/ /\ disk = [rev |-> 0, present |-> FALSE] /\ runs = <<>>
     /\ host = [current |-> 0, closed |-> FALSE]
     /\ gate = [readers |-> {}, writer |-> None]
     /\ at = [g \in Goroutines |-> Idle]
  \/ /\ disk = [rev |-> 1, present |-> TRUE]
     /\ runs = <<[rev |-> 1, open |-> TRUE, controls |-> FALSE]>>
     /\ host = [current |-> 1, closed |-> FALSE]
     /\ gate = [readers |-> {}, writer |-> None]
     /\ at = [g \in Goroutines |-> Idle]

Goto(g, pc) == at' = [at EXCEPT ![g].pc = pc]

--------------------------------------------------------------------------
(* The gate *)

\* A reader enters, unless a writer is inside or waits.
RLock(c) ==
  /\ at[c].pc = "rlock"
  /\ IF gate.writer = None
     THEN gate' = [gate EXCEPT !.readers = @ \cup {c}] /\ Goto(c, "reading")
     ELSE gate' = gate /\ Goto(c, "blocked")
  /\ UNCHANGED <<disk, runs, host>>

Left(c) == [gate EXCEPT !.readers = @ \ {c}]

Lock(g) ==
  /\ at[g].pc = "lock" /\ gate.writer = None
  /\ gate' = [gate EXCEPT !.writer = g] /\ Goto(g, "draining")
  /\ UNCHANGED <<disk, runs, host>>

\* Mutant of Alone: the writer does not wait for the readers inside.
AloneAtOnce(g) == gate.writer = g

\* The writer is inside once the readers have left.
Alone(g) == gate.writer = g /\ gate.readers = {}

\* Unlock lets in the readers that wait; g becomes what it is given.
Unlock(g, next) ==
  LET waiting == {c \in Calls : at[c].pc = "blocked"}
  IN /\ gate' = [readers |-> waiting, writer |-> None]
     /\ at' = [x \in Goroutines |->
          IF x = g THEN next
          ELSE IF x \in waiting THEN [at[x] EXCEPT !.pc = "reading"] ELSE at[x]]

--------------------------------------------------------------------------
(* Requests *)

Rev(current) == IF current = 0 THEN 0 ELSE runs[current].rev

\* diskRevision fails when a runtime's configuration has gone; without either,
\* nothing has changed.
Unchanged ==
  IF disk.present THEN disk.rev = Rev(host.current) ELSE host.current = 0

Arrive(c, k) ==
  /\ at[c].pc = "idle"
  /\ at' = [at EXCEPT ![c] = [Idle EXCEPT !.pc = "rlock", !.kind = k,
                                          !.since = disk.rev]]
  /\ UNCHANGED <<disk, runs, host, gate>>

\* Bootstrap needs no configuration; only cleanup comes here a second time.
Admitted(c) == at[c].kind = "initialize" \/ at[c].retried \/ Unchanged

\* Mutant of Look: the refusal of a closed host leaves without unlocking.
LookKeeping(c) ==
  /\ at[c].pc = "reading"
  /\ IF host.closed
     THEN gate' = gate /\ at' = [at EXCEPT ![c] = Idle]
     ELSE IF Admitted(c)
     THEN gate' = gate /\ at' = [at EXCEPT ![c].pc = "serving",
                                           ![c].run = host.current]
     ELSE gate' = Left(c) /\ Goto(c, "lock")
  /\ UNCHANGED <<disk, runs, host>>

\* dispatch, inside the gate: refuse, serve, or go and reconcile.
Look(c) ==
  /\ at[c].pc = "reading"
  /\ IF host.closed
     THEN gate' = Left(c) /\ at' = [at EXCEPT ![c] = Idle]
     ELSE IF Admitted(c)
     THEN gate' = gate /\ at' = [at EXCEPT ![c].pc = "serving",
                                           ![c].run = host.current]
     ELSE gate' = Left(c) /\ Goto(c, "lock")
  /\ UNCHANGED <<disk, runs, host>>

\* The handler, and the end of the request: a control is opened or closed.
Serve(c) ==
  LET r == at[c].run
  IN /\ at[c].pc = "serving"
     /\ \/ /\ r # 0 /\ at[c].kind = "jetkvm_open_control"
           /\ runs' = [runs EXCEPT ![r].controls = TRUE]
        \/ /\ r # 0 /\ at[c].kind = "jetkvm_close_control"
           /\ runs' = [runs EXCEPT ![r].controls = FALSE]
        \/ runs' = runs
     /\ gate' = Left(c) /\ at' = [at EXCEPT ![c] = Idle]
     /\ UNCHANGED <<disk, host>>

\* A control ends by itself: it is idle, too old, or its session is lost.
Expire(i) ==
  /\ runs[i].open /\ runs[i].controls
  /\ runs' = [runs EXCEPT ![i].controls = FALSE]
  /\ UNCHANGED <<disk, host, gate, at>>

\* Mutant of Failed: any request is tried on the old runtime.
FailedAny(c) == [at[c] EXCEPT !.pc = "rlock", !.retried = TRUE]

\* After a failed reconciliation only a cleanup request goes on.
Failed(c) ==
  IF at[c].kind = "jetkvm_close_control"
  THEN [at[c] EXCEPT !.pc = "rlock", !.retried = TRUE]
  ELSE Idle

Quiet == host.current # 0 => ~runs[host.current].controls

\* reconcile, up to Load: the file is read again; an active control, like any
\* error, ends it.
Reconcile(c) ==
  /\ c \in Calls /\ at[c].pc = "draining" /\ Alone(c)
  /\ \/ Unlock(c, Failed(c)) /\ (host.closed \/ host.current # 0)
     \/ ~host.closed /\ Unchanged /\ Unlock(c, [at[c] EXCEPT !.pc = "rlock"])
     \/ /\ ~host.closed /\ ~Unchanged /\ disk.present /\ Quiet
        /\ Goto(c, "activate") /\ gate' = gate
  /\ UNCHANGED <<disk, runs, host>>

--------------------------------------------------------------------------
(* Replacing the runtime *)

\* Load and the switch: it may fail and leave all as it was.  The old runtime is
\* closed after the switch, which may fail too.
Activate(g, failed, succeeded) ==
  \/ UNCHANGED <<runs, host>> /\ Unlock(g, failed)
  \/ /\ disk.present
     /\ runs' = Append([i \in DOMAIN runs |->
                          IF i = host.current
                          THEN [runs[i] EXCEPT !.open = FALSE, !.controls = FALSE]
                          ELSE runs[i]],
                       [rev |-> disk.rev, open |-> TRUE, controls |-> FALSE])
     /\ host' = [host EXCEPT !.current = Len(runs) + 1]
     /\ Unlock(g, failed) \/ Unlock(g, succeeded)

ReconcileActivate(c) ==
  /\ c \in Calls /\ at[c].pc = "activate"
  /\ Activate(c, Failed(c), [at[c] EXCEPT !.pc = "rlock"])
  /\ UNCHANGED disk

\* A human submits the form of a change; the browser must still be open.
Submit(h) ==
  /\ at[h].pc = "idle" /\ at[Closer].pc = "idle" /\ disk.rev < MaxRev
  /\ Goto(h, "lock")
  /\ UNCHANGED <<disk, runs, host, gate>>

Done(h, told) == [Idle EXCEPT !.told = told]

\* Mutant of Change: active controls are not looked for.
ChangeUnasked(h) ==
  /\ h \in Changers /\ at[h].pc = "draining" /\ Alone(h)
  /\ \/ Unlock(h, Done(h, at[h].told)) /\ disk' = disk
     \/ /\ ~host.closed /\ disk.rev < MaxRev
        /\ disk' = [rev |-> disk.rev + 1, present |-> TRUE]
        /\ at' = [at EXCEPT ![h].pc = "activate", ![h].since = disk.rev + 1]
        /\ gate' = gate
  /\ UNCHANGED <<runs, host>>

\* change, up to Load: the host is closed, the policy or an active control
\* forbids it, or the commit fails; else the change is on disk.
Change(h) ==
  /\ h \in Changers /\ at[h].pc = "draining" /\ Alone(h)
  /\ \/ Unlock(h, Done(h, at[h].told)) /\ disk' = disk
     \/ /\ ~host.closed /\ Quiet /\ disk.rev < MaxRev
        /\ disk' = [rev |-> disk.rev + 1, present |-> TRUE]
        /\ at' = [at EXCEPT ![h].pc = "activate", ![h].since = disk.rev + 1]
        /\ gate' = gate
  /\ UNCHANGED <<runs, host>>

\* Mutant of ChangeActivate: a committed change is a success.
ChangeCommitted(h) ==
  /\ h \in Changers /\ at[h].pc = "activate"
  /\ Activate(h, Done(h, at[h].since), Done(h, at[h].since))
  /\ UNCHANGED disk

\* Only when the new runtime serves is the human told.
ChangeActivate(h) ==
  /\ h \in Changers /\ at[h].pc = "activate"
  /\ Activate(h, Done(h, at[h].told), Done(h, at[h].since))
  /\ UNCHANGED disk

\* The file is edited, or removed, by somebody else.
Edit ==
  /\ \/ disk.rev < MaxRev /\ disk' = [rev |-> disk.rev + 1, present |-> TRUE]
     \/ disk.present /\ disk' = [disk EXCEPT !.present = FALSE]
  /\ UNCHANGED <<runs, host, gate, at>>

--------------------------------------------------------------------------
(* Close *)

\* Mutant of Join: the gate is taken while the browser's handlers still run.
JoinInside ==
  /\ at[Closer].pc = "joining" /\ gate.writer = None
  /\ gate' = [gate EXCEPT !.writer = Closer] /\ Goto(Closer, "draining")
  /\ UNCHANGED <<disk, runs, host>>

StartClose ==
  /\ at[Closer].pc = "idle" /\ Goto(Closer, "joining")
  /\ UNCHANGED <<disk, runs, host, gate>>

\* browser.Close joins the handlers, which may be waiting for the gate.
Join ==
  /\ at[Closer].pc = "joining" /\ \A h \in Changers : at[h].pc = "idle"
  /\ Goto(Closer, "lock")
  /\ UNCHANGED <<disk, runs, host, gate>>

\* Under the gate: closed, and the runtime's controls are drained.
FinishClose ==
  /\ at[Closer].pc = "draining" /\ Alone(Closer)
  /\ \A h \in Changers : at[h].pc = "idle"
  /\ host' = [host EXCEPT !.closed = TRUE]
  /\ runs' = [i \in DOMAIN runs |->
                IF i = host.current
                THEN [runs[i] EXCEPT !.open = FALSE, !.controls = FALSE]
                ELSE runs[i]]
  /\ Unlock(Closer, [Idle EXCEPT !.pc = "closed"])
  /\ UNCHANGED disk

--------------------------------------------------------------------------

CallStep(c) == \/ RLock(c) \/ Look(c) \/ Serve(c) \/ Reconcile(c)
               \/ ReconcileActivate(c)
ChangeStep(h) == Change(h) \/ ChangeActivate(h)
CloseStep == Join \/ FinishClose

Next ==
  \/ \E c \in Calls : (\E k \in Kinds : Arrive(c, k)) \/ CallStep(c)
  \/ \E h \in Changers : Submit(h) \/ ChangeStep(h)
  \/ \E g \in Goroutines : Lock(g)
  \/ \E i \in DOMAIN runs : Expire(i)
  \/ Edit \/ StartClose \/ CloseStep

Spec == Init /\ [][Next]_vars

\* Goroutines are scheduled, handlers return, and the mutex behind the gate's
\* writers lets nobody starve.
FairSpec ==
  /\ Spec
  /\ \A c \in Calls : WF_vars(CallStep(c)) /\ SF_vars(Lock(c))
  /\ \A h \in Changers : WF_vars(ChangeStep(h)) /\ SF_vars(Lock(h))
  /\ WF_vars(CloseStep) /\ SF_vars(Lock(Closer))

--------------------------------------------------------------------------
(* Properties *)

\* Types; a writer that is inside is alone.
TypeOK ==
  /\ disk \in [rev : 0 .. MaxRev, present : BOOLEAN]
  /\ host \in [current : 0 .. Len(runs), closed : BOOLEAN]
  /\ gate.readers \subseteq Calls
  /\ gate.readers = {c \in Calls : at[c].pc \in {"reading", "serving"}}
  /\ \A g \in Goroutines : (at[g].pc = "activate") => Alone(g)
  /\ \A g \in Goroutines :
       (at[g].pc \in {"draining", "activate"}) <=> (gate.writer = g)

\* A request in progress is served by a runtime that stays open until it ends
\* (mcp_host.go:19, "Its gate joins in-flight calls before replacing protocol
\* handlers or closing a runtime").
ServedOpen ==
  \A c \in Calls : at[c].pc = "serving" =>
    /\ at[c].run # 0 => runs[at[c].run].open
    /\ at[c].run = host.current

\* A runtime with an active control is closed with the host only
\* (mcp_host.go:143, "does not ... disconnect active hardware sessions").
ControlsKept ==
  [][\A i \in DOMAIN runs :
       runs[i].open /\ runs[i].controls /\ ~runs'[i].open => host'.closed]_vars

\* A request that came after the configuration was changed never acts under the
\* old one, cleanup and bootstrap apart (mcp_host.go:97, "Configuration changes
\* fence new effects").  Without a runtime nothing can be acted on.
EffectsFenced ==
  \A c \in Calls :
    /\ at[c].pc = "serving" /\ at[c].run # 0
    /\ at[c].kind \notin {"initialize", "jetkvm_close_control"}
    => Rev(at[c].run) >= at[c].since

\* Once a human is told that a change is active, no older configuration serves
\* (mcpserver/setup.go:30, "saved and active in this MCP connection").
ToldIsActive == \A h \in Changers : at[h].told <= Rev(host.current)

\* Every request is answered, whatever changes and whoever closes.
CallsAnswered == \A c \in Calls : (at[c].pc # "idle") ~> (at[c].pc = "idle")

\* Close joins handlers that wait for the gate, and then takes it
\* (mcp_host.go:222).
CloseCompletes == (at[Closer].pc = "joining") ~> (at[Closer].pc = "closed")
=============================================================================
