----------------------------- MODULE HostProofs ------------------------------
(***************************************************************************)
(* Proofs about the parts of the process that MCHost puts side by side:    *)
(* the owner of the MCP connection, the load of a runtime and the forms    *)
(* that change its configuration.  Each is proved for its own              *)
(* specification and carries over to HostSpec, because a behaviour of the  *)
(* union moves one part and leaves the variables of the others alone.      *)
(***************************************************************************)
EXTENDS MCHost, SequenceTheorems, TLAPS

(***************************************************************************)
(* McpHost                                                                 *)
(***************************************************************************)

Runtime == [rev: 0 .. MaxRev, open: BOOLEAN, controls: BOOLEAN]
Places == {"idle", "rlock", "blocked", "reading", "serving", "lock", "draining",
           "activate", "joining", "closed"}
Goroutine ==
  [pc: Places, kind: H!Kinds, retried: BOOLEAN, since: 0 .. MaxRev, run: Nat,
   told: 0 .. MaxRev]

McpTyped ==
  /\ disk \in [rev: 0 .. MaxRev, present: BOOLEAN]
  /\ runs \in Seq(Runtime)
  /\ host \in [current: Nat, closed: BOOLEAN] /\ host.current <= Len(runs)
  /\ gate \in [readers: SUBSET Users, writer: H!Goroutines \cup {None}]
  /\ at \in [H!Goroutines -> Goroutine]

\* The gate: readers inside have entered, a writer inside is alone.
Gated ==
  /\ gate.readers = {c \in Users : at[c].pc \in {"reading", "serving"}}
  /\ \A g \in H!Goroutines :
       /\ at[g].pc = "activate" => H!Alone(g)
       /\ at[g].pc \in {"draining", "activate"} <=> gate.writer = g
       /\ at[g].pc \in {"rlock", "blocked", "reading", "serving"} => g \in Users
       /\ at[g].pc = "activate" => g # Closer

\* The runtime in use is open until the host is closed, and no runtime is newer
\* than the file.
InUse ==
  /\ host.current # 0 /\ ~host.closed => runs[host.current].open
  /\ \A i \in DOMAIN runs : runs[i].rev <= disk.rev

\* Whoever replaces the runtime found the host open and no control active.
Replacing ==
  \A g \in H!Goroutines : at[g].pc = "activate" => ~host.closed /\ H!Quiet

\* What came and what was told is no newer than the file; only a request for
\* cleanup is tried again on the old runtime.
Known ==
  \A g \in H!Goroutines :
    /\ at[g].since <= disk.rev
    /\ at[g].retried => at[g].kind = "jetkvm_close_control"

McpInv ==
  /\ McpTyped
  /\ Gated
  /\ InUse
  /\ Replacing
  /\ Known
  /\ H!ServedOpen
  /\ H!EffectsFenced
  /\ H!ToldIsActive

------------------------------------------------------------------------------

LEMMA HostBounds ==
  /\ Users \cap Changers = {} /\ Closer \notin Users \cup Changers
  /\ None \notin H!Goroutines /\ MaxRev \in Nat \ {0}
  /\ H!Goroutines = Users \cup Changers \cup {Closer}
  BY HostAssumption DEF HostAssumption, H!DistinctAssumption, H!Goroutines

LEMMA HostTyped ==
  ASSUME McpInv
  PROVE  /\ McpTyped /\ Gated /\ InUse /\ Replacing /\ Known
         /\ H!ServedOpen /\ H!EffectsFenced /\ H!ToldIsActive
         /\ \A g \in H!Goroutines : at[g] \in Goroutine
         /\ \A i \in DOMAIN runs : runs[i] \in Runtime
         /\ DOMAIN runs = 1 .. Len(runs) /\ Len(runs) \in Nat
         /\ host.current \in 0 .. Len(runs) /\ runs \in Seq(Runtime)
         /\ disk.rev \in 0 .. MaxRev /\ disk.rev \in Nat
  BY HostBounds DEF McpInv, McpTyped

\* A goroutine that has gone somewhere else is otherwise as it was.
LEMMA Goes ==
  ASSUME McpTyped, NEW g \in H!Goroutines, NEW pc \in Places, H!Goto(g, pc)
  PROVE  /\ at' \in [H!Goroutines -> Goroutine]
         /\ at'[g].pc = pc /\ at'[g].kind = at[g].kind
         /\ at'[g].retried = at[g].retried /\ at'[g].since = at[g].since
         /\ at'[g].run = at[g].run /\ at'[g].told = at[g].told
         /\ \A x \in H!Goroutines \ {g} : at'[x] = at[x]
  <1>1. at[g] \in Goroutine /\ at \in [H!Goroutines -> Goroutine]
    BY DEF McpTyped
  <1>2. PICK y : y = [at[g] EXCEPT !.pc = pc]
    OBVIOUS
  <1>3. /\ y \in Goroutine /\ y.pc = pc /\ y.kind = at[g].kind
        /\ y.retried = at[g].retried /\ y.since = at[g].since
        /\ y.run = at[g].run /\ y.told = at[g].told
    BY <1>1, <1>2 DEF Goroutine
  <1>4. at' = [at EXCEPT ![g] = y]
    BY <1>2 DEF H!Goto
  <1> QED
    BY <1>1, <1>3, <1>4

\* What unlocking the gate does: the writer goes where it is told, the readers
\* it kept out are inside, and nobody else moves.
LEMMA Unlocks ==
  ASSUME McpTyped, Gated, NEW g \in H!Goroutines, NEW y \in Goroutine,
         H!Alone(g), H!Unlock(g, y), y.pc \in {"idle", "rlock", "closed"},
         y.pc = "rlock" => g \in Users
  PROVE  /\ at' \in [H!Goroutines -> Goroutine]
         /\ gate' \in [readers: SUBSET Users, writer: H!Goroutines \cup {None}]
         /\ at'[g] = y /\ Gated'
         /\ \A x \in H!Goroutines \ {g} :
              /\ at'[x].kind = at[x].kind /\ at'[x].retried = at[x].retried
              /\ at'[x].since = at[x].since /\ at'[x].run = at[x].run
              /\ at'[x].told = at[x].told
         /\ \A x \in H!Goroutines :
              at'[x].pc \notin {"draining", "activate", "serving"}
  <1> DEFINE waiting == {c \in Users : at[c].pc = "blocked"}
             Entered(x) == [at[x] EXCEPT !.pc = "reading"]
  <1>1. /\ at \in [H!Goroutines -> Goroutine]
        /\ \A x \in H!Goroutines : at[x] \in Goroutine
        /\ gate.writer = g /\ gate.readers = {} /\ Users \subseteq H!Goroutines
    BY HostBounds DEF McpTyped, H!Alone
  <1>2. \A x \in H!Goroutines :
          /\ Entered(x) \in Goroutine /\ Entered(x).pc = "reading"
          /\ Entered(x).kind = at[x].kind /\ Entered(x).retried = at[x].retried
          /\ Entered(x).since = at[x].since /\ Entered(x).run = at[x].run
          /\ Entered(x).told = at[x].told
    BY <1>1 DEF Goroutine, Places
  <1>3. /\ gate' = [readers |-> waiting, writer |-> None]
        /\ at' = [x \in H!Goroutines |-> IF x = g THEN y
                    ELSE IF x \in waiting THEN Entered(x) ELSE at[x]]
    BY DEF H!Unlock
  <1> HIDE DEF Entered
  <1>4. /\ at' \in [H!Goroutines -> Goroutine] /\ at'[g] = y
        /\ \A x \in H!Goroutines \ {g} :
             at'[x] = IF x \in waiting THEN Entered(x) ELSE at[x]
    BY <1>1, <1>2, <1>3
  <1>5. \A x \in H!Goroutines \ {g} :
          at[x].pc \notin {"draining", "activate", "reading", "serving"}
    BY <1>1 DEF Gated
  <1>6. gate' \in [readers: SUBSET Users, writer: H!Goroutines \cup {None}]
        /\ gate'.readers = waiting /\ gate'.writer = None
    BY <1>3
  <1>7. \A x \in H!Goroutines :
          at'[x].pc \notin {"draining", "activate", "serving"}
    BY <1>2, <1>4, <1>5
  <1>8. Gated'
    <2>1. waiting = {c \in Users : at'[c].pc \in {"reading", "serving"}}
      <3>1. \A c \in Users : c \in waiting <=> at'[c].pc \in {"reading", "serving"}
        <4>1. g \notin waiting
          BY <1>1 DEF Gated
        <4> QED
          BY <1>1, <1>2, <1>4, <1>5, <4>1
      <3> QED
        BY <3>1
    <2>2. \A x \in H!Goroutines :
            at'[x].pc \in {"rlock", "blocked", "reading", "serving"} => x \in Users
      BY <1>1, <1>4 DEF Gated
    <2> QED
      BY <1>6, <1>7, <2>1, <2>2, HostBounds DEF Gated
  <1> QED
    BY <1>2, <1>4, <1>6, <1>7, <1>8

\* A goroutine moves, and is not one that serves or replaces the runtime.
LEMMA MoveKeeps ==
  ASSUME McpInv, UNCHANGED <<disk, runs, host>>, NEW g \in H!Goroutines,
         McpTyped', Gated', at'[g].pc \notin {"serving", "activate"},
         at'[g].since <= disk.rev, at'[g].told = at[g].told \/ at'[g].told = 0,
         at'[g].retried => at'[g].kind = "jetkvm_close_control",
         \A x \in H!Goroutines \ {g} : at'[x] = at[x]
  PROVE  McpInv'
  <1>1. InUse' /\ (H!Quiet' <=> H!Quiet)
    BY HostTyped DEF InUse, H!Quiet
  <1>2. Replacing'
    BY <1>1, HostTyped DEF Replacing
  <1>3. Known'
    BY HostTyped DEF Known
  <1>4. H!ServedOpen' /\ H!EffectsFenced'
    <2>1. \A c \in Users : at'[c].pc = "serving" => at'[c] = at[c]
      BY HostBounds
    <2> QED
      BY <2>1, HostTyped DEF H!ServedOpen, H!EffectsFenced, H!Rev
  <1>5. H!ToldIsActive'
    <2>1. 0 <= H!Rev(host.current) /\ H!Rev(host.current)' = H!Rev(host.current)
      BY HostTyped, HostBounds DEF H!Rev, Runtime
    <2> QED
      BY <2>1, HostTyped, HostBounds DEF H!ToldIsActive
  <1> QED
    BY <1>1, <1>2, <1>3, <1>4, <1>5 DEF McpInv

LEMMA EnterKeeps ==
  ASSUME McpInv,
         \/ \E c \in Users : H!RLock(c) \/ \E k \in H!Kinds : H!Arrive(c, k)
         \/ \E h \in Changers : H!Submit(h)
         \/ \E g \in H!Goroutines : H!Lock(g)
         \/ H!StartClose \/ H!Join
  PROVE  McpInv'
  <1>0. UNCHANGED <<disk, runs, host>>
    BY DEF H!RLock, H!Arrive, H!Submit, H!Lock, H!StartClose, H!Join
  <1>1. ASSUME NEW c \in Users, H!RLock(c)
        PROVE  McpInv'
    <2>1. PICK pc \in {"reading", "blocked"} :
            /\ H!Goto(c, pc)
            /\ gate' = IF pc = "reading" THEN [gate EXCEPT !.readers = @ \cup {c}]
                       ELSE gate
            /\ pc = "reading" => gate.writer = None
      BY <1>1 DEF H!RLock
    <2>2. c \in H!Goroutines /\ pc \in Places /\ at[c].pc = "rlock"
      BY <1>1, HostBounds DEF Places, H!RLock
    <2>3. /\ at' \in [H!Goroutines -> Goroutine] /\ at'[c].pc = pc
          /\ at'[c].since = at[c].since /\ at'[c].told = at[c].told
          /\ at'[c].retried = at[c].retried /\ at'[c].kind = at[c].kind
          /\ \A x \in H!Goroutines \ {c} : at'[x] = at[x]
      BY <2>1, <2>2, HostTyped, Goes
    <2>4. /\ gate' \in [readers: SUBSET Users, writer: H!Goroutines \cup {None}]
          /\ gate'.writer = gate.writer
          /\ gate'.readers = IF pc = "reading" THEN gate.readers \cup {c}
                             ELSE gate.readers
      BY <2>1, HostTyped DEF McpTyped
    <2>5. McpTyped'
      BY <1>0, <2>3, <2>4, HostTyped DEF McpTyped
    <2>6. Gated'
      <3>1. gate'.readers = {x \in Users : at'[x].pc \in {"reading", "serving"}}
        <4>1. \A x \in Users : x \in H!Goroutines
          BY HostBounds
        <4> QED
          BY <2>2, <2>3, <2>4, <4>1, HostTyped DEF Gated
      <3>2. pc = "reading" => \A g \in H!Goroutines : at[g].pc # "activate"
        BY <2>1, HostTyped, HostBounds DEF Gated
      <3>3. \A g \in H!Goroutines :
              /\ at'[g].pc = "activate" => H!Alone(g)'
              /\ at'[g].pc \in {"draining", "activate"} <=> gate'.writer = g
              /\ at'[g].pc \in {"rlock", "blocked", "reading", "serving"}
                   => g \in Users
        BY <2>1, <2>2, <2>3, <2>4, <3>2, HostTyped DEF Gated, H!Alone
      <3>4. \A g \in H!Goroutines : at'[g].pc = "activate" => g # Closer
        BY <2>2, <2>3, HostTyped DEF Gated
      <3> QED
        BY <3>1, <3>3, <3>4 DEF Gated
    <2> QED
      BY <1>0, <2>1, <2>2, <2>3, <2>5, <2>6, HostTyped, MoveKeeps DEF Known
  <1>2. ASSUME NEW c \in Users, NEW k \in H!Kinds, H!Arrive(c, k)
        PROVE  McpInv'
    <2>1. PICK y : y = [H!Idle EXCEPT !.pc = "rlock", !.kind = k, !.since = disk.rev]
      OBVIOUS
    <2>2. /\ y \in Goroutine /\ y.pc = "rlock" /\ y.since = disk.rev
          /\ y.told = 0 /\ ~y.retried
      <3>1. y = [pc |-> "rlock", kind |-> k, retried |-> FALSE, since |-> disk.rev,
                 run |-> 0, told |-> 0]
        BY <2>1 DEF H!Idle
      <3> QED
        BY <3>1, HostTyped, HostBounds DEF Goroutine, Places
    <2>3. /\ at' = [at EXCEPT ![c] = y] /\ gate' = gate /\ at[c].pc = "idle"
          /\ c \in H!Goroutines
      BY <1>2, <2>1, HostBounds DEF H!Arrive
    <2>4. at' \in [H!Goroutines -> Goroutine] /\ at'[c] = y
          /\ \A x \in H!Goroutines \ {c} : at'[x] = at[x]
      BY <2>2, <2>3, HostTyped DEF McpTyped
    <2>5. McpTyped'
      BY <1>0, <2>3, <2>4, HostTyped DEF McpTyped
    <2>6. Gated'
      BY <1>2, <2>2, <2>3, <2>4, HostTyped, HostBounds DEF Gated, H!Alone
    <2> QED
      BY <1>0, <2>2, <2>3, <2>4, <2>5, <2>6, HostTyped, MoveKeeps
  <1>3. ASSUME NEW g \in H!Goroutines, NEW pc \in {"lock", "joining"},
               \/ g # Closer /\ at[g].pc = "idle" /\ pc = "lock"
               \/ g = Closer /\ at[g].pc \in {"idle", "joining"},
               H!Goto(g, pc), gate' = gate
        PROVE  McpInv'
    <2>2. pc \in Places
      BY DEF Places
    <2>3. /\ at' \in [H!Goroutines -> Goroutine] /\ at'[g].pc = pc
          /\ at'[g].since = at[g].since /\ at'[g].told = at[g].told
          /\ at'[g].retried = at[g].retried /\ at'[g].kind = at[g].kind
          /\ \A x \in H!Goroutines \ {g} : at'[x] = at[x]
      BY <1>3, <2>2, HostTyped, Goes
    <2>4. McpTyped'
      BY <1>0, <1>3, <2>3, HostTyped DEF McpTyped
    <2>5. Gated'
      BY <1>3, <2>3, HostTyped, HostBounds DEF Gated, H!Alone
    <2> QED
      BY <1>0, <1>3, <2>3, <2>4, <2>5, HostTyped, MoveKeeps DEF Known
  <1>4. ASSUME NEW g \in H!Goroutines, H!Lock(g)
        PROVE  McpInv'
    <2>1. /\ H!Goto(g, "draining") /\ gate' = [gate EXCEPT !.writer = g]
          /\ gate.writer = None /\ at[g].pc = "lock" /\ "draining" \in Places
      BY <1>4 DEF H!Lock, Places
    <2>3. /\ at' \in [H!Goroutines -> Goroutine] /\ at'[g].pc = "draining"
          /\ at'[g].since = at[g].since /\ at'[g].told = at[g].told
          /\ at'[g].retried = at[g].retried /\ at'[g].kind = at[g].kind
          /\ \A x \in H!Goroutines \ {g} : at'[x] = at[x]
      BY <2>1, HostTyped, Goes
    <2>4. /\ gate' \in [readers: SUBSET Users, writer: H!Goroutines \cup {None}]
          /\ gate'.writer = g /\ gate'.readers = gate.readers
      BY <2>1, HostTyped DEF McpTyped
    <2>5. McpTyped'
      BY <1>0, <2>3, <2>4, HostTyped DEF McpTyped
    <2>6. Gated'
      BY <2>1, <2>3, <2>4, HostTyped, HostBounds, SMTT(30) DEF Gated, H!Alone
    <2> QED
      BY <1>0, <2>1, <2>3, <2>5, <2>6, HostTyped, MoveKeeps DEF Known
  <1>5. ASSUME NEW h \in Changers, H!Submit(h)
        PROVE  McpInv'
    BY <1>3, <1>5, HostBounds DEF H!Submit
  <1>6. CASE H!StartClose
    BY <1>3, <1>6, HostBounds DEF H!StartClose
  <1>7. CASE H!Join
    BY <1>3, <1>7, HostBounds DEF H!Join
  <1> QED
    BY <1>1, <1>2, <1>4, <1>5, <1>6, <1>7

LEMMA IdleGoroutine ==
  /\ H!Idle \in Goroutine /\ H!Idle.pc = "idle" /\ H!Idle.since = 0
  /\ H!Idle.told = 0 /\ ~H!Idle.retried /\ H!Idle.kind = "initialize"
  /\ "initialize" \in H!Kinds
  BY HostBounds DEF H!Idle, Goroutine, H!Kinds, Places

\* A reader that leaves the gate.
LEMMA Leaves ==
  ASSUME McpInv, NEW c \in Users, at[c].pc \in {"reading", "serving"},
         NEW y \in Goroutine, y.pc \in {"idle", "lock"},
         at' = [at EXCEPT ![c] = y], gate' = H!Left(c)
  PROVE  /\ at' \in [H!Goroutines -> Goroutine] /\ at'[c] = y
         /\ \A x \in H!Goroutines \ {c} : at'[x] = at[x]
         /\ gate' \in [readers: SUBSET Users, writer: H!Goroutines \cup {None}]
         /\ Gated' /\ \A x \in H!Goroutines : at[x].pc # "activate"
  <1>1. c \in H!Goroutines /\ Users \subseteq H!Goroutines
    BY HostBounds
  <1>2. /\ at' \in [H!Goroutines -> Goroutine] /\ at'[c] = y
        /\ \A x \in H!Goroutines \ {c} : at'[x] = at[x]
    BY <1>1, HostTyped DEF McpTyped
  <1>3. /\ gate' \in [readers: SUBSET Users, writer: H!Goroutines \cup {None}]
        /\ gate'.readers = gate.readers \ {c} /\ gate'.writer = gate.writer
    BY HostTyped DEF McpTyped, H!Left
  <1>4. \A x \in H!Goroutines : at[x].pc # "activate"
    BY HostTyped DEF Gated, H!Alone
  <1>5. gate'.readers = {x \in Users : at'[x].pc \in {"reading", "serving"}}
    BY <1>1, <1>2, <1>3, HostTyped DEF Gated
  <1>6. \A g \in H!Goroutines :
          /\ at'[g].pc = "activate" => H!Alone(g)' /\ g # Closer
          /\ at'[g].pc \in {"draining", "activate"} <=> gate'.writer = g
          /\ at'[g].pc \in {"rlock", "blocked", "reading", "serving"} => g \in Users
    BY <1>1, <1>2, <1>3, <1>4, HostTyped DEF Gated
  <1> QED
    BY <1>2, <1>3, <1>4, <1>5, <1>6 DEF Gated

\* A request is refused, served, or goes to reconcile.
LEMMA LookKeeps ==
  ASSUME McpInv, NEW c \in Users, H!Look(c)
  PROVE  McpInv'
  <1>0. /\ at[c].pc = "reading" /\ UNCHANGED <<disk, runs, host>>
        /\ c \in H!Goroutines /\ at[c] \in Goroutine
    BY HostBounds, HostTyped DEF H!Look
  <1>1. CASE host.closed
    <2>1. at' = [at EXCEPT ![c] = H!Idle] /\ gate' = H!Left(c)
      BY <1>1 DEF H!Look
    <2>2. /\ at' \in [H!Goroutines -> Goroutine] /\ at'[c] = H!Idle
          /\ \A x \in H!Goroutines \ {c} : at'[x] = at[x]
          /\ gate' \in [readers: SUBSET Users, writer: H!Goroutines \cup {None}]
          /\ Gated'
      BY <1>0, <2>1, IdleGoroutine, Leaves
    <2>3. McpTyped'
      BY <1>0, <2>2, HostTyped DEF McpTyped
    <2> QED
      BY <1>0, <2>2, <2>3, IdleGoroutine, HostTyped, MoveKeeps
  <1>2. CASE ~host.closed /\ ~H!Admitted(c)
    <2>1. PICK y : y = [at[c] EXCEPT !.pc = "lock"]
      OBVIOUS
    <2>2. /\ y \in Goroutine /\ y.pc = "lock" /\ y.since = at[c].since
          /\ y.told = at[c].told /\ y.retried = at[c].retried /\ y.kind = at[c].kind
      BY <1>0, <2>1 DEF Goroutine, Places
    <2>3. at' = [at EXCEPT ![c] = y] /\ gate' = H!Left(c)
      BY <1>2, <2>1 DEF H!Look, H!Goto
    <2>4. /\ at' \in [H!Goroutines -> Goroutine] /\ at'[c] = y
          /\ \A x \in H!Goroutines \ {c} : at'[x] = at[x]
          /\ gate' \in [readers: SUBSET Users, writer: H!Goroutines \cup {None}]
          /\ Gated'
      BY <1>0, <2>2, <2>3, Leaves
    <2>5. McpTyped'
      BY <1>0, <2>4, HostTyped DEF McpTyped
    <2> QED
      BY <1>0, <2>2, <2>4, <2>5, HostTyped, MoveKeeps DEF Known
  <1>3. CASE ~host.closed /\ H!Admitted(c)
    <2>0. PICK n \in Nat : n = host.current
      BY HostTyped
    <2>1. PICK y : y = [at[c] EXCEPT !.pc = "serving", !.run = n]
      OBVIOUS
    <2>2. /\ y \in Goroutine /\ y.pc = "serving" /\ y.since = at[c].since
          /\ y.told = at[c].told /\ y.retried = at[c].retried
          /\ y.kind = at[c].kind /\ y.run = host.current
      BY <1>0, <2>0, <2>1 DEF Goroutine, Places
    <2>3. at' = [at EXCEPT ![c] = y] /\ gate' = gate
      BY <1>3, <2>0, <2>1 DEF H!Look
    <2>4. /\ at' \in [H!Goroutines -> Goroutine] /\ at'[c] = y
          /\ \A x \in H!Goroutines \ {c} : at'[x] = at[x]
      BY <1>0, <2>2, <2>3, HostTyped DEF McpTyped
    <2>5. McpTyped'
      BY <1>0, <2>3, <2>4, HostTyped DEF McpTyped
    <2>6. \A x \in H!Goroutines : at[x].pc # "activate"
      BY <1>0, HostTyped DEF Gated, H!Alone
    <2>7. Gated'
      <3>1. gate'.readers = {x \in Users : at'[x].pc \in {"reading", "serving"}}
        BY <1>0, <2>2, <2>3, <2>4, HostTyped, HostBounds DEF Gated
      <3>2. \A g \in H!Goroutines :
              /\ at'[g].pc = "activate" => H!Alone(g)' /\ g # Closer
              /\ at'[g].pc \in {"draining", "activate"} <=> gate'.writer = g
              /\ at'[g].pc \in {"rlock", "blocked", "reading", "serving"}
                   => g \in Users
        BY <1>0, <2>2, <2>3, <2>4, <2>6, HostTyped DEF Gated
      <3> QED
        BY <3>1, <3>2 DEF Gated
    <2>8. InUse' /\ Replacing' /\ Known'
      BY <1>0, <2>2, <2>4, <2>6, HostTyped DEF InUse, Replacing, Known
    <2>9. H!ServedOpen'
      <3>1. host.current # 0 => runs[host.current].open
        BY <1>3, HostTyped DEF InUse
      <3> QED
        BY <1>0, <2>2, <2>4, <3>1, HostTyped, HostBounds DEF H!ServedOpen
    <2>10. H!EffectsFenced'
      <3>1. /\ host.current # 0
            /\ at[c].kind \notin {"initialize", "jetkvm_close_control"}
            => H!Rev(host.current) >= at[c].since
        <4>1. at[c].retried => at[c].kind = "jetkvm_close_control"
          BY <1>0, HostTyped DEF Known
        <4>2. at[c].since <= disk.rev /\ at[c].since \in Nat
          BY <1>0, HostTyped, HostBounds DEF Known, Goroutine
        <4> QED
          BY <1>3, <4>1, <4>2 DEF H!Admitted, H!Unchanged
      <3> QED
        BY <1>0, <2>2, <2>4, <3>1, HostTyped, HostBounds DEF H!EffectsFenced, H!Rev
    <2>11. H!ToldIsActive'
      BY <1>0, <2>4, HostTyped, HostBounds DEF H!ToldIsActive, H!Rev
    <2> QED
      BY <2>5, <2>7, <2>8, <2>9, <2>10, <2>11 DEF McpInv
  <1> QED
    BY <1>1, <1>2, <1>3

\* The controls of a runtime come and go.
LEMMA ControlsMove ==
  ASSUME McpInv, NEW r \in DOMAIN runs, NEW b \in BOOLEAN,
         runs' = [runs EXCEPT ![r].controls = b], UNCHANGED <<disk, host>>
  PROVE  /\ runs' \in Seq(Runtime) /\ Len(runs') = Len(runs)
         /\ DOMAIN runs' = DOMAIN runs /\ runs'[r].controls = b
         /\ \A i \in DOMAIN runs : /\ runs'[i].open = runs[i].open
                                   /\ runs'[i].rev = runs[i].rev
                                   /\ i # r => runs'[i] = runs[i]
         /\ InUse' /\ \A i \in 0 .. Len(runs) : H!Rev(i)' = H!Rev(i)
  <1>1. PICK x : x = [runs[r] EXCEPT !.controls = b]
    OBVIOUS
  <1>2. /\ x \in Runtime /\ x.controls = b /\ x.open = runs[r].open
        /\ x.rev = runs[r].rev
    BY <1>1, HostTyped DEF Runtime
  <1>3. runs' = [runs EXCEPT ![r] = x]
    BY <1>1
  <1>4. /\ runs' \in Seq(Runtime) /\ Len(runs') = Len(runs)
        /\ DOMAIN runs' = DOMAIN runs /\ runs'[r] = x
        /\ \A i \in DOMAIN runs : i # r => runs'[i] = runs[i]
    BY <1>2, <1>3, HostTyped
  <1>5. \A i \in DOMAIN runs : /\ runs'[i].open = runs[i].open
                               /\ runs'[i].rev = runs[i].rev
    BY <1>2, <1>4
  <1>6. \A i \in 0 .. Len(runs) : i # 0 => i \in DOMAIN runs
    BY HostTyped
  <1> QED
    BY <1>2, <1>4, <1>5, <1>6, HostTyped DEF InUse, H!Rev

\* A request ends, and has opened or closed a control or done neither.
LEMMA ServeKeeps ==
  ASSUME McpInv, NEW c \in Users, H!Serve(c)
  PROVE  McpInv' /\ UNCHANGED host
                 /\ \A i \in DOMAIN runs : runs'[i].open = runs[i].open
  <1>0. /\ at[c].pc = "serving" /\ UNCHANGED <<disk, host>>
        /\ c \in H!Goroutines
    BY HostBounds DEF H!Serve
  <1>1. /\ at' = [at EXCEPT ![c] = H!Idle] /\ gate' = H!Left(c)
    BY DEF H!Serve
  <1>2. /\ at' \in [H!Goroutines -> Goroutine] /\ at'[c] = H!Idle
        /\ \A x \in H!Goroutines \ {c} : at'[x] = at[x]
        /\ gate' \in [readers: SUBSET Users, writer: H!Goroutines \cup {None}]
        /\ Gated' /\ \A x \in H!Goroutines : at[x].pc # "activate"
    BY <1>0, <1>1, IdleGoroutine, Leaves
  <1>3. /\ runs' \in Seq(Runtime) /\ Len(runs') = Len(runs)
        /\ DOMAIN runs' = DOMAIN runs
        /\ \A i \in DOMAIN runs : runs'[i].open = runs[i].open
        /\ InUse' /\ \A i \in 0 .. Len(runs) : H!Rev(i)' = H!Rev(i)
    <2>1. CASE runs' = runs
      BY <1>0, <2>1, HostTyped DEF InUse, H!Rev
    <2>2. CASE runs' # runs
      <3>1. PICK b \in BOOLEAN : runs' = [runs EXCEPT ![at[c].run].controls = b]
        BY <2>2 DEF H!Serve
      <3>2. at[c].run \in DOMAIN runs
        BY <1>0, <2>2, HostTyped DEF H!Serve, H!ServedOpen
      <3> QED
        BY <1>0, <3>1, <3>2, ControlsMove
    <2> QED
      BY <2>1, <2>2
  <1>4. McpTyped'
    BY <1>0, <1>2, <1>3, HostTyped DEF McpTyped
  <1>5. Replacing' /\ Known'
    BY <1>0, <1>2, IdleGoroutine, HostTyped DEF Replacing, Known
  <1>6. \A x \in Users : at'[x].pc = "serving" =>
          at'[x] = at[x] /\ x \in H!Goroutines
    BY <1>2, IdleGoroutine, HostBounds
  <1>7. H!ServedOpen' /\ H!EffectsFenced'
    <2>1. \A x \in Users : at[x].pc = "serving" =>
            /\ at[x].run = host.current /\ at[x].run \in 0 .. Len(runs)
            /\ at[x].run # 0 => at[x].run \in DOMAIN runs /\ runs[at[x].run].open
      BY HostTyped DEF H!ServedOpen
    <2>2. H!ServedOpen'
      BY <1>0, <1>3, <1>6, <2>1 DEF H!ServedOpen
    <2>3. H!EffectsFenced'
      BY <1>3, <1>6, <2>1, HostTyped DEF H!EffectsFenced
    <2> QED
      BY <2>2, <2>3
  <1>8. H!ToldIsActive'
    BY <1>0, <1>2, <1>3, HostTyped, HostBounds DEF H!ToldIsActive
  <1> QED
    BY <1>0, <1>2, <1>3, <1>4, <1>5, <1>7, <1>8 DEF McpInv

\* A control ends by itself.
LEMMA ExpireKeeps ==
  ASSUME McpInv, NEW r \in DOMAIN runs, H!Expire(r)
  PROVE  McpInv' /\ UNCHANGED host
                 /\ \A i \in DOMAIN runs : runs'[i].open = runs[i].open
  <1>1. /\ runs' = [runs EXCEPT ![r].controls = FALSE]
        /\ UNCHANGED <<disk, host, gate, at>>
    BY DEF H!Expire
  <1>2. /\ runs' \in Seq(Runtime) /\ Len(runs') = Len(runs)
        /\ DOMAIN runs' = DOMAIN runs /\ runs'[r].controls = FALSE
        /\ \A i \in DOMAIN runs : /\ runs'[i].open = runs[i].open
                                  /\ i # r => runs'[i] = runs[i]
        /\ InUse' /\ \A i \in 0 .. Len(runs) : H!Rev(i)' = H!Rev(i)
    BY <1>1, ControlsMove
  <1>3. McpTyped' /\ Gated' /\ Known'
    BY <1>1, <1>2, HostTyped DEF McpTyped, Gated, Known, H!Alone
  <1>4. Replacing'
    <2>1. host.current # 0 => host.current \in DOMAIN runs
      BY HostTyped
    <2> QED
      BY <1>1, <1>2, <2>1, HostTyped DEF Replacing, H!Quiet
  <1>5. \A x \in Users : at[x].pc = "serving" =>
          /\ at[x].run = host.current /\ at[x].run \in 0 .. Len(runs)
          /\ at[x].run # 0 => at[x].run \in DOMAIN runs /\ runs[at[x].run].open
    BY HostTyped DEF H!ServedOpen
  <1>6. H!ServedOpen' /\ H!EffectsFenced' /\ H!ToldIsActive'
    BY <1>1, <1>2, <1>5, HostTyped DEF H!ServedOpen, H!EffectsFenced, H!ToldIsActive
  <1> QED
    BY <1>1, <1>2, <1>3, <1>4, <1>6 DEF McpInv

\* The file is edited by somebody else: its revision only grows.
LEMMA EditKeeps ==
  ASSUME McpInv, H!Edit
  PROVE  McpInv'
  <1>1. UNCHANGED <<runs, host, gate, at>> /\ disk.rev <= disk'.rev
        /\ disk' \in [rev: 0 .. MaxRev, present: BOOLEAN]
    <2>1. /\ UNCHANGED <<runs, host, gate, at>>
          /\ \/ disk.rev < MaxRev /\ disk' = [rev |-> disk.rev + 1, present |-> TRUE]
             \/ disk' = [disk EXCEPT !.present = FALSE]
      BY DEF H!Edit
    <2>2. disk.rev < MaxRev => disk.rev + 1 \in 0 .. MaxRev
      BY HostTyped, HostBounds
    <2>3. disk \in [rev: 0 .. MaxRev, present: BOOLEAN]
      BY HostTyped DEF McpTyped
    <2> QED
      <3>1. CASE disk' = [disk EXCEPT !.present = FALSE]
        <4>1. disk' \in [rev: 0 .. MaxRev, present: BOOLEAN] /\ disk'.rev = disk.rev
          BY <2>3, <3>1
        <4> QED
          BY <2>1, <4>1, HostTyped
      <3>2. CASE disk.rev < MaxRev /\ disk' = [rev |-> disk.rev + 1, present |-> TRUE]
        BY <2>1, <2>2, <3>2, HostTyped
      <3> QED
        BY <2>1, <3>1, <3>2
  <1>2. McpTyped' /\ Gated' /\ Replacing'
    BY <1>1, HostTyped DEF McpTyped, Gated, Replacing, H!Alone, H!Quiet
  <1>3. InUse'
    BY <1>1, HostTyped, HostBounds DEF InUse, Runtime
  <1>4. Known'
    BY <1>1, HostTyped, HostBounds DEF Known, Goroutine
  <1>5. H!ServedOpen' /\ H!EffectsFenced' /\ H!ToldIsActive'
    BY <1>1, HostTyped DEF H!ServedOpen, H!EffectsFenced, H!ToldIsActive, H!Rev
  <1> QED
    BY <1>2, <1>3, <1>4, <1>5 DEF McpInv

\* The writer leaves the gate: nobody is inside then.
LEMMA UnlockKeeps ==
  ASSUME McpInv, NEW g \in H!Goroutines, NEW y \in Goroutine,
         H!Alone(g), H!Unlock(g, y), y.pc \in {"idle", "rlock", "closed"},
         y.pc = "rlock" => g \in Users,
         UNCHANGED disk, y.since <= disk.rev,
         y.retried => y.kind = "jetkvm_close_control",
         runs' \in Seq(Runtime), host' \in [current: Nat, closed: BOOLEAN],
         host'.current <= Len(runs'), InUse',
         g \in Changers => y.told <= H!Rev(host.current)',
         \A h \in Changers : at[h].told <= H!Rev(host.current)'
  PROVE  McpInv'
  <1>1. /\ at' \in [H!Goroutines -> Goroutine]
        /\ gate' \in [readers: SUBSET Users, writer: H!Goroutines \cup {None}]
        /\ at'[g] = y /\ Gated'
        /\ \A x \in H!Goroutines \ {g} :
              /\ at'[x].kind = at[x].kind /\ at'[x].retried = at[x].retried
              /\ at'[x].since = at[x].since /\ at'[x].told = at[x].told
        /\ \A x \in H!Goroutines :
              at'[x].pc \notin {"draining", "activate", "serving"}
    BY HostTyped, Unlocks
  <1>2. McpTyped'
    BY <1>1, HostTyped DEF McpTyped
  <1>3. Replacing' /\ Known'
    BY <1>1, HostTyped DEF Replacing, Known
  <1>4. H!ServedOpen' /\ H!EffectsFenced'
    BY <1>1, HostBounds DEF H!ServedOpen, H!EffectsFenced
  <1>5. H!ToldIsActive'
    BY <1>1, HostBounds DEF H!ToldIsActive
  <1> QED
    BY <1>1, <1>2, <1>3, <1>4, <1>5 DEF McpInv

\* The same, where the runtime stays.
LEMMA UnlockStays ==
  ASSUME McpInv, NEW g \in H!Goroutines, NEW y \in Goroutine,
         H!Alone(g), H!Unlock(g, y), y.pc \in {"idle", "rlock"},
         y.pc = "rlock" => g \in Users,
         UNCHANGED <<disk, runs, host>>, y.since <= disk.rev,
         y.retried => y.kind = "jetkvm_close_control",
         g \in Changers => y.told <= H!Rev(host.current)
  PROVE  McpInv'
  <1>1. /\ runs' \in Seq(Runtime) /\ host' \in [current: Nat, closed: BOOLEAN]
        /\ host'.current <= Len(runs') /\ InUse'
    BY HostTyped DEF McpTyped, InUse
  <1>2. H!Rev(host.current)' = H!Rev(host.current) /\ 0 <= H!Rev(host.current)
    BY HostTyped, HostBounds DEF H!Rev, Runtime
  <1> QED
    BY <1>1, <1>2, UnlockKeeps, HostTyped DEF H!ToldIsActive

\* Where a failed reconciliation leaves the request, and a successful one.
LEMMA Fails ==
  ASSUME McpInv, NEW c \in Users
  PROVE  /\ H!Failed(c) \in Goroutine /\ H!Failed(c).pc \in {"idle", "rlock"}
         /\ H!Failed(c).since <= disk.rev
         /\ H!Failed(c).retried => H!Failed(c).kind = "jetkvm_close_control"
         /\ LET y == [at[c] EXCEPT !.pc = "rlock"] IN
              /\ y \in Goroutine /\ y.pc = "rlock" /\ y.since <= disk.rev
              /\ y.retried => y.kind = "jetkvm_close_control"
  <1>1. /\ at[c] \in Goroutine /\ at[c].since <= disk.rev
        /\ at[c].retried => at[c].kind = "jetkvm_close_control"
        /\ 0 <= disk.rev
    BY HostTyped, HostBounds DEF Known
  <1>2. PICK y : y = [at[c] EXCEPT !.pc = "rlock"]
    OBVIOUS
  <1>3. /\ y \in Goroutine /\ y.pc = "rlock" /\ y.since = at[c].since
        /\ y.retried = at[c].retried /\ y.kind = at[c].kind
    BY <1>1, <1>2 DEF Goroutine, Places
  <1>4. PICK z : z = [at[c] EXCEPT !.pc = "rlock", !.retried = TRUE]
    OBVIOUS
  <1>5. /\ z \in Goroutine /\ z.pc = "rlock" /\ z.since = at[c].since
        /\ z.kind = at[c].kind
    BY <1>1, <1>4 DEF Goroutine, Places
  <1>6. H!Failed(c) = IF at[c].kind = "jetkvm_close_control" THEN z ELSE H!Idle
    BY <1>4 DEF H!Failed
  <1> QED
    BY <1>1, <1>2, <1>3, <1>5, <1>6, IdleGoroutine

LEMMA ReconcileKeeps ==
  ASSUME McpInv, NEW c \in Users, H!Reconcile(c)
  PROVE  McpInv'
  <1>0. /\ UNCHANGED <<disk, runs, host>> /\ H!Alone(c) /\ at[c].pc = "draining"
        /\ c \in H!Goroutines /\ c \notin Changers /\ c # Closer
    BY HostBounds DEF H!Reconcile
  <1>1. CASE H!Unlock(c, H!Failed(c))
    BY <1>0, <1>1, Fails, UnlockStays
  <1>2. CASE H!Unlock(c, [at[c] EXCEPT !.pc = "rlock"])
    BY <1>0, <1>2, Fails, UnlockStays
  <1>3. CASE /\ ~host.closed /\ H!Quiet /\ H!Goto(c, "activate") /\ gate' = gate
    <2>1. "activate" \in Places
      BY DEF Places
    <2>2. /\ at' \in [H!Goroutines -> Goroutine] /\ at'[c].pc = "activate"
          /\ at'[c].since = at[c].since /\ at'[c].told = at[c].told
          /\ at'[c].retried = at[c].retried /\ at'[c].kind = at[c].kind
          /\ \A x \in H!Goroutines \ {c} : at'[x] = at[x]
      BY <1>0, <1>3, <2>1, HostTyped, Goes
    <2>3. McpTyped'
      BY <1>0, <1>3, <2>2, HostTyped DEF McpTyped
    <2>4. Gated'
      BY <1>0, <1>3, <2>2, HostTyped, HostBounds DEF Gated, H!Alone
    <2>5. Replacing' /\ Known' /\ InUse'
      BY <1>0, <1>3, <2>2, HostTyped DEF Replacing, Known, InUse, H!Quiet
    <2>6. \A x \in Users : at'[x].pc = "serving" => at'[x] = at[x]
      BY <2>2, HostBounds
    <2>7. H!ServedOpen' /\ H!EffectsFenced' /\ H!ToldIsActive'
      BY <1>0, <2>2, <2>6, HostTyped, HostBounds
         DEF H!ServedOpen, H!EffectsFenced, H!ToldIsActive, H!Rev
    <2> QED
      BY <2>3, <2>4, <2>5, <2>7 DEF McpInv
  <1> QED
    BY <1>1, <1>2, <1>3 DEF H!Reconcile

\* The runtime is replaced, or is not.
LEMMA ActivateKeeps ==
  ASSUME McpInv, NEW g \in H!Goroutines, at[g].pc = "activate", UNCHANGED disk,
         NEW failed \in Goroutine, NEW succeeded \in Goroutine,
         H!Activate(g, failed, succeeded),
         failed.pc \in {"idle", "rlock"}, succeeded.pc \in {"idle", "rlock"},
         g \in Changers => failed.pc = "idle" /\ succeeded.pc = "idle",
         failed.since <= disk.rev, succeeded.since <= disk.rev,
         failed.retried => failed.kind = "jetkvm_close_control",
         succeeded.retried => succeeded.kind = "jetkvm_close_control",
         g \in Changers => failed.told <= H!Rev(host.current),
         g \in Changers => succeeded.told <= disk.rev
  PROVE  McpInv' /\ \A i \in DOMAIN runs :
                      runs[i].open /\ runs[i].controls => runs'[i].open
  <1>0. /\ H!Alone(g) /\ ~host.closed /\ H!Quiet
        /\ g \in Users \/ g \in Changers
    BY HostTyped, HostBounds DEF Gated, Replacing
  <1>1. CASE UNCHANGED <<runs, host>> /\ H!Unlock(g, failed)
    BY <1>0, <1>1, UnlockStays
  <1>2. CASE /\ runs' = Append([i \in DOMAIN runs |->
                                  IF i = host.current
                                  THEN [runs[i] EXCEPT !.open = FALSE,
                                                       !.controls = FALSE]
                                  ELSE runs[i]],
                               [rev |-> disk.rev, open |-> TRUE,
                                controls |-> FALSE])
             /\ host' = [host EXCEPT !.current = Len(runs) + 1]
             /\ H!Unlock(g, failed) \/ H!Unlock(g, succeeded)
    <2>1. PICK new : new = [rev |-> disk.rev, open |-> TRUE, controls |-> FALSE]
      OBVIOUS
    <2>2. new \in Runtime /\ new.open /\ new.rev = disk.rev
      BY <2>1, HostTyped DEF Runtime
    <2>3. PICK s : s = [i \in DOMAIN runs |->
                          IF i = host.current
                          THEN [runs[i] EXCEPT !.open = FALSE, !.controls = FALSE]
                          ELSE runs[i]]
      OBVIOUS
    <2>4. \A i \in DOMAIN runs :
            /\ s[i] \in Runtime /\ s[i].rev = runs[i].rev
            /\ i # host.current => s[i] = runs[i]
      <3>1. \A x \in Runtime :
              /\ [x EXCEPT !.open = FALSE, !.controls = FALSE] \in Runtime
              /\ [x EXCEPT !.open = FALSE, !.controls = FALSE].rev = x.rev
        BY DEF Runtime
      <3> QED
        BY <2>3, <3>1, HostTyped
    <2>5. s \in Seq(Runtime) /\ Len(s) = Len(runs) /\ DOMAIN s = DOMAIN runs
      <3>1. s \in [1 .. Len(runs) -> Runtime]
        BY <2>3, <2>4, HostTyped
      <3> QED
        BY <3>1, HostTyped
    <2>6. runs' = Append(s, new)
      BY <1>2, <2>1, <2>3
    <2>7. /\ runs' \in Seq(Runtime) /\ Len(runs') = Len(runs) + 1
          /\ DOMAIN runs' = 1 .. Len(runs) + 1
          /\ runs'[Len(runs) + 1] = new
          /\ \A i \in DOMAIN runs : runs'[i] = s[i]
      BY <2>2, <2>5, <2>6, HostTyped
    <2>8. /\ host' \in [current: Nat, closed: BOOLEAN]
          /\ host'.current = Len(runs) + 1 /\ host'.closed = host.closed
      <3>1. PICK n \in Nat : n = Len(runs) + 1
        BY HostTyped
      <3>2. host' = [host EXCEPT !.current = n]
        BY <1>2, <3>1
      <3> QED
        BY <3>1, <3>2, HostTyped DEF McpTyped
    <2>9. H!Rev(host.current)' = disk.rev
      BY <2>2, <2>7, <2>8, HostTyped DEF H!Rev
    <2>10. InUse'
      <3>1. \A i \in DOMAIN runs' : i \in DOMAIN runs \/ i = Len(runs) + 1
        BY <2>7, HostTyped
      <3> QED
        BY <2>2, <2>4, <2>7, <2>8, <3>1, HostTyped DEF InUse
    <2>11. H!Rev(host.current) <= disk.rev /\ H!Rev(host.current) \in Nat
      <3>1. host.current # 0 => host.current \in DOMAIN runs
        BY HostTyped
      <3> QED
        BY <3>1, HostTyped, HostBounds DEF InUse, H!Rev, Runtime
    <2>12. /\ \A h \in Changers : at[h].told <= disk.rev
           /\ g \in Changers => failed.told <= disk.rev
      <3>1. \A h \in Changers : at[h].told \in Nat /\ at[h].told <= H!Rev(host.current)
        BY HostTyped, HostBounds DEF Goroutine, H!ToldIsActive
      <3>2. failed.told \in Nat
        BY HostBounds DEF Goroutine
      <3> QED
        BY <2>11, <3>1, <3>2, HostTyped
    <2>13. Len(runs) + 1 <= Len(runs')
      BY <2>7, HostTyped
    <2>14. McpInv'
      <3>1. CASE H!Unlock(g, failed)
        BY <1>0, <3>1, <2>7, <2>8, <2>9, <2>10, <2>12, <2>13, UnlockKeeps, HostBounds
      <3>2. CASE H!Unlock(g, succeeded)
        BY <1>0, <3>2, <2>7, <2>8, <2>9, <2>10, <2>12, <2>13, UnlockKeeps, HostBounds
      <3> QED
        BY <1>2, <3>1, <3>2
    <2>15. \A i \in DOMAIN runs : runs[i].open /\ runs[i].controls => runs'[i].open
      BY <1>0, <2>4, <2>7, HostTyped DEF H!Quiet
    <2> QED
      BY <2>14, <2>15
  <1> QED
    BY <1>1, <1>2 DEF H!Activate

\* A handler of the browser that is done, and what it has told.
LEMMA DoneGoroutine ==
  ASSUME NEW h, NEW told \in 0 .. MaxRev
  PROVE  /\ H!Done(h, told) \in Goroutine /\ H!Done(h, told).pc = "idle"
         /\ H!Done(h, told).since = 0 /\ ~H!Done(h, told).retried
         /\ H!Done(h, told).told = told
  <1>1. PICK y : y = H!Done(h, told)
    OBVIOUS
  <1>2. y = [pc |-> "idle", kind |-> "initialize", retried |-> FALSE, since |-> 0,
             run |-> 0, told |-> told]
    BY <1>1 DEF H!Done, H!Idle
  <1>3. y \in Goroutine /\ y.pc = "idle" /\ y.since = 0 /\ ~y.retried /\ y.told = told
    BY <1>2, HostBounds, IdleGoroutine DEF Goroutine, Places
  <1> QED
    BY <1>1, <1>3

\* A change is refused, or is on disk.
LEMMA ChangeKeeps ==
  ASSUME McpInv, NEW h \in Changers, H!Change(h)
  PROVE  McpInv'
  <1>0. /\ UNCHANGED <<runs, host>> /\ H!Alone(h) /\ at[h].pc = "draining"
        /\ h \in H!Goroutines /\ h \notin Users /\ h # Closer
        /\ at[h] \in Goroutine /\ at[h].told \in 0 .. MaxRev
        /\ at[h].told <= H!Rev(host.current)
    BY HostBounds, HostTyped DEF H!Change, Goroutine, H!ToldIsActive
  <1>1. CASE H!Unlock(h, H!Done(h, at[h].told)) /\ disk' = disk
    <2>1. 0 <= disk.rev
      BY HostTyped, HostBounds
    <2> QED
      BY <1>0, <1>1, <2>1, DoneGoroutine, UnlockStays
  <1>2. CASE /\ ~host.closed /\ H!Quiet /\ disk.rev < MaxRev
             /\ disk' = [rev |-> disk.rev + 1, present |-> TRUE]
             /\ at' = [at EXCEPT ![h].pc = "activate", ![h].since = disk.rev + 1]
             /\ gate' = gate
    <2>1. PICK n \in 0 .. MaxRev : n = disk.rev + 1 /\ disk.rev <= n
      <3>1. disk.rev + 1 \in 0 .. MaxRev /\ disk.rev <= disk.rev + 1
        BY <1>2, HostTyped, HostBounds
      <3> QED
        BY <3>1, Zenon
    <2>2. PICK y : y = [at[h] EXCEPT !.pc = "activate", !.since = n]
      OBVIOUS
    <2>3. /\ y \in Goroutine /\ y.pc = "activate" /\ y.since = n
          /\ y.retried = at[h].retried /\ y.kind = at[h].kind /\ y.told = at[h].told
      BY <1>0, <2>1, <2>2 DEF Goroutine, Places
    <2>4. at' = [at EXCEPT ![h] = y]
      BY <1>2, <2>1, <2>2
    <2>5. /\ at' \in [H!Goroutines -> Goroutine] /\ at'[h] = y
          /\ \A x \in H!Goroutines \ {h} : at'[x] = at[x]
      BY <1>0, <2>3, <2>4, HostTyped DEF McpTyped
    <2>6. disk' \in [rev: 0 .. MaxRev, present: BOOLEAN] /\ disk'.rev = n
      BY <1>2, <2>1
    <2>7. McpTyped'
      BY <1>0, <1>2, <2>5, <2>6, HostTyped DEF McpTyped
    <2>8. Gated'
      BY <1>0, <1>2, <2>3, <2>5, HostTyped, HostBounds DEF Gated, H!Alone
    <2>9. InUse'
      <3>1. \A i \in DOMAIN runs : runs[i].rev \in Nat /\ runs[i].rev <= disk.rev
        BY HostTyped, HostBounds DEF InUse, Runtime
      <3> QED
        BY <1>0, <2>1, <2>6, <3>1, HostTyped, HostBounds DEF InUse
    <2>10. Replacing'
      BY <1>0, <1>2, <2>3, <2>5, HostTyped DEF Replacing, H!Quiet
    <2>11. Known'
      <3>1. \A g \in H!Goroutines : at[g].since \in Nat /\ at[g].since <= disk.rev
        BY HostTyped, HostBounds DEF Known, Goroutine
      <3> QED
        BY <1>0, <2>1, <2>3, <2>5, <2>6, <3>1, HostTyped, HostBounds DEF Known
    <2>12. \A x \in Users : at'[x] = at[x]
      BY <1>0, <2>5, HostBounds
    <2>13. H!ServedOpen' /\ H!EffectsFenced' /\ H!ToldIsActive'
      BY <1>0, <2>3, <2>5, <2>12, HostTyped, HostBounds
         DEF H!ServedOpen, H!EffectsFenced, H!ToldIsActive, H!Rev
    <2> QED
      BY <2>7, <2>8, <2>9, <2>10, <2>11, <2>13 DEF McpInv
  <1> QED
    BY <1>1, <1>2 DEF H!Change

\* The host is closed, alone.
LEMMA FinishKeeps ==
  ASSUME McpInv, H!FinishClose
  PROVE  McpInv' /\ host'.closed
  <1>0. /\ H!Alone(Closer) /\ Closer \in H!Goroutines
        /\ Closer \notin Changers /\ UNCHANGED disk
        /\ H!Unlock(Closer, [H!Idle EXCEPT !.pc = "closed"])
    BY HostBounds DEF H!FinishClose
  <1>1. host' = [host EXCEPT !.closed = TRUE]
    BY DEF H!FinishClose
  <1>2. /\ host' \in [current: Nat, closed: BOOLEAN] /\ host'.closed
        /\ host'.current = host.current
    BY <1>1, HostTyped DEF McpTyped
  <1>3. PICK y : y = [H!Idle EXCEPT !.pc = "closed"]
    OBVIOUS
  <1>4. /\ y \in Goroutine /\ y.pc = "closed" /\ y.since = 0 /\ ~y.retried
    BY <1>3, IdleGoroutine DEF Goroutine, Places
  <1>5. runs' = [i \in DOMAIN runs |->
                   IF i = host.current
                   THEN [runs[i] EXCEPT !.open = FALSE, !.controls = FALSE]
                   ELSE runs[i]]
    BY DEF H!FinishClose
  <1>6. \A i \in DOMAIN runs : runs'[i] \in Runtime /\ runs'[i].rev = runs[i].rev
    <2>1. \A x \in Runtime :
            /\ [x EXCEPT !.open = FALSE, !.controls = FALSE] \in Runtime
            /\ [x EXCEPT !.open = FALSE, !.controls = FALSE].rev = x.rev
      BY DEF Runtime
    <2> QED
      BY <1>5, <2>1, HostTyped
  <1>7. runs' \in Seq(Runtime) /\ Len(runs') = Len(runs) /\ DOMAIN runs' = DOMAIN runs
    <2>1. runs' \in [1 .. Len(runs) -> Runtime]
      BY <1>5, <1>6, HostTyped
    <2> QED
      BY <2>1, HostTyped
  <1>8. InUse'
    BY <1>0, <1>2, <1>6, <1>7, HostTyped DEF InUse
  <1>9. H!Rev(host.current)' = H!Rev(host.current)
    BY <1>2, <1>6, <1>7, HostTyped DEF H!Rev
  <1>10. 0 <= disk.rev /\ host'.current <= Len(runs')
    BY <1>2, <1>7, HostTyped
  <1> QED
    BY <1>0, <1>2, <1>3, <1>4, <1>7, <1>8, <1>9, <1>10, UnlockKeeps, HostTyped
       DEF H!ToldIsActive

\* Every step keeps the invariant; one that closes a runtime with an active
\* control closes the host.
LEMMA McpStep ==
  ASSUME McpInv, H!Next
  PROVE  McpInv' /\ \A i \in DOMAIN runs :
                      runs[i].open /\ runs[i].controls /\ ~runs'[i].open
                        => host'.closed
  <1>1. ASSUME NEW c \in Users,
               (\E k \in H!Kinds : H!Arrive(c, k)) \/ H!RLock(c)
        PROVE  McpInv' /\ UNCHANGED runs
    BY <1>1, EnterKeeps DEF H!Arrive, H!RLock
  <1>2. ASSUME NEW c \in Users, H!Look(c)
        PROVE  McpInv' /\ UNCHANGED runs
    BY <1>2, LookKeeps DEF H!Look
  <1>3. ASSUME NEW c \in Users, H!Reconcile(c)
        PROVE  McpInv' /\ UNCHANGED runs
    BY <1>3, ReconcileKeeps DEF H!Reconcile
  <1>4. ASSUME NEW c \in Users, H!ReconcileActivate(c)
        PROVE  McpInv' /\ \A i \in DOMAIN runs :
                            runs[i].open /\ runs[i].controls => runs'[i].open
    <2>1. /\ at[c].pc = "activate" /\ UNCHANGED disk /\ c \in H!Goroutines
          /\ H!Activate(c, H!Failed(c), [at[c] EXCEPT !.pc = "rlock"])
          /\ c \notin Changers
      BY <1>4, HostBounds DEF H!ReconcileActivate
    <2> QED
      BY <2>1, Fails, ActivateKeeps
  <1>5. ASSUME NEW h \in Changers, H!ChangeActivate(h)
        PROVE  McpInv' /\ \A i \in DOMAIN runs :
                            runs[i].open /\ runs[i].controls => runs'[i].open
    <2>1. /\ at[h].pc = "activate" /\ UNCHANGED disk /\ h \in H!Goroutines
          /\ H!Activate(h, H!Done(h, at[h].told), H!Done(h, at[h].since))
          /\ at[h] \in Goroutine /\ at[h].since <= disk.rev
          /\ at[h].told <= H!Rev(host.current)
      BY <1>5, HostBounds, HostTyped DEF H!ChangeActivate, Known, H!ToldIsActive
    <2>2. at[h].told \in 0 .. MaxRev /\ at[h].since \in 0 .. MaxRev /\ 0 <= disk.rev
      BY <2>1, HostTyped, HostBounds DEF Goroutine
    <2> QED
      BY <2>1, <2>2, DoneGoroutine, ActivateKeeps
  <1>6. ASSUME NEW h \in Changers, H!Submit(h)
        PROVE  McpInv' /\ UNCHANGED runs
    BY <1>6, EnterKeeps DEF H!Submit
  <1>7. ASSUME NEW h \in Changers, H!Change(h)
        PROVE  McpInv' /\ UNCHANGED runs
    BY <1>7, ChangeKeeps DEF H!Change
  <1>8. ASSUME NEW g \in H!Goroutines, H!Lock(g)
        PROVE  McpInv' /\ UNCHANGED runs
    BY <1>8, EnterKeeps DEF H!Lock
  <1>9. CASE H!StartClose \/ H!Join
    BY <1>9, EnterKeeps DEF H!StartClose, H!Join
  <1>10. CASE H!Edit
    BY <1>10, EditKeeps DEF H!Edit
  <1> QED
    BY <1>1, <1>2, <1>3, <1>4, <1>5, <1>6, <1>7, <1>8, <1>9, <1>10, ServeKeeps,
       ExpireKeeps, FinishKeeps
       DEF H!Next, H!CallStep, H!ChangeStep, H!CloseStep

LEMMA McpInvHolds == H!Spec => []McpInv
  <1>1. H!Init => McpInv
    <2> SUFFICES ASSUME H!Init PROVE McpInv
      OBVIOUS
    <2>1. /\ at = [g \in H!Goroutines |-> H!Idle] /\ ~host.closed
          /\ gate = [readers |-> {}, writer |-> None]
          /\ host \in [current: Nat, closed: BOOLEAN]
          /\ \/ host.current = 0 /\ runs = <<>>
             \/ /\ host.current = 1 /\ disk.rev = 1
                /\ runs = <<[rev |-> 1, open |-> TRUE, controls |-> FALSE]>>
          /\ disk \in [rev: 0 .. MaxRev, present: BOOLEAN]
      <3>1. 0 \in 0 .. MaxRev /\ 1 \in 0 .. MaxRev
        BY HostBounds
      <3>2. /\ at = [g \in H!Goroutines |-> H!Idle]
            /\ gate = [readers |-> {}, writer |-> None]
        BY DEF H!Init
      <3>3. CASE /\ disk = [rev |-> 0, present |-> FALSE] /\ runs = <<>>
                 /\ host = [current |-> 0, closed |-> FALSE]
        BY <3>1, <3>2, <3>3
      <3>4. CASE /\ disk = [rev |-> 1, present |-> TRUE]
                 /\ runs = <<[rev |-> 1, open |-> TRUE, controls |-> FALSE]>>
                 /\ host = [current |-> 1, closed |-> FALSE]
        BY <3>1, <3>2, <3>4
      <3> QED
        BY <3>3, <3>4 DEF H!Init
    <2>2. \A g \in H!Goroutines : at[g] = H!Idle
      BY <2>1
    <2>3. /\ runs \in Seq(Runtime) /\ host.current <= Len(runs)
          /\ host.current # 0 => runs[host.current].open
          /\ \A i \in DOMAIN runs : runs[i].rev <= disk.rev
          /\ 0 <= H!Rev(host.current)
      <3>1. [rev |-> 1, open |-> TRUE, controls |-> FALSE] \in Runtime
        BY HostBounds DEF Runtime
      <3>2. CASE host.current = 0 /\ runs = <<>>
        BY <3>2 DEF H!Rev
      <3>3. CASE /\ host.current = 1 /\ disk.rev = 1
                 /\ runs = <<[rev |-> 1, open |-> TRUE, controls |-> FALSE]>>
        BY <3>1, <3>3 DEF H!Rev
      <3> QED
        BY <2>1, <3>2, <3>3
    <2>4. McpTyped
      BY <2>1, <2>2, <2>3, IdleGoroutine DEF McpTyped
    <2>5. Gated
      BY <2>1, <2>2, IdleGoroutine, HostBounds DEF Gated
    <2>6. Replacing /\ Known /\ InUse
      BY <2>1, <2>2, <2>3, IdleGoroutine, HostBounds DEF Replacing, Known, InUse
    <2>7. H!ServedOpen /\ H!EffectsFenced /\ H!ToldIsActive
      BY <2>2, <2>3, IdleGoroutine, HostBounds
         DEF H!ServedOpen, H!EffectsFenced, H!ToldIsActive
    <2> QED
      BY <2>4, <2>5, <2>6, <2>7 DEF McpInv
  <1>2. McpInv /\ [H!Next]_(H!vars) => McpInv'
    <2>1. ASSUME McpInv, UNCHANGED H!vars
          PROVE  McpInv'
      BY <2>1 DEF H!vars, McpInv, McpTyped, Gated, InUse, Replacing, Known,
                  H!ServedOpen, H!EffectsFenced, H!ToldIsActive, H!Quiet, H!Rev,
                  H!Alone
    <2> QED
      BY <2>1, McpStep
  <1> QED
    BY <1>1, <1>2, PTL DEF H!Spec

LEMMA McpSound ==
  McpInv => H!TypeOK /\ H!ServedOpen /\ H!EffectsFenced /\ H!ToldIsActive
  <1> SUFFICES ASSUME McpInv PROVE H!TypeOK
    BY DEF McpInv
  <1> QED
    BY HostTyped, HostBounds DEF McpTyped, Gated, H!TypeOK

\* The owner of the connection by itself: requests are served by an open runtime
\* of the configuration they came after, and what a human was told is active is
\* (mcp_host.go, dispatch, reconcile and change).
THEOREM RequestsServed ==
  H!Spec => [](H!ServedOpen /\ H!EffectsFenced /\ H!ToldIsActive)
  BY McpInvHolds, McpSound, PTL

\* In the composition the host behaves as it does alone.
LEMMA HasMcp == HostSpec => H!Spec
  <1>1. HostInit => H!Init
    BY DEF HostInit
  <1>2. [HostNext]_hostVars => [H!Next]_(H!vars)
    BY DEF HostNext, hostVars, mcpVars, H!vars
  <1> QED
    BY <1>1, <1>2, PTL DEF HostSpec, H!Spec

\* In the composition, calls run on an open runtime that is current, and nobody is
\* told that a change is active before it is (mcp_host.go, dispatch and change).
THEOREM RequestsServedCurrent == HostSpec => []ServedCurrent
  <1>1. McpInv => ServedCurrent
    BY McpSound DEF ServedCurrent
  <1> QED
    BY <1>1, HasMcp, McpInvHolds, PTL

\* No request and no change of the configuration disconnects an active control:
\* its runtime is closed with the host only (mcp_host.go, activateLocked).
THEOREM ControlsOutlive == HostSpec => ControlsKept
  <1>1. McpInv /\ [H!Next]_(H!vars) =>
          [\A i \in DOMAIN runs : runs[i].open /\ runs[i].controls /\ ~runs'[i].open
             => host'.closed]_(H!vars)
    BY McpStep
  <1> QED
    BY <1>1, HasMcp, McpInvHolds, PTL DEF ControlsKept, H!ControlsKept, H!Spec

(***************************************************************************)
(* RuntimeLoad                                                             *)
(***************************************************************************)

Bound == {"pin", "running", "draining"}  \* where the database is open
Loader ==
  [pc: {"down", "secret", "locked", "missing", "store"} \cup Bound,
   config: SUBSET R!Binding, todo: SUBSET R!Binding, secret: Users \cup {None},
   version: 1 .. MaxSchema, db: BOOLEAN, controls: BOOLEAN]
Query ==
  [pc: {"none", "identity", "verify", "reported"}, target: R!Binding \cup {None},
   id: {"d1", "d2"} \cup {None}]

LoadTyped ==
  /\ hardware \in [{"o1", "o2"} -> {"d1", "d2"}]
  /\ loader \in [Users -> Loader]
  /\ query \in [Users -> Query]

\* Whoever finds the secret missing holds the lock, and it is missing still.
MissingStill == \A p \in Users : loader[p].pc = "missing" => secret = None

\* What a runtime exposes and need not pin any more is pinned.
PinnedSoFar ==
  \A p \in Users :
    /\ loader[p].config \ loader[p].todo \subseteq pins
    /\ loader[p].pc = "running" => loader[p].todo = {}

\* Only a running runtime asks, of what it exposes, and believes the device
\* that was asked for.
AskedOwn ==
  \A p \in Users :
    /\ query[p].pc # "none" =>
         loader[p].pc = "running" /\ query[p].target \in loader[p].config
    /\ query[p].pc = "reported" => query[p].id = query[p].target.id

LoadInv ==
  /\ LoadTyped
  /\ R!TypeOK
  /\ R!SecretShared
  /\ MissingStill
  /\ R!PinsBijective
  /\ PinnedSoFar
  /\ AskedOwn

------------------------------------------------------------------------------

LEMMA LoadBounds ==
  /\ None \notin Users /\ MaxSchema \in Nat \ {0}
  /\ \A c \in ManyConfigs : c \subseteq R!Binding
  BY HostAssumption DEF HostAssumption, R!ConfigAssumption

LEMMA LoadParts ==
  ASSUME LoadInv
  PROVE  /\ hardware \in [{"o1", "o2"} -> {"d1", "d2"}]
         /\ loader \in [Users -> Loader] /\ query \in [Users -> Query]
         /\ \A p \in Users : loader[p] \in Loader /\ query[p] \in Query
         /\ R!TypeOK /\ R!SecretShared /\ MissingStill /\ R!PinsBijective
         /\ PinnedSoFar /\ AskedOwn
  BY DEF LoadInv, LoadTyped

\* A process that is not there.
LEMMA DownLoader ==
  /\ R!Down \in Loader /\ R!Down.pc = "down" /\ R!Down.todo = {}
  /\ R!Down.config = {} /\ R!Down.secret = None /\ ~R!Down.db /\ ~R!Down.controls
  BY LoadBounds DEF R!Down, Loader

\* A step of one process keeps the invariant, if these conditions hold of it.
LEMMA LoaderMoves ==
  ASSUME LoadInv, NEW p \in Users, NEW y \in Loader,
         loader' = [loader EXCEPT ![p] = y], UNCHANGED hardware,
         query' \in [Users -> Query],
         \A x \in Users \ {p} : query'[x] = query[x],
         secret' \in Users \cup {None}, secretLock' \in Users \cup {None},
         schema' \in 0 .. MaxSchema, pins \subseteq pins', pins' \subseteq R!Binding,
         R!PinsBijective',
         y.todo \subseteq y.config,
         y.pc \in {"locked", "missing"} <=> secretLock' = p,
         \A x \in Users \ {p} : secretLock' = x <=> secretLock = x,
         y.db <=> y.pc \in Bound, y.controls => y.db,
         secret' # secret => secret = None /\ secretLock = p,
         y.secret # None => y.secret = secret',
         y.pc = "missing" => secret' = None,
         y.config \ y.todo \subseteq pins',
         y.pc = "running" => y.todo = {},
         query'[p].pc # "none" => y.pc = "running" /\ query'[p].target \in y.config,
         query'[p].pc = "reported" => query'[p].id = query'[p].target.id
  PROVE  LoadInv'
  <1>1. /\ loader' \in [Users -> Loader] /\ loader'[p] = y
        /\ \A x \in Users \ {p} : loader'[x] = loader[x]
    BY LoadParts
  <1>2. LoadTyped'
    BY <1>1, LoadParts DEF LoadTyped
  <1>3. R!TypeOK'
    BY <1>1, LoadParts DEF R!TypeOK, Bound
  <1>4. R!SecretShared'
    BY <1>1, LoadParts DEF R!SecretShared
  <1>5. MissingStill'
    BY <1>1, LoadParts DEF MissingStill, R!TypeOK
  <1>6. PinnedSoFar'
    BY <1>1, LoadParts DEF PinnedSoFar
  <1>7. AskedOwn'
    BY <1>1, LoadParts DEF AskedOwn
  <1> QED
    BY <1>2, <1>3, <1>4, <1>5, <1>6, <1>7 DEF LoadInv

\* The load fails, the store is closed or the process dies: nothing is left of it.
LEMMA DownKeeps ==
  ASSUME LoadInv, NEW p \in Users, R!Unwound(p),
         UNCHANGED <<hardware, secret, schema, pins>>,
         secretLock' = IF secretLock = p THEN None ELSE secretLock,
         query' \in [Users -> Query], query'[p].pc = "none",
         \A x \in Users \ {p} : query'[x] = query[x]
  PROVE  LoadInv'
  <1>1. loader' = [loader EXCEPT ![p] = R!Down]
    BY DEF R!Unwound
  <1>2. /\ secretLock' # p /\ secretLock' \in Users \cup {None}
        /\ \A x \in Users \ {p} : secretLock' = x <=> secretLock = x
    BY LoadParts, LoadBounds DEF R!TypeOK
  <1>3. R!PinsBijective'
    BY LoadParts DEF R!PinsBijective
  <1> QED
    BY <1>1, <1>2, <1>3, DownLoader, LoadParts, LoaderMoves DEF R!TypeOK, Bound

\* A process goes on with the secret and the lock.
LEMMA SecretKeeps ==
  ASSUME LoadInv, NEW p \in Users,
         \/ \E c \in ManyConfigs, v \in 1 .. MaxSchema : R!Start(p, c, v)
         \/ R!LockSecret(p) \/ R!ReadSecret(p) \/ R!WriteSecret(p)
  PROVE  LoadInv'
  <1>0. /\ UNCHANGED <<hardware, schema, pins, query>> /\ R!PinsBijective'
        /\ loader[p] \in Loader /\ schema' \in 0 .. MaxSchema
        /\ pins' \subseteq R!Binding /\ query' \in [Users -> Query]
        /\ secretLock \in Users \cup {None} /\ secret \in Users \cup {None}
        /\ loader[p].config \ loader[p].todo \subseteq pins'
    BY LoadParts
       DEF R!Start, R!LockSecret, R!ReadSecret, R!WriteSecret, R!PinsBijective,
           R!TypeOK, PinnedSoFar
  <1>1. query[p].pc # "none" => loader[p].pc = "running"
    BY LoadParts DEF AskedOwn
  <1>2. ASSUME NEW c \in ManyConfigs, NEW v \in 1 .. MaxSchema, R!Start(p, c, v)
        PROVE  LoadInv'
    <2>1. PICK y : y = [R!Down EXCEPT !.pc = "secret", !.config = c, !.todo = c,
                                      !.version = v]
      OBVIOUS
    <2>2. y = [pc |-> "secret", config |-> c, todo |-> c, secret |-> None,
               version |-> v, db |-> FALSE, controls |-> FALSE]
      BY <2>1 DEF R!Down
    <2>3. c \in SUBSET R!Binding
      BY LoadBounds
    <2>4. /\ y \in Loader /\ y.pc = "secret" /\ y.todo = y.config
          /\ y.secret = None /\ ~y.db /\ ~y.controls
      BY <2>2, <2>3 DEF Loader, Bound
    <2>5. /\ loader' = [loader EXCEPT ![p] = y] /\ loader[p].pc = "down"
          /\ UNCHANGED <<secret, secretLock>>
      BY <1>2, <2>1 DEF R!Start
    <2>6. secretLock' # p /\ query'[p].pc = "none"
      BY <1>0, <1>1, <2>5, LoadParts DEF R!TypeOK
    <2> QED
      BY <1>0, <2>4, <2>5, <2>6, LoaderMoves DEF Bound
  <1>3. CASE R!LockSecret(p)
    <2>1. PICK y : y = [loader[p] EXCEPT !.pc = "locked"]
      OBVIOUS
    <2>2. /\ y \in Loader /\ y.pc = "locked" /\ y.todo = loader[p].todo
          /\ y.config = loader[p].config /\ y.secret = loader[p].secret
          /\ y.db = loader[p].db /\ y.controls = loader[p].controls
      BY <1>0, <2>1 DEF Loader
    <2>3. /\ loader' = [loader EXCEPT ![p] = y] /\ loader[p].pc = "secret"
          /\ secretLock = None /\ secretLock' = p /\ UNCHANGED secret
      BY <1>3, <2>1 DEF R!LockSecret
    <2>4. /\ y.todo \subseteq y.config /\ ~y.db /\ ~y.controls
          /\ y.secret # None => y.secret = secret
      BY <2>2, <2>3, LoadParts DEF R!TypeOK, R!SecretShared, Bound
    <2> QED
      BY <1>0, <1>1, <2>2, <2>3, <2>4, LoadBounds, LoaderMoves DEF Bound
  <1>4. ASSUME R!Unwound(p), UNCHANGED secret, secretLock' = None,
               loader[p].pc \in {"locked", "missing"}
        PROVE  LoadInv'
    <2>1. secretLock = p /\ query'[p].pc = "none"
      BY <1>0, <1>1, <1>4, LoadParts DEF R!TypeOK
    <2> QED
      BY <1>0, <1>4, <2>1, DownKeeps
  <1>5. CASE R!ReadSecret(p)
    <2>0. /\ loader[p].pc = "locked" /\ secretLock = p /\ UNCHANGED secret
          /\ ~loader[p].db /\ ~loader[p].controls
          /\ loader[p].todo \subseteq loader[p].config
          /\ loader[p].secret # None => loader[p].secret = secret
      BY <1>5, LoadParts DEF R!ReadSecret, R!TypeOK, R!SecretShared
    <2>1. CASE R!Unwound(p) /\ secretLock' = None
      BY <1>4, <2>0, <2>1
    <2>2. CASE /\ secret # None /\ secretLock' = None
               /\ loader' = [loader EXCEPT ![p].pc = "store", ![p].secret = secret]
      <3>1. PICK y : y = [loader[p] EXCEPT !.pc = "store", !.secret = secret]
        OBVIOUS
      <3>2. /\ y \in Loader /\ y.pc = "store" /\ y.todo = loader[p].todo
            /\ y.config = loader[p].config /\ y.secret = secret
            /\ y.db = loader[p].db /\ y.controls = loader[p].controls
        BY <1>0, <3>1 DEF Loader
      <3>3. loader' = [loader EXCEPT ![p] = y]
        BY <2>2, <3>1
      <3> QED
        <4>1. /\ secretLock' # p /\ secretLock' \in Users \cup {None}
              /\ \A x \in Users \ {p} : secretLock' = x <=> secretLock = x
              /\ secret' = secret /\ y.secret = secret'
          BY <2>0, <2>2, <3>2, LoadBounds
        <4>2. y.todo \subseteq y.config /\ ~y.db /\ ~y.controls
          BY <2>0, <3>2
        <4>3. y.config \ y.todo \subseteq pins'
          BY <1>0, <3>2, LoadParts DEF PinnedSoFar
        <4> QED
          BY <1>0, <1>1, <2>0, <3>2, <3>3, <4>1, <4>2, <4>3, LoaderMoves DEF Bound
    <2>3. CASE /\ secret = None /\ UNCHANGED secretLock
               /\ loader' = [loader EXCEPT ![p].pc = "missing"]
      <3>1. PICK y : y = [loader[p] EXCEPT !.pc = "missing"]
        OBVIOUS
      <3>2. /\ y \in Loader /\ y.pc = "missing" /\ y.todo = loader[p].todo
            /\ y.config = loader[p].config /\ y.secret = loader[p].secret
            /\ y.db = loader[p].db /\ y.controls = loader[p].controls
        BY <1>0, <3>1 DEF Loader
      <3>3. loader' = [loader EXCEPT ![p] = y]
        BY <2>3, <3>1
      <3> QED
        BY <1>0, <1>1, <2>0, <2>3, <3>2, <3>3, LoadBounds, LoaderMoves, ZenonT(40)
           DEF Bound
    <2> QED
      BY <1>5, <2>1, <2>2, <2>3 DEF R!ReadSecret
  <1>6. CASE R!WriteSecret(p)
    <2>0. /\ loader[p].pc = "missing" /\ secretLock = p /\ secretLock' = None
          /\ secret = None /\ ~loader[p].db /\ ~loader[p].controls
          /\ loader[p].todo \subseteq loader[p].config
      BY <1>6, LoadParts DEF R!WriteSecret, R!TypeOK, MissingStill
    <2>1. CASE UNCHANGED secret /\ R!Unwound(p)
      BY <1>4, <2>0, <2>1
    <2>2. CASE secret' = p /\ R!Unwound(p)
      <3>1. loader' = [loader EXCEPT ![p] = R!Down]
        BY <2>2 DEF R!Unwound
      <3>2. query'[p].pc = "none"
        BY <1>0, <1>1, <2>0
      <3> QED
        BY <1>0, <2>0, <2>2, <3>1, <3>2, DownLoader, LoadBounds, LoaderMoves
           DEF Bound
    <2>3. CASE /\ secret' = p
               /\ loader' = [loader EXCEPT ![p].pc = "store", ![p].secret = p]
      <3>1. PICK y : y = [loader[p] EXCEPT !.pc = "store", !.secret = p]
        OBVIOUS
      <3>2. /\ y \in Loader /\ y.pc = "store" /\ y.todo = loader[p].todo
            /\ y.config = loader[p].config /\ y.secret = p
            /\ y.db = loader[p].db /\ y.controls = loader[p].controls
        BY <1>0, <3>1 DEF Loader
      <3>3. loader' = [loader EXCEPT ![p] = y]
        BY <2>3, <3>1
      <3> QED
        BY <1>0, <1>1, <2>0, <2>3, <3>2, <3>3, LoadBounds, LoaderMoves, ZenonT(40)
           DEF Bound
    <2> QED
      BY <1>6, <2>1, <2>2, <2>3 DEF R!WriteSecret
  <1> QED
    BY <1>2, <1>3, <1>5, <1>6

\* The store is opened, the exposed devices are pinned, the services built.
LEMMA PinKeeps ==
  ASSUME LoadInv, NEW p \in Users,
         \/ R!OpenStore(p) \/ R!Build(p) \/ R!CloseStore(p)
         \/ \E b \in loader[p].todo : R!PinIdentity(p, b)
  PROVE  LoadInv' /\ pins \subseteq pins'
  <1>0. /\ UNCHANGED <<hardware, secret, secretLock, query>>
        /\ loader[p] \in Loader /\ query' \in [Users -> Query]
        /\ secretLock \in Users \cup {None} /\ secret \in Users \cup {None}
        /\ schema \in 0 .. MaxSchema /\ pins \subseteq R!Binding
        /\ loader[p].pc \in {"store", "pin", "draining"}
        /\ loader[p].todo \subseteq loader[p].config
        /\ loader[p].secret # None => loader[p].secret = secret
        /\ loader[p].controls => loader[p].db
        /\ loader[p].db <=> loader[p].pc \in Bound
    BY LoadParts
       DEF R!OpenStore, R!Build, R!CloseStore, R!PinIdentity, R!TypeOK,
           R!SecretShared, Bound
  <1>1. query[p].pc = "none" /\ secretLock # p
    BY <1>0, LoadParts DEF AskedOwn, R!TypeOK, Query
  <1>2. ASSUME R!Unwound(p), UNCHANGED <<schema, pins>>
        PROVE  LoadInv' /\ pins \subseteq pins'
    BY <1>0, <1>1, <1>2, DownKeeps
  <1>3. CASE R!OpenStore(p)
    <2>1. CASE /\ schema' = loader[p].version
               /\ loader' = [loader EXCEPT ![p].pc = "pin", ![p].db = TRUE]
      <3>1. PICK y : y = [loader[p] EXCEPT !.pc = "pin", !.db = TRUE]
        OBVIOUS
      <3>2. /\ y \in Loader /\ y.pc = "pin" /\ y.todo = loader[p].todo
            /\ y.config = loader[p].config /\ y.secret = loader[p].secret /\ y.db
        BY <1>0, <3>1 DEF Loader, Bound
      <3>3. loader' = [loader EXCEPT ![p] = y] /\ UNCHANGED pins
        BY <1>3, <2>1, <3>1 DEF R!OpenStore
      <3>4. schema' \in 0 .. MaxSchema
        BY <1>0, <2>1, LoadBounds DEF Loader
      <3>5. R!PinsBijective'
        BY <3>3, LoadParts DEF R!PinsBijective
      <3>6. y.config \ y.todo \subseteq pins'
        BY <3>2, <3>3, LoadParts DEF PinnedSoFar
      <3> QED
        BY <1>0, <1>1, <3>2, <3>3, <3>4, <3>5, <3>6, LoaderMoves DEF Bound
    <2> QED
      BY <1>2, <1>3, <2>1 DEF R!OpenStore
  <1>4. ASSUME NEW b \in loader[p].todo, R!PinIdentity(p, b)
        PROVE  LoadInv' /\ pins \subseteq pins'
    <2>1. CASE /\ \A x \in pins : ~R!Clashes(b, x)
               /\ pins' = pins \cup {b}
               /\ loader' = [loader EXCEPT ![p].todo = @ \ {b}]
      <3>0. b \in R!Binding /\ loader[p].pc = "pin" /\ UNCHANGED schema
        BY <1>0, <1>4 DEF Loader, R!PinIdentity
      <3>1. PICK y : y = [loader[p] EXCEPT !.todo = loader[p].todo \ {b}]
        OBVIOUS
      <3>2. /\ y \in Loader /\ y.pc = "pin" /\ y.todo = loader[p].todo \ {b}
            /\ y.config = loader[p].config /\ y.secret = loader[p].secret
            /\ y.db = loader[p].db /\ y.controls = loader[p].controls
        BY <1>0, <3>0, <3>1 DEF Loader
      <3>3. loader' = [loader EXCEPT ![p] = y]
        BY <2>1, <3>1
      <3>4. R!PinsBijective'
        BY <2>1, LoadParts DEF R!PinsBijective, R!Clashes
      <3>5. y.config \ y.todo \subseteq pins'
        BY <2>1, <3>0, <3>2, LoadParts DEF PinnedSoFar, Bound
      <3>6. pins \subseteq pins' /\ pins' \subseteq R!Binding
        BY <1>0, <2>1, <3>0
      <3>7. y.todo \subseteq y.config /\ (y.db <=> y.pc \in Bound)
        BY <1>0, <3>0, <3>2
      <3> QED
        BY <1>0, <1>1, <3>0, <3>2, <3>3, <3>4, <3>5, <3>6, <3>7, LoaderMoves
    <2> QED
      BY <1>2, <1>4, <2>1 DEF R!PinIdentity
  <1>5. CASE R!Build(p)
    <2>1. CASE loader' = [loader EXCEPT ![p].pc = "running"]
      <3>0. loader[p].pc = "pin" /\ UNCHANGED <<schema, pins>> /\ loader[p].todo = {}
        BY <1>5 DEF R!Build
      <3>1. PICK y : y = [loader[p] EXCEPT !.pc = "running"]
        OBVIOUS
      <3>2. /\ y \in Loader /\ y.pc = "running" /\ y.todo = loader[p].todo
            /\ y.config = loader[p].config /\ y.secret = loader[p].secret
            /\ y.db = loader[p].db /\ y.controls = loader[p].controls
        BY <1>0, <3>1 DEF Loader, Bound
      <3>3. loader' = [loader EXCEPT ![p] = y]
        BY <2>1, <3>1
      <3>4. R!PinsBijective'
        BY <3>0, LoadParts DEF R!PinsBijective
      <3>5. y.config \ y.todo \subseteq pins'
        BY <3>0, <3>2, LoadParts DEF PinnedSoFar, Bound
      <3> QED
        BY <1>0, <1>1, <3>0, <3>2, <3>3, <3>4, <3>5, LoaderMoves DEF Bound
    <2> QED
      BY <1>2, <1>5, <2>1 DEF R!Build
  <1>6. CASE R!CloseStore(p)
    BY <1>2, <1>6 DEF R!CloseStore
  <1> QED
    BY <1>3, <1>4, <1>5, <1>6

\* A runtime in use, and its end.
LEMMA UseKeeps ==
  ASSUME LoadInv, NEW p \in Users,
         R!Control(p) \/ R!Drain(p) \/ R!Crash(p)
  PROVE  LoadInv' /\ pins \subseteq pins'
  <1>0. /\ UNCHANGED <<hardware, secret, schema, pins>> /\ loader[p] \in Loader
        /\ secretLock \in Users \cup {None} /\ secret \in Users \cup {None}
        /\ schema \in 0 .. MaxSchema /\ pins \subseteq R!Binding
        /\ loader[p].todo \subseteq loader[p].config
        /\ loader[p].secret # None => loader[p].secret = secret
        /\ loader[p].db <=> loader[p].pc \in Bound
        /\ loader[p].controls => loader[p].db
        /\ R!PinsBijective'
    <2>1. UNCHANGED <<hardware, secret, schema, pins>>
      BY DEF R!Control, R!Drain, R!Crash
    <2>2. R!PinsBijective'
      BY <2>1, LoadParts DEF R!PinsBijective
    <2>3. /\ loader[p].todo \subseteq loader[p].config
          /\ loader[p].secret # None => loader[p].secret = secret
          /\ loader[p].db <=> loader[p].pc \in Bound
          /\ loader[p].controls => loader[p].db
      BY LoadParts DEF R!TypeOK, R!SecretShared, Bound
    <2>4. /\ secretLock \in Users \cup {None} /\ secret \in Users \cup {None}
          /\ schema \in 0 .. MaxSchema /\ pins \subseteq R!Binding
      BY LoadParts DEF R!TypeOK
    <2> QED
      BY <2>1, <2>2, <2>3, <2>4, LoadParts
  <1>1. /\ R!NoQuery \in Query /\ R!NoQuery.pc = "none"
        /\ query \in [Users -> Query] /\ loader \in [Users -> Loader]
    BY LoadParts DEF R!NoQuery, Query
  <1>2. ASSUME loader[p].pc = "running"
        PROVE  /\ secretLock # p /\ loader[p].db /\ loader[p].todo = {}
               /\ loader[p].config \subseteq pins
               /\ query[p].pc # "none" => query[p].target \in loader[p].config
               /\ query[p].pc = "reported" => query[p].id = query[p].target.id
    BY <1>0, <1>2, LoadParts DEF AskedOwn, R!TypeOK, PinnedSoFar, Bound
  <1>3. CASE R!Control(p)
    <2>1. PICK b \in BOOLEAN : b = ~loader[p].controls
      OBVIOUS
    <2>2. PICK y : y = [loader[p] EXCEPT !.controls = b]
      OBVIOUS
    <2>3. /\ y \in Loader /\ y.pc = loader[p].pc /\ y.todo = loader[p].todo
          /\ y.config = loader[p].config /\ y.secret = loader[p].secret
          /\ y.db = loader[p].db
      BY <1>0, <2>2 DEF Loader
    <2>4. /\ loader' = [loader EXCEPT ![p] = y] /\ loader[p].pc = "running"
          /\ UNCHANGED <<secretLock, query>>
      BY <1>3, <2>1, <2>2 DEF R!Control
    <2> QED
      BY <1>0, <1>1, <1>2, <2>3, <2>4, LoaderMoves DEF Bound
  <1>4. CASE R!Drain(p)
    <2>1. PICK left \in BOOLEAN :
            loader' = [loader EXCEPT ![p].pc = "draining", ![p].controls = @ /\ left]
      BY <1>4 DEF R!Drain
    <2>2. PICK b \in BOOLEAN : b = (loader[p].controls /\ left)
      OBVIOUS
    <2>3. PICK y : y = [loader[p] EXCEPT !.pc = "draining", !.controls = b]
      OBVIOUS
    <2>4. /\ y \in Loader /\ y.pc = "draining" /\ y.todo = loader[p].todo
          /\ y.config = loader[p].config /\ y.secret = loader[p].secret
          /\ y.db = loader[p].db
      BY <1>0, <2>3 DEF Loader, Bound
    <2>5. /\ loader' = [loader EXCEPT ![p] = y] /\ loader[p].pc = "running"
          /\ UNCHANGED secretLock /\ query' = [query EXCEPT ![p] = R!NoQuery]
      BY <1>4, <2>1, <2>2, <2>3 DEF R!Drain
    <2> QED
      BY <1>0, <1>1, <1>2, <2>4, <2>5, LoaderMoves DEF Bound
  <1>5. CASE R!Crash(p)
    BY <1>0, <1>1, <1>5, DownKeeps DEF R!Crash
  <1> QED
    BY <1>3, <1>4, <1>5

\* A query of a running runtime.
LEMMA QueryKeeps ==
  ASSUME LoadInv, NEW p \in Users,
         (\E b \in loader[p].config : R!AskStatus(p, b))
           \/ R!AskIdentity(p) \/ R!Report(p)
  PROVE  LoadInv' /\ pins \subseteq pins'
  <1>1. UNCHANGED <<hardware, secret, secretLock, schema, pins, loader>>
    BY DEF R!AskStatus, R!AskIdentity, R!Report
  <1>2. /\ loader[p] \in Loader /\ query[p] \in Query /\ query \in [Users -> Query]
        /\ query[p].pc # "none" =>
             loader[p].pc = "running" /\ query[p].target \in loader[p].config
        /\ loader[p].config \subseteq R!Binding
    BY LoadParts DEF AskedOwn, Loader
  <1>3. PICK y \in Query :
          /\ query' = [query EXCEPT ![p] = y]
          /\ y.pc # "none" =>
               loader[p].pc = "running" /\ y.target \in loader[p].config
          /\ y.pc = "reported" => y.id = y.target.id
    <2>1. ASSUME NEW b \in loader[p].config, R!AskStatus(p, b)
          PROVE  \E y \in Query :
                   /\ query' = [query EXCEPT ![p] = y]
                   /\ y.pc # "none" =>
                        loader[p].pc = "running" /\ y.target \in loader[p].config
                   /\ y.pc = "reported" => y.id = y.target.id
      <3>1. PICK y : y = [pc |-> "identity", target |-> b, id |-> None]
        OBVIOUS
      <3>2. y \in Query /\ y.pc = "identity" /\ y.target = b
        BY <1>2, <3>1 DEF Query
      <3> QED
        BY <2>1, <3>1, <3>2 DEF R!AskStatus
    <2>2. CASE R!AskIdentity(p)
      <3>0. query[p].target \in R!Binding /\ query[p].pc = "identity"
        BY <1>2, <2>2 DEF R!AskIdentity
      <3>1. PICK i \in {"d1", "d2"} : i = hardware[query[p].target.origin]
        BY <3>0, LoadParts DEF R!Binding
      <3>2. PICK y : y = [query[p] EXCEPT !.pc = "verify", !.id = i]
        OBVIOUS
      <3>3. y \in Query /\ y.pc = "verify" /\ y.target = query[p].target
        BY <1>2, <3>2 DEF Query
      <3>4. query' = [query EXCEPT ![p] = y]
        BY <2>2, <3>1, <3>2 DEF R!AskIdentity
      <3> QED
        BY <1>2, <3>0, <3>3, <3>4
    <2>3. CASE R!Report(p)
      <3>1. CASE R!Verified(query[p])
        <4>1. PICK y : y = [query[p] EXCEPT !.pc = "reported"]
          OBVIOUS
        <4>2. /\ y \in Query /\ y.pc = "reported" /\ y.target = query[p].target
              /\ y.id = query[p].id
          BY <1>2, <4>1 DEF Query
        <4>3. query' = [query EXCEPT ![p] = y] /\ query[p].pc = "verify"
          BY <2>3, <3>1, <4>1 DEF R!Report
        <4> QED
          BY <1>2, <3>1, <4>2, <4>3 DEF R!Verified
      <3>2. CASE ~R!Verified(query[p])
        <4>1. R!NoQuery \in Query /\ R!NoQuery.pc = "none"
          BY DEF R!NoQuery, Query
        <4>2. query' = [query EXCEPT ![p] = R!NoQuery]
          BY <2>3, <3>2 DEF R!Report
        <4> QED
          BY <4>1, <4>2
      <3> QED
        BY <3>1, <3>2
    <2> QED
      BY <2>1, <2>2, <2>3
  <1>4. /\ query' \in [Users -> Query] /\ query'[p] = y
        /\ \A x \in Users \ {p} : query'[x] = query[x]
    BY <1>2, <1>3
  <1>5. LoadTyped' /\ R!TypeOK' /\ R!SecretShared' /\ MissingStill'
        /\ R!PinsBijective' /\ PinnedSoFar'
    BY <1>1, <1>4, LoadParts
       DEF LoadTyped, R!TypeOK, R!SecretShared, MissingStill, R!PinsBijective,
           PinnedSoFar
  <1>6. AskedOwn'
    BY <1>1, <1>3, <1>4, LoadParts DEF AskedOwn
  <1> QED
    BY <1>1, <1>5, <1>6 DEF LoadInv

LEMMA LoadStepKeeps ==
  ASSUME LoadInv, R!Next
  PROVE  LoadInv' /\ pins \subseteq pins'
  <1>1. ASSUME NEW p \in Users,
               \/ \E c \in ManyConfigs, v \in 1 .. MaxSchema : R!Start(p, c, v)
               \/ R!LockSecret(p) \/ R!ReadSecret(p) \/ R!WriteSecret(p)
        PROVE  LoadInv' /\ pins \subseteq pins'
    <2>1. UNCHANGED pins
      BY <1>1 DEF R!Start, R!LockSecret, R!ReadSecret, R!WriteSecret
    <2> QED
      BY <1>1, <2>1, SecretKeeps
  <1>2. ASSUME NEW o \in {"o1", "o2"}, R!Exchange(o)
        PROVE  LoadInv' /\ pins \subseteq pins'
    <2>1. /\ UNCHANGED <<secret, secretLock, schema, pins, loader, query>>
          /\ hardware' \in [{"o1", "o2"} -> {"d1", "d2"}]
      BY <1>2, LoadParts DEF R!Exchange
    <2> QED
      BY <2>1, LoadParts
         DEF LoadInv, LoadTyped, R!TypeOK, R!SecretShared, MissingStill,
             R!PinsBijective, PinnedSoFar, AskedOwn
  <1>3. ASSUME NEW p \in Users,
               \/ R!OpenStore(p) \/ R!Build(p) \/ R!CloseStore(p)
               \/ \E b \in loader[p].todo : R!PinIdentity(p, b)
        PROVE  LoadInv' /\ pins \subseteq pins'
    BY <1>3, PinKeeps
  <1>4. ASSUME NEW p \in Users, R!Control(p) \/ R!Drain(p) \/ R!Crash(p)
        PROVE  LoadInv' /\ pins \subseteq pins'
    BY <1>4, UseKeeps
  <1>5. ASSUME NEW p \in Users,
               (\E b \in loader[p].config : R!AskStatus(p, b))
                 \/ R!AskIdentity(p) \/ R!Report(p)
        PROVE  LoadInv' /\ pins \subseteq pins'
    BY <1>5, QueryKeeps
  <1> QED
    BY <1>1, <1>2, <1>3, <1>4, <1>5 DEF R!Next, R!LoadStep

LEMMA LoadInvHolds == R!Spec => []LoadInv
  <1>1. R!Init => LoadInv
    <2> SUFFICES ASSUME R!Init PROVE LoadInv
      OBVIOUS
    <2>1. /\ hardware \in [{"o1", "o2"} -> {"d1", "d2"}]
          /\ secret = None /\ secretLock = None /\ schema = 0 /\ pins = {}
          /\ loader = [p \in Users |-> R!Down] /\ query = [p \in Users |-> R!NoQuery]
      BY DEF R!Init
    <2>2. R!NoQuery \in Query /\ R!NoQuery.pc = "none"
      BY DEF R!NoQuery, Query
    <2>3. \A p \in Users : loader[p] = R!Down /\ query[p] = R!NoQuery
      BY <2>1
    <2>4. LoadTyped
      BY <2>1, <2>2, DownLoader DEF LoadTyped
    <2>5. R!TypeOK
      BY <2>1, <2>3, DownLoader, LoadBounds DEF R!TypeOK
    <2> QED
      BY <2>1, <2>2, <2>3, <2>4, <2>5, DownLoader
         DEF LoadInv, R!SecretShared, MissingStill, R!PinsBijective, PinnedSoFar,
             AskedOwn
  <1>2. LoadInv /\ [R!Next]_(R!vars) => LoadInv'
    <2>1. ASSUME LoadInv, UNCHANGED R!vars
          PROVE  LoadInv'
      BY <2>1 DEF R!vars, LoadInv, LoadTyped, R!TypeOK, R!SecretShared,
                  MissingStill, R!PinsBijective, PinnedSoFar, AskedOwn
    <2> QED
      BY <2>1, LoadStepKeeps
  <1> QED
    BY <1>1, <1>2, PTL DEF R!Spec

LEMMA LoadSound ==
  ASSUME LoadInv
  PROVE  R!TypeOK /\ R!SecretShared /\ R!PinsBijective /\ R!ExposedPinned
  <1>1. ASSUME NEW p \in Users
        PROVE  /\ loader[p].pc = "running" => loader[p].config \subseteq pins
               /\ query[p].pc = "reported" =>
                    [query[p].target EXCEPT !.id = query[p].id] \in pins
    <2>1. loader[p].pc = "running" => loader[p].config \subseteq pins
      BY LoadParts DEF PinnedSoFar
    <2>2. CASE query[p].pc = "reported"
      <3>1. /\ query[p].target \in loader[p].config /\ loader[p].pc = "running"
            /\ query[p].id = query[p].target.id
        BY <2>2, LoadParts DEF AskedOwn
      <3>2. query[p].target \in R!Binding /\ query[p].target \in pins
        BY <2>1, <3>1, LoadParts DEF R!TypeOK
      <3>3. PICK t : t = query[p].target
        OBVIOUS
      <3>4. [t EXCEPT !.id = t.id] = t
        BY <3>2, <3>3 DEF R!Binding
      <3> QED
        BY <2>1, <3>1, <3>2, <3>3, <3>4
    <2> QED
      BY <2>1, <2>2
  <1> QED
    BY <1>1, LoadParts DEF R!ExposedPinned

\* Loading by itself: of any number of processes that share a directory and may
\* die at any step, each runs with the one secret, what it exposes is pinned,
\* and pins are for ever (app/secret.go, app/runtime.go, store.PinIdentity).
THEOREM RuntimesPinned ==
  R!Spec => /\ [](R!SecretShared /\ R!PinsBijective /\ R!ExposedPinned)
            /\ R!PinsImmutable
  <1>1. LoadInv /\ [R!Next]_(R!vars) => [pins \subseteq pins']_(R!vars)
    BY LoadStepKeeps
  <1> QED
    BY <1>1, LoadInvHolds, LoadSound, PTL DEF R!Spec, R!PinsImmutable

\* In the composition a runtime is loaded as it is alone.
LEMMA HasLoad == HostSpec => R!Spec
  <1>1. HostInit => R!Init
    BY DEF HostInit
  <1>2. [HostNext]_hostVars => [R!Next]_(R!vars)
    BY DEF HostNext, hostVars, loadVars, R!vars
  <1> QED
    BY <1>1, <1>2, PTL DEF HostSpec, R!Spec

\* Runtimes have one secret and pins that exclude one another, and expose nothing
\* unpinned, in the composition (runtime.go, device/).
THEOREM LoadsPinned == HostSpec => []LoadedPinned
  <1>1. LoadInv => LoadedPinned
    BY LoadSound DEF LoadedPinned
  <1> QED
    BY <1>1, HasLoad, LoadInvHolds, PTL

(***************************************************************************)
(* Enrollment                                                              *)
(***************************************************************************)

Identity == {"d1", "d2", None}
Saved ==
  [name: {"n1", "n2"}, origin: {"o1", "o2"}, id: Identity, account: Nat,
   input: BOOLEAN]
Config == [devices: SUBSET Saved, input: BOOLEAN, present: BOOLEAN]
FormJob ==
  [pc: {"idle", "review", "lock", "check", "key", "write", "undo", "activate"},
   request: TheForms \cup {None}, patch: ThePatches \cup {None},
   expected: Config, shown: Config, next: Config, account: Nat,
   result: {"none", "stale", "inactive"}, again: BOOLEAN,
   machine: [id: Identity, password: BOOLEAN]]

Accounts(f) == {d.account : d \in f.devices} \ {0}

\* A device, a name and an origin are in the configuration once.
Once(f) ==
  \A d, e \in f.devices :
    d.id = e.id \/ d.name = e.name \/ d.origin = e.origin => d = e

FormTyped ==
  /\ saved \in Config /\ job \in [Users -> FormJob] /\ edited \subseteq Users
  /\ keys \subseteq 1 .. made
  /\ saveLock \in Users \cup {None}

\* Every account in the keyring is saved, held by a job or given up: also while
\* an editor is at work.
Claimed ==
  \A k \in keys : k \in lost \/ k \in Accounts(saved)
                  \/ \E j \in Users : job[j].account = k

\* What a job is about to write holds what it read, which holds what an editor
\* left of it; what it has read or made of it can log in, once for each device.
\* An account that has to be deleted is in the keyring.
Replaces(y, f, K) ==
  /\ y.pc = "key" =>
       /\ Accounts(f) \subseteq Accounts(y.expected)
       /\ Accounts(y.expected) \subseteq K
       /\ y.expected.devices \subseteq y.next.devices
       /\ y.expected.devices # y.next.devices
       /\ Once(y.next)
  /\ y.pc = "write" =>
       /\ Accounts(f) \subseteq Accounts(y.next) /\ Accounts(y.next) \subseteq K
       /\ Once(y.next)
       /\ y.account # 0 => y.account \in Accounts(y.next)
  /\ y.pc = "undo" /\ y.account # 0 => y.account \in K

\* A job's own account is not saved before its configuration is, and stays saved
\* or is given up after.
Owns(y, f, L) ==
  /\ y.pc \in {"write", "undo"} => y.account \notin Accounts(f)
  /\ y.pc = "activate" /\ y.account # 0 => y.account \in L \cup Accounts(f)

\* A job has a form or a patch; only a form has a password to keep, and the
\* configuration with the patch was shown.
Proposed(y) ==
  /\ y.request = None \/ y.patch = None
  /\ y.pc = "key" => y.patch = None
  /\ y.patch # None => y.shown = E!Apply(y.expected, y.patch)
  /\ y.pc = "write" /\ y.patch # None => y.next = y.shown

JobsReplace == \A j \in Users : Replaces(job[j], saved, keys)
JobsOwn == \A j \in Users : Owns(job[j], saved, lost)
JobsProposed == \A j \in Users : Proposed(job[j])

\* The configuration is the one that was read, but for an editor.
ReadStill ==
  \A j \in Users : job[j].pc \in {"key", "write"} /\ j \notin edited =>
                     saved = job[j].expected

FormInv ==
  /\ FormTyped
  /\ E!TypeOK
  /\ E!SavedCanLogIn
  /\ Claimed
  /\ E!SavedOnce
  /\ JobsReplace
  /\ JobsOwn
  /\ JobsProposed
  /\ ReadStill

------------------------------------------------------------------------------

LEMMA FormBounds == None \notin Users /\ MaxAccounts \in Nat
  BY HostAssumption DEF HostAssumption, E!EnrollmentAssumption

\* What may be asked for, and what may answer.
LEMMA Forms ==
  /\ \A r \in TheForms : /\ r.name \in {"n1", "n2"} /\ r.origin \in {"o1", "o2"}
                         /\ r.control \in BOOLEAN
                         /\ TheHardware[r.origin] \subseteq
                              [id: Identity, password: BOOLEAN]
  /\ \A p \in ThePatches : p.value \in BOOLEAN
  <1>1. ASSUME NEW r \in TheForms
        PROVE  /\ r.name \in {"n1", "n2"} /\ r.origin \in {"o1", "o2"}
               /\ r.control \in BOOLEAN
    <2>1. r = Form("n1", "o1", TRUE) \/ r = Form("n2", "o2", FALSE)
      BY DEF TheForms
    <2>2. CASE r = [name |-> "n1", origin |-> "o1", control |-> TRUE]
      BY <2>2
    <2>3. CASE r = [name |-> "n2", origin |-> "o2", control |-> FALSE]
      BY <2>3
    <2> QED
      BY <2>1, <2>2, <2>3 DEF Form
  <1>2. Locked \in [id: Identity, password: BOOLEAN]
    BY DEF Locked, Identity
  <1>3. Unlocked \in [id: Identity, password: BOOLEAN]
    BY DEF Unlocked, Identity
  <1>4. /\ TheHardware["o1"] \subseteq [id: Identity, password: BOOLEAN]
        /\ TheHardware["o2"] \subseteq [id: Identity, password: BOOLEAN]
    BY <1>2, <1>3 DEF TheHardware
  <1>5. \A p \in ThePatches : p.value \in BOOLEAN
    <2> SUFFICES ASSUME NEW p \in ThePatches
                 PROVE  p.value \in BOOLEAN
      OBVIOUS
    <2>1. p = Patch("global", TRUE) \/ p = Patch("device", FALSE)
      BY DEF ThePatches
    <2>2. CASE p = [what |-> "global", id |-> "d1", value |-> TRUE]
      BY <2>2
    <2>3. CASE p = [what |-> "device", id |-> "d1", value |-> FALSE]
      BY <2>3
    <2> QED
      BY <2>1, <2>2, <2>3 DEF Patch
  <1> QED
    BY <1>1, <1>4, <1>5

LEMMA FormParts ==
  ASSUME FormInv
  PROVE  /\ FormTyped /\ E!TypeOK /\ E!SavedCanLogIn /\ Claimed /\ E!SavedOnce
         /\ JobsReplace /\ JobsOwn /\ JobsProposed /\ ReadStill
         /\ saved \in Config /\ made \in Nat
         /\ \A j \in Users : job[j] \in FormJob
  BY FormBounds DEF FormInv, FormTyped, E!TypeOK

LEMMA OnceSaved == E!SavedOnce <=> Once(saved)
  BY DEF E!SavedOnce, Once

\* A step of one job keeps the invariant, if these conditions hold of it.
LEMMA JobSteps ==
  ASSUME FormInv, NEW j \in Users, NEW y \in FormJob,
         job' = [job EXCEPT ![j] = y],
         saved' \in Config, edited' \subseteq Users,
         made' \in 0 .. MaxAccounts, keys' \subseteq 1 .. made',
         lost' \subseteq 1 .. made',
         saveLock' \in Users \cup {None},
         y.pc \in {"check", "key", "write", "undo"} <=> saveLock' = j,
         \A x \in Users \ {j} : saveLock' = x <=> saveLock = x,
         y.account # 0 => y.pc \in {"write", "undo", "activate"},
         E!SavedCanLogIn', Claimed', E!SavedOnce',
         \A x \in Users \ {j} :
           /\ Replaces(job[x], saved', keys') /\ Owns(job[x], saved', lost')
           /\ job[x].pc \in {"key", "write"} /\ x \notin edited' =>
                saved' = job[x].expected,
         Replaces(y, saved', keys'), Owns(y, saved', lost'), Proposed(y),
         y.pc \in {"key", "write"} /\ j \notin edited' => saved' = y.expected
  PROVE  FormInv'
  <1>1. /\ job' \in [Users -> FormJob] /\ job'[j] = y
        /\ \A x \in Users \ {j} : job'[x] = job[x]
    BY FormParts DEF FormTyped
  <1>2. FormTyped'
    BY <1>1 DEF FormTyped
  <1>3. E!TypeOK'
    <2>1. keys' \subseteq 1 .. MaxAccounts
      BY FormBounds
    <2> QED
      BY <1>1, <2>1, FormParts DEF E!TypeOK
  <1>4. JobsReplace'
    BY <1>1 DEF JobsReplace
  <1>5. JobsOwn'
    BY <1>1 DEF JobsOwn
  <1>6. JobsProposed'
    BY <1>1, FormParts DEF JobsProposed
  <1>7. ReadStill'
    BY <1>1 DEF ReadStill
  <1> QED
    BY <1>2, <1>3, <1>4, <1>5, <1>6, <1>7 DEF FormInv

\* A step that leaves the configuration alone and gives no account up, except to
\* those that are lost.
LEMMA JobMoves ==
  ASSUME FormInv, NEW j \in Users, NEW y \in FormJob,
         job' = [job EXCEPT ![j] = y], UNCHANGED saved,
         edited' \in {edited, edited \ {j}},
         made' \in 0 .. MaxAccounts, made <= made',
         keys' \subseteq 1 .. made', keys \subseteq keys',
         lost' \subseteq 1 .. made', lost \subseteq lost',
         saveLock' \in Users \cup {None},
         y.pc \in {"check", "key", "write", "undo"} <=> saveLock' = j,
         \A x \in Users \ {j} : saveLock' = x <=> saveLock = x,
         y.account # 0 => y.pc \in {"write", "undo", "activate"},
         \A k \in keys' \ keys : y.account = k,
         job[j].account \in {0, y.account} \cup lost' \cup Accounts(saved),
         Replaces(y, saved, keys'), Owns(y, saved, lost'), Proposed(y),
         y.pc \in {"key", "write"} /\ j \notin edited' => saved = y.expected
  PROVE  FormInv'
  <1>1. E!SavedCanLogIn'
    BY FormParts DEF E!SavedCanLogIn
  <1>2. Claimed'
    <2>1. job'[j] = y /\ \A x \in Users \ {j} : job'[x] = job[x]
      BY FormParts DEF FormTyped
    <2>2. \A k \in keys : k # 0
      BY FormParts DEF FormTyped
    <2> SUFFICES ASSUME NEW k \in keys'
                 PROVE  \/ k \in lost' \/ k \in Accounts(saved)
                        \/ \E x \in Users : job'[x].account = k
      BY DEF Claimed
    <2>3. CASE k \notin keys
      BY <2>1, <2>3
    <2>4. CASE k \in keys /\ (k \in lost \/ k \in Accounts(saved))
      BY <2>4
    <2>5. CASE k \in keys /\ \E x \in Users : job[x].account = k
      BY <2>1, <2>2, <2>5
    <2> QED
      BY <2>3, <2>4, <2>5, FormParts DEF Claimed
  <1>3. E!SavedOnce'
    BY FormParts DEF E!SavedOnce
  <1>4. ASSUME NEW x \in Users \ {j}
        PROVE  /\ Replaces(job[x], saved, keys') /\ Owns(job[x], saved, lost')
               /\ job[x].pc \in {"key", "write"} /\ x \notin edited' =>
                    saved = job[x].expected
    <2>1. /\ Replaces(job[x], saved, keys) /\ Owns(job[x], saved, lost)
          /\ job[x].pc \in {"key", "write"} /\ x \notin edited =>
               saved = job[x].expected
      BY FormParts DEF JobsReplace, JobsOwn, ReadStill
    <2>2. Replaces(job[x], saved, keys')
      BY <2>1 DEF Replaces
    <2>3. Owns(job[x], saved, lost')
      BY <2>1 DEF Owns
    <2> QED
      BY <2>1, <2>2, <2>3
  <1>5. edited' \subseteq Users
    BY FormParts DEF FormTyped
  <1> QED
    BY <1>1, <1>2, <1>3, <1>4, <1>5, FormParts, JobSteps

\* What is left of a job that has ended.
LEMMA EndedJob ==
  ASSUME NEW result \in {"none", "stale", "inactive"}, NEW again \in BOOLEAN
  PROVE  \E y \in FormJob :
           /\ y = [E!Idle EXCEPT !.result = result, !.again = again]
           /\ y.pc = "idle" /\ y.account = 0 /\ y.patch = None /\ y.request = None
  <1>1. PICK y : y = [E!Idle EXCEPT !.result = result, !.again = again]
    OBVIOUS
  <1>2. y = [pc |-> "idle", request |-> None, patch |-> None,
             expected |-> E!NoFile, shown |-> E!NoFile, next |-> E!NoFile,
             account |-> 0, result |-> result, again |-> again,
             machine |-> [id |-> None, password |-> FALSE]]
    BY <1>1 DEF E!Idle
  <1>3. E!NoFile \in Config
    BY DEF E!NoFile, Config
  <1>4. y \in FormJob
    BY <1>2, <1>3 DEF FormJob, Identity
  <1>5. y.pc = "idle" /\ y.account = 0 /\ y.patch = None /\ y.request = None
    BY <1>2
  <1> QED
    BY <1>1, <1>4, <1>5

\* A job ends and leaves nothing behind but what is saved or lost.
LEMMA EndKeeps ==
  ASSUME FormInv, NEW j \in Users, NEW result \in {"none", "stale"},
         E!End(j, result), UNCHANGED <<saved, keys, made>>,
         lost' \subseteq 1 .. made, lost \subseteq lost',
         job[j].account \in {0} \cup lost' \cup Accounts(saved)
  PROVE  FormInv'
  <1>1. PICK again \in BOOLEAN : again = (job[j].again /\ result = "stale")
    OBVIOUS
  <1>2. PICK y \in FormJob :
          /\ y = [E!Idle EXCEPT !.result = result, !.again = again]
          /\ y.pc = "idle" /\ y.account = 0 /\ y.patch = None /\ y.request = None
    <2>1. result \in {"none", "stale", "inactive"}
      OBVIOUS
    <2> QED
      BY <2>1, EndedJob
  <1>3. job' = [job EXCEPT ![j] = y] /\ edited' = edited \ {j}
    BY <1>1, <1>2 DEF E!End
  <1>4. /\ saveLock' \in Users \cup {None} /\ saveLock' # j
        /\ \A x \in Users \ {j} : saveLock' = x <=> saveLock = x
    BY FormParts, FormBounds DEF E!End, FormTyped
  <1>5. Replaces(y, saved, keys') /\ Owns(y, saved, lost') /\ Proposed(y)
    BY <1>2 DEF Replaces, Owns, Proposed
  <1>6. /\ made \in 0 .. MaxAccounts /\ keys \subseteq 1 .. made
        /\ lost \subseteq 1 .. made /\ made <= made
    BY FormParts, FormBounds DEF E!TypeOK, FormTyped
  <1>7. /\ y.pc \notin {"check", "key", "write", "undo"}
        /\ edited' \in {edited, edited \ {j}}
        /\ y.pc \notin {"key", "write"}
        /\ job[j].account \in {0, y.account} \cup lost' \cup Accounts(saved)
    BY <1>2, <1>3
  <1> QED
    BY <1>2, <1>3, <1>4, <1>5, <1>6, <1>7, JobMoves

------------------------------------------------------------------------------

\* The facts of a step that touches neither the configuration nor the keyring.
LEMMA FormNow ==
  ASSUME FormInv, NEW j \in Users
  PROVE  /\ made \in 0 .. MaxAccounts /\ keys \subseteq 1 .. made
         /\ lost \subseteq 1 .. made /\ made <= made /\ made \in Nat
         /\ saveLock \in Users \cup {None} /\ edited \in {edited, edited \ {j}}
         /\ saved \in Config /\ job[j] \in FormJob
         /\ job[j].pc \in {"check", "key", "write", "undo"} <=> saveLock = j
         /\ job[j].account # 0 => job[j].pc \in {"write", "undo", "activate"}
         /\ Replaces(job[j], saved, keys) /\ Owns(job[j], saved, lost)
         /\ Proposed(job[j])
         /\ job[j].pc \in {"key", "write"} /\ j \notin edited =>
              saved = job[j].expected
  <1>1. made \in 0 .. MaxAccounts /\ lost \subseteq 1 .. made
    BY FormParts DEF E!TypeOK
  <1>2. made <= made /\ made \in Nat
    BY <1>1, FormBounds
  <1> QED
    BY <1>1, <1>2, FormParts
       DEF FormTyped, E!TypeOK, JobsReplace, JobsOwn, JobsProposed, ReadStill

\* Only the place of a job changes.
LEMMA JobGoes ==
  ASSUME NEW j \in Users, job[j] \in FormJob,
         NEW pc \in {"idle", "review", "lock", "check", "key", "write", "undo",
                     "activate"}
  PROVE  \E y \in FormJob :
           /\ y = [job[j] EXCEPT !.pc = pc] /\ y.pc = pc
           /\ y.request = job[j].request /\ y.patch = job[j].patch
           /\ y.expected = job[j].expected /\ y.shown = job[j].shown
           /\ y.next = job[j].next /\ y.account = job[j].account
  <1>1. PICK y : y = [job[j] EXCEPT !.pc = pc]
    OBVIOUS
  <1>2. y \in FormJob
    BY <1>1 DEF FormJob
  <1>3. /\ y.pc = pc
        /\ y.request = job[j].request /\ y.patch = job[j].patch
        /\ y.expected = job[j].expected /\ y.shown = job[j].shown
        /\ y.next = job[j].next /\ y.account = job[j].account
    BY <1>1 DEF FormJob
  <1> QED
    BY <1>1, <1>2, <1>3

\* applySettings keeps the devices, their accounts and what tells them apart.
LEMMA ApplyKeeps ==
  ASSUME NEW f \in Config, NEW p \in ThePatches
  PROVE  /\ E!Apply(f, p) \in Config
         /\ Accounts(E!Apply(f, p)) = Accounts(f)
         /\ Once(f) => Once(E!Apply(f, p))
  <1>1. p.value \in BOOLEAN
    BY Forms
  <1>2. CASE p.what = "global"
    <2>1. PICK g : g = [f EXCEPT !.input = p.value]
      OBVIOUS
    <2>2. g \in Config /\ g.devices = f.devices
      BY <1>1, <2>1 DEF Config
    <2>3. E!Apply(f, p) = g
      BY <1>2, <2>1 DEF E!Apply
    <2> QED
      BY <2>2, <2>3 DEF Accounts, Once
  <1>3. CASE p.what # "global"
    <2> DEFINE Set(d) == IF d.id = p.id THEN [d EXCEPT !.input = p.value] ELSE d
    <2>1. ASSUME NEW d \in Saved
          PROVE  /\ Set(d) \in Saved /\ Set(d).account = d.account
                 /\ Set(d).id = d.id /\ Set(d).name = d.name
                 /\ Set(d).origin = d.origin
      <3>1. PICK c : c = [d EXCEPT !.input = p.value]
        OBVIOUS
      <3>2. /\ c \in Saved /\ c.account = d.account /\ c.id = d.id
            /\ c.name = d.name /\ c.origin = d.origin
        BY <1>1, <3>1 DEF Saved
      <3> QED
        BY <3>1, <3>2
    <2> HIDE DEF Set
    <2>2. PICK g : g = [f EXCEPT !.devices = {Set(d) : d \in @}]
      OBVIOUS
    <2>3. f.devices \subseteq Saved
      BY DEF Config
    <2>4. g.devices = {Set(d) : d \in f.devices}
      BY <2>2 DEF Config
    <2>5. g \in Config
      <3>1. g.devices \in SUBSET Saved
        BY <2>1, <2>3, <2>4
      <3> QED
        BY <2>2, <3>1, <2>4 DEF Config
    <2>6. E!Apply(f, p) = g
      BY <1>3, <2>2 DEF E!Apply, Set
    <2>7. Accounts(g) = Accounts(f)
      BY <2>1, <2>3, <2>4 DEF Accounts
    <2>8. ASSUME Once(f)
          PROVE  Once(g)
      <3> SUFFICES ASSUME NEW d \in f.devices, NEW e \in f.devices,
                          \/ Set(d).id = Set(e).id \/ Set(d).name = Set(e).name
                          \/ Set(d).origin = Set(e).origin
                   PROVE  Set(d) = Set(e)
        BY <2>4 DEF Once
      <3>1. d.id = e.id \/ d.name = e.name \/ d.origin = e.origin
        BY <2>1, <2>3
      <3> QED
        BY <2>8, <3>1 DEF Once
    <2> QED
      BY <2>5, <2>6, <2>7, <2>8
  <1> QED
    BY <1>2, <1>3

------------------------------------------------------------------------------

\* A form is sent, changes are shown, or a saved form is sent again.
LEMMA BeginKeeps ==
  ASSUME FormInv, NEW j \in Users,
         \/ \E r \in TheForms : E!Connect(j, r)
         \/ \E p \in ThePatches : E!Preview(j, p)
         \/ E!Resubmit(j)
  PROVE  FormInv'
  <1>0. /\ job[j].pc = "idle" /\ job[j].account = 0 /\ saveLock # j
        /\ UNCHANGED <<saved, keys, made, lost, saveLock, edited>>
    BY FormNow DEF E!Connect, E!Preview, E!Resubmit
  <1>1. E!NoFile \in Config
    BY DEF E!NoFile, Config
  <1>2. ASSUME NEW y \in FormJob, job' = [job EXCEPT ![j] = y],
               y.pc \in {"lock", "review"}, y.account = 0, Proposed(y)
        PROVE  FormInv'
    <2>1. Replaces(y, saved, keys') /\ Owns(y, saved, lost')
      BY <1>2 DEF Replaces, Owns
    <2>2. /\ y.pc \notin {"check", "key", "write", "undo"} /\ saveLock' # j
          /\ y.pc \notin {"key", "write"}
          /\ job[j].account \in {0, y.account} \cup lost' \cup Accounts(saved)
      BY <1>0, <1>2
    <2> QED
      BY <1>0, <1>2, <2>1, <2>2, FormNow, JobMoves
  <1>3. ASSUME NEW r \in TheForms, E!Connect(j, r)
        PROVE  FormInv'
    <2>1. PICK m \in TheHardware[r.origin] :
            job' = [job EXCEPT ![j] =
                      [E!Idle EXCEPT !.pc = "lock", !.request = r, !.machine = m]]
      BY <1>3 DEF E!Connect
    <2>2. PICK y : y = [E!Idle EXCEPT !.pc = "lock", !.request = r, !.machine = m]
      OBVIOUS
    <2>3. y = [pc |-> "lock", request |-> r, patch |-> None,
               expected |-> E!NoFile, shown |-> E!NoFile, next |-> E!NoFile,
               account |-> 0, result |-> "none", again |-> FALSE, machine |-> m]
      BY <2>2 DEF E!Idle
    <2>4. m \in [id: Identity, password: BOOLEAN]
      BY <2>1, Forms
    <2>5. y \in FormJob
      BY <1>1, <2>3, <2>4 DEF FormJob
    <2>6. y.pc = "lock" /\ y.account = 0 /\ y.patch = None
      BY <2>3
    <2> QED
      BY <1>2, <2>1, <2>2, <2>5, <2>6 DEF Proposed
  <1>4. ASSUME NEW p \in ThePatches, E!Preview(j, p)
        PROVE  FormInv'
    <2>1. PICK g \in Config : g = E!Apply(saved, p)
      BY FormNow, ApplyKeeps
    <2>2. PICK y : y = [E!Idle EXCEPT !.pc = "review", !.patch = p,
                                      !.expected = saved, !.shown = g]
      OBVIOUS
    <2>3. y = [pc |-> "review", request |-> None, patch |-> p,
               expected |-> saved, shown |-> g, next |-> E!NoFile,
               account |-> 0, result |-> "none", again |-> FALSE,
               machine |-> [id |-> None, password |-> FALSE]]
      BY <2>2 DEF E!Idle
    <2>4. y \in FormJob
      BY <1>1, <2>3, FormNow DEF FormJob, Identity
    <2>5. /\ y.pc = "review" /\ y.account = 0 /\ y.request = None
          /\ y.shown = E!Apply(y.expected, y.patch)
      BY <2>1, <2>3
    <2>6. job' = [job EXCEPT ![j] = y]
      BY <1>4, <2>1, <2>2 DEF E!Preview
    <2> QED
      BY <1>2, <2>4, <2>5, <2>6 DEF Proposed
  <1>5. CASE E!Resubmit(j)
    <2>1. PICK y : y = [job[j] EXCEPT !.pc = "lock", !.again = TRUE,
                                      !.result = "none"]
      OBVIOUS
    <2>2. /\ y \in FormJob /\ y.pc = "lock" /\ y.account = 0
          /\ y.request = job[j].request /\ y.patch = job[j].patch
          /\ y.expected = job[j].expected /\ y.shown = job[j].shown
      BY <1>0, <2>1, FormNow DEF FormJob
    <2>3. Proposed(y)
      BY <2>2, FormNow DEF Proposed
    <2>4. job' = [job EXCEPT ![j] = y]
      BY <1>5, <2>1 DEF E!Resubmit
    <2> QED
      BY <1>2, <2>2, <2>3, <2>4
  <1> QED
    BY <1>3, <1>4, <1>5

\* A job that gives up, waits for the lock or is reviewed.
LEMMA WaitKeeps ==
  ASSUME FormInv, NEW j \in Users,
         E!Lock(j) \/ E!Review(j) \/ E!Crash(j) \/ E!Activate(j)
  PROVE  FormInv'
  <1>1. ASSUME NEW result \in {"none", "stale"}, E!End(j, result),
               UNCHANGED <<saved, keys, made, lost>>,
               job[j].pc \in {"lock", "review", "activate"}
        PROVE  FormInv'
    <2>1. job[j].account \in {0} \cup lost' \cup Accounts(saved)
      BY <1>1, FormNow DEF Owns
    <2> QED
      BY <1>1, <2>1, FormNow, EndKeeps
  <1>2. CASE E!Lock(j)
    <2>1. CASE E!End(j, "none")
      BY <1>1, <1>2, <2>1 DEF E!Lock
    <2>2. CASE /\ saveLock = None /\ saveLock' = j
               /\ E!Goto(j, "check") /\ UNCHANGED edited
      <3>1. PICK y \in FormJob :
              /\ y = [job[j] EXCEPT !.pc = "check"] /\ y.pc = "check"
              /\ y.request = job[j].request /\ y.patch = job[j].patch
              /\ y.expected = job[j].expected /\ y.shown = job[j].shown
              /\ y.next = job[j].next /\ y.account = job[j].account
        BY FormNow, JobGoes
      <3>2. job' = [job EXCEPT ![j] = y]
        BY <2>2, <3>1 DEF E!Goto
      <3>3. /\ job[j].pc = "lock" /\ y.account = 0
            /\ UNCHANGED <<saved, keys, made, lost, edited>>
        BY <1>2, <2>2, <3>1, FormNow DEF E!Lock
      <3>4. /\ y.pc \in {"check", "key", "write", "undo"}
            /\ y.pc \notin {"key", "write"}
            /\ saveLock' \in Users \cup {None}
            /\ \A x \in Users \ {j} : saveLock' = x <=> saveLock = x
            /\ job[j].account \in {0, y.account} \cup lost' \cup Accounts(saved)
        BY <2>2, <3>1, <3>3, FormBounds
      <3>5. Replaces(y, saved, keys') /\ Owns(y, saved, lost')
        BY <3>1, <3>3 DEF Replaces, Owns
      <3>6. Proposed(y)
        BY <3>1, FormNow DEF Proposed
      <3> QED
        BY <2>2, <3>1, <3>2, <3>3, <3>4, <3>5, <3>6, FormNow, JobMoves
    <2> QED
      BY <1>2, <2>1, <2>2 DEF E!Lock
  <1>3. CASE E!Review(j)
    <2>1. CASE E!End(j, "none")
      BY <1>1, <1>3, <2>1 DEF E!Review
    <2>2. CASE E!Goto(j, "lock") /\ UNCHANGED <<saveLock, edited>>
      <3>1. PICK y \in FormJob :
              /\ y = [job[j] EXCEPT !.pc = "lock"] /\ y.pc = "lock"
              /\ y.request = job[j].request /\ y.patch = job[j].patch
              /\ y.expected = job[j].expected /\ y.shown = job[j].shown
              /\ y.next = job[j].next /\ y.account = job[j].account
        BY FormNow, JobGoes
      <3>2. job' = [job EXCEPT ![j] = y]
        BY <2>2, <3>1 DEF E!Goto
      <3>3. /\ job[j].pc = "review" /\ y.account = 0 /\ saveLock # j
            /\ UNCHANGED <<saved, keys, made, lost, saveLock, edited>>
        BY <1>3, <2>2, <3>1, FormNow DEF E!Review
      <3>4. /\ y.pc \notin {"check", "key", "write", "undo"}
            /\ y.pc \notin {"key", "write"}
            /\ job[j].account \in {0, y.account} \cup lost' \cup Accounts(saved)
        BY <3>1, <3>3
      <3>5. Replaces(y, saved, keys') /\ Owns(y, saved, lost')
        BY <3>1, <3>3 DEF Replaces, Owns
      <3>6. Proposed(y)
        BY <3>1, FormNow DEF Proposed
      <3> QED
        BY <3>1, <3>2, <3>3, <3>4, <3>5, <3>6, FormNow, JobMoves
    <2> QED
      BY <1>3, <2>1, <2>2 DEF E!Review
  <1>4. CASE E!Crash(j)
    <2>1. /\ E!End(j, "none") /\ UNCHANGED <<saved, keys, made>>
          /\ lost' = lost \cup ({job[j].account} \ {0})
      BY <1>4 DEF E!Crash
    <2>2. job[j].account \in 0 .. made
      <3>1. \A k \in keys \cup lost : k \in 0 .. made
        BY FormNow
      <3>2. Accounts(saved) \subseteq keys
        BY FormParts DEF E!SavedCanLogIn, Accounts
      <3>3. CASE job[j].account = 0
        BY <3>3, FormNow
      <3>4. CASE job[j].account # 0
        BY <3>1, <3>2, <3>4, FormNow DEF Replaces, Owns
      <3> QED
        BY <3>3, <3>4
    <2>3. lost' \subseteq 1 .. made
      BY <2>1, <2>2, FormNow
    <2> QED
      BY <2>1, <2>3, EndKeeps
  <1>5. CASE E!Activate(j)
    <2>1. CASE E!End(j, "none")
      BY <1>1, <1>5, <2>1 DEF E!Activate
    <2>2. CASE /\ job' = [job EXCEPT ![j].pc = "idle", ![j].account = 0,
                                     ![j].next = E!NoFile,
                                     ![j].result = "inactive"]
               /\ UNCHANGED <<saveLock, edited>>
      <3>1. PICK y : y = [job[j] EXCEPT !.pc = "idle", !.account = 0,
                                        !.next = E!NoFile, !.result = "inactive"]
        OBVIOUS
      <3>2. E!NoFile \in Config
        BY DEF E!NoFile, Config
      <3>3. /\ y \in FormJob /\ y.pc = "idle" /\ y.account = 0
            /\ y.request = job[j].request /\ y.patch = job[j].patch
            /\ y.expected = job[j].expected /\ y.shown = job[j].shown
        BY <3>1, <3>2, FormNow DEF FormJob
      <3>4. job' = [job EXCEPT ![j] = y]
        BY <2>2, <3>1
      <3>5. /\ job[j].pc = "activate" /\ saveLock # j
            /\ UNCHANGED <<saved, keys, made, lost, saveLock, edited>>
        BY <1>5, <2>2, FormNow DEF E!Activate
      <3>6. /\ y.pc \notin {"check", "key", "write", "undo"}
            /\ y.pc \notin {"key", "write"}
            /\ job[j].account \in {0, y.account} \cup lost' \cup Accounts(saved)
        BY <3>3, <3>5, FormNow DEF Owns
      <3>7. Replaces(y, saved, keys') /\ Owns(y, saved, lost')
        BY <3>3 DEF Replaces, Owns
      <3>8. Proposed(y)
        BY <3>3, FormNow DEF Proposed
      <3> QED
        BY <3>3, <3>4, <3>5, <3>6, <3>7, <3>8, FormNow, JobMoves
    <2> QED
      BY <1>5, <2>1, <2>2 DEF E!Activate
  <1> QED
    BY <1>2, <1>3, <1>4, <1>5

------------------------------------------------------------------------------

\* A connection whose device, name and origin are not saved yet.
LEMMA CheckConnectKeeps ==
  ASSUME FormInv, NEW j \in Users, E!CheckConnect(j)
  PROVE  FormInv'
  <1>0. /\ job[j].pc = "check" /\ job[j].request # None /\ job[j].patch = None
        /\ job[j].account = 0 /\ saveLock = j
        /\ UNCHANGED <<saved, keys, made, lost>>
    BY FormNow DEF E!CheckConnect, Proposed
  <1>1. CASE E!End(j, "none")
    BY <1>0, <1>1, FormNow, EndKeeps
  <1>2. CASE /\ ~E!Clash(j) /\ E!Same(j) = {} /\ UNCHANGED <<saveLock, edited>>
             /\ job' = [job EXCEPT
                  ![j].pc = IF job[j].machine.password THEN "key" ELSE "write",
                  ![j].expected = saved, ![j].next = E!With(j, 0)]
    <2>1. /\ job[j].request \in TheForms /\ job[j].machine.id \in Identity
          /\ job[j].machine.password \in BOOLEAN
      BY <1>0, FormNow DEF FormJob
    <2>2. PICK d : d = [name |-> job[j].request.name,
                        origin |-> job[j].request.origin,
                        id |-> job[j].machine.id, account |-> 0,
                        input |-> job[j].request.control]
      OBVIOUS
    <2>3. /\ d \in Saved /\ d.account = 0 /\ d.id = job[j].machine.id
          /\ d.name = job[j].request.name /\ d.origin = job[j].request.origin
      BY <2>1, <2>2, Forms DEF Saved
    <2>4. PICK n : n = E!With(j, 0)
      OBVIOUS
    <2>5. n = [devices |-> saved.devices \cup {d}, present |-> TRUE,
               input |-> IF saved.present THEN saved.input
                         ELSE job[j].request.control]
      BY <2>2, <2>4 DEF E!With
    <2>6. n.devices = saved.devices \cup {d}
      BY <2>5
    <2>7. n \in Config
      <3>1. /\ saved.devices \subseteq Saved /\ saved.input \in BOOLEAN
            /\ job[j].request.control \in BOOLEAN
        BY <2>1, FormNow, Forms DEF Config
      <3>2. PICK i \in BOOLEAN : i = IF saved.present THEN saved.input
                                     ELSE job[j].request.control
        BY <3>1
      <3> QED
        BY <2>3, <2>5, <3>1, <3>2 DEF Config
    <2>8. Accounts(n) = Accounts(saved)
      BY <2>3, <2>6 DEF Accounts
    <2>9. Once(n)
      <3>1. \A e \in saved.devices :
              e.id # d.id /\ e.name # d.name /\ e.origin # d.origin
        BY <1>2, <2>3 DEF E!Clash, E!Same
      <3>2. Once(saved)
        BY FormParts, OnceSaved
      <3> QED
        BY <2>6, <3>1, <3>2 DEF Once
    <2>10. Accounts(saved) \subseteq keys /\ d \notin saved.devices
      <3>1. Accounts(saved) \subseteq keys
        BY FormParts DEF E!SavedCanLogIn, Accounts
      <3> QED
        BY <1>2, <2>3, <3>1 DEF E!Same
    <2>11. PICK pc \in {"key", "write"} :
             pc = IF job[j].machine.password THEN "key" ELSE "write"
      OBVIOUS
    <2>12. PICK y : y = [job[j] EXCEPT !.pc = pc, !.expected = saved, !.next = n]
      OBVIOUS
    <2>13. /\ y \in FormJob /\ y.pc = pc /\ y.account = 0 /\ y.patch = None
           /\ y.expected = saved /\ y.next = n
      BY <1>0, <2>7, <2>11, <2>12, FormNow, ZenonT(40) DEF FormJob
    <2>14. job' = [job EXCEPT ![j] = y]
      BY <1>2, <2>4, <2>11, <2>12
    <2>15. Replaces(y, saved, keys') /\ Owns(y, saved, lost') /\ Proposed(y)
      <3>1. Replaces(y, saved, keys')
        BY <1>0, <2>6, <2>8, <2>9, <2>10, <2>11, <2>13 DEF Replaces
      <3> QED
        BY <2>11, <2>13, <3>1 DEF Owns, Proposed, Accounts
    <2>16. /\ y.pc \in {"check", "key", "write", "undo"}
           /\ job[j].account \in {0, y.account} \cup lost' \cup Accounts(saved)
      BY <1>0, <2>11, <2>13
    <2> QED
      BY <1>0, <1>2, <2>13, <2>14, <2>15, <2>16, FormNow, JobMoves
  <1> QED
    BY <1>1, <1>2 DEF E!CheckConnect

\* The new device gets a new account; what was read keeps its accounts.
LEMMA SetKeyKeeps ==
  ASSUME FormInv, NEW j \in Users, E!SetKey(j)
  PROVE  FormInv'
  <1>0. /\ job[j].pc = "key" /\ job[j].account = 0 /\ made < MaxAccounts
        /\ saveLock = j /\ UNCHANGED <<saved, lost>>
    BY FormNow DEF E!SetKey
  <1>1. CASE E!End(j, "none") /\ UNCHANGED <<keys, made>>
    BY <1>0, <1>1, FormNow, EndKeeps
  <1>2. CASE /\ made' = made + 1 /\ keys' = keys \cup {made + 1}
             /\ job' = [job EXCEPT
                  ![j].pc = "write", ![j].account = made + 1,
                  ![j].next.devices =
                    {IF d \in job[j].expected.devices THEN d
                     ELSE [d EXCEPT !.account = made + 1] : d \in @}]
             /\ UNCHANGED <<saveLock, edited>>
    <2>1. PICK n \in Nat : n = made + 1
      BY FormNow
    <2>2. n # 0 /\ n = made' /\ n \notin keys /\ n \in 1 .. n /\ keys \subseteq 1 .. n
      BY <1>2, <2>1, FormNow
    <2>3. /\ job[j].expected \in Config /\ job[j].next \in Config
          /\ job[j].next.devices \subseteq Saved
      BY FormNow DEF FormJob, Config
    <2> DEFINE Read == job[j].expected.devices
               Key(d) == IF d \in Read THEN d ELSE [d EXCEPT !.account = n]
    <2>4. ASSUME NEW d \in Saved
          PROVE  /\ Key(d) \in Saved /\ Key(d).id = d.id /\ Key(d).name = d.name
                 /\ Key(d).origin = d.origin
                 /\ d \in Read => Key(d) = d
                 /\ d \notin Read => Key(d).account = n
      <3>1. PICK c : c = [d EXCEPT !.account = n]
        OBVIOUS
      <3>2. /\ c \in Saved /\ c.account = n /\ c.id = d.id
            /\ c.name = d.name /\ c.origin = d.origin
        BY <3>1 DEF Saved
      <3> QED
        BY <3>1, <3>2
    <2> HIDE DEF Key
    <2>5. PICK f : f = [job[j].next EXCEPT !.devices = {Key(d) : d \in @}]
      OBVIOUS
    <2>6. f.devices = {Key(d) : d \in job[j].next.devices}
      BY <2>3, <2>5 DEF Config
    <2>7. f \in Config
      <3>1. f.devices \in SUBSET Saved
        BY <2>3, <2>4, <2>6
      <3> QED
        BY <2>3, <2>5, <2>6, <3>1 DEF Config
    <2>8. PICK y : y = [job[j] EXCEPT !.pc = "write", !.account = n, !.next = f]
      OBVIOUS
    <2>9. /\ y \in FormJob /\ y.pc = "write" /\ y.account = n /\ y.next = f
          /\ y.patch = job[j].patch /\ y.request = job[j].request
          /\ y.expected = job[j].expected /\ y.shown = job[j].shown
      BY <2>7, <2>8, FormNow DEF FormJob
    <2>10. job' = [job EXCEPT ![j] = y]
      <3>1. PICK s : s = {Key(d) : d \in job[j].next.devices}
        OBVIOUS
      <3>2. s = {IF d \in job[j].expected.devices THEN d
                 ELSE [d EXCEPT !.account = made + 1] : d \in job[j].next.devices}
        BY <2>1, <3>1 DEF Key
      <3>3. job \in [Users -> FormJob]
        BY FormParts DEF FormTyped
      <3>4. job' = [job EXCEPT ![j].pc = "write", ![j].account = made + 1,
                               ![j].next.devices = s]
        BY <1>2, <3>2, <3>3 DEF FormJob
      <3>5. f = [job[j].next EXCEPT !.devices = s]
        BY <2>5, <3>1
      <3>6. job' = [job EXCEPT ![j].pc = "write", ![j].account = n, ![j].next = f]
        BY <2>1, <3>3, <3>4, <3>5 DEF FormJob
      <3> QED
        BY <2>8, <3>3, <3>6
    <2>11. /\ Read \subseteq job[j].next.devices /\ Read # job[j].next.devices
           /\ Accounts(saved) \subseteq Accounts(job[j].expected)
           /\ Accounts(job[j].expected) \subseteq keys /\ Once(job[j].next)
           /\ job[j].patch = None
      BY <1>0, FormNow DEF Replaces, Proposed
    <2>12. Accounts(job[j].expected) \subseteq Accounts(f)
      <3>1. Read \subseteq f.devices
        BY <2>3, <2>4, <2>6, <2>11
      <3> QED
        BY <3>1 DEF Accounts
    <2>13. Accounts(f) \subseteq keys'
      <3> SUFFICES ASSUME NEW d \in job[j].next.devices, Key(d).account # 0
                   PROVE  Key(d).account \in keys'
        BY <2>6 DEF Accounts
      <3>1. CASE d \in Read
        BY <1>2, <2>3, <2>4, <2>11, <3>1 DEF Accounts
      <3>2. CASE d \notin Read
        BY <1>2, <2>1, <2>3, <2>4, <3>2
      <3> QED
        BY <3>1, <3>2
    <2>14. Once(f)
      <3> SUFFICES ASSUME NEW d \in job[j].next.devices,
                          NEW e \in job[j].next.devices,
                          \/ Key(d).id = Key(e).id \/ Key(d).name = Key(e).name
                          \/ Key(d).origin = Key(e).origin
                   PROVE  Key(d) = Key(e)
        BY <2>6 DEF Once
      <3>1. d.id = e.id \/ d.name = e.name \/ d.origin = e.origin
        BY <2>3, <2>4
      <3> QED
        BY <2>11, <3>1 DEF Once
    <2>15. n \in Accounts(f)
      <3>1. PICK d \in job[j].next.devices : d \notin Read
        BY <2>11
      <3>2. Key(d) \in f.devices /\ Key(d).account = n
        BY <2>3, <2>4, <2>6, <3>1
      <3> QED
        BY <2>2, <3>2 DEF Accounts
    <2>16. Replaces(y, saved, keys')
      BY <2>9, <2>11, <2>12, <2>13, <2>14, <2>15 DEF Replaces
    <2>17. Owns(y, saved, lost')
      <3>1. n \notin Accounts(saved)
        BY <2>2, <2>11
      <3> QED
        BY <2>9, <3>1 DEF Owns
    <2>18. Proposed(y)
      BY <2>9, <2>11, FormNow DEF Proposed
    <2>19. /\ y.pc \in {"check", "key", "write", "undo"}
           /\ y.pc \in {"write", "undo", "activate"}
           /\ job[j].account \in {0, y.account} \cup lost' \cup Accounts(saved)
           /\ \A k \in keys' \ keys : y.account = k
      BY <1>0, <1>2, <2>1, <2>9
    <2>20. /\ made' \in 0 .. MaxAccounts /\ made <= made'
           /\ keys' \subseteq 1 .. made' /\ keys \subseteq keys'
           /\ lost' \subseteq 1 .. made' /\ lost \subseteq lost'
      BY <1>0, <1>2, <2>2, FormNow, FormBounds
    <2>21. saved = job[j].expected \/ j \in edited
      BY <1>0, FormNow
    <2> QED
      BY <1>0, <1>2, <2>9, <2>10, <2>16, <2>17, <2>18, <2>19, <2>20, <2>21, FormNow,
         JobMoves
  <1> QED
    BY <1>1, <1>2 DEF E!SetKey

\* An approved change, if the configuration is the one that was shown.
LEMMA CheckUpdateKeeps ==
  ASSUME FormInv, NEW j \in Users, E!CheckUpdate(j)
  PROVE  FormInv'
  <1>0. /\ job[j].pc = "check" /\ job[j].patch # None /\ job[j].account = 0
        /\ job[j].request = None /\ saveLock = j
        /\ UNCHANGED <<saved, keys, made, lost>>
    BY FormNow DEF E!CheckUpdate, Proposed
  <1>1. ASSUME NEW result \in {"none", "stale"}, E!End(j, result)
        PROVE  FormInv'
    BY <1>0, <1>1, FormNow, EndKeeps
  <1>2. CASE /\ saved = job[j].expected /\ UNCHANGED <<saveLock, edited>>
             /\ job' = [job EXCEPT ![j].pc = "write",
                                   ![j].next = E!Apply(saved, job[j].patch)]
    <2>1. job[j].patch \in ThePatches
      BY <1>0, FormNow DEF FormJob
    <2>2. PICK n \in Config : n = E!Apply(saved, job[j].patch)
      BY <2>1, FormNow, ApplyKeeps
    <2>3. /\ Accounts(n) = Accounts(saved) /\ Once(n)
          /\ Accounts(saved) \subseteq keys
      <3>1. Accounts(saved) \subseteq keys
        BY FormParts DEF E!SavedCanLogIn, Accounts
      <3> QED
        BY <2>1, <2>2, <3>1, FormNow, FormParts, OnceSaved, ApplyKeeps
    <2>4. PICK y : y = [job[j] EXCEPT !.pc = "write", !.next = n]
      OBVIOUS
    <2>5. /\ y \in FormJob /\ y.pc = "write" /\ y.account = 0 /\ y.next = n
          /\ y.request = None /\ y.patch = job[j].patch
          /\ y.expected = job[j].expected /\ y.shown = job[j].shown
      BY <1>0, <2>2, <2>4, FormNow, ZenonT(40) DEF FormJob
    <2>6. job' = [job EXCEPT ![j] = y]
      BY <1>2, <2>2, <2>4
    <2>7. Replaces(y, saved, keys')
      BY <1>0, <2>3, <2>5 DEF Replaces
    <2>8. Owns(y, saved, lost')
      BY <2>5 DEF Owns, Accounts
    <2>9. Proposed(y)
      BY <1>0, <1>2, <2>2, <2>5, FormNow DEF Proposed
    <2>10. /\ y.pc \in {"check", "key", "write", "undo"}
           /\ job[j].account \in {0, y.account} \cup lost' \cup Accounts(saved)
      BY <1>0, <2>5
    <2> QED
      BY <1>0, <1>2, <2>5, <2>6, <2>7, <2>8, <2>9, <2>10, FormNow, JobMoves
  <1> QED
    BY <1>1, <1>2 DEF E!CheckUpdate

\* The configuration is replaced by what was made of it, or it is not and the
\* account that was made has to go.
LEMMA WriteKeeps ==
  ASSUME FormInv, NEW j \in Users, E!Write(j)
  PROVE  FormInv'
  <1>0. /\ job[j].pc = "write" /\ saveLock = j /\ UNCHANGED <<keys, made, lost>>
        /\ job[j] \in FormJob /\ job[j].next \in Config
    BY FormNow DEF E!Write, FormJob
  <1>1. /\ Accounts(saved) \subseteq Accounts(job[j].next)
        /\ Accounts(job[j].next) \subseteq keys /\ Once(job[j].next)
        /\ job[j].account # 0 => job[j].account \in Accounts(job[j].next)
        /\ job[j].account \notin Accounts(saved)
    BY <1>0, FormNow DEF Replaces, Owns
  <1>2. ASSUME saved' = job[j].next, NEW y \in FormJob, job' = [job EXCEPT ![j] = y],
               edited' = edited \ {j}, saveLock' = None,
               y.pc \in {"idle", "activate"}, Proposed(y),
               \/ y.account = 0
               \/ y.pc = "activate" /\ y.account = job[j].account
        PROVE  FormInv'
    <2>1. job'[j] = y /\ \A x \in Users \ {j} : job'[x] = job[x]
      BY <1>2, FormParts DEF FormTyped
    <2>2. E!SavedCanLogIn'
      BY <1>0, <1>1, <1>2 DEF E!SavedCanLogIn, Accounts
    <2>3. Claimed'
      <3> SUFFICES ASSUME NEW k \in keys
                   PROVE  \/ k \in lost \/ k \in Accounts(job[j].next)
                          \/ \E x \in Users : job'[x].account = k
        BY <1>0, <1>2 DEF Claimed
      <3>1. k # 0
        BY FormParts DEF FormTyped
      <3>2. CASE k \in lost \/ k \in Accounts(saved)
        BY <1>1, <3>2
      <3>3. CASE \E x \in Users : job[x].account = k
        BY <1>1, <2>1, <3>1, <3>3
      <3> QED
        BY <3>2, <3>3, FormParts DEF Claimed
    <2>4. E!SavedOnce'
      BY <1>1, <1>2 DEF E!SavedOnce, Once
    <2>5. ASSUME NEW x \in Users \ {j}
          PROVE  /\ Replaces(job[x], saved', keys') /\ Owns(job[x], saved', lost')
                 /\ job[x].pc \in {"key", "write"} /\ x \notin edited' =>
                      saved' = job[x].expected
      <3>1. job[x].pc \notin {"check", "key", "write", "undo"}
        BY <1>0, FormParts DEF E!TypeOK
      <3>2. Replaces(job[x], saved', keys')
        BY <3>1 DEF Replaces
      <3>3. Owns(job[x], saved', lost')
        BY <1>0, <1>1, <1>2, <3>1, FormParts DEF Owns, JobsOwn
      <3> QED
        BY <3>1, <3>2, <3>3
    <2>6. Replaces(y, saved', keys')
      BY <1>2 DEF Replaces
    <2>7. Owns(y, saved', lost')
      BY <1>1, <1>2 DEF Owns
    <2>8. /\ saveLock' \in Users \cup {None} /\ saveLock' # j
          /\ \A x \in Users \ {j} : saveLock' = x <=> saveLock = x
          /\ y.pc \notin {"check", "key", "write", "undo"}
          /\ y.account # 0 => y.pc \in {"write", "undo", "activate"}
          /\ y.pc \notin {"key", "write"}
      BY <1>0, <1>2, FormBounds
    <2>9. edited' \subseteq Users /\ saved' \in Config
      BY <1>0, <1>2, FormParts DEF FormTyped
    <2> QED
      BY <1>0, <1>2, <2>2, <2>3, <2>4, <2>5, <2>6, <2>7, <2>8, <2>9, FormNow, JobSteps
  <1>3. CASE /\ saved' = job[j].next /\ job' = [job EXCEPT ![j].pc = "activate"]
             /\ saveLock' = None /\ edited' = edited \ {j}
    <2>1. PICK y \in FormJob :
            /\ y = [job[j] EXCEPT !.pc = "activate"] /\ y.pc = "activate"
            /\ y.request = job[j].request /\ y.patch = job[j].patch
            /\ y.expected = job[j].expected /\ y.shown = job[j].shown
            /\ y.next = job[j].next /\ y.account = job[j].account
      BY <1>0, JobGoes
    <2>2. job' = [job EXCEPT ![j] = y]
      BY <1>3, <2>1
    <2>3. Proposed(y)
      BY <2>1, FormNow DEF Proposed
    <2> QED
      BY <1>2, <1>3, <2>1, <2>2, <2>3
  <1>4. CASE saved' = job[j].next /\ E!End(j, "none")
    <2>1. PICK again \in BOOLEAN : again = (job[j].again /\ "none" = "stale")
      OBVIOUS
    <2>2. PICK y \in FormJob :
            /\ y = [E!Idle EXCEPT !.result = "none", !.again = again]
            /\ y.pc = "idle" /\ y.account = 0 /\ y.patch = None
            /\ y.request = None
      BY EndedJob
    <2>3. /\ job' = [job EXCEPT ![j] = y] /\ edited' = edited \ {j}
          /\ saveLock' = None
      BY <1>0, <1>4, <2>1, <2>2 DEF E!End
    <2>4. Proposed(y) /\ y.pc \in {"idle", "activate"} /\ y.account = 0
      BY <2>2 DEF Proposed
    <2> QED
      BY <1>2, <1>4, <2>3, <2>4
  <1>5. CASE UNCHANGED saved /\ E!Goto(j, "undo") /\ UNCHANGED <<saveLock, edited>>
    <2>1. PICK y \in FormJob :
            /\ y = [job[j] EXCEPT !.pc = "undo"] /\ y.pc = "undo"
            /\ y.request = job[j].request /\ y.patch = job[j].patch
            /\ y.expected = job[j].expected /\ y.shown = job[j].shown
            /\ y.next = job[j].next /\ y.account = job[j].account
      BY <1>0, JobGoes
    <2>2. job' = [job EXCEPT ![j] = y]
      BY <1>5, <2>1 DEF E!Goto
    <2>3. /\ Proposed(y) /\ Replaces(y, saved, keys') /\ Owns(y, saved, lost')
      <3>1. Proposed(y)
        BY <2>1, FormNow DEF Proposed
      <3>2. Replaces(y, saved, keys')
        BY <1>0, <1>1, <2>1 DEF Replaces
      <3>3. Owns(y, saved, lost')
        BY <1>1, <2>1 DEF Owns
      <3> QED
        BY <3>1, <3>2, <3>3
    <2>4. /\ y.pc \in {"check", "key", "write", "undo"} /\ y.pc \notin {"key", "write"}
          /\ y.pc \in {"write", "undo", "activate"}
          /\ job[j].account \in {0, y.account} \cup lost' \cup Accounts(saved)
      BY <2>1
    <2> QED
      BY <1>0, <1>5, <2>1, <2>2, <2>3, <2>4, FormNow, JobMoves
  <1> QED
    BY <1>3, <1>4, <1>5 DEF E!Write

\* The account that was made is deleted: nothing that is saved has it.
LEMMA UndoKeeps ==
  ASSUME FormInv, NEW j \in Users, E!Undo(j)
  PROVE  FormInv'
  <1>0. /\ job[j].pc = "undo" /\ saveLock = j /\ UNCHANGED <<saved, made>>
        /\ E!End(j, "none") /\ job[j].account \notin Accounts(saved)
        /\ job[j].account # 0 => job[j].account \in keys
    BY FormNow DEF E!Undo, Owns, Replaces
  <1>1. CASE UNCHANGED keys /\ lost' = lost \cup ({job[j].account} \ {0})
    <2>1. /\ lost' \subseteq 1 .. made /\ lost \subseteq lost'
          /\ job[j].account \in {0} \cup lost' \cup Accounts(saved)
      BY <1>0, <1>1, FormNow
    <2> QED
      BY <1>0, <1>1, <2>1, EndKeeps
  <1>2. CASE /\ job[j].account # 0 /\ keys' = keys \ {job[j].account}
             /\ UNCHANGED lost
    <2>1. PICK again \in BOOLEAN : again = (job[j].again /\ "none" = "stale")
      OBVIOUS
    <2>2. PICK y \in FormJob :
            /\ y = [E!Idle EXCEPT !.result = "none", !.again = again]
            /\ y.pc = "idle" /\ y.account = 0 /\ y.patch = None
            /\ y.request = None
      BY EndedJob
    <2>3. /\ job' = [job EXCEPT ![j] = y] /\ edited' = edited \ {j}
          /\ saveLock' = None
      BY <1>0, <2>1, <2>2 DEF E!End
    <2>4. job'[j] = y /\ \A x \in Users \ {j} : job'[x] = job[x]
      BY <2>3, FormParts DEF FormTyped
    <2>5. E!SavedCanLogIn'
      <3>1. Accounts(saved) \subseteq keys
        BY FormParts DEF E!SavedCanLogIn, Accounts
      <3>2. Accounts(saved) \subseteq keys'
        BY <1>0, <1>2, <3>1
      <3> QED
        BY <1>0, <3>2 DEF E!SavedCanLogIn, Accounts
    <2>6. Claimed'
      <3> SUFFICES ASSUME NEW k \in keys, k # job[j].account
                   PROVE  \/ k \in lost \/ k \in Accounts(saved)
                          \/ \E x \in Users : job'[x].account = k
        BY <1>0, <1>2 DEF Claimed
      <3> QED
        BY <2>4, FormParts DEF Claimed
    <2>7. E!SavedOnce'
      BY <1>0, FormParts DEF E!SavedOnce
    <2>8. ASSUME NEW x \in Users \ {j}
          PROVE  /\ Replaces(job[x], saved', keys') /\ Owns(job[x], saved', lost')
                 /\ job[x].pc \in {"key", "write"} /\ x \notin edited' =>
                      saved' = job[x].expected
      <3>1. job[x].pc \notin {"check", "key", "write", "undo"}
        BY <1>0, FormParts DEF E!TypeOK
      <3>2. Replaces(job[x], saved', keys')
        BY <3>1 DEF Replaces
      <3>3. Owns(job[x], saved', lost')
        BY <1>0, <1>2, FormParts DEF JobsOwn
      <3> QED
        BY <3>1, <3>2, <3>3
    <2>9. Replaces(y, saved', keys') /\ Owns(y, saved', lost') /\ Proposed(y)
      BY <2>2 DEF Replaces, Owns, Proposed
    <2>10. /\ saveLock' \in Users \cup {None} /\ saveLock' # j
           /\ \A x \in Users \ {j} : saveLock' = x <=> saveLock = x
           /\ y.pc \notin {"check", "key", "write", "undo"}
           /\ y.pc \notin {"key", "write"}
      BY <1>0, <2>2, <2>3, FormBounds
    <2>11. edited' \subseteq Users /\ saved' \in Config /\ keys' \subseteq 1 .. made'
      BY <1>0, <1>2, <2>3, FormParts DEF FormTyped
    <2> QED
      BY <1>0, <1>2, <2>2, <2>3, <2>5, <2>6, <2>7, <2>8, <2>9, <2>10, <2>11, FormNow,
         JobSteps
  <1> QED
    BY <1>0, <1>1, <1>2 DEF E!Undo

\* An editor that knows nothing of the lock takes a device out or changes the
\* permission: the accounts it takes out are lost.
LEMMA EditorKeeps ==
  ASSUME FormInv, E!Edit
  PROVE  FormInv'
  <1>0. /\ UNCHANGED <<keys, made, saveLock, job>>
        /\ edited' = {j \in Users : job[j].pc \in {"write", "key"}}
        /\ lost' = lost \cup
             ({d.account : d \in saved.devices \ saved'.devices} \ {0})
    BY DEF E!Edit
  <1>1. saved' \in Config /\ saved'.devices \subseteq saved.devices
    <2>1. ASSUME NEW d \in saved.devices,
                 saved' = [saved EXCEPT !.devices = @ \ {d}]
          PROVE  saved' \in Config /\ saved'.devices \subseteq saved.devices
      BY <2>1, FormParts DEF Config
    <2>2. CASE saved' = [saved EXCEPT !.input = ~@]
      BY <2>2, FormParts DEF Config
    <2> QED
      BY <2>1, <2>2 DEF E!Edit
  <1>2. Accounts(saved') \subseteq Accounts(saved)
    BY <1>1 DEF Accounts
  <1>3. Accounts(saved) \subseteq lost' \cup Accounts(saved')
    BY <1>0 DEF Accounts
  <1>4. Accounts(saved) \subseteq keys
    BY FormParts DEF E!SavedCanLogIn, Accounts
  <1>5. lost \subseteq lost' /\ lost' \subseteq 1 .. made
    <2>1. \A d \in saved.devices : d.account # 0 => d.account \in keys
      BY FormParts DEF E!SavedCanLogIn
    <2>2. keys \subseteq 1 .. made /\ lost \subseteq 1 .. made
      BY FormParts DEF FormTyped, E!TypeOK
    <2> QED
      BY <1>0, <2>1, <2>2
  <1>6. FormTyped'
    BY <1>0, <1>1, FormParts DEF FormTyped
  <1>7. E!TypeOK'
    BY <1>0, <1>5, FormParts DEF E!TypeOK
  <1>8. E!SavedCanLogIn'
    BY <1>0, <1>1, FormParts DEF E!SavedCanLogIn
  <1>9. Claimed'
    BY <1>0, <1>3, <1>5, FormParts DEF Claimed
  <1>10. E!SavedOnce'
    BY <1>1, FormParts DEF E!SavedOnce
  <1>11. ASSUME NEW x \in Users
         PROVE  Replaces(job[x], saved', keys) /\ Owns(job[x], saved', lost')
    <2>1. Replaces(job[x], saved, keys) /\ Owns(job[x], saved, lost)
      BY FormParts DEF JobsReplace, JobsOwn
    <2>2. Replaces(job[x], saved', keys)
      BY <1>2, <2>1 DEF Replaces
    <2>3. Owns(job[x], saved', lost')
      BY <1>2, <1>3, <1>5, <2>1 DEF Owns
    <2> QED
      BY <2>2, <2>3
  <1>12. JobsReplace' /\ JobsOwn'
    BY <1>0, <1>11 DEF JobsReplace, JobsOwn
  <1>13. JobsProposed'
    BY <1>0, FormParts DEF JobsProposed
  <1>14. ReadStill'
    BY <1>0 DEF ReadStill
  <1> QED
    BY <1>6, <1>7, <1>8, <1>9, <1>10, <1>12, <1>13, <1>14 DEF FormInv

LEMMA FormStep ==
  ASSUME FormInv, E!Next
  PROVE  FormInv'
  <1>1. ASSUME NEW j \in Users,
               \/ \E r \in TheForms : E!Connect(j, r)
               \/ \E p \in ThePatches : E!Preview(j, p)
               \/ E!Resubmit(j) \/ E!JobStep(j) \/ E!Crash(j)
        PROVE  FormInv'
    BY <1>1, BeginKeeps, WaitKeeps, CheckConnectKeeps, SetKeyKeeps,
       CheckUpdateKeeps, WriteKeeps, UndoKeeps DEF E!JobStep
  <1> QED
    BY <1>1, EditorKeeps DEF E!Next

LEMMA FormInvHolds == E!Spec => []FormInv
  <1>1. E!Init => FormInv
    <2> SUFFICES ASSUME E!Init
                 PROVE  FormInv
      OBVIOUS
    <2>1. PICK f : f = E!NoFile
      OBVIOUS
    <2>2. f \in Config /\ f.devices = {}
      BY <2>1 DEF E!NoFile, Config
    <2>3. PICK y : y = E!Idle
      OBVIOUS
    <2>4. y = [pc |-> "idle", request |-> None, patch |-> None,
               expected |-> f, shown |-> f, next |-> f, account |-> 0,
               result |-> "none", again |-> FALSE,
               machine |-> [id |-> None, password |-> FALSE]]
      BY <2>1, <2>3 DEF E!Idle
    <2>5. y \in FormJob
      BY <2>2, <2>4 DEF FormJob, Identity
    <2>6. /\ saved = f /\ keys = {} /\ made = 0 /\ lost = {} /\ saveLock = None
          /\ job = [j \in Users |-> y] /\ edited = {}
      BY <2>1, <2>3 DEF E!Init
    <2>7. \A j \in Users : job[j] = y
      BY <2>6
    <2>8. y.pc = "idle" /\ y.account = 0 /\ y.patch = None
      BY <2>4
    <2>9. FormTyped
      BY <2>2, <2>5, <2>6 DEF FormTyped
    <2>10. E!TypeOK
      BY <2>6, <2>7, <2>8, FormBounds DEF E!TypeOK
    <2>11. E!SavedCanLogIn /\ Claimed /\ E!SavedOnce
      BY <2>2, <2>6 DEF E!SavedCanLogIn, Claimed, E!SavedOnce
    <2>12. JobsReplace /\ JobsOwn /\ JobsProposed /\ ReadStill
      BY <2>7, <2>8
         DEF JobsReplace, Replaces, JobsOwn, Owns, JobsProposed, Proposed, ReadStill
    <2> QED
      BY <2>9, <2>10, <2>11, <2>12 DEF FormInv
  <1>2. FormInv /\ [E!Next]_(E!vars) => FormInv'
    <2> SUFFICES ASSUME FormInv, [E!Next]_(E!vars)
                 PROVE  FormInv'
      OBVIOUS
    <2>1. CASE UNCHANGED E!vars
      BY <2>1
         DEF E!vars, FormInv, FormTyped, E!TypeOK, E!SavedCanLogIn, Claimed,
             E!SavedOnce, JobsReplace, JobsOwn, JobsProposed, ReadStill
    <2> QED
      BY <2>1, FormStep
  <1> QED
    BY <1>1, <1>2, PTL DEF E!Spec

LEMMA FormSound ==
  ASSUME FormInv
  PROVE  E!TypeOK /\ E!SavedCanLogIn /\ E!NoStrayCredential /\ E!SavedOnce
  <1>1. E!NoStrayCredential
    BY FormParts DEF E!NoStrayCredential, Claimed, Accounts
  <1> QED
    BY <1>1, FormParts

\* What a job writes is what was shown, whatever step is taken.
LEMMA FormWrites ==
  ASSUME FormInv, NEW j \in Users, job[j].pc = "write", saved' = job[j].next,
         j \notin edited
  PROVE  saved = job[j].expected /\ (job[j].patch # None => saved' = job[j].shown)
  BY FormNow DEF Proposed

\* Enrollment by itself: with any number of jobs that may die at any step, a
\* keyring that may fail and an editor that ignores the lock, a saved device can
\* log in, no credential is stray, a device is saved once, and an approved change
\* replaces just what was shown (onboarding/service.go, save and update).
THEOREM FormsSaveSoundly ==
  E!Spec => /\ [](E!SavedCanLogIn /\ E!NoStrayCredential /\ E!SavedOnce)
            /\ E!WritesWhatWasShown
  <1>1. FormInv /\ [E!Next]_(E!vars) =>
          [\A j \in Users :
             (job[j].pc = "write" /\ saved' # saved /\ saved' = job[j].next
              /\ job'[j].pc # "write" /\ j \notin edited) =>
               /\ saved = job[j].expected
               /\ job[j].patch # None => saved' = job[j].shown]_(E!vars)
    BY FormWrites
  <1> QED
    BY <1>1, FormInvHolds, FormSound, PTL DEF E!Spec, E!WritesWhatWasShown

\* In the composition a form is handled as it is alone.
LEMMA HasForm == HostSpec => E!Spec
  <1>1. HostInit => E!Init
    BY DEF HostInit
  <1>2. [HostNext]_hostVars => [E!Next]_(E!vars)
    BY DEF HostNext, hostVars, formVars, E!vars
  <1> QED
    BY <1>1, <1>2, PTL DEF HostSpec, E!Spec

\* What is saved can log in, is saved once and leaves no stray credential, in the
\* composition (onboarding/service.go, save; enrollment.go, writeSettings).
THEOREM FormsSaved == HostSpec => []SavedSound
  <1>1. FormInv => SavedSound
    BY FormSound DEF SavedSound
  <1> QED
    BY <1>1, HasForm, FormInvHolds, PTL

\* An approved change replaces what was shown, in the composition
\* (onboarding/service.go, update).
THEOREM ChangesAsShown == HostSpec => WritesWhatWasShown
  BY HasForm, FormsSaveSoundly, PTL DEF WritesWhatWasShown
=============================================================================
