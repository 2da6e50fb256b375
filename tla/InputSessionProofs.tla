------------------------- MODULE InputSessionProofs -------------------------
(***************************************************************************)
(* Proofs about InputSession, for every set of batches and every queue     *)
(* bound.  What the receipt claims and what the latch covers depend on     *)
(* reports that are still queued, so the inductive invariant speaks about  *)
(* the wire: whatever is held down will be lifted by a queued report.      *)
(***************************************************************************)
EXTENDS InputSession, TLAPS

\* What goes down with one report and up with another is up once a wire w
\* has drained into a device that holds h.
Lifted(h, w, part, down, up) ==
  \/ /\ part \notin h
     /\ \A i \in 1..Len(w) : w[i] # down
  \/ \E i \in 1..Len(w) :
       /\ w[i] = up
       /\ \A j \in 1..Len(w) : j > i => w[j] # down

KeysLifted == Lifted(held, wire, "keys", "keydown", "keyup")
ButtonsLifted == Lifted(held, wire, "buttons", "buttondown", "buttonup")

Quiet == wire = <<>> /\ held = {}

\* Where an operation can be.
Places ==
  /\ op.kind = "none" => op = Idle
  /\ op.pc = "act" => op.kind \in {"none", "run"}
  /\ op.pc = "disconnect" => op.kind = "close"
  /\ op.kind \in {"release", "close"} =>
       op.batch = <<>> /\ op.at = 1 /\ op.status = "accepted"
  /\ Acting => /\ op.batch \in Batches
               /\ op.at <= Len(op.batch)
               /\ op.status = "accepted"
               /\ ~op.bad
               /\ op.frame = 1 \/ op.frame <= Len(Frames(Kind))
  /\ op.pc = "neutral" => /\ op.frame <= Len(Neutral)
                          /\ op.frame = 1 => ~op.bad
  /\ op.pc \in {"neutral", "flush"} =>
       /\ op.status = "accepted" => op.at > Len(op.batch)
       /\ op.status = "partial" => op.at <= Len(op.batch)

\* The lease and the barrier follow the operation.
Owned ==
  /\ leaseHeld <=> op.kind = "run"
  /\ barrier = "nil" <=> op.kind \in {"none", "close"}
  /\ op.kind \in {"run", "release"} /\ sent => barrier = "started"
  /\ op.kind \in {"run", "release"} => capable
  /\ op.kind = "close" /\ op.pc \in {"neutral", "flush"} => ~neutralized

\* What neutralization has achieved so far.
Lifting ==
  /\ op.pc = "neutral" /\ op.frame = 2 /\ ~op.bad => KeysLifted
  /\ op.pc = "flush" /\ ~op.bad => KeysLifted /\ ButtonsLifted
  /\ op.kind = "none" /\ ~uncertain => Quiet
  /\ op.pc = "disconnect" /\ ~uncertain => Quiet

\* A session that counts as neutral without ReleaseInput can press nothing.
Closing ==
  /\ ~capable => neutralized
  /\ neutralized /\ ~released =>
       Quiet /\ (~capable \/ ~link \/ op.pc = "disconnect")
  /\ op.pc = "disconnect" => neutralized
  /\ closed => ~link /\ op.kind = "none" /\ neutralized

Inv == /\ TypeOK
       /\ Places
       /\ Owned
       /\ Lifting
       /\ Closing
       /\ OutcomeJustified

-----------------------------------------------------------------------------

\* Queueing a report other than down keeps what is lifted lifted.
LEMMA LiftedKeeps ==
  ASSUME NEW h, NEW w \in Seq(Frame), NEW f \in Frame, NEW part, NEW down,
         NEW up, f # down, Lifted(h, w, part, down, up)
  PROVE  Lifted(h, Append(w, f), part, down, up)
  <1> DEFINE v == Append(w, f)
  <1>1. /\ Len(v) = Len(w) + 1
        /\ Len(w) \in Nat
        /\ \A i \in 1..Len(w) : v[i] = w[i]
        /\ v[Len(w) + 1] = f
    OBVIOUS
  <1> SUFFICES Lifted(h, v, part, down, up)
    OBVIOUS
  <1> HIDE DEF v
  <1>2. CASE part \notin h /\ \A i \in 1..Len(w) : w[i] # down
    BY <1>1, <1>2 DEF Lifted
  <1>3. CASE \E i \in 1..Len(w) : /\ w[i] = up
                                  /\ \A j \in 1..Len(w) : j > i => w[j] # down
    <2>1. PICK i \in 1..Len(w) : /\ w[i] = up
                                 /\ \A j \in 1..Len(w) : j > i => w[j] # down
      BY <1>3
    <2>2. i \in 1..Len(v) /\ v[i] = up
      BY <1>1, <2>1
    <2>3. \A j \in 1..Len(v) : j > i => v[j] # down
      BY <1>1, <2>1
    <2> QED
      BY <2>2, <2>3 DEF Lifted
  <1>4. \/ part \notin h /\ \A i \in 1..Len(w) : w[i] # down
        \/ \E i \in 1..Len(w) : /\ w[i] = up
                                /\ \A j \in 1..Len(w) : j > i => w[j] # down
    BY DEF Lifted
  <1> QED
    BY <1>2, <1>3, <1>4

\* Queueing the report that lifts lifts.
LEMMA LiftedBy ==
  ASSUME NEW h, NEW w \in Seq(Frame), NEW part, NEW down, NEW up \in Frame
  PROVE  Lifted(h, Append(w, up), part, down, up)
  <1> DEFINE v == Append(w, up)
  <1>1. Len(v) = Len(w) + 1 /\ Len(w) \in Nat /\ v[Len(w) + 1] = up
    OBVIOUS
  <1> HIDE DEF v
  <1>2. Lifted(h, v, part, down, up)
    BY <1>1 DEF Lifted
  <1> QED
    BY <1>2 DEF v

\* So does the device taking the oldest report.
LEMMA LiftedDrain ==
  ASSUME NEW h, NEW w \in Seq(Frame), NEW g, NEW part, NEW down, NEW up,
         w # <<>>, Lifted(h, w, part, down, up),
         Head(w) # down => (part \notin h => part \notin g),
         Head(w) = up => part \notin g
  PROVE  Lifted(g, Tail(w), part, down, up)
  <1> DEFINE t == Tail(w)
  <1>1. /\ Len(w) \in Nat /\ Len(w) > 0
        /\ Len(t) = Len(w) - 1
        /\ \A i \in 1..Len(t) : t[i] = w[i + 1]
        /\ Head(w) = w[1]
    OBVIOUS
  <1> SUFFICES Lifted(g, t, part, down, up)
    OBVIOUS
  <1> HIDE DEF t
  <1>2. CASE part \notin h /\ \A i \in 1..Len(w) : w[i] # down
    BY <1>1, <1>2 DEF Lifted
  <1>3. CASE \E i \in 1..Len(w) : /\ w[i] = up
                                  /\ \A j \in 1..Len(w) : j > i => w[j] # down
    <2>1. PICK i \in 1..Len(w) : /\ w[i] = up
                                 /\ \A j \in 1..Len(w) : j > i => w[j] # down
      BY <1>3
    <2>2. CASE i = 1
      <3>1. part \notin g
        BY <1>1, <2>1, <2>2
      <3>2. \A j \in 1..Len(t) : t[j] # down
        BY <1>1, <2>1, <2>2
      <3> QED
        BY <3>1, <3>2 DEF Lifted
    <2>3. CASE i # 1
      <3>1. i - 1 \in 1..Len(t) /\ t[i - 1] = up
        BY <1>1, <2>1, <2>3
      <3>2. \A j \in 1..Len(t) : j > i - 1 => t[j] # down
        BY <1>1, <2>1, <2>3
      <3> QED
        BY <3>1, <3>2 DEF Lifted
    <2> QED
      BY <2>2, <2>3
  <1>4. \/ part \notin h /\ \A i \in 1..Len(w) : w[i] # down
        \/ \E i \in 1..Len(w) : /\ w[i] = up
                                /\ \A j \in 1..Len(w) : j > i => w[j] # down
    BY DEF Lifted
  <1> QED
    BY <1>2, <1>3, <1>4

\* A drained wire that lifts everything leaves the device neutral.
LEMMA LiftedQuiet ==
  ASSUME held \in SUBSET Held, wire = <<>>, KeysLifted, ButtonsLifted
  PROVE  Quiet
  <1>1. Len(wire) = 0
    OBVIOUS
  <1>2. "keys" \notin held /\ "buttons" \notin held
    BY <1>1 DEF KeysLifted, ButtonsLifted, Lifted
  <1> QED
    BY <1>2 DEF Quiet, Held

\* Actions have at most MaxFrames reports.
LEMMA FramesType ==
  ASSUME NEW kind \in Kinds
  PROVE  Frames(kind) \in Seq(Frame) /\ Len(Frames(kind)) \in 0..MaxFrames
  <1> DEFINE stroke == <<"keydown", "keyup">>
             press == <<"buttonup", "buttondown", "buttonup">>
             move == <<"buttonup">>
             none == <<>>
  <1>1. stroke \in Seq(Frame) /\ Len(stroke) = 2
    BY DEF Frame
  <1>2. press \in Seq(Frame) /\ Len(press) = 3
    BY DEF Frame
  <1>3. move \in Seq(Frame) /\ Len(move) = 1
    BY DEF Frame
  <1>4. none \in Seq(Frame) /\ Len(none) = 0
    OBVIOUS
  <1>5. Frames(kind) \in {stroke, press, move, none}
    BY ZenonT(30) DEF Frames, Kinds, Pointers
  <1> HIDE DEF stroke, press, move, none
  <1>6. \A s \in {stroke, press, move, none} : s \in Seq(Frame)
                                             /\ Len(s) \in 0..3
    <2>1. 0 \in 0..3 /\ 1 \in 0..3 /\ 2 \in 0..3 /\ 3 \in 0..3
      OBVIOUS
    <2> QED
      BY <1>1, <1>2, <1>3, <1>4, <2>1, Zenon
  <1> QED
    BY <1>5, <1>6, Zenon DEF MaxFrames

\* A batch is a sequence of kinds.
LEMMA BatchType ==
  ASSUME TypeOK, Places, Acting
  PROVE  /\ op.batch \in Seq(Kinds)
         /\ Len(op.batch) \in Nat
         /\ op.at \in 1..Len(op.batch)
         /\ Kind \in Kinds
  <1>1. op.batch \in Seq(Kinds) /\ op.at \in Nat \ {0} /\ op.at <= Len(op.batch)
    BY BatchesAssumption DEF Places, TypeOK, Operation
  <1> QED
    BY <1>1 DEF Kind

-----------------------------------------------------------------------------
(* Where the parts of an operation lead.                                   *)

\* An operation moved on is an operation.
LEMMA OperationMoved ==
  ASSUME NEW o \in Operation, NEW at \in Nat \ {0}, NEW frame \in 1..MaxFrames,
         NEW pc \in {"act", "neutral", "flush", "disconnect"}
  PROVE  [o EXCEPT !.pc = pc, !.at = at, !.frame = frame] \in Operation
  BY Zenon DEF Operation

\* So is one that stops.
LEMMA OperationStopped ==
  ASSUME NEW o \in Operation, NEW frame \in 1..MaxFrames,
         NEW pc \in {"act", "neutral", "flush", "disconnect"},
         NEW status \in Statuses
  PROVE  [o EXCEPT !.pc = pc, !.frame = frame, !.status = status] \in Operation
  BY Zenon DEF Operation

\* And one that neutralizes.
LEMMA OperationNeutral ==
  ASSUME NEW o \in Operation, NEW frame \in 1..MaxFrames,
         NEW pc \in {"act", "neutral", "flush", "disconnect"},
         NEW bad \in BOOLEAN
  PROVE  [o EXCEPT !.pc = pc, !.frame = frame, !.bad = bad] \in Operation
  BY Zenon DEF Operation

\* The next report of a batch: the batch goes on, or it is through.
LEMMA NextFrameStep ==
  ASSUME TypeOK, Places, Acting, op' = NextFrame
  PROVE  /\ op' \in Operation
         /\ op'.kind = "run" /\ ~op'.bad
         /\ op'.pc = "act" \/ (op'.pc = "neutral" /\ op'.frame = 1)
         /\ Places'
  <1> DEFINE n == Len(Frames(Kind))
             last == op.frame >= n
             done == last /\ op.at = Len(op.batch)
  <1>1. /\ op.batch \in Batches /\ op.batch \in Seq(Kinds)
        /\ Len(op.batch) \in Nat /\ op.at \in 1..Len(op.batch)
        /\ op.status = "accepted" /\ op.bad = FALSE
        /\ op.kind = "run" /\ op.pc = "act"
        /\ op.frame = 1 \/ op.frame <= n
    BY BatchType, Zenon DEF Places, Acting, TypeOK, Operation
  <1>2. n \in 0..3
    BY BatchType, FramesType DEF MaxFrames
  <1>3. op.frame \in 1..3
    BY DEF TypeOK, Operation, MaxFrames
  <1>4. op' = [op EXCEPT !.pc = IF done THEN "neutral" ELSE "act",
                         !.at = IF last THEN op.at + 1 ELSE op.at,
                         !.frame = IF last THEN 1 ELSE op.frame + 1]
    BY DEF NextFrame, Kind
  <1> HIDE DEF n
  <1>5. op' \in Operation
    <2> DEFINE at == IF last THEN op.at + 1 ELSE op.at
               frame == IF last THEN 1 ELSE op.frame + 1
               pc == IF done THEN "neutral" ELSE "act"
    <2>1. /\ at \in Nat \ {0}
          /\ frame \in 1..MaxFrames
          /\ pc \in {"act", "neutral", "flush", "disconnect"}
      BY <1>1, <1>2, <1>3 DEF MaxFrames
    <2>2. op' = [op EXCEPT !.pc = pc, !.at = at, !.frame = frame]
      BY <1>4
    <2> HIDE DEF at, frame, pc
    <2>3. op \in Operation
      BY DEF TypeOK
    <2>4. [op EXCEPT !.pc = pc, !.at = at, !.frame = frame] \in Operation
      BY <2>1, <2>3, OperationMoved, Zenon
    <2> QED
      BY <2>2, <2>4, Zenon
  <1>6. /\ op'.kind = "run" /\ op'.bad = FALSE /\ op'.status = "accepted"
        /\ op'.batch = op.batch
        /\ op'.at = IF last THEN op.at + 1 ELSE op.at
        /\ op'.frame = IF last THEN 1 ELSE op.frame + 1
        /\ op'.pc = IF done THEN "neutral" ELSE "act"
    BY <1>1, <1>4 DEF TypeOK, Operation
  <1>7. CASE done
    <2>1. op'.pc = "neutral" /\ op'.frame = 1 /\ op'.at = Len(op.batch) + 1
      BY <1>6, <1>7
    <2>2. op'.at > Len(op'.batch) /\ op'.frame <= Len(Neutral)
      BY <1>1, <1>6, <2>1 DEF Neutral
    <2> QED
      BY <1>5, <1>6, <2>1, <2>2 DEF Places, Acting
  <1>8. CASE ~done
    <2>1. op'.pc = "act" /\ op'.at <= Len(op.batch)
      BY <1>1, <1>6, <1>8
    <2>2. op'.frame = 1 \/ op'.frame <= Len(Frames(op'.batch[op'.at]))
      <3>1. CASE last
        BY <1>6, <3>1
      <3>2. CASE ~last
        <4>1. op'.at = op.at /\ op'.frame <= n
          BY <1>2, <1>3, <1>6, <3>2
        <4> QED
          BY <4>1, <1>6 DEF n, Kind
      <3> QED
        BY <3>1, <3>2
    <2> QED
      BY <1>1, <1>5, <1>6, <2>1, <2>2 DEF Places, Acting, Kind
  <1> QED
    BY <1>7, <1>8

\* The batch stops at an action.
LEMMA StopStep ==
  ASSUME TypeOK, Places, Acting,
         NEW status \in Statuses, op' = Stop(status), status # "accepted"
  PROVE  /\ op' \in Operation
         /\ op'.kind = "run" /\ ~op'.bad
         /\ op'.pc = "neutral" /\ op'.frame = 1
         /\ Places'
  <1>1. /\ op.batch \in Batches
        /\ Len(op.batch) \in Nat /\ op.at \in 1..Len(op.batch)
        /\ op.bad = FALSE /\ op.kind = "run"
    BY BatchType, Zenon DEF Places, Acting, TypeOK, Operation
  <1>2. op' \in Operation
    <2>1. 1 \in 1..MaxFrames
      BY DEF MaxFrames
    <2> QED
      BY <2>1, OperationStopped, Zenon DEF TypeOK, Stop
  <1>3. /\ op'.kind = "run" /\ op'.pc = "neutral" /\ op'.batch = op.batch
        /\ op'.at = op.at /\ op'.frame = 1 /\ op'.status = status
        /\ op'.bad = FALSE
    BY <1>1 DEF TypeOK, Operation, Stop
  <1>4. op'.frame <= Len(Neutral) /\ op'.at <= Len(op'.batch)
    BY <1>1, <1>3 DEF Neutral
  <1> QED
    BY <1>2, <1>3, <1>4 DEF Places, Acting

\* The next neutral report.
LEMMA NeutralStep ==
  ASSUME TypeOK, Places, op.pc = "neutral",
         NEW refused \in BOOLEAN, op' = AfterNeutral(refused)
  PROVE  /\ op' \in Operation
         /\ op'.kind = op.kind
         /\ op.frame \in 1..2
         /\ op.frame = 1 => op'.pc = "neutral" /\ op'.frame = 2
         /\ op.frame = 2 => op'.pc = "flush"
         /\ op'.pc \in {"neutral", "flush"}
         /\ op'.bad <=> op.bad \/ refused
         /\ Places'
  <1>1. /\ op.frame \in 1..2
        /\ op.bad \in BOOLEAN
        /\ op.kind # "none"
        /\ Len(Neutral) = 2
    BY DEF TypeOK, Operation, MaxFrames, Places, Neutral, Idle
  <1>2. op' = [op EXCEPT !.pc = IF op.frame = 2 THEN "flush" ELSE "neutral",
                         !.frame = IF op.frame = 2 THEN 1 ELSE op.frame + 1,
                         !.bad = op.bad \/ refused]
    BY <1>1 DEF AfterNeutral
  <1>3. op' \in Operation
    <2> DEFINE pc == IF op.frame = 2 THEN "flush" ELSE "neutral"
               frame == IF op.frame = 2 THEN 1 ELSE op.frame + 1
               bad == op.bad \/ refused
    <2>1. /\ pc \in {"act", "neutral", "flush", "disconnect"}
          /\ frame \in 1..MaxFrames
          /\ bad \in BOOLEAN
      BY <1>1 DEF MaxFrames
    <2>2. op' = [op EXCEPT !.pc = pc, !.frame = frame, !.bad = bad]
      BY <1>2
    <2> HIDE DEF pc, frame, bad
    <2>3. op \in Operation
      BY DEF TypeOK
    <2>4. [op EXCEPT !.pc = pc, !.frame = frame, !.bad = bad] \in Operation
      BY <2>1, <2>3, OperationNeutral, Zenon
    <2> QED
      BY <2>2, <2>4, Zenon
  <1>4. /\ op'.kind = op.kind /\ op'.batch = op.batch /\ op'.at = op.at
        /\ op'.status = op.status
        /\ op'.bad = (op.bad \/ refused)
        /\ op'.pc = IF op.frame = 2 THEN "flush" ELSE "neutral"
        /\ op'.frame = IF op.frame = 2 THEN 1 ELSE op.frame + 1
    BY <1>2 DEF TypeOK, Operation
  <1>5. Places'
    BY <1>1, <1>4 DEF Places, Acting, Neutral
  <1> QED
    BY <1>1, <1>3, <1>4, <1>5

-----------------------------------------------------------------------------
(* Every action keeps the invariant.                                       *)

LEMMA InitInv ==
  ASSUME Init
  PROVE  Inv
  <1>1. Idle \in Operation
    BY DEF Idle, Operation, MaxFrames, Statuses
  <1>2. receipt \in Receipt
    BY DEF Init, Receipt, Outcomes
  <1>3. TypeOK
    <2>1. wire \in Seq(Frame) /\ held \in SUBSET Held
      BY DEF Init
    <2>2. capable \in BOOLEAN /\ neutralized \in BOOLEAN
      BY Zenon DEF Init
    <2> QED
      BY <1>1, <1>2, <2>1, <2>2 DEF Init, TypeOK, Barriers
  <1>4. Places /\ Owned /\ Lifting /\ Closing
    BY DEF Init, Places, Owned, Lifting, Closing, Quiet, Idle, Acting
  <1>5. OutcomeJustified
    BY DEF Init, OutcomeJustified
  <1> QED
    BY <1>3, <1>4, <1>5 DEF Inv

\* Steps of a batch that send no HID report: the batch goes on or stops.
LEMMA BatchStep ==
  ASSUME Inv, Acting,
         op' \in Operation, op'.kind = "run", Places',
         \/ op'.pc = "act"
         \/ op'.pc = "neutral" /\ op'.frame = 1,
         barrier' \in {"fresh", "started", "failed"},
         sent' \in BOOLEAN, sent' => barrier' = "started",
         UNCHANGED <<deviceVars, managerVars, adapterVars, fresh, receipt,
                     released>>
  PROVE  Inv'
  <1>1. TypeOK'
    BY DEF Inv, TypeOK, Barriers, deviceVars, managerVars, adapterVars
  <1>2. Owned'
    BY DEF Inv, Owned, Acting, managerVars, adapterVars, deviceVars
  <1>3. Lifting'
    BY DEF Lifting
  <1>4. Closing'
    BY DEF Inv, Closing, Acting, Quiet, deviceVars, managerVars, adapterVars
  <1>5. OutcomeJustified'
    BY DEF Inv, OutcomeJustified
  <1> QED
    BY <1>1, <1>2, <1>3, <1>4, <1>5 DEF Inv

LEMMA StartRunInv ==
  ASSUME Inv, NEW batch \in Batches, StartRun(batch)
  PROVE  Inv'
  <1>1. op' = [Idle EXCEPT !.kind = "run", !.batch = batch]
    BY DEF StartRun
  <1>2. /\ op'.kind = "run" /\ op'.pc = "act" /\ op'.batch = batch
        /\ op'.at = 1 /\ op'.frame = 1 /\ op'.status = "accepted"
        /\ op'.bad = FALSE
    BY <1>1 DEF Idle
  <1>3. op' \in Operation
    <2>1. Idle \in Operation
      BY DEF Idle, Operation, MaxFrames, Statuses
    <2> QED
      BY <1>1, <2>1, Zenon DEF Operation
  <1>4. TypeOK'
    BY <1>3 DEF Inv, TypeOK, StartRun, Barriers, deviceVars, adapterVars
  <1>5. 1 <= Len(batch)
    BY BatchesAssumption
  <1>6. Places'
    BY <1>2, <1>5 DEF Places, Acting
  <1>7. Owned'
    <2>1. leaseHeld' = TRUE /\ barrier' = "fresh" /\ sent' = FALSE /\ capable'
      BY DEF StartRun, deviceVars
    <2> QED
      BY <1>2, <2>1 DEF Owned
  <1>8. Lifting'
    BY <1>2 DEF Lifting
  <1>9. Closing'
    BY <1>2 DEF Inv, Closing, StartRun, Quiet, deviceVars, adapterVars,
                Places, Idle
  <1>10. OutcomeJustified'
    BY DEF Inv, OutcomeJustified, StartRun
  <1> QED
    BY <1>4, <1>6, <1>7, <1>8, <1>9, <1>10 DEF Inv

LEMMA SendFrameInv ==
  ASSUME Inv, SendFrame
  PROVE  Inv'
  <1>1. Acting /\ op' = NextFrame
    BY DEF SendFrame
  <1>2. /\ op' \in Operation
        /\ op'.kind = "run"
        /\ op'.pc = "act" \/ (op'.pc = "neutral" /\ op'.frame = 1)
        /\ Places'
    BY <1>1, NextFrameStep DEF Inv
  <1>3. barrier' = "started" /\ sent' = TRUE /\ link /\ capable
    BY <1>1 DEF Inv, Owned, Acting, SendFrame, Queue, Crossed, Passed
  <1>4. wire' \in Seq(Frame)
    <2>1. Frames(Kind) \in Seq(Frame) /\ Frames(Kind) # <<>>
      BY <1>1, BatchType, FramesType DEF Inv, SendFrame
    <2>2. op.frame \in 1..Len(Frames(Kind))
      BY <1>1, <2>1 DEF Inv, TypeOK, Operation, MaxFrames, Places
    <2> QED
      BY <2>1, <2>2 DEF Inv, TypeOK, SendFrame, Queue
  <1>5. TypeOK'
    BY <1>2, <1>3, <1>4 DEF Inv, TypeOK, SendFrame, Barriers, managerVars,
                            adapterVars
  <1>6. Owned'
    BY <1>1, <1>2, <1>3 DEF Inv, Owned, Acting, SendFrame, managerVars,
                            adapterVars
  <1>7. Lifting'
    BY <1>2 DEF Lifting
  <1>8. Closing'
    BY <1>1, <1>2, <1>3 DEF Inv, Closing, Acting, SendFrame, managerVars,
                            adapterVars
  <1>9. OutcomeJustified'
    BY DEF Inv, OutcomeJustified, SendFrame
  <1> QED
    BY <1>2, <1>5, <1>6, <1>7, <1>8, <1>9 DEF Inv

LEMMA SendWheelInv ==
  ASSUME Inv, SendWheel
  PROVE  Inv'
  <1>1. Acting /\ op' = NextFrame
    BY DEF SendWheel
  <1>2. barrier' = "started" /\ sent' = TRUE
    BY <1>1 DEF Inv, Owned, Acting, SendWheel, Crossed, Passed
  <1> QED
    BY <1>1, <1>2, BatchStep, NextFrameStep DEF Inv, SendWheel

LEMMA SendFailsInv ==
  ASSUME Inv, SendFails
  PROVE  Inv'
  <1>1. Acting /\ op' = Stop("ambiguous")
    BY DEF SendFails
  <1>2. /\ barrier' \in {"fresh", "started", "failed"}
        /\ sent' \in BOOLEAN
        /\ sent' => barrier' = "started"
    <2>1. barrier \in {"fresh", "started", "failed"} /\ sent \in BOOLEAN
      BY <1>1 DEF Inv, TypeOK, Barriers, Owned, Acting
    <2>2. sent => barrier = "started"
      BY <1>1 DEF Inv, Owned, Acting
    <2>3. \/ barrier = "fresh" /\ barrier' \in {"started", "failed"}
          \/ barrier' = barrier
      BY DEF SendFails, Crossed
    <2>4. CASE UNCHANGED sent
      BY <2>1, <2>2, <2>3, <2>4
    <2>5. CASE sent' = TRUE /\ Passed(barrier')
      BY <2>1, <2>3, <2>5 DEF Passed
    <2> QED
      BY <2>4, <2>5 DEF SendFails
  <1>3. "ambiguous" \in Statuses /\ "ambiguous" # "accepted"
    BY DEF Statuses
  <1> QED
    BY <1>1, <1>2, <1>3, BatchStep, StopStep DEF Inv, SendFails

LEMMA WaitInv ==
  ASSUME Inv, Wait
  PROVE  Inv'
  <1>1. Acting /\ op' = NextFrame
    BY DEF Wait
  <1>2. /\ barrier' \in {"fresh", "started", "failed"}
        /\ sent' \in BOOLEAN
        /\ sent' => barrier' = "started"
    BY <1>1 DEF Inv, TypeOK, Barriers, Owned, Acting, Wait
  <1> QED
    BY <1>1, <1>2, BatchStep, NextFrameStep DEF Inv, Wait

LEMMA ActionFailsInv ==
  ASSUME Inv, ActionFails
  PROVE  Inv'
  <1>1. PICK status \in {"failed", "partial"} : op' = Stop(status)
    BY DEF ActionFails
  <1>2. Acting
    BY DEF ActionFails
  <1>3. /\ barrier' \in {"fresh", "started", "failed"}
        /\ sent' \in BOOLEAN
        /\ sent' => barrier' = "started"
    BY <1>2 DEF Inv, TypeOK, Barriers, Owned, Acting, ActionFails
  <1>4. status \in Statuses /\ status # "accepted"
    BY DEF Statuses
  <1> QED
    BY <1>1, <1>2, <1>3, <1>4, BatchStep, StopStep DEF Inv, ActionFails

\* Only an operation in progress neutralizes, and not on a session that
\* counts as neutral without ReleaseInput, unless its link is down.
LEMMA Neutralizing ==
  ASSUME Inv, op.pc = "neutral"
  PROVE  /\ op.kind \in {"run", "release", "close"}
         /\ ~closed
         /\ link => ~neutralized \/ released
  <1>1. op.kind \in {"run", "release", "close"}
    BY DEF Inv, TypeOK, Operation, Places, Idle
  <1>2. CASE op.kind \in {"run", "release"}
    BY <1>2 DEF Inv, Owned, Closing
  <1>3. CASE op.kind = "close"
    BY <1>3 DEF Inv, Owned, Closing
  <1> QED
    BY <1>1, <1>2, <1>3

LEMMA SendNeutralInv ==
  ASSUME Inv, SendNeutral
  PROVE  Inv'
  <1>1. /\ op' \in Operation /\ op'.kind = op.kind /\ op.frame \in 1..2
        /\ op.frame = 1 => op'.pc = "neutral" /\ op'.frame = 2
        /\ op.frame = 2 => op'.pc = "flush"
        /\ op'.pc \in {"neutral", "flush"}
        /\ op'.bad <=> op.bad
        /\ Places'
    BY NeutralStep DEF Inv, SendNeutral
  <1>2. /\ op.kind \in {"run", "release", "close"}
        /\ ~closed
        /\ link => ~neutralized \/ released
    BY Neutralizing DEF SendNeutral
  <1>3. /\ link
        /\ op.kind \in {"run", "release"} => barrier' = "started"
        /\ op.kind = "close" => barrier' = "nil"
        /\ sent' = TRUE
    BY <1>2 DEF Inv, Owned, SendNeutral, Queue, Crossed, Passed
  <1>4. /\ wire \in Seq(Frame)
        /\ "keyup" \in Frame /\ "buttonup" \in Frame
        /\ wire' = Append(wire, Neutral[op.frame])
        /\ held' = held
        /\ op.frame = 1 => Neutral[op.frame] = "keyup"
        /\ op.frame = 2 => Neutral[op.frame] = "buttonup"
    BY DEF Inv, TypeOK, Frame, SendNeutral, Queue, Neutral
  <1>5. TypeOK'
    <2>1. wire' \in Seq(Frame)
      BY <1>1, <1>4
    <2>2. barrier' \in Barriers
      BY <1>2, <1>3 DEF Barriers
    <2> QED
      BY <1>1, <1>3, <2>1, <2>2 DEF Inv, TypeOK, SendNeutral, managerVars,
                                    adapterVars
  <1>6. Owned'
    <2>1. UNCHANGED <<capable, leaseHeld, neutralized>>
      BY DEF SendNeutral, managerVars, adapterVars
    <2>2. /\ leaseHeld <=> op.kind = "run"
          /\ op.kind \in {"run", "release"} => capable
          /\ op.kind = "close" => ~neutralized
      BY DEF Inv, Owned, SendNeutral
    <2> QED
      BY <1>1, <1>2, <1>3, <2>1, <2>2 DEF Owned
  <1>7. Lifting'
    <2>1. CASE op.frame = 1
      <3>1. KeysLifted'
        BY <1>4, <2>1, LiftedBy DEF KeysLifted
      <3> QED
        BY <1>1, <1>2, <2>1, <3>1 DEF Lifting
    <2>2. CASE op.frame = 2
      <3>1. ButtonsLifted'
        BY <1>4, <2>2, LiftedBy DEF ButtonsLifted
      <3>2. ~op.bad => KeysLifted'
        <4>1. ~op.bad => KeysLifted
          BY <2>2 DEF Inv, Lifting, SendNeutral
        <4> QED
          BY <1>4, <2>2, <4>1, LiftedKeeps DEF KeysLifted
      <3> QED
        BY <1>1, <1>2, <2>2, <3>1, <3>2 DEF Lifting
    <2> QED
      BY <1>1, <2>1, <2>2
  <1>8. Closing'
    <2>1. UNCHANGED <<capable, neutralized, closed, released>>
      BY DEF SendNeutral, managerVars, adapterVars
    <2>2. op'.pc # "disconnect" /\ (~capable => neutralized)
      BY <1>1 DEF Inv, Closing
    <2> QED
      BY <1>2, <1>3, <2>1, <2>2 DEF Closing
  <1>9. OutcomeJustified'
    BY DEF Inv, OutcomeJustified, SendNeutral
  <1> QED
    BY <1>1, <1>5, <1>6, <1>7, <1>8, <1>9 DEF Inv

LEMMA RefuseNeutralInv ==
  ASSUME Inv, RefuseNeutral
  PROVE  Inv'
  <1>1. /\ op' \in Operation /\ op'.kind = op.kind /\ op.frame \in 1..2
        /\ op.frame = 1 => op'.pc = "neutral" /\ op'.frame = 2
        /\ op.frame = 2 => op'.pc = "flush"
        /\ op'.pc \in {"neutral", "flush"}
        /\ op'.bad
        /\ Places'
    BY NeutralStep DEF Inv, RefuseNeutral
  <1>2. /\ op.kind \in {"run", "release", "close"}
        /\ ~closed
    BY Neutralizing DEF RefuseNeutral
  <1>3. /\ \/ barrier = "fresh" /\ barrier' \in {"started", "failed"}
           \/ barrier' = barrier
        /\ UNCHANGED <<deviceVars, managerVars, adapterVars, fresh, sent,
                       receipt, released>>
    BY DEF RefuseNeutral, Crossed
  <1>4. TypeOK'
    <2>1. barrier' \in Barriers
      BY <1>3 DEF Inv, TypeOK, Barriers
    <2> QED
      BY <1>1, <1>3, <2>1 DEF Inv, TypeOK, deviceVars, managerVars,
                              adapterVars
  <1>5. Owned'
    <2>1. UNCHANGED <<capable, leaseHeld, neutralized, sent>>
      BY <1>3 DEF deviceVars, managerVars, adapterVars
    <2>2. /\ leaseHeld <=> op.kind = "run"
          /\ barrier = "nil" <=> op.kind = "close"
          /\ op.kind \in {"run", "release"} /\ sent => barrier = "started"
          /\ op.kind \in {"run", "release"} => capable
          /\ op.kind = "close" => ~neutralized
      BY <1>2 DEF Inv, Owned, RefuseNeutral
    <2> QED
      BY <1>1, <1>2, <1>3, <2>1, <2>2 DEF Owned
  <1>6. Lifting'
    <2>1. op'.pc # "disconnect" /\ op'.kind # "none" /\ op'.bad
      BY <1>1, <1>2
    <2> QED
      BY <2>1 DEF Lifting
  <1>7. Closing'
    <2>1. UNCHANGED <<capable, link, wire, held, neutralized, closed, released>>
      BY <1>3 DEF deviceVars, adapterVars
    <2>2. op'.pc # "disconnect" /\ op.pc # "disconnect"
      BY <1>1 DEF RefuseNeutral
    <2> QED
      BY <1>2, <2>1, <2>2 DEF Inv, Closing, Quiet
  <1>8. OutcomeJustified'
    BY <1>3 DEF Inv, OutcomeJustified
  <1> QED
    BY <1>1, <1>4, <1>5, <1>6, <1>7, <1>8 DEF Inv

\* The receipt of an operation whose neutralization is concluded: neutral
\* state is claimed only of a drained wire that has lifted everything.
LEMMA ReportStep ==
  ASSUME Inv, op.pc = "flush", op.kind \in {"run", "release"},
         NEW neutral \in BOOLEAN, neutral => Quiet, Report(neutral)
  PROVE  receipt' \in Receipt /\ OutcomeJustified'
  <1> DEFINE verdict == Verdict(barrier = "started", op.status, neutral)
             complete == op.at > Len(op.batch)
             quiet == wire = <<>> /\ held = {}
  <1>1. /\ verdict \in Outcomes
        /\ verdict = "not_sent" => barrier # "started"
        /\ verdict = "accepted" => op.status = "accepted" /\ neutral
        /\ verdict = "refused" => op.status = "partial" /\ neutral
    BY DEF Verdict, Outcomes
  <1>2. receipt' = [outcome |-> verdict, sent |-> sent,
                    complete |-> complete, quiet |-> quiet]
    BY DEF Report
  <1>3. /\ op.status = "accepted" => complete
        /\ op.status = "partial" => ~complete
    <2>1. Len(op.batch) \in Nat /\ op.at \in Nat
      BY BatchesAssumption DEF Inv, TypeOK, Operation
    <2> QED
      BY <2>1 DEF Inv, Places
  <1>4. neutral => quiet
    BY DEF Quiet
  <1>5. barrier # "started" => ~sent
    BY DEF Inv, Owned
  <1>6. sent \in BOOLEAN
    BY DEF Inv, TypeOK
  <1>7. complete \in BOOLEAN /\ quiet \in BOOLEAN
    OBVIOUS
  <1> HIDE DEF verdict, complete, quiet
  <1>8. receipt' \in Receipt
    BY <1>1, <1>2, <1>6, <1>7, Zenon DEF Receipt
  <1>9. OutcomeJustified'
    BY <1>1, <1>2, <1>3, <1>4, <1>5 DEF OutcomeJustified
  <1> QED
    BY <1>8, <1>9

LEMMA SettleInv ==
  ASSUME Inv, op.pc = "flush", NEW neutral \in BOOLEAN, Settle(neutral),
         neutral => Quiet
  PROVE  Inv'
  <1>1. /\ op.kind \in {"run", "release", "close"}
        /\ ~closed
    <2>1. op.kind # "none"
      BY DEF Inv, Places, Idle
    <2> QED
      BY <2>1 DEF Inv, TypeOK, Operation, Closing
  <1>2. /\ UNCHANGED <<capable, link, wire, held, closed, fresh, sent>>
        /\ barrier' = "nil"
    BY DEF Settle, deviceVars
  <1>3. Idle \in Operation
    BY DEF Idle, Operation, MaxFrames, Statuses
  <1>4. /\ Idle.kind = "none" /\ Idle.pc = "act"
    BY DEF Idle
  <1>5. Quiet => Quiet'
    BY <1>2 DEF Quiet
  <1>6. CASE op.kind = "run"
    <2>1. /\ leaseHeld' = FALSE
          /\ uncertain' \in BOOLEAN
          /\ ~uncertain' => neutral
          /\ Report(neutral)
          /\ op' = Idle
          /\ UNCHANGED <<neutralized, released>>
      BY <1>6 DEF Settle, SettleRun, SettleRelease, SettleClose
    <2>2. receipt' \in Receipt /\ OutcomeJustified'
      BY <1>6, <2>1, ReportStep
    <2>3. TypeOK'
      BY <1>2, <1>3, <2>1, <2>2 DEF Inv, TypeOK, Barriers
    <2>4. Places' /\ Owned'
      BY <1>2, <1>4, <2>1 DEF Places, Owned, Acting, Idle
    <2>5. Lifting'
      BY <1>4, <1>5, <2>1 DEF Lifting
    <2>6. Closing'
      BY <1>1, <1>2, <1>4, <1>5, <2>1 DEF Inv, Closing
    <2> QED
      BY <2>2, <2>3, <2>4, <2>5, <2>6 DEF Inv
  <1>7. CASE op.kind = "release"
    <2>1. /\ leaseHeld' = leaseHeld
          /\ uncertain' \in BOOLEAN
          /\ ~uncertain' => neutral
          /\ Report(neutral)
          /\ op' = Idle
          /\ neutralized' \in BOOLEAN /\ released' \in BOOLEAN
          /\ \/ UNCHANGED <<neutralized, released>>
             \/ neutralized' /\ released'
      BY <1>7 DEF Settle, SettleRun, SettleRelease, SettleClose, Inv, TypeOK
    <2>2. receipt' \in Receipt /\ OutcomeJustified'
      BY <1>7, <2>1, ReportStep
    <2>3. TypeOK'
      BY <1>2, <1>3, <2>1, <2>2 DEF Inv, TypeOK, Barriers
    <2>4. Places' /\ Owned'
      BY <1>2, <1>4, <1>7, <2>1 DEF Inv, Places, Owned, Acting, Idle
    <2>5. Lifting'
      BY <1>4, <1>5, <2>1 DEF Lifting
    <2>6. Closing'
      BY <1>1, <1>2, <1>4, <1>5, <2>1 DEF Inv, Closing
    <2> QED
      BY <2>2, <2>3, <2>4, <2>5, <2>6 DEF Inv
  <1>8. CASE op.kind = "close"
    <2>1. /\ UNCHANGED <<leaseHeld, receipt, released>>
          /\ uncertain' = ~neutral
          /\ neutralized' = neutral
          /\ op' = IF neutral THEN [op EXCEPT !.pc = "disconnect"] ELSE Idle
      BY <1>8 DEF Settle, SettleRun, SettleRelease, SettleClose
    <2>2. /\ leaseHeld = FALSE
          /\ ~neutralized /\ capable
      BY <1>8 DEF Inv, TypeOK, Owned, Closing
    <2>3. OutcomeJustified'
      BY <2>1 DEF Inv, OutcomeJustified
    <2>4. CASE neutral
      <3>1. op' = [op EXCEPT !.pc = "disconnect"]
        BY <2>1, <2>4
      <3>2. /\ op'.kind = "close" /\ op'.pc = "disconnect"
            /\ op'.batch = op.batch /\ op'.at = op.at
            /\ op'.status = op.status
        BY <1>8, <3>1 DEF Inv, TypeOK, Operation
      <3>3. op' \in Operation
        BY <3>1, Zenon DEF Inv, TypeOK, Operation
      <3>4. uncertain' = FALSE /\ neutralized' = TRUE /\ Quiet'
        BY <1>5, <2>1, <2>4
      <3>5. TypeOK'
        BY <1>2, <2>1, <3>3, <3>4 DEF Inv, TypeOK, Barriers
      <3>6. Places'
        BY <1>8, <3>2 DEF Inv, Places, Acting
      <3>7. Owned'
        BY <1>2, <2>1, <2>2, <3>2 DEF Owned
      <3>8. Lifting' /\ Closing'
        BY <1>1, <1>2, <3>2, <3>4 DEF Lifting, Closing
      <3> QED
        BY <2>3, <3>5, <3>6, <3>7, <3>8 DEF Inv
    <2>5. CASE ~neutral
      <3>1. op' = Idle /\ uncertain' = TRUE /\ neutralized' = FALSE
        BY <2>1, <2>5
      <3>2. TypeOK'
        BY <1>2, <1>3, <2>1, <3>1 DEF Inv, TypeOK, Barriers
      <3>3. Places' /\ Owned'
        BY <1>2, <1>4, <2>1, <2>2, <3>1 DEF Places, Owned, Acting
      <3>4. Lifting' /\ Closing'
        BY <1>1, <1>2, <1>4, <2>2, <3>1 DEF Lifting, Closing
      <3> QED
        BY <2>3, <3>2, <3>3, <3>4 DEF Inv
    <2> QED
      BY <2>4, <2>5
  <1> QED
    BY <1>1, <1>6, <1>7, <1>8

LEMMA FlushedInv ==
  ASSUME Inv, Flushed
  PROVE  Inv'
  <1>1. op.pc = "flush" /\ wire = <<>> /\ Settle(~op.bad)
    BY DEF Flushed
  <1>2. ~op.bad => Quiet
    BY <1>1, LiftedQuiet DEF Inv, TypeOK, Lifting
  <1>3. (~op.bad) \in BOOLEAN
    BY Zenon
  <1> QED
    BY <1>1, <1>2, <1>3, SettleInv

LEMMA FlushFailsInv ==
  ASSUME Inv, FlushFails
  PROVE  Inv'
  BY SettleInv DEF FlushFails

LEMMA StartReleaseInv ==
  ASSUME Inv, StartRelease
  PROVE  Inv'
  <1>1. op' = [Idle EXCEPT !.kind = "release", !.pc = "neutral"]
    BY DEF StartRelease
  <1>2. /\ op'.kind = "release" /\ op'.pc = "neutral" /\ op'.batch = <<>>
        /\ op'.at = 1 /\ op'.frame = 1 /\ op'.status = "accepted"
        /\ op'.bad = FALSE
    BY <1>1 DEF Idle
  <1>3. op' \in Operation
    <2>1. Idle \in Operation
      BY DEF Idle, Operation, MaxFrames, Statuses
    <2> QED
      BY <1>1, <2>1, Zenon DEF Operation
  <1>4. /\ barrier' = "fresh" /\ sent' = FALSE
        /\ op.kind = "none" /\ capable /\ ~closed /\ ~leaseHeld
        /\ UNCHANGED <<capable, link, wire, held, leaseHeld, uncertain,
                       neutralized, closed, fresh, receipt, released>>
    BY DEF StartRelease, deviceVars, managerVars, adapterVars
  <1>5. TypeOK'
    BY <1>3, <1>4 DEF Inv, TypeOK, Barriers
  <1>6. Places'
    BY <1>2 DEF Places, Acting, Neutral
  <1>7. Owned'
    BY <1>2, <1>4 DEF Owned
  <1>8. Lifting'
    BY <1>2 DEF Lifting
  <1>9. Closing'
    <2>1. op.pc # "disconnect"
      BY <1>4 DEF Inv, Places, Idle
    <2> QED
      BY <1>2, <1>4, <2>1 DEF Inv, Closing, Quiet
  <1>10. OutcomeJustified'
    BY <1>4 DEF Inv, OutcomeJustified
  <1> QED
    BY <1>5, <1>6, <1>7, <1>8, <1>9, <1>10 DEF Inv

LEMMA StartCloseInv ==
  ASSUME Inv, StartClose
  PROVE  Inv'
  <1> DEFINE pc == IF neutralized THEN "disconnect" ELSE "neutral"
  <1>1. op' = [Idle EXCEPT !.kind = "close", !.pc = pc]
    BY DEF StartClose
  <1>2. /\ op'.kind = "close" /\ op'.pc = pc /\ op'.batch = <<>>
        /\ op'.at = 1 /\ op'.frame = 1 /\ op'.status = "accepted"
        /\ op'.bad = FALSE
    BY <1>1 DEF Idle
  <1>3. op' \in Operation
    <2>1. Idle \in Operation
      BY DEF Idle, Operation, MaxFrames, Statuses
    <2>2. pc \in {"act", "neutral", "flush", "disconnect"}
      OBVIOUS
    <2> HIDE DEF pc
    <2> QED
      BY <1>1, <2>1, <2>2, Zenon DEF Operation
  <1>4. /\ sent' = FALSE
        /\ op.kind = "none" /\ ~closed
        /\ UNCHANGED <<capable, link, wire, held, leaseHeld, uncertain,
                       neutralized, closed, barrier, fresh, receipt, released>>
    BY DEF StartClose, deviceVars, managerVars, adapterVars
  <1>5. TypeOK'
    BY <1>3, <1>4 DEF Inv, TypeOK
  <1>6. Places'
    BY <1>2 DEF Places, Acting, Neutral
  <1>7. Owned'
    BY <1>2, <1>4 DEF Inv, Owned
  <1>8. Lifting'
    <2>1. ~uncertain => Quiet
      BY <1>4 DEF Inv, Lifting
    <2> QED
      BY <1>2, <1>4, <2>1 DEF Lifting, Quiet
  <1>9. Closing'
    <2>1. op.pc # "disconnect"
      BY <1>4 DEF Inv, Places, Idle
    <2> QED
      BY <1>2, <1>4, <2>1 DEF Inv, Closing, Quiet
  <1>10. OutcomeJustified'
    BY <1>4 DEF Inv, OutcomeJustified
  <1> QED
    BY <1>5, <1>6, <1>7, <1>8, <1>9, <1>10 DEF Inv

LEMMA DisconnectInv ==
  ASSUME Inv, Disconnect
  PROVE  Inv'
  <1>1. /\ op.pc = "disconnect" /\ op' = Idle /\ link' = FALSE
        /\ closed' \in BOOLEAN
        /\ UNCHANGED <<capable, wire, held, leaseHeld, uncertain, neutralized,
                       barrier, fresh, sent, receipt, released>>
    BY DEF Disconnect, managerVars
  <1>2. op.kind = "close" /\ neutralized
    BY <1>1 DEF Inv, Places, Closing
  <1>3. Idle \in Operation /\ Idle.kind = "none" /\ Idle.pc = "act"
    BY DEF Idle, Operation, MaxFrames, Statuses
  <1>4. TypeOK'
    BY <1>1, <1>3 DEF Inv, TypeOK
  <1>5. Places'
    BY <1>1, <1>3 DEF Places, Acting
  <1>6. Owned'
    BY <1>1, <1>2, <1>3 DEF Inv, Owned
  <1>7. Lifting'
    BY <1>1, <1>3 DEF Inv, Lifting, Quiet
  <1>8. Closing'
    BY <1>1, <1>2, <1>3 DEF Inv, Closing, Quiet
  <1>9. OutcomeJustified'
    BY <1>1 DEF Inv, OutcomeJustified
  <1> QED
    BY <1>4, <1>5, <1>6, <1>7, <1>8, <1>9 DEF Inv

\* The device takes a report: what was lifted stays lifted.
LEMMA DrainInv ==
  ASSUME Inv, Drain
  PROVE  Inv'
  <1>1. /\ wire \in Seq(Frame) /\ wire # <<>> /\ link
        /\ held' = Effect(Head(wire), held)
        /\ wire' = Tail(wire)
        /\ UNCHANGED <<capable, link, leaseHeld, uncertain, neutralized,
                       closed, barrier, op, fresh, sent, receipt, released>>
    BY DEF Inv, TypeOK, Drain, managerVars, adapterVars
  <1>2. /\ Head(wire) \in Frame
        /\ Tail(wire) \in Seq(Frame)
    BY <1>1
  <1>3. /\ held' \in SUBSET Held
        /\ Head(wire) # "keydown" => ("keys" \notin held => "keys" \notin held')
        /\ Head(wire) = "keyup" => "keys" \notin held'
        /\ Head(wire) # "buttondown" =>
             ("buttons" \notin held => "buttons" \notin held')
        /\ Head(wire) = "buttonup" => "buttons" \notin held'
    <2>1. held \in SUBSET Held
      BY DEF Inv, TypeOK
    <2>2. CASE Head(wire) = "keydown"
      BY <1>1, <2>1, <2>2 DEF Effect, Held
    <2>3. CASE Head(wire) = "keyup"
      BY <1>1, <2>1, <2>3 DEF Effect, Held
    <2>4. CASE Head(wire) = "buttondown"
      BY <1>1, <2>1, <2>4 DEF Effect, Held
    <2>5. CASE Head(wire) = "buttonup"
      BY <1>1, <2>1, <2>5 DEF Effect, Held
    <2> QED
      BY <1>2, <2>2, <2>3, <2>4, <2>5 DEF Frame
  <1>4. KeysLifted => KeysLifted'
    BY <1>1, <1>3, LiftedDrain DEF KeysLifted
  <1>5. ButtonsLifted => ButtonsLifted'
    BY <1>1, <1>3, LiftedDrain DEF ButtonsLifted
  <1>6. ~Quiet
    BY <1>1 DEF Quiet
  <1>7. TypeOK'
    BY <1>1, <1>2, <1>3 DEF Inv, TypeOK
  <1>8. Places' /\ Owned'
    BY <1>1 DEF Inv, Places, Owned, Acting, Kind
  <1>9. Lifting'
    BY <1>1, <1>4, <1>5, <1>6 DEF Inv, Lifting
  <1>10. Closing'
    BY <1>1, <1>6 DEF Inv, Closing
  <1>11. OutcomeJustified'
    BY <1>1 DEF Inv, OutcomeJustified
  <1> QED
    BY <1>7, <1>8, <1>9, <1>10, <1>11 DEF Inv

\* The link, the observation and stuttering.
LEMMA OutsideInv ==
  ASSUME Inv,
         LinkDown \/ Expire \/ UNCHANGED vars
  PROVE  Inv'
  <1>1. /\ link' \in BOOLEAN
        /\ link' => link
        /\ fresh' \in BOOLEAN
        /\ UNCHANGED <<capable, wire, held, leaseHeld, uncertain, neutralized,
                       closed, barrier, op, sent, receipt, released>>
    <2>1. CASE LinkDown
      BY <2>1 DEF Inv, TypeOK, LinkDown, managerVars, adapterVars
    <2>2. CASE Expire
      BY <2>2 DEF Inv, TypeOK, Expire, deviceVars, managerVars, adapterVars
    <2>3. CASE UNCHANGED vars
      BY <2>3 DEF Inv, TypeOK, vars, deviceVars, managerVars, adapterVars
    <2> QED
      BY <2>1, <2>2, <2>3
  <1>2. TypeOK'
    BY <1>1 DEF Inv, TypeOK
  <1>3. Places' /\ Owned'
    BY <1>1 DEF Inv, Places, Owned, Acting, Kind
  <1>4. Lifting'
    BY <1>1 DEF Inv, Lifting, Quiet, KeysLifted, ButtonsLifted
  <1>5. Closing'
    BY <1>1 DEF Inv, Closing, Quiet
  <1>6. OutcomeJustified'
    BY <1>1 DEF Inv, OutcomeJustified
  <1> QED
    BY <1>2, <1>3, <1>4, <1>5, <1>6 DEF Inv

-----------------------------------------------------------------------------

\* The inductive invariant holds.
THEOREM InvHolds == Spec => []Inv
  <1>1. Init => Inv
    BY InitInv
  <1>2. Inv /\ [Next]_vars => Inv'
    <2> SUFFICES ASSUME Inv, [Next]_vars
                 PROVE  Inv'
      OBVIOUS
    <2>1. CASE \E batch \in Batches : StartRun(batch)
      BY <2>1, StartRunInv
    <2>2. CASE StartRelease
      BY <2>2, StartReleaseInv
    <2>3. CASE StartClose
      BY <2>3, StartCloseInv
    <2>4. CASE Step
      BY <2>4, SendFrameInv, SendWheelInv, SendFailsInv, WaitInv,
         ActionFailsInv, SendNeutralInv, RefuseNeutralInv, FlushedInv,
         FlushFailsInv, DisconnectInv DEF Step
    <2>5. CASE Drain
      BY <2>5, DrainInv
    <2>6. CASE LinkDown \/ Expire \/ UNCHANGED vars
      BY <2>6, OutsideInv
    <2> QED
      BY <2>1, <2>2, <2>3, <2>4, <2>5, <2>6 DEF Next
  <1> QED
    BY <1>1, <1>2, PTL DEF Spec

\* Every variable of the session keeps its type.
THEOREM TypeCorrect == Spec => []TypeOK
  <1>1. Inv => TypeOK
    BY DEF Inv
  <1> QED
    BY <1>1, InvHolds, PTL

\* Between operations the device holds nothing down, unless the manager is
\* uncertain and refuses batches.
THEOREM NeutralBetween == Spec => []NeutralUnlessUncertain
  <1>1. Inv => NeutralUnlessUncertain
    BY DEF Inv, Lifting, Quiet, NeutralUnlessUncertain
  <1> QED
    BY <1>1, InvHolds, PTL

\* What the receipt of a batch or a ReleaseInput says of the wire is so.
THEOREM ReceiptsTrue == Spec => []OutcomeJustified
  <1>1. Inv => OutcomeJustified
    BY DEF Inv
  <1> QED
    BY <1>1, InvHolds, PTL

\* A session that never used ReleaseInput is closed with nothing held down.
THEOREM ClosesNeutral == Spec => []ClosedNeutral
  <1>1. Inv => ClosedNeutral
    BY DEF Inv, Closing, Quiet, ClosedNeutral
  <1> QED
    BY <1>1, InvHolds, PTL
=============================================================================
