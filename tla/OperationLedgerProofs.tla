----------------------- MODULE OperationLedgerProofs -----------------------
(***************************************************************************)
(* Proofs about OperationLedger for any stores, callers, operations and    *)
(* digests.                                                                *)
(*                                                                         *)
(* At most one delivery needs to know who may still deliver: of all the    *)
(* calls past the send boundary of an operation (Active) there is one at   *)
(* most, because crossing needs a row that says not_sent, and a row with   *)
(* an active call never does.  That a live send keeps its lock file needs, *)
(* besides, the discipline of Store.ownersMu and of startup recovery.      *)
(***************************************************************************)
EXTENDS OperationLedger, TLAPS

Active(c) == caller[c].pc \in {"marked", "sent", "accepting", "finishing",
                               "ambiguating"}

\* What stage and delivery of a row owe to each other.
GoodRow(r) ==
  /\ r.stage = "none" <=> r.delivery = "none"
  /\ r.stage = "not_sent" => r.delivery = "not_sent"
  /\ r.stage = "send_started" => r.delivery = "possibly_sent"
  /\ r.stage \in {"transport_accepted", "observation_started",
                  "state_observed"} => r.delivery = "transport_accepted"
  /\ r.retry => r.delivery = "not_sent"

Receipts ==
  \A op \in Ops :
    /\ GoodRow(row[op])
    /\ sends[op] \in {0, 1}
    /\ row[op].delivery \in {"none", "not_sent"} => sends[op] = 0
    /\ row[op].delivery = "transport_accepted" => sends[op] = 1

\* What a call knows about its row.
CallKnows(c) ==
  LET k == caller[c]
      r == row[k.op]
  IN /\ k.pc # "idle" => r.stage # "none" /\ r.digest = k.digest
     /\ k.pc \in {"marked", "sent", "accepting", "ambiguating"}
          => r.delivery = "possibly_sent"
     /\ k.pc = "marked" => sends[k.op] = 0
     /\ k.pc \in {"sent", "accepting"} => sends[k.op] = 1
     /\ k.pc = "finishing" => r.delivery = "transport_accepted"

Calling ==
  /\ \A c \in Callers : CallKnows(c)
  /\ \A c, e \in Callers : c # e /\ Active(c) /\ Active(e)
                             => caller[c].op # caller[e].op

\* What a call and its store know about the lock files.
CallLocks(c) ==
  LET k == caller[c]
  IN /\ k.pc # "idle" => status[k.store] # "recovering"
     /\ k.acquired => k.pc = "locking"
     /\ k.pc = "locking" => opLock[k.op] = k.store
     /\ Sending(c) /\ status[k.store] = "open"
          => opLock[k.op] = k.store /\ row[k.op].stage = "send_started"

\* Store.ownersMu keeps two calls of a store from locking at once, and a call
\* that took a lock file took it from nobody who is sending.
Apart(c, e) ==
  caller[c].pc = "locking" =>
    /\ caller[e].pc = "locking" => caller[e].store # caller[c].store
    /\ caller[c].acquired /\ Sending(e) /\ status[caller[e].store] = "open"
         => caller[e].op # caller[c].op

\* Recovery runs before the store is open and holds the file it works on.
RecoverLocks(s) ==
  /\ todo[s] # {} => status[s] = "recovering"
  /\ \A op \in recovers[s] : status[s] = "recovering" /\ opLock[op] = s

Locking ==
  /\ \A c \in Callers : CallLocks(c)
  /\ \A c, e \in Callers : c # e => Apart(c, e)
  /\ \A s \in Stores : RecoverLocks(s)

Inv == TypeOK /\ Receipts /\ Calling /\ Locking

-----------------------------------------------------------------------------
(* What the building blocks of the actions do.                             *)

LEMMA PatchedRow ==
  ASSUME NEW r \in Row, NEW to \in Stages, NEW delivery \in Deliveries
  PROVE  LET p == Patched(r, to, delivery)
         IN /\ p \in Row /\ p.stage = to /\ p.delivery = delivery
            /\ p.retry = (delivery = "not_sent") /\ p.digest = r.digest
BY DEF Row, Patched

\* Store.Transition touches one row, and that only by a valid patch.
LEMMA TransitionRow ==
  ASSUME TypeOK, NEW c \in Callers, NEW to \in Stages,
         NEW delivery \in Deliveries, NEW result \in Results,
         Transition(c, to, delivery, result)
  PROVE  LET op == caller[c].op
         IN /\ row' \in [Ops -> Row]
            /\ \A o \in Ops \ {op} : row'[o] = row[o]
            /\ \/ result = "fail" /\ row'[op] = row[op]
               \/ /\ result # "fail"
                  /\ ValidPatch(row[op].stage, to, delivery)
                  /\ row'[op].stage = to /\ row'[op].delivery = delivery
                  /\ row'[op].retry = (delivery = "not_sent")
                  /\ row'[op].digest = row[op].digest
<1> DEFINE op == caller[c].op
           r == Patched(row[op], to, delivery)
<1>1. op \in Ops /\ row[op] \in Row
  BY DEF TypeOK, Caller
<1>2. /\ r \in Row /\ r.stage = to /\ r.delivery = delivery
      /\ r.retry = (delivery = "not_sent") /\ r.digest = row[op].digest
  BY <1>1, PatchedRow
<1> HIDE DEF r, op
<1>3. CASE result = "fail"
  BY <1>1, <1>3 DEF Transition, op, TypeOK
<1>4. CASE result # "fail"
  <2>1. row' = [row EXCEPT ![op] = r] /\ ValidPatch(row[op].stage, to, delivery)
    BY <1>4 DEF Transition, r, op
  <2>2. row'[op] = r /\ \A o \in Ops \ {op} : row'[o] = row[o]
    BY <1>1, <2>1 DEF TypeOK
  <2>3. row' \in [Ops -> Row]
    BY <1>1, <1>2, <2>1 DEF TypeOK
  <2> QED BY <1>2, <1>4, <2>1, <2>2, <2>3 DEF op
<1> QED BY <1>3, <1>4

\* It frees at most the lock file of its own operation.
LEMMA TransitionLock ==
  ASSUME TypeOK, NEW c \in Callers, NEW to, NEW delivery, NEW result,
         Transition(c, to, delivery, result)
  PROVE  LET op == caller[c].op
         IN /\ opLock' \in [Ops -> Stores \cup {NoStore}]
            /\ \A o \in Ops \ {op} : opLock'[o] = opLock[o]
            /\ \/ opLock' = opLock
               \/ result # "ok" /\ caller[c].acquired
               \/ result = "ok" /\ to \in Terminal /\ opLock[op] = caller[c].store
BY DEF Transition, TypeOK, Caller

LEMMA GotoEffect ==
  ASSUME TypeOK, NEW c \in Callers, NEW pc \in PCs, Goto(c, pc)
  PROVE  /\ caller' \in [Callers -> Caller]
         /\ caller'[c].pc = pc /\ ~caller'[c].acquired
         /\ caller'[c].store = caller[c].store
         /\ caller'[c].op = caller[c].op
         /\ caller'[c].digest = caller[c].digest
         /\ caller'[c].goal = caller[c].goal
         /\ \A e \in Callers \ {c} : caller'[e] = caller[e]
<1>1. caller[c] \in Caller
  BY DEF TypeOK
<1>2. caller'[c] = [caller[c] EXCEPT !.pc = pc, !.acquired = FALSE]
  BY DEF Goto, TypeOK
<1>3. caller'[c] \in Caller
  BY <1>1, <1>2 DEF Caller
<1>4. \A e \in Callers \ {c} : caller'[e] = caller[e]
  BY DEF Goto, TypeOK
<1>5. caller' \in [Callers -> Caller]
  BY <1>3, <1>4 DEF Goto, TypeOK
<1> QED BY <1>1, <1>2, <1>4, <1>5 DEF Caller

LEMMA LockForSendEffect ==
  ASSUME TypeOK, NEW c \in Callers, LockForSend(c)
  PROVE  LET op == caller[c].op
             s == caller[c].store
         IN /\ caller' \in [Callers -> Caller]
            /\ caller[c].pc = "checking"
            /\ caller'[c].pc = "locking"
            /\ caller'[c].acquired <=> opLock[op] = NoStore
            /\ caller'[c].store = s /\ caller'[c].op = op
            /\ caller'[c].digest = caller[c].digest
            /\ \A e \in Callers \ {c} : caller'[e] = caller[e]
            /\ opLock[op] \in {NoStore, s}
            /\ opLock' \in [Ops -> Stores \cup {NoStore}]
            /\ opLock'[op] = s
            /\ \A o \in Ops \ {op} : opLock'[o] = opLock[o]
            /\ MuFree(s)
<1> DEFINE b == (opLock[caller[c].op] = NoStore)
<1>1. caller[c] \in Caller /\ b \in BOOLEAN
  BY DEF TypeOK
<1>2. caller'[c] = [caller[c] EXCEPT !.pc = "locking", !.acquired = b]
  BY DEF LockForSend, TypeOK
<1>3. caller'[c] \in Caller
  <2> HIDE DEF b
  <2> QED BY <1>1, <1>2 DEF Caller, PCs
<1>4. \A e \in Callers \ {c} : caller'[e] = caller[e]
  BY DEF LockForSend, TypeOK
<1>5. caller' \in [Callers -> Caller]
  BY <1>3, <1>4 DEF LockForSend, TypeOK
<1>6. /\ caller'[c].pc = "locking" /\ caller'[c].acquired = b
      /\ caller'[c].store = caller[c].store /\ caller'[c].op = caller[c].op
      /\ caller'[c].digest = caller[c].digest
  <2> HIDE DEF b
  <2> QED BY <1>1, <1>2 DEF Caller
<1> QED BY <1>1, <1>4, <1>5, <1>6 DEF LockForSend, TypeOK, Caller

LEMMA SendReturnsEffect ==
  ASSUME TypeOK, NEW c \in Callers, NEW outcome, SendReturns(c, outcome)
  PROVE  /\ caller' \in [Callers -> Caller]
         /\ caller'[c].pc = IF outcome = "error" THEN "ambiguating"
                                                ELSE "accepting"
         /\ caller'[c].acquired = caller[c].acquired
         /\ caller'[c].store = caller[c].store
         /\ caller'[c].op = caller[c].op
         /\ caller'[c].digest = caller[c].digest
         /\ \A e \in Callers \ {c} : caller'[e] = caller[e]
<1> DEFINE pc == IF outcome = "error" THEN "ambiguating" ELSE "accepting"
           goal == IF outcome = "refused" THEN "failed" ELSE "completed"
<1>1. /\ caller[c] \in Caller /\ pc \in PCs
      /\ goal \in {"completed", "failed"}
  BY DEF TypeOK, PCs
<1>2. caller'[c] = [caller[c] EXCEPT !.pc = pc, !.goal = goal]
  BY DEF SendReturns, TypeOK
<1> HIDE DEF goal
<1>3. \A e \in Callers \ {c} : caller'[e] = caller[e]
  BY DEF SendReturns, TypeOK
<1>4. caller'[c] \in Caller
  <2> HIDE DEF pc
  <2> QED BY <1>1, <1>2 DEF Caller
<1>5. caller' \in [Callers -> Caller]
  BY <1>3, <1>4 DEF SendReturns, TypeOK
<1> QED BY <1>1, <1>2, <1>3, <1>5 DEF Caller

\* A crash ends the calls of the store.
LEMMA CrashEffect ==
  ASSUME TypeOK, NEW s \in Stores, Crash(s)
  PROVE  /\ caller' \in [Callers -> Caller]
         /\ \A c \in Callers :
              \/ caller[c].store # s /\ caller'[c] = caller[c]
              \/ /\ caller[c].store = s /\ caller'[c].pc = "idle"
                 /\ ~caller'[c].acquired /\ caller'[c].store = s
                 /\ caller'[c].op = caller[c].op
<1>1. ASSUME NEW c \in Callers
      PROVE  /\ caller'[c] \in Caller
             /\ \/ caller[c].store # s /\ caller'[c] = caller[c]
                \/ /\ caller[c].store = s /\ caller'[c].pc = "idle"
                   /\ ~caller'[c].acquired /\ caller'[c].store = s
                   /\ caller'[c].op = caller[c].op
  <2>1. caller[c] \in Caller
    BY DEF TypeOK
  <2>2. CASE caller[c].store = s
    <3>1. caller'[c] = [caller[c] EXCEPT !.pc = "idle", !.acquired = FALSE]
      BY <2>2 DEF Crash
    <3> QED BY <2>1, <2>2, <3>1 DEF Caller, PCs
  <2>3. CASE caller[c].store # s
    BY <2>1, <2>3 DEF Crash
  <2> QED BY <2>2, <2>3
<1>2. caller' \in [Callers -> Caller]
  BY <1>1 DEF Crash
<1> QED BY <1>1, <1>2

LEMMA NoRowEffect ==
  ASSUME NEW r \in Row
  PROVE  /\ NoRow(r) \in Row /\ NoRow(r).stage = "none"
         /\ NoRow(r).delivery = "none" /\ NoRow(r).retry = FALSE
         /\ NoRow(r).digest = r.digest
BY DEF NoRow, Row, Deliveries

LEMMA CallerFields ==
  ASSUME TypeOK, NEW c \in Callers
  PROVE  /\ caller[c] \in Caller /\ caller[c].op \in Ops
         /\ caller[c].store \in Stores /\ caller[c].goal \in {"completed", "failed"}
         /\ row[caller[c].op] \in Row /\ sends[caller[c].op] \in Nat
BY DEF TypeOK, Caller

\* The calls that end in Store.Transition.
Records(c, result) ==
  \/ MarkSendStarted(c, result)
  \/ RecordAccepted(c, result)
  \/ RecordFinal(c, result)
  \/ RecordAmbiguous(c, result)
  \/ \E to \in {"failed", "cancelled"} : FinishNotSent(c, to, result)

\* Types.
LEMMA TypeStep ==
  ASSUME TypeOK, [Next]_vars
  PROVE  TypeOK'
<1>1. ASSUME NEW c \in Callers, Calls(c)
      PROVE  TypeOK'
  <2>1. ASSUME NEW s \in Stores, NEW op \in Ops, NEW digest \in Digests,
               BeginExisting(c, s, op, digest)
        PROVE  TypeOK'
    BY <2>1 DEF BeginExisting, TypeOK, storeVars, Caller, PCs
  <2>2. ASSUME NEW s \in Stores, NEW op \in Ops, NEW digest \in Digests,
               NEW result \in {"ok", "lost"}, Begin(c, s, op, digest, result)
        PROVE  TypeOK'
    <3>1. row' \in [Ops -> Row]
      BY <2>2 DEF Begin, TypeOK, Row, Stages, Deliveries
    <3>2. caller' \in [Callers -> Caller]
      BY <2>2 DEF Begin, TypeOK, Caller, PCs
    <3> QED BY <2>2, <3>1, <3>2 DEF Begin, TypeOK, storeVars
  <2>3. CASE Reject(c) \/ LockBusy(c)
    BY <2>3, GotoEffect DEF Reject, LockBusy, TypeOK, storeVars, PCs
  <2>4. CASE LockForSend(c)
    BY <2>4, LockForSendEffect DEF LockForSend, TypeOK, storeVars
  <2>5. CASE Deliver(c)
    <3>1. sends' \in [Ops -> Nat]
      BY <2>5, CallerFields DEF Deliver, TypeOK
    <3> QED BY <2>5, <3>1, GotoEffect DEF Deliver, TypeOK, storeVars, PCs
  <2>6. ASSUME NEW outcome, SendReturns(c, outcome)
        PROVE  TypeOK'
    BY <2>6, SendReturnsEffect DEF SendReturns, TypeOK, storeVars
  <2>7. ASSUME NEW result \in Results, Records(c, result)
        PROVE  TypeOK'
    <3>1. PICK to \in Stages, delivery \in Deliveries, pc \in PCs :
            /\ Transition(c, to, delivery, result)
            /\ Goto(c, pc)
            /\ UNCHANGED <<storeVars, sends>>
      BY <2>7, CallerFields
         DEF Records, MarkSendStarted, RecordAccepted, RecordFinal,
             RecordAmbiguous, FinishNotSent, Stages, Deliveries, PCs
    <3> QED
      BY <3>1, TransitionRow, TransitionLock, GotoEffect DEF TypeOK, storeVars
  <2> QED
    BY <1>1, <2>1, <2>2, <2>3, <2>4, <2>5, <2>6, <2>7 DEF Calls, Records
<1>2. ASSUME NEW s \in Stores, Recovers(s)
      PROVE  TypeOK'
  <2>1. ASSUME NEW op \in Ops, RecoverLock(s, op)
        PROVE  TypeOK'
    BY <2>1 DEF RecoverLock, TypeOK
  <2>2. ASSUME NEW op \in Ops, NEW result \in Results,
               RecoverUpdate(s, op, result)
        PROVE  TypeOK'
    <3>1. Patched(row[op], "ambiguous", "possibly_sent") \in Row
      BY PatchedRow DEF TypeOK, Stages, Deliveries
    <3>2. row' \in [Ops -> Row]
      BY <2>2, <3>1 DEF RecoverUpdate, TypeOK
    <3> QED BY <2>2, <3>2 DEF RecoverUpdate, TypeOK
  <2>3. CASE Opened(s)
    BY <2>3 DEF Opened, TypeOK
  <2> QED BY <1>2, <2>1, <2>2, <2>3 DEF Recovers
<1>3. ASSUME NEW s \in Stores, Open(s)
      PROVE  TypeOK'
  BY <1>3 DEF Open, TypeOK
<1>4. ASSUME NEW s \in Stores, Close(s)
      PROVE  TypeOK'
  BY <1>4 DEF Close, Unlocked, TypeOK
<1>5. ASSUME NEW s \in Stores, Crash(s)
      PROVE  TypeOK'
  <2>1. interrupted' \in SUBSET Ops
    BY <1>5 DEF Crash, TypeOK, Caller
  <2>2. opLock' \in [Ops -> Stores \cup {NoStore}]
    BY <1>5 DEF Crash, Unlocked, TypeOK
  <2> QED BY <1>5, <2>1, <2>2, CrashEffect DEF Crash, TypeOK
<1>6. ASSUME NEW op \in Ops, Purge(op)
      PROVE  TypeOK'
  <2>1. row' \in [Ops -> Row]
    BY <1>6, NoRowEffect DEF Purge, TypeOK
  <2> QED BY <1>6, <2>1 DEF Purge, TypeOK
<1>7. CASE UNCHANGED vars
  BY <1>7 DEF vars, TypeOK
<1> QED
  BY <1>1, <1>2, <1>3, <1>4, <1>5, <1>6, <1>7 DEF Next

-----------------------------------------------------------------------------
(* Receipts and the calls' knowledge of them.                              *)

\* Every valid patch yields a good row, and says where it came from.
LEMMA PatchGood ==
  ASSUME NEW r \in Row, NEW q \in Row, NEW to \in Stages,
         NEW delivery \in Deliveries, GoodRow(r),
         ValidPatch(r.stage, to, delivery),
         q.stage = to, q.delivery = delivery,
         q.retry = (delivery = "not_sent")
  PROVE  /\ GoodRow(q)
         /\ r.stage \notin Terminal /\ r.stage # "none" /\ q.stage # "none"
         /\ to = "send_started" => r.delivery = "not_sent"
         /\ to \in {"transport_accepted", "ambiguous"}
              => r.delivery = "possibly_sent" /\ r.stage = "send_started"
         /\ delivery = "not_sent" => r.stage = "not_sent"
         /\ to \in {"completed", "failed"} /\ delivery = "transport_accepted"
              => r.delivery = "transport_accepted"
BY DEF GoodRow, ValidPatch, Allowed, PatchDelivery, Terminal, Row, Stages

\* A call that is not stepping keeps what it knows if nobody changes the part
\* of its row it relies on.
LEMMA Bystander ==
  ASSUME NEW e \in Callers, CallKnows(e), caller'[e] = caller[e],
         LET op == caller[e].op
         IN /\ caller[e].pc # "idle" => /\ row'[op].stage # "none"
                                        /\ row'[op].digest = row[op].digest
            /\ Active(e) => /\ row'[op].delivery = row[op].delivery
                            /\ sends'[op] = sends[op]
  PROVE  CallKnows(e)'
BY DEF CallKnows, Active

LEMMA ReceiptStep ==
  ASSUME TypeOK, Receipts, Calling, [Next]_vars
  PROVE  Receipts' /\ Calling'
<1>1. ASSUME NEW c \in Callers, Calls(c)
      PROVE  Receipts' /\ Calling'
  <2> DEFINE op == caller[c].op
  <2>0. op \in Ops /\ row[op] \in Row /\ CallKnows(c) /\ GoodRow(row[op])
    BY CallerFields DEF Calling, Receipts
  \* Nothing the calls rely on changes, and the stepping call stays, or
  \* leaves, short of the boundary.
  <2>f. ASSUME UNCHANGED <<row, sends>>,
               \A e \in Callers \ {c} : caller'[e] = caller[e],
               CallKnows(c)', Active(c)' => Active(c) /\ caller'[c].op = op
        PROVE  Receipts' /\ Calling'
    <3>1. Receipts'
      BY <2>f DEF Receipts
    <3>2. \A e \in Callers : CallKnows(e)'
      BY <2>f DEF Calling, CallKnows
    <3>3. \A d, e \in Callers : d # e /\ Active(d)' /\ Active(e)'
            => caller'[d].op # caller'[e].op
      BY <2>f DEF Calling, Active
    <3> QED BY <3>1, <3>2, <3>3 DEF Calling
  <2>1. ASSUME NEW s \in Stores, NEW o \in Ops, NEW digest \in Digests,
               BeginExisting(c, s, o, digest)
        PROVE  Receipts' /\ Calling'
    <3>1. /\ caller'[c].pc = "checking" /\ caller'[c].op = o
          /\ caller'[c].digest = digest
          /\ \A e \in Callers \ {c} : caller'[e] = caller[e]
      BY <2>1 DEF BeginExisting, TypeOK
    <3>2. CallKnows(c)' /\ ~Active(c)'
      BY <2>1, <3>1 DEF BeginExisting, CallKnows, Active
    <3> QED BY <2>1, <2>f, <3>1, <3>2 DEF BeginExisting
  <2>2. ASSUME NEW s \in Stores, NEW o \in Ops, NEW digest \in Digests,
               NEW result \in {"ok", "lost"}, Begin(c, s, o, digest, result)
        PROVE  Receipts' /\ Calling'
    <3>1. /\ caller'[c].pc \in {"checking", "idle"} /\ caller'[c].op = o
          /\ caller'[c].digest = digest
          /\ \A e \in Callers \ {c} : caller'[e] = caller[e]
      BY <2>2 DEF Begin, TypeOK
    <3>2. /\ row'[o].stage = "not_sent" /\ row'[o].delivery = "not_sent"
          /\ row'[o].digest = digest
          /\ \A x \in Ops \ {o} : row'[x] = row[x]
          /\ sends' = sends
      BY <2>2 DEF Begin, TypeOK
    <3>3. row[o].stage = "none" /\ row[o].delivery = "none"
      BY <2>2 DEF Begin, Present, Receipts, GoodRow
    <3>4. Receipts'
      BY <3>2, <3>3 DEF Receipts, GoodRow
    <3>5. CallKnows(c)' /\ ~Active(c)'
      BY <3>1, <3>2 DEF CallKnows, Active
    <3>6. ASSUME NEW e \in Callers \ {c}
          PROVE  CallKnows(e)'
      <4>1. caller[e].op \in Ops /\ CallKnows(e)
        BY CallerFields DEF Calling
      <4>2. caller[e].pc # "idle" => caller[e].op # o
        BY <3>3, <4>1 DEF CallKnows
      <4> QED BY <3>1, <3>2, <4>1, <4>2, Bystander DEF Active, CallKnows
    <3>7. \A d, e \in Callers : d # e /\ Active(d)' /\ Active(e)'
            => caller'[d].op # caller'[e].op
      BY <3>1, <3>5 DEF Calling, Active
    <3> QED BY <3>4, <3>5, <3>6, <3>7 DEF Calling
  <2>3. CASE Reject(c) \/ LockBusy(c)
    <3>1. /\ caller'[c].pc = "rejected" /\ caller[c].pc = "checking"
          /\ caller'[c].op = op /\ caller'[c].digest = caller[c].digest
          /\ \A e \in Callers \ {c} : caller'[e] = caller[e]
          /\ UNCHANGED <<row, sends>>
      BY <2>3, GotoEffect DEF Reject, LockBusy, PCs
    <3>2. CallKnows(c)' /\ ~Active(c)'
      BY <2>0, <3>1 DEF CallKnows, Active
    <3> QED BY <2>f, <3>1, <3>2
  <2>4. CASE LockForSend(c)
    <3>1. CallKnows(c)' /\ ~Active(c)' /\ UNCHANGED <<row, sends>>
      BY <2>0, <2>4, LockForSendEffect DEF LockForSend, CallKnows, Active
    <3> QED BY <2>4, <2>f, <3>1, LockForSendEffect
  <2>6. ASSUME NEW outcome, SendReturns(c, outcome)
        PROVE  Receipts' /\ Calling'
    <3>1. \/ caller[c].pc = "sent"
          \/ caller[c].pc = "marked" /\ outcome = "error"
      BY <2>6 DEF SendReturns
    <3>2. UNCHANGED <<row, sends>>
      BY <2>6 DEF SendReturns
    <3>3. CallKnows(c)' /\ Active(c)
      BY <2>0, <2>6, <3>1, <3>2, SendReturnsEffect DEF CallKnows, Active
    <3> QED BY <2>6, <2>f, <3>2, <3>3, SendReturnsEffect
  \* The other calls when the stepping one is past the boundary, or the row
  \* says not_sent.
  <2>g. ASSUME row[op].delivery = "not_sent" \/ Active(c),
               row'[op].stage # "none", row'[op].digest = row[op].digest,
               \A o \in Ops \ {op} : row'[o] = row[o] /\ sends'[o] = sends[o],
               \A e \in Callers \ {c} : caller'[e] = caller[e],
               Receipts', CallKnows(c)', caller'[c].op = op
        PROVE  Receipts' /\ Calling'
    <3>1. ASSUME NEW e \in Callers \ {c}
          PROVE  CallKnows(e)' /\ (Active(e) => caller[e].op # op)
      <4>1. caller[e].op \in Ops /\ CallKnows(e)
        BY CallerFields DEF Calling
      <4>2. Active(e) => caller[e].op # op
        BY <2>g, <4>1 DEF Calling, CallKnows, Active
      <4>3. CallKnows(e)'
        BY <2>g, <4>1, <4>2, Bystander DEF CallKnows
      <4> QED BY <4>2, <4>3
    <3>2. \A d, e \in Callers : d # e /\ Active(d)' /\ Active(e)'
            => caller'[d].op # caller'[e].op
      BY <2>g, <3>1 DEF Calling, Active
    <3> QED BY <2>g, <3>1, <3>2 DEF Calling
  <2>5. CASE Deliver(c)
    <3>1. /\ caller'[c].pc = "sent" /\ caller[c].pc = "marked"
          /\ caller'[c].op = op /\ caller'[c].digest = caller[c].digest
          /\ \A e \in Callers \ {c} : caller'[e] = caller[e]
      BY <2>5, GotoEffect DEF Deliver, PCs
    <3>2. /\ row' = row /\ sends[op] = 0 /\ sends'[op] = 1
          /\ \A o \in Ops \ {op} : sends'[o] = sends[o]
          /\ row[op].delivery = "possibly_sent" /\ row[op].stage # "none"
      BY <2>0, <2>5 DEF Deliver, TypeOK, CallKnows
    <3>3. Receipts'
      BY <3>2 DEF Receipts
    <3>4. CallKnows(c)' /\ Active(c)
      BY <2>0, <3>1, <3>2 DEF CallKnows, Active
    <3> QED BY <2>g, <3>1, <3>2, <3>3, <3>4
  <2>7. ASSUME NEW result \in Results, Records(c, result)
        PROVE  Receipts' /\ Calling'
    <3>1. PICK to \in Stages, delivery \in Deliveries, pc \in PCs :
            /\ Transition(c, to, delivery, result)
            /\ Goto(c, pc)
            /\ sends' = sends
            /\ \/ /\ to = "send_started" /\ delivery = "possibly_sent"
                  /\ caller[c].pc = "locking"
                  /\ pc = IF result = "ok" THEN "marked" ELSE "rejected"
               \/ /\ to = "transport_accepted"
                  /\ delivery = "transport_accepted"
                  /\ caller[c].pc = "accepting"
                  /\ pc = IF result = "ok" THEN "finishing" ELSE "idle"
               \/ /\ to \in {"completed", "failed"}
                  /\ delivery = "transport_accepted"
                  /\ caller[c].pc = "finishing" /\ pc = "idle"
               \/ /\ to = "ambiguous" /\ delivery = "possibly_sent"
                  /\ caller[c].pc = "ambiguating" /\ pc = "idle"
               \/ /\ to \in {"failed", "cancelled"}
                  /\ delivery = "not_sent"
                  /\ caller[c].pc = "rejected" /\ pc = "idle"
      BY <2>7, CallerFields
         DEF Records, MarkSendStarted, RecordAccepted, RecordFinal,
             RecordAmbiguous, FinishNotSent, Stages, Deliveries, PCs
    <3>2. /\ caller'[c].pc = pc /\ caller'[c].op = op
          /\ caller'[c].digest = caller[c].digest
          /\ \A e \in Callers \ {c} : caller'[e] = caller[e]
      BY <3>1, GotoEffect
    <3>3. row' \in [Ops -> Row] /\ row'[op] \in Row
          /\ \A o \in Ops \ {op} : row'[o] = row[o]
      BY <2>0, <3>1, TransitionRow
    <3>4. CASE result = "fail"
      <4>1. row' = row
        BY <3>1, <3>4 DEF Transition
      <4>2. CallKnows(c)' /\ ~Active(c)'
        BY <2>0, <3>1, <3>2, <3>4, <4>1 DEF CallKnows, Active
      <4> QED BY <2>f, <3>1, <3>2, <4>1, <4>2
    <3>5. CASE result # "fail"
      <4>1. /\ ValidPatch(row[op].stage, to, delivery)
            /\ row'[op].stage = to /\ row'[op].delivery = delivery
            /\ row'[op].retry = (delivery = "not_sent")
            /\ row'[op].digest = row[op].digest
        BY <3>1, <3>5, TransitionRow
      <4>2. /\ GoodRow(row'[op])
            /\ row[op].stage # "none" /\ row'[op].stage # "none"
            /\ to = "send_started" => row[op].delivery = "not_sent"
            /\ to \in {"transport_accepted", "ambiguous"}
                 => row[op].delivery = "possibly_sent"
            /\ delivery = "not_sent" => row[op].stage = "not_sent"
            /\ to \in {"completed", "failed"}
                 /\ delivery = "transport_accepted"
                 => row[op].delivery = "transport_accepted"
        BY <2>0, <3>3, <4>1, PatchGood
      <4>3. row[op].delivery = "not_sent" \/ Active(c)
        BY <2>0, <3>1, <4>2 DEF Active, GoodRow
      <4>4. Receipts'
        <5>1. /\ sends[op] \in {0, 1}
              /\ row[op].delivery \in {"none", "not_sent"} => sends[op] = 0
              /\ row[op].delivery = "transport_accepted" => sends[op] = 1
              /\ caller[c].pc = "accepting" => sends[op] = 1
          BY <2>0 DEF Receipts, CallKnows
        <5>2. /\ delivery \in {"none", "not_sent"} => sends[op] = 0
              /\ delivery = "transport_accepted" => sends[op] = 1
          BY <2>0, <3>1, <4>2, <5>1 DEF GoodRow
        <5>3. \A o \in Ops \ {op} :
                /\ GoodRow(row'[o])
                /\ sends'[o] \in {0, 1}
                /\ row'[o].delivery \in {"none", "not_sent"} => sends'[o] = 0
                /\ row'[o].delivery = "transport_accepted" => sends'[o] = 1
          BY <3>1, <3>3 DEF Receipts
        <5> QED BY <3>1, <4>1, <4>2, <5>1, <5>2, <5>3 DEF Receipts
      <4>5. CallKnows(c)'
        <5>1. row[op].delivery = "not_sent" => sends[op] = 0
          BY <2>0 DEF Receipts
        <5> QED BY <2>0, <3>1, <3>2, <4>1, <4>2, <5>1 DEF CallKnows
      <4> QED BY <2>g, <3>1, <3>2, <3>3, <4>1, <4>2, <4>3, <4>4, <4>5
    <3> QED BY <3>4, <3>5
  <2> QED
    BY <1>1, <2>1, <2>2, <2>3, <2>4, <2>5, <2>6, <2>7 DEF Calls, Records
<1>2. ASSUME NEW s \in Stores, Recovers(s)
      PROVE  Receipts' /\ Calling'
  <2>1. ASSUME NEW op \in Ops, RecoverLock(s, op)
        PROVE  Receipts' /\ Calling'
    BY <2>1 DEF RecoverLock, Receipts, Calling, CallKnows, Active
  <2>2. ASSUME NEW op \in Ops, NEW result \in Results,
               RecoverUpdate(s, op, result)
        PROVE  Receipts' /\ Calling'
    <3>1. \A o \in Ops :
            /\ row'[o].delivery = row[o].delivery
            /\ row'[o].digest = row[o].digest
            /\ (row'[o].stage = "none") <=> (row[o].stage = "none")
            /\ GoodRow(row'[o])
      <4>1. row[op] \in Row /\ GoodRow(row[op])
        BY DEF TypeOK, Receipts
      <4>2. CASE row' = row
        BY <4>2 DEF Receipts
      <4>3. CASE /\ row[op].stage = "send_started"
                 /\ row' = [row EXCEPT ![op] =
                              Patched(@, "ambiguous", "possibly_sent")]
        <5>0. row'[op] = Patched(row[op], "ambiguous", "possibly_sent")
          BY <4>3 DEF TypeOK
        <5>1. LET q == row'[op]
              IN /\ q.stage = "ambiguous" /\ q.delivery = "possibly_sent"
                 /\ q.retry = FALSE /\ q.digest = row[op].digest
          BY <4>1, <5>0 DEF Patched, Row
        <5>2. \A o \in Ops \ {op} : row'[o] = row[o]
          BY <4>3 DEF TypeOK
        <5> QED BY <4>1, <4>3, <5>1, <5>2 DEF GoodRow, Receipts
      <4> QED BY <2>2, <4>2, <4>3 DEF RecoverUpdate
    <3>2. sends' = sends /\ caller' = caller
      BY <2>2 DEF RecoverUpdate
    <3>3. Receipts'
      BY <3>1, <3>2 DEF Receipts
    <3>4. \A e \in Callers : CallKnows(e)'
      BY <3>1, <3>2, CallerFields DEF Calling, CallKnows
    <3> QED BY <3>2, <3>3, <3>4 DEF Calling, Active
  <2>3. CASE Opened(s)
    BY <2>3 DEF Opened, Receipts, Calling, CallKnows, Active
  <2> QED BY <1>2, <2>1, <2>2, <2>3 DEF Recovers
<1>3. ASSUME NEW s \in Stores, Open(s) \/ Close(s)
      PROVE  Receipts' /\ Calling'
  BY <1>3 DEF Open, Close, Receipts, Calling, CallKnows, Active
<1>4. ASSUME NEW s \in Stores, Crash(s)
      PROVE  Receipts' /\ Calling'
  <2>1. row' = row /\ sends' = sends
    BY <1>4 DEF Crash
  <2>2. Receipts'
    BY <2>1 DEF Receipts
  <2>3. \A e \in Callers : CallKnows(e)'
    BY <1>4, <2>1, CrashEffect DEF Calling, CallKnows
  <2>4. \A d, e \in Callers : d # e /\ Active(d)' /\ Active(e)'
          => caller'[d].op # caller'[e].op
    BY <1>4, CrashEffect DEF Calling, Active
  <2> QED BY <2>2, <2>3, <2>4 DEF Calling
<1>5. ASSUME NEW op \in Ops, Purge(op)
      PROVE  Receipts' /\ Calling'
  <2>1. /\ row'[op].stage = "none" /\ row'[op].delivery = "none"
        /\ ~row'[op].retry
        /\ \A o \in Ops \ {op} : row'[o] = row[o] /\ sends'[o] = sends[o]
        /\ sends'[op] = 0 /\ caller' = caller
    BY <1>5, NoRowEffect DEF Purge, TypeOK
  <2>2. Receipts'
    BY <2>1 DEF Receipts, GoodRow
  <2>3. \A e \in Callers : CallKnows(e)'
    BY <1>5, <2>1, CallerFields DEF Purge, Calling, CallKnows
  <2> QED BY <2>1, <2>2, <2>3 DEF Calling, Active
<1>6. CASE UNCHANGED vars
  BY <1>6 DEF vars, Receipts, Calling, CallKnows, Active
<1> QED
  BY <1>1, <1>2, <1>3, <1>4, <1>5, <1>6 DEF Next

-----------------------------------------------------------------------------
(* Lock files.                                                             *)

LEMMA LockingStep ==
  ASSUME TypeOK, Calling, Locking, [Next]_vars
  PROVE  Locking'
<1> USE StoresAssumption
<1>1. ASSUME NEW c \in Callers, Calls(c)
      PROVE  Locking'
  <2> DEFINE op == caller[c].op
             s == caller[c].store
  <2>0. op \in Ops /\ s \in Stores /\ CallLocks(c)
    BY CallerFields DEF Locking
  \* The stores do not move.
  <2>s. UNCHANGED <<status, todo, recovers>>
    BY <1>1 DEF Calls, BeginExisting, Begin, Reject, LockForSend, LockBusy,
         Deliver, SendReturns, MarkSendStarted, RecordAccepted, RecordFinal,
         RecordAmbiguous, FinishNotSent, storeVars
  \* The lock files do not move either, no started send is disturbed, and
  \* the stepping call does not enter the critical section or the boundary.
  <2>f. ASSUME opLock' = opLock,
               \A e \in Callers \ {c} :
                 /\ caller'[e] = caller[e]
                 /\ Sending(e) /\ status[caller[e].store] = "open"
                      => row'[caller[e].op].stage = "send_started",
               caller'[c].pc \notin {"locking", "marked"},
               caller'[c].pc = "sent" =>
                 /\ Sending(c) /\ row' = row
                 /\ caller'[c].store = s /\ caller'[c].op = op,
               ~caller'[c].acquired,
               caller'[c].pc # "idle"
                 => status[caller'[c].store] # "recovering"
        PROVE  Locking'
    <3>1. CallLocks(c)'
      BY <2>0, <2>s, <2>f DEF CallLocks, Sending
    <3>2. \A e \in Callers \ {c} : CallLocks(e)'
      BY <2>s, <2>f DEF Locking, CallLocks, Sending
    <3>3. \A d, e \in Callers : d # e => Apart(d, e)'
      BY <2>s, <2>f DEF Locking, Apart, Sending
    <3>4. \A t \in Stores : RecoverLocks(t)'
      BY <2>s, <2>f DEF Locking, RecoverLocks
    <3> QED BY <3>1, <3>2, <3>3, <3>4 DEF Locking
  <2>h. \A e \in Callers : Sending(e) /\ status[caller[e].store] = "open"
          => row[caller[e].op].stage = "send_started"
    BY DEF Locking, CallLocks
  <2>1. ASSUME NEW t \in Stores, NEW o \in Ops, NEW digest \in Digests,
               BeginExisting(c, t, o, digest)
        PROVE  Locking'
    <3>1. /\ caller'[c].pc = "checking" /\ ~caller'[c].acquired
          /\ caller'[c].store = t /\ status[t] = "open"
          /\ \A e \in Callers \ {c} : caller'[e] = caller[e]
          /\ row' = row /\ opLock' = opLock
      BY <2>1 DEF BeginExisting, TypeOK
    <3> QED BY <2>f, <2>h, <3>1
  <2>2. ASSUME NEW t \in Stores, NEW o \in Ops, NEW digest \in Digests,
               NEW result \in {"ok", "lost"}, Begin(c, t, o, digest, result)
        PROVE  Locking'
    <3>1. /\ caller'[c].pc \in {"checking", "idle"} /\ ~caller'[c].acquired
          /\ caller'[c].store = t /\ status[t] = "open"
          /\ \A e \in Callers \ {c} : caller'[e] = caller[e]
          /\ opLock' = opLock
      BY <2>2 DEF Begin, TypeOK
    <3>2. /\ row[o].stage = "none"
          /\ \A x \in Ops \ {o} : row'[x] = row[x]
      BY <2>2 DEF Begin, Present, TypeOK
    <3>3. \A e \in Callers \ {c} :
            Sending(e) /\ status[caller[e].store] = "open"
              => row'[caller[e].op].stage = "send_started"
      BY <2>h, <3>2, CallerFields
    <3> QED BY <2>f, <3>1, <3>3
  <2>3. CASE Reject(c) \/ LockBusy(c)
    <3>1. /\ caller'[c].pc = "rejected" /\ ~caller'[c].acquired
          /\ caller'[c].store = s /\ status[s] # "recovering"
          /\ \A e \in Callers \ {c} : caller'[e] = caller[e]
          /\ row' = row /\ opLock' = opLock
      BY <2>0, <2>3, GotoEffect DEF Reject, LockBusy, PCs, CallLocks
    <3> QED BY <2>f, <2>h, <3>1
  <2>5. CASE Deliver(c)
    <3>1. /\ caller'[c].pc = "sent" /\ caller[c].pc = "marked"
          /\ ~caller'[c].acquired
          /\ caller'[c].store = s /\ caller'[c].op = op
          /\ status[s] # "recovering"
          /\ \A e \in Callers \ {c} : caller'[e] = caller[e]
          /\ row' = row /\ opLock' = opLock
      BY <2>0, <2>5, GotoEffect DEF Deliver, PCs, CallLocks
    <3>2. Sending(c)
      BY <3>1 DEF Sending
    <3> QED BY <2>f, <2>h, <3>1, <3>2
  <2>6. ASSUME NEW outcome, SendReturns(c, outcome)
        PROVE  Locking'
    <3>1. /\ caller[c].pc \in {"sent", "marked"}
          /\ row' = row /\ opLock' = opLock
      BY <2>6 DEF SendReturns
    <3>2. /\ caller'[c].pc \in {"ambiguating", "accepting"}
          /\ ~caller'[c].acquired
          /\ caller'[c].store = s /\ status[s] # "recovering"
          /\ \A e \in Callers \ {c} : caller'[e] = caller[e]
      BY <2>0, <2>6, <3>1, SendReturnsEffect DEF CallLocks
    <3> QED BY <2>f, <2>h, <3>1, <3>2
  <2>4. CASE LockForSend(c)
    <3>1. /\ caller'[c].pc = "locking" /\ caller[c].pc = "checking"
          /\ caller'[c].acquired => opLock[op] = NoStore
          /\ caller'[c].store = s /\ caller'[c].op = op
          /\ \A e \in Callers \ {c} : caller'[e] = caller[e]
          /\ opLock[op] \in {NoStore, s} /\ opLock'[op] = s
          /\ \A o \in Ops \ {op} : opLock'[o] = opLock[o]
          /\ MuFree(s)
      BY <2>4, LockForSendEffect
    <3>2. row' = row /\ status[s] # "recovering"
      BY <2>0, <2>4, <3>1 DEF LockForSend, CallLocks
    <3>3. ASSUME NEW e \in Callers \ {c}
          PROVE  CallLocks(e)' /\ Apart(c, e)' /\ Apart(e, c)'
      <4>1. caller[e].op \in Ops /\ caller[e].store \in Stores /\ CallLocks(e)
        BY CallerFields DEF Locking
      <4>2. caller[e].pc = "locking" => caller[e].store # s
        BY <3>1 DEF MuFree
      <4>3. CallLocks(e)'
        BY <2>s, <3>1, <3>2, <4>1, <4>2 DEF CallLocks, Sending
      <4>4. Apart(c, e)'
        BY <2>s, <3>1, <4>1, <4>2 DEF CallLocks, Apart, Sending
      <4>5. Apart(e, c)'
        BY <2>s, <3>1, <4>2 DEF Apart, Sending
      <4> QED BY <4>3, <4>4, <4>5
    <3>4. \A d, e \in Callers \ {c} : d # e => Apart(d, e)'
      BY <2>s, <3>1 DEF Locking, Apart, Sending
    <3>5. CallLocks(c)'
      BY <2>s, <3>1, <3>2 DEF CallLocks, Sending
    <3>6. ASSUME NEW t \in Stores
          PROVE  RecoverLocks(t)'
      <4>1. op \notin recovers[t]
        BY <3>1, <3>2 DEF Locking, RecoverLocks
      <4>2. recovers[t] \subseteq Ops
        BY DEF TypeOK
      <4> QED BY <2>s, <3>1, <4>1, <4>2 DEF Locking, RecoverLocks
    <3> QED BY <3>3, <3>4, <3>5, <3>6 DEF Locking
  <2>7. ASSUME NEW result \in Results, Records(c, result)
        PROVE  Locking'
    <3>1. PICK to \in Stages, delivery \in Deliveries, pc \in PCs :
            /\ Transition(c, to, delivery, result)
            /\ Goto(c, pc)
            /\ \/ /\ caller[c].pc = "locking" /\ to = "send_started"
                  /\ pc = IF result = "ok" THEN "marked" ELSE "rejected"
               \/ /\ caller[c].pc \in {"accepting", "ambiguating"}
                  /\ MuFree(s) /\ pc \in {"finishing", "idle"}
               \/ /\ caller[c].pc \in {"finishing", "rejected"}
                  /\ to \in {"completed", "failed", "cancelled"}
                  /\ MuFree(s) /\ pc = "idle"
      BY <2>7, CallerFields
         DEF Records, MarkSendStarted, RecordAccepted, RecordFinal,
             RecordAmbiguous, FinishNotSent, Stages, Deliveries, PCs
    <3>2. /\ caller'[c].pc = pc /\ caller'[c].op = op /\ caller'[c].store = s
          /\ ~caller'[c].acquired
          /\ \A e \in Callers \ {c} : caller'[e] = caller[e]
      BY <3>1, GotoEffect
    <3>3. /\ \A o \in Ops \ {op} : row'[o] = row[o] /\ opLock'[o] = opLock[o]
          /\ result = "fail" => row'[op] = row[op]
          /\ result # "fail" => /\ ValidPatch(row[op].stage, to, delivery)
                                /\ row'[op].stage = to
          /\ \/ opLock' = opLock
             \/ result # "ok" /\ caller[c].acquired
             \/ result = "ok" /\ to \in Terminal /\ opLock[op] = s
      BY <3>1, TransitionRow, TransitionLock
    <3>4. caller[c].acquired => caller[c].pc = "locking"
      BY <2>0 DEF CallLocks
    <3>5. caller[c].pc = "locking" => opLock[op] = s
      BY <2>0 DEF CallLocks
    <3>6. status[s] # "recovering"
      BY <2>0, <3>1 DEF CallLocks
    <3>7. CallLocks(c)'
      BY <2>s, <3>1, <3>2, <3>3, <3>5, <3>6
         DEF CallLocks, Sending, Terminal
    <3>8. ASSUME NEW e \in Callers \ {c}
          PROVE  CallLocks(e)' /\ Apart(e, c)'
      <4>1. /\ caller[e].op \in Ops /\ caller[e].store \in Stores
            /\ CallLocks(e) /\ Apart(c, e) /\ Apart(e, c)
        BY CallerFields DEF Locking
      <4>2. caller[e].pc = "locking" => caller[e].store # s
        BY <3>1, <4>1 DEF MuFree, Apart
      <4>3. caller[e].pc = "locking" => opLock'[caller[e].op] = caller[e].store
        BY <3>3, <3>4, <3>5, <4>1, <4>2 DEF CallLocks
      <4>4. ASSUME Sending(e), status[caller[e].store] = "open"
            PROVE  /\ opLock'[caller[e].op] = caller[e].store
                   /\ row'[caller[e].op].stage = "send_started"
        <5>1. /\ opLock[caller[e].op] = caller[e].store
              /\ row[caller[e].op].stage = "send_started"
          BY <4>1, <4>4 DEF CallLocks
        <5>2. CASE caller[e].op # op
          BY <3>3, <4>1, <5>1, <5>2
        <5>3. CASE caller[e].op = op
          <6>1. ~Active(c)
            BY <4>4, <5>3 DEF Calling, Active, Sending
          <6>2. ~caller[c].acquired
            BY <3>4, <4>1, <4>4, <5>3 DEF Apart
          <6>3. to \notin {"transport_accepted", "ambiguous"}
                \/ result = "fail"
            BY <3>1, <6>1 DEF Active
          <6>4. result = "fail"
            BY <3>3, <5>1, <5>3, <6>3 DEF ValidPatch, Allowed
          <6> QED BY <3>3, <5>1, <5>3, <6>2, <6>4
        <5> QED BY <5>2, <5>3
      <4>5. CallLocks(e)'
        BY <2>s, <3>2, <4>1, <4>3, <4>4 DEF CallLocks, Sending
      <4>6. caller[e].pc = "locking" /\ pc = "marked" => caller[e].op # op
        BY <3>1, <3>5, <4>1, <4>2 DEF CallLocks
      <4>7. Apart(e, c)'
        BY <3>1, <3>2, <4>6 DEF Apart, Sending
      <4> QED BY <4>5, <4>7
    <3>9. \A d, e \in Callers : d # e /\ e # c => Apart(d, e)'
      BY <2>s, <3>1, <3>2 DEF Locking, Apart, Sending
    <3>10. ASSUME NEW t \in Stores
           PROVE  RecoverLocks(t)'
      <4>1. recovers[t] \subseteq Ops /\ RecoverLocks(t)
        BY DEF TypeOK, Locking
      <4>2. op \in recovers[t] => opLock' = opLock
        BY <3>3, <3>4, <3>5, <3>6, <4>1 DEF RecoverLocks
      <4> QED BY <2>s, <3>3, <4>1, <4>2 DEF RecoverLocks
    <3> QED BY <3>7, <3>8, <3>9, <3>10 DEF Locking
  <2> QED
    BY <1>1, <2>1, <2>2, <2>3, <2>4, <2>5, <2>6, <2>7 DEF Calls, Records
<1>2. ASSUME NEW s \in Stores, NEW op \in Ops, RecoverLock(s, op)
      PROVE  Locking'
  <2>1. /\ UNCHANGED <<row, status, caller>> /\ status[s] = "recovering"
        /\ todo'[s] \subseteq todo[s]
        /\ \A t \in Stores \ {s} : todo'[t] = todo[t] /\ recovers'[t] = recovers[t]
    BY <1>2 DEF RecoverLock, TypeOK, Locking, RecoverLocks
  <2>2. CASE opLock[op] = NoStore
    <3>1. /\ opLock'[op] = s /\ recovers'[s] = {op}
          /\ \A o \in Ops \ {op} : opLock'[o] = opLock[o]
      BY <1>2, <2>2 DEF RecoverLock, TypeOK
    <3>2. \A e \in Callers : CallLocks(e)'
      BY <2>1, <2>2, <3>1, CallerFields DEF Locking, CallLocks, Sending
    <3>3. \A t \in Stores : RecoverLocks(t)'
      BY <2>1, <2>2, <3>1 DEF TypeOK, Locking, RecoverLocks
    <3> QED BY <2>1, <3>2, <3>3 DEF Locking, Apart, Sending
  <2>3. CASE opLock[op] # NoStore
    <3>1. UNCHANGED <<opLock, recovers>>
      BY <1>2, <2>3 DEF RecoverLock
    <3>2. \A e \in Callers : CallLocks(e)'
      BY <2>1, <3>1 DEF Locking, CallLocks, Sending
    <3>3. \A t \in Stores : RecoverLocks(t)'
      BY <2>1, <3>1 DEF Locking, RecoverLocks
    <3> QED BY <2>1, <3>2, <3>3 DEF Locking, Apart, Sending
  <2> QED BY <2>2, <2>3
<1>3. ASSUME NEW s \in Stores, NEW op \in Ops, NEW result \in Results,
             RecoverUpdate(s, op, result)
      PROVE  Locking'
  <2>1. /\ opLock[op] = s /\ status[s] = "recovering"
        /\ \A o \in Ops \ {op} : opLock'[o] = opLock[o] /\ row'[o] = row[o]
        /\ caller' = caller
        /\ recovers'[s] = {}
        /\ \A t \in Stores \ {s} : /\ status'[t] = status[t]
                                   /\ todo'[t] = todo[t]
                                   /\ recovers'[t] = recovers[t]
        /\ \/ status'[s] = "recovering"
           \/ status'[s] = "closed" /\ todo'[s] = {}
    BY <1>3 DEF RecoverUpdate, TypeOK, Locking, RecoverLocks
  <2>2. ASSUME NEW e \in Callers
        PROVE  CallLocks(e)'
    <3>1. caller[e].op \in Ops /\ caller[e].store \in Stores /\ CallLocks(e)
      BY CallerFields DEF Locking
    <3>2. caller[e].pc # "idle" => caller[e].store # s
      BY <2>1, <3>1 DEF CallLocks
    <3>3. Sending(e) \/ caller[e].pc = "locking" => caller[e].pc # "idle"
      BY DEF Sending
    <3>4. status'[caller[e].store] = status[caller[e].store]
          \/ caller[e].pc = "idle"
      BY <2>1, <3>1, <3>2
    <3> QED BY <2>1, <3>1, <3>2, <3>3, <3>4 DEF CallLocks, Sending
  <2>3. \A c, e \in Callers : c # e => Apart(c, e)'
    <3>1. \A e \in Callers : status'[caller[e].store] = "open"
            => status[caller[e].store] = "open"
      BY <2>1, CallerFields
    <3> QED BY <2>1, <3>1 DEF Locking, Apart, Sending
  <2>4. ASSUME NEW t \in Stores
        PROVE  RecoverLocks(t)'
    <3>1. t # s => op \notin recovers[t]
      BY <2>1 DEF Locking, RecoverLocks
    <3> QED BY <2>1, <3>1 DEF Locking, RecoverLocks, TypeOK
  <2> QED BY <2>2, <2>3, <2>4 DEF Locking
\* The status of a store changes while it has no call under way, or it closes.
<1>4. ASSUME NEW s \in Stores, Opened(s) \/ Open(s) \/ Close(s) \/ Crash(s)
      PROVE  Locking'
  <2>1. /\ row' = row
        /\ \A t \in Stores \ {s} : /\ status'[t] = status[t]
                                   /\ todo'[t] = todo[t]
                                   /\ recovers'[t] = recovers[t]
        /\ recovers'[s] = {}
        /\ todo'[s] # {} => status'[s] = "recovering"
    BY <1>4, ZenonT(40) DEF Opened, Open, Close, Crash, TypeOK, Locking, RecoverLocks
  <2>2. \A op \in Ops : opLock'[op] = opLock[op] \/ opLock[op] = s
    BY <1>4 DEF Opened, Open, Close, Crash, Unlocked
  <2>3. \A op \in Ops : status'[s] # "closed" => opLock'[op] = opLock[op]
    BY <1>4 DEF Opened, Open, Close, Crash, Unlocked, TypeOK
  <2>4. ASSUME NEW e \in Callers
        PROVE  /\ \/ caller'[e] = caller[e]
                  \/ /\ caller'[e].pc = "idle" /\ ~caller'[e].acquired
                     /\ caller'[e].store = caller[e].store
               /\ caller'[e].store = s =>
                    /\ caller'[e].pc # "locking"
                    /\ caller'[e].pc # "idle" => status'[s] = "closed"
    <3>1. CASE Opened(s) \/ Open(s)
      BY <3>1, CallerFields
         DEF Opened, Open, Vacant, Locking, CallLocks
    <3>2. CASE Close(s)
      BY <3>2 DEF Close, MuFree, TypeOK
    <3>3. CASE Crash(s)
      BY <3>3, CrashEffect
    <3> QED BY <1>4, <3>1, <3>2, <3>3
  <2>5. ASSUME NEW e \in Callers
        PROVE  CallLocks(e)'
    <3>1. caller[e].op \in Ops /\ caller[e].store \in Stores /\ CallLocks(e)
      BY CallerFields DEF Locking
    <3>2. CASE caller'[e].pc = "idle"
      BY <2>4, <3>1, <3>2 DEF CallLocks, Sending
    <3>3. CASE caller'[e].pc # "idle"
      <4>1. caller'[e] = caller[e]
        BY <2>4, <3>3
      <4>2. CASE caller[e].store = s
        BY <2>4, <3>1, <3>3, <4>1, <4>2 DEF CallLocks, Sending
      <4>3. CASE caller[e].store # s
        BY <2>1, <2>2, <3>1, <4>1, <4>3 DEF CallLocks, Sending
      <4> QED BY <4>2, <4>3
    <3> QED BY <3>2, <3>3
  <2>6. \A c, e \in Callers : c # e => Apart(c, e)'
    <3>1. \A e \in Callers :
            Sending(e)' /\ status'[caller'[e].store] = "open"
            => Sending(e) /\ status[caller[e].store] = "open"
               /\ caller'[e] = caller[e]
      BY <2>1, <2>4, CallerFields DEF Sending
    <3> QED BY <2>4, <3>1 DEF Locking, Apart
  <2>7. ASSUME NEW t \in Stores
        PROVE  RecoverLocks(t)'
    BY <2>1, <2>2 DEF Locking, RecoverLocks, TypeOK
  <2> QED BY <2>5, <2>6, <2>7 DEF Locking
<1>5. ASSUME NEW op \in Ops, Purge(op)
      PROVE  Locking'
  <2>1. /\ UNCHANGED <<opLock, status, todo, recovers, caller>>
        /\ \A o \in Ops \ {op} : row'[o] = row[o]
        /\ \A c \in Callers : caller[c].op = op => caller[c].pc = "idle"
    BY <1>5 DEF Purge, TypeOK
  <2>2. \A e \in Callers : CallLocks(e)'
    BY <2>1, CallerFields DEF Locking, CallLocks, Sending
  <2> QED BY <2>1, <2>2 DEF Locking, Apart, Sending, RecoverLocks
<1>6. CASE UNCHANGED vars
  BY <1>6 DEF vars, Locking, CallLocks, Apart, Sending, RecoverLocks
<1> QED
  BY <1>1, <1>2, <1>3, <1>4, <1>5, <1>6 DEF Next, Recovers

-----------------------------------------------------------------------------
(* The invariant and what follows from it.                                 *)

LEMMA InitInv == Init => Inv
<1> SUFFICES ASSUME Init PROVE Inv
  OBVIOUS
<1>1. TypeOK
  BY DEF Init, TypeOK
<1>2. Receipts
  BY DEF Init, Receipts, GoodRow
<1>3. \A c \in Callers : caller[c].pc = "idle" /\ ~caller[c].acquired
  BY DEF Init
<1>4. Calling
  BY <1>3 DEF Calling, CallKnows, Active
<1>5. Locking
  BY <1>3 DEF Init, Locking, CallLocks, Apart, Sending, RecoverLocks
<1> QED BY <1>1, <1>2, <1>4, <1>5 DEF Inv

\* The strengthened invariant holds in every reachable state.
THEOREM InvHolds == Spec => []Inv
<1>1. Inv /\ [Next]_vars => Inv'
  BY TypeStep, ReceiptStep, LockingStep DEF Inv
<1> QED BY <1>1, InitInv, PTL DEF Spec

\* Every variable keeps its type, whatever stores crash or reopen.
THEOREM TypeCorrect == Spec => []TypeOK
<1>1. Inv => TypeOK
  BY DEF Inv
<1> QED BY <1>1, InvHolds, PTL

\* The device is given an operation at most once, with any number of
\* processes, retries, crashes and lost commit answers.
THEOREM AtMostOnce == Spec => []SentAtMostOnce
<1>1. Inv => SentAtMostOnce
  BY DEF Inv, Receipts, SentAtMostOnce
<1> QED BY <1>1, InvHolds, PTL

\* Whoever is told that a retry is safe can rely on it.
THEOREM RetryIsSafe == Spec => []RetrySafeMeansUnsent
<1>1. Inv => RetrySafeMeansUnsent
  <2> SUFFICES ASSUME Inv, NEW op \in Ops, row[op].retry
               PROVE  /\ sends[op] = 0
                      /\ \A c \in Callers : Sending(c) => caller[c].op # op
    BY DEF RetrySafeMeansUnsent
  <2>1. row[op].delivery = "not_sent" /\ sends[op] = 0
    BY DEF Inv, Receipts, GoodRow
  <2> QED BY <2>1 DEF Inv, Calling, CallKnows, Sending
<1> QED BY <1>1, InvHolds, PTL

\* What the delivery column says is what happened.
THEOREM Honest == Spec => []DeliveryHonest
<1>1. Inv => DeliveryHonest
  BY DEF Inv, TypeOK, Row, Deliveries, Receipts, DeliveryHonest
<1> QED BY <1>1, InvHolds, PTL

\* No call works on a receipt that was registered for other arguments.
THEOREM DigestsBind == Spec => []DigestBinding
<1>1. Inv => DigestBinding
  BY DEF Inv, Calling, CallKnows, DigestBinding, Present
<1> QED BY <1>1, InvHolds, PTL

\* A live send is never taken away by the recovery of another process.
THEOREM SendsOwned == Spec => []LiveSendOwned
<1>1. Inv => LiveSendOwned
  BY DEF Inv, Locking, CallLocks, LiveSendOwned
<1> QED BY <1>1, InvHolds, PTL

-----------------------------------------------------------------------------
(* What one step does to a row, and the promise of receipts.               *)

RowStays(op) == row'[op] = row[op] /\ sends'[op] = sends[op]

RowMoves(op) ==
  \/ /\ row[op].stage = "none" /\ row[op].delivery = "none"
     /\ row'[op].delivery = "not_sent" /\ sends'[op] = sends[op]
  \/ /\ sends'[op] = sends[op]
     /\ ValidPatch(row[op].stage, row'[op].stage, row'[op].delivery)
     /\ row'[op].stage = "transport_accepted" => sends[op] # 0
  \/ /\ row'[op] = row[op] /\ row[op].delivery = "possibly_sent"
     /\ sends[op] = 0 /\ sends'[op] = 1
  \/ /\ row[op].stage \in Terminal
     /\ row'[op].stage = "none" /\ row'[op].delivery = "none"
     /\ sends'[op] = 0

\* A step moves one row at most, in one of the four ways.
LEMMA OneRow ==
  ASSUME Inv, [Next]_vars
  PROVE  \/ \A op \in Ops : RowStays(op)
         \/ \E op \in Ops : /\ RowMoves(op)
                             /\ \A o \in Ops \ {op} : RowStays(o)
<1> DEFINE Goal == \/ \A op \in Ops : RowStays(op)
                   \/ \E op \in Ops : /\ RowMoves(op)
                                       /\ \A o \in Ops \ {op} : RowStays(o)
<1> USE DEF Inv
<1>0. CASE UNCHANGED <<row, sends>>
  BY <1>0 DEF RowStays
<1>1. ASSUME NEW c \in Callers, NEW s \in Stores, NEW o \in Ops,
             NEW digest \in Digests, NEW result \in {"ok", "lost"},
             Begin(c, s, o, digest, result)
      PROVE  Goal
  <2>1. /\ row[o].stage = "none" /\ row[o].delivery = "none"
        /\ row'[o].delivery = "not_sent" /\ sends' = sends
        /\ \A x \in Ops \ {o} : row'[x] = row[x]
    BY <1>1 DEF Begin, Present, TypeOK, Receipts, GoodRow
  <2> QED BY <2>1 DEF RowMoves, RowStays
<1>2. ASSUME NEW c \in Callers, Deliver(c)
      PROVE  Goal
  <2> DEFINE op == caller[c].op
  <2>1. /\ op \in Ops /\ row' = row /\ sends[op] = 0 /\ sends'[op] = 1
        /\ \A o \in Ops \ {op} : sends'[o] = sends[o]
        /\ row[op].delivery = "possibly_sent"
    BY <1>2, CallerFields DEF Deliver, TypeOK, Calling, CallKnows
  <2> HIDE DEF op
  <2> QED BY <2>1 DEF RowMoves, RowStays
<1>3. ASSUME NEW c \in Callers, NEW result \in Results, Records(c, result)
      PROVE  Goal
  <2> DEFINE op == caller[c].op
  <2>1. PICK to \in Stages, delivery \in Deliveries :
          /\ Transition(c, to, delivery, result)
          /\ sends' = sends
          /\ to = "transport_accepted" => caller[c].pc = "accepting"
    BY <1>3, CallerFields
       DEF Records, MarkSendStarted, RecordAccepted, RecordFinal,
           RecordAmbiguous, FinishNotSent, Stages, Deliveries
  <2>2. op \in Ops /\ (to = "transport_accepted" => sends[op] # 0)
    BY <2>1, CallerFields DEF Calling, CallKnows
  <2>3. /\ \A o \in Ops \ {op} : row'[o] = row[o]
        /\ \/ row'[op] = row[op]
           \/ /\ ValidPatch(row[op].stage, to, delivery)
              /\ row'[op].stage = to /\ row'[op].delivery = delivery
    BY <2>1, TransitionRow
  <2> HIDE DEF op
  <2> QED BY <2>1, <2>2, <2>3 DEF RowMoves, RowStays
<1>4. ASSUME NEW s \in Stores, NEW op \in Ops, NEW result \in Results,
             RecoverUpdate(s, op, result)
      PROVE  Goal
  <2>1. CASE row' = row
    BY <1>4, <2>1 DEF RecoverUpdate, RowStays
  <2>2. CASE row' # row
    <3>1. /\ row[op].stage = "send_started" /\ sends' = sends
          /\ row'[op] = Patched(row[op], "ambiguous", "possibly_sent")
          /\ \A o \in Ops \ {op} : row'[o] = row[o]
      BY <1>4, <2>2 DEF RecoverUpdate, TypeOK
    <3>2. row[op] \in Row
      BY DEF TypeOK
    <3>3. row'[op].stage = "ambiguous" /\ row'[op].delivery = "possibly_sent"
      BY <3>1, <3>2 DEF Patched, Row
    <3>4. ValidPatch("send_started", "ambiguous", "possibly_sent")
      BY DEF ValidPatch, Allowed, PatchDelivery, Terminal
    <3> QED BY <3>1, <3>3, <3>4 DEF RowMoves, RowStays
  <2> QED BY <2>1, <2>2
<1>5. ASSUME NEW op \in Ops, Purge(op)
      PROVE  Goal
  <2>1. /\ row[op].stage \in Terminal
        /\ row'[op].stage = "none" /\ row'[op].delivery = "none"
        /\ \A o \in Ops \ {op} : row'[o] = row[o] /\ sends'[o] = sends[o]
        /\ sends'[op] = 0
    BY <1>5, NoRowEffect DEF Purge, TypeOK
  <2> QED BY <2>1 DEF RowMoves, RowStays
<1>6. ASSUME NEW c \in Callers, Calls(c)
      PROVE  Goal
  <2>1. CASE \/ Reject(c) \/ LockForSend(c) \/ LockBusy(c)
             \/ \E outcome \in {"accepted", "refused", "error"} :
                  SendReturns(c, outcome)
             \/ \E s \in Stores, op \in Ops, digest \in Digests :
                  BeginExisting(c, s, op, digest)
    BY <1>0, <2>1 DEF Reject, LockForSend, LockBusy, SendReturns, BeginExisting
  <2> QED BY <1>1, <1>2, <1>3, <1>6, <2>1 DEF Calls, Records
<1>7. ASSUME NEW s \in Stores,
             \/ Open(s) \/ Close(s) \/ Crash(s) \/ Opened(s)
             \/ \E op \in Ops : RecoverLock(s, op)
      PROVE  Goal
  BY <1>0, <1>7 DEF Open, Close, Crash, Opened, RecoverLock
<1>8. CASE UNCHANGED vars
  BY <1>0, <1>8 DEF vars
<1> QED BY <1>4, <1>5, <1>6, <1>7, <1>8 DEF Next, Recovers

\* A terminal receipt stays as it is: nothing but the purge touches it.
THEOREM TerminalStays == Spec => TerminalFinal
<1> DEFINE Step == \A op \in Ops : row[op].stage \in Terminal =>
                     row'[op] = row[op] \/ ~Present(op)'
<1>1. Inv /\ [Next]_vars => Step
  <2> SUFFICES ASSUME Inv, [Next]_vars, NEW op \in Ops,
                      row[op].stage \in Terminal
               PROVE  row'[op] = row[op] \/ ~Present(op)'
    OBVIOUS
  <2>1. RowMoves(op) => row'[op] = row[op] \/ row'[op].stage = "none"
    BY DEF RowMoves, Terminal, ValidPatch, Allowed
  <2>2. RowStays(op) \/ RowMoves(op)
    BY OneRow
  <2> QED BY <2>1, <2>2 DEF RowStays, Present
<1> QED BY <1>1, InvHolds, PTL DEF Spec, TerminalFinal

\* Every step of the ledger is a step of the promise or leaves it alone.
LEMMA ClaimStep ==
  ASSUME Inv, [Next]_vars
  PROVE  Promise!Next \/ UNCHANGED <<Claim, Delivered>>
<1>1. CASE \A op \in Ops : RowStays(op)
  BY <1>1 DEF RowStays, Claim, Delivered
<1>2. ASSUME NEW op \in Ops, RowMoves(op), \A o \in Ops \ {op} : RowStays(o)
      PROVE  Promise!Next \/ UNCHANGED <<Claim, Delivered>>
  <2>1. /\ Claim' = [Claim EXCEPT ![op] = row'[op].delivery]
        /\ Claim[op] = row[op].delivery
        /\ sends'[op] = sends[op] => Delivered' = Delivered
        /\ Delivered[op] <=> sends[op] # 0
        /\ sends'[op] = 1 => Delivered' = [Delivered EXCEPT ![op] = TRUE]
        /\ sends'[op] = 0 => Delivered' = [Delivered EXCEPT ![op] = FALSE]
        /\ row'[op].delivery = row[op].delivery => Claim' = Claim
    <3>1. /\ Claim' = [Claim EXCEPT ![op] = row'[op].delivery]
          /\ Claim[op] = row[op].delivery
          /\ row'[op].delivery = row[op].delivery => Claim' = Claim
      BY <1>2 DEF RowStays, Claim
    <3>2. /\ sends'[op] = sends[op] => Delivered' = Delivered
          /\ Delivered[op] <=> sends[op] # 0
      BY <1>2 DEF RowStays, Delivered
    <3>3. sends'[op] = 1 => Delivered' = [Delivered EXCEPT ![op] = TRUE]
      <4>1. sends'[op] = 1 => (sends'[op] # 0) = TRUE
        OBVIOUS
      <4>2. \A o \in Ops \ {op} : sends'[o] = sends[o]
        BY <1>2 DEF RowStays
      <4> QED BY <4>1, <4>2, Zenon DEF Delivered
    <3>4. sends'[op] = 0 => Delivered' = [Delivered EXCEPT ![op] = FALSE]
      BY <1>2 DEF RowStays, Delivered
    <3> QED BY <3>1, <3>2, <3>3, <3>4
  <2>2. row[op] \in Row /\ GoodRow(row[op])
    BY DEF Inv, TypeOK, Receipts
  <2>3. CASE /\ row[op].delivery = "none" /\ row'[op].delivery = "not_sent"
             /\ sends'[op] = sends[op]
    BY <2>1, <2>3 DEF Promise!Next, Promise!Register
  <2>4. CASE /\ sends'[op] = sends[op]
             /\ ValidPatch(row[op].stage, row'[op].stage, row'[op].delivery)
             /\ row'[op].stage = "transport_accepted" => sends[op] # 0
    <3>1. \/ row'[op].delivery = row[op].delivery
          \/ /\ row[op].delivery = "not_sent"
             /\ row'[op].delivery = "possibly_sent"
          \/ /\ row[op].delivery = "possibly_sent" /\ sends[op] # 0
             /\ row'[op].delivery = "transport_accepted"
      BY <2>2, <2>4 DEF ValidPatch, Allowed, PatchDelivery, GoodRow, Terminal
    <3> QED
      BY <2>1, <2>4, <3>1 DEF Promise!Next, Promise!Commit, Promise!Accept
  <2>5. CASE /\ row'[op] = row[op] /\ row[op].delivery = "possibly_sent"
             /\ sends[op] = 0 /\ sends'[op] = 1
    BY <2>1, <2>5 DEF Promise!Next, Promise!Deliver
  <2>6. CASE /\ row[op].stage \in Terminal /\ row'[op].delivery = "none"
             /\ sends'[op] = 0
    <3>1. row[op].delivery # "none"
      BY <2>2, <2>6 DEF GoodRow, Terminal
    <3> QED BY <2>1, <2>6, <3>1 DEF Promise!Next, Promise!Forget
  <2> QED BY <1>2, <2>3, <2>4, <2>5, <2>6 DEF RowMoves
<1> QED BY <1>1, <1>2, OneRow

\* The ledger implements DeliveryClaim.
THEOREM PromiseKept == Spec => KeepsPromise
<1>1. Init => Promise!Init
  BY ZenonT(40) DEF Init, Promise!Init, Claim, Delivered
<1>2. Inv /\ [Next]_vars => [Promise!Next]_<<Claim, Delivered>>
  BY ClaimStep
<1> QED BY <1>1, <1>2, InvHolds, PTL DEF Spec, KeepsPromise, Promise!Spec
=============================================================================
