-------------------------- MODULE OperationLedger --------------------------
(***************************************************************************)
(* The durable operation ledger and the service calls that use it          *)
(* (internal/operation, internal/store/store.go, and RunActions,           *)
(* ReleaseInput and PowerAction of internal/automation/service.go).        *)
(*                                                                         *)
(* Several processes share one SQLite file; each opens a store on it.  A   *)
(* caller is a service call in flight: it registers its operation, passes  *)
(* its checks, crosses the send boundary, sends, and records the outcome.  *)
(* Stores crash, or are closed under calls still in flight; a new store    *)
(* first recovers the sends an earlier one left behind.                    *)
(*                                                                         *)
(* The control registry serializes the calls of one device; the ledger     *)
(* does not rely on it, and here calls are not serialized.                 *)
(***************************************************************************)
EXTENDS Naturals, FiniteSets

CONSTANTS
  Stores,    \* stores on the shared database file
  Callers,   \* service calls in flight
  Ops,       \* operation IDs
  Digests    \* digests of the request arguments

NoStore == "none"
ASSUME StoresAssumption == NoStore \notin Stores

Stages == {"not_sent", "send_started", "transport_accepted",
           "observation_started", "state_observed", "completed", "failed",
           "ambiguous", "cancelled"}
Terminal == {"completed", "failed", "ambiguous", "cancelled"}
Deliveries == {"none", "not_sent", "possibly_sent", "transport_accepted"}

\* A receipt row; an absent one has stage and delivery "none".
Row == [stage: Stages \cup {"none"}, delivery: Deliveries, retry: BOOLEAN,
        digest: Digests]

\* Where a service call is.
PCs == {"idle", "checking", "locking", "marked", "sent", "accepting",
        "finishing", "ambiguating", "rejected"}
Caller == [pc: PCs, store: Stores, op: Ops, digest: Digests,
           acquired: BOOLEAN, goal: {"completed", "failed"}]

\* How a database transaction ends: committed, committed with the answer
\* lost, or rolled back.
Results == {"ok", "lost", "fail"}

VARIABLES
  row,       \* table operations
  opLock,    \* the OS lock on each operation's file: the store holding it
  status,    \* "closed", "recovering" or "open"
  todo,      \* rows RecoverInterrupted has listed and not yet handled
  recovers,  \* the row whose file RecoverInterrupted has locked
  interrupted,  \* ghost: operations whose sender crashed
  orphans,   \* ghost: interrupted sends when the store's recovery began
  caller,    \* the service calls
  sends      \* ghost: how often the device was given each operation

storeVars == <<status, todo, recovers, interrupted, orphans>>
vars == <<row, opLock, status, todo, recovers, interrupted, orphans, caller,
          sends>>

NoRow(r) == [r EXCEPT !.stage = "none", !.delivery = "none", !.retry = FALSE]
Present(op) == row[op].stage # "none"

TypeOK ==
  /\ row \in [Ops -> Row]
  /\ opLock \in [Ops -> Stores \cup {NoStore}]
  /\ status \in [Stores -> {"closed", "recovering", "open"}]
  /\ todo \in [Stores -> SUBSET Ops]
  /\ recovers \in [Stores -> SUBSET Ops]
  /\ interrupted \in SUBSET Ops
  /\ orphans \in [Stores -> SUBSET Ops]
  /\ caller \in [Callers -> Caller]
  /\ sends \in [Ops -> Nat]

Init ==
  /\ row \in [Ops -> {r \in Row : r.stage = "none" /\ r.delivery = "none"
                                  /\ ~r.retry}]
  /\ opLock = [op \in Ops |-> NoStore]
  /\ status = [s \in Stores |-> "closed"]
  /\ todo = [s \in Stores |-> {}]
  /\ recovers = [s \in Stores |-> {}]
  /\ interrupted = {}
  /\ orphans = [s \in Stores |-> {}]
  /\ caller \in [Callers -> {k \in Caller : k.pc = "idle" /\ ~k.acquired
                                            /\ k.goal = "completed"}]
  /\ sends = [op \in Ops |-> 0]

-----------------------------------------------------------------------------
(* The transition authority.                                               *)

\* Mutant: starting a send twice counts as a harmless repetition.
AllowedAgain(from, to) ==
  /\ from \notin Terminal
  /\ <<from, to>> \in
       ({"not_sent"} \X {"send_started", "failed", "cancelled"})
       \cup ({"send_started"} \X {"send_started", "transport_accepted",
                                  "ambiguous"})
       \cup ({"transport_accepted"} \X {"observation_started", "completed",
                                        "failed"})
       \cup ({"observation_started"} \X {"state_observed", "completed",
                                         "failed"})
       \cup ({"state_observed"} \X {"completed", "failed"})

\* operation.ValidateTransition.
Allowed(from, to) ==
  /\ from \notin Terminal
  /\ <<from, to>> \in
       ({"not_sent"} \X {"send_started", "failed", "cancelled"})
       \cup ({"send_started"} \X {"transport_accepted", "ambiguous"})
       \cup ({"transport_accepted"} \X {"observation_started", "completed",
                                        "failed"})
       \cup ({"observation_started"} \X {"state_observed", "completed",
                                         "failed"})
       \cup ({"state_observed"} \X {"completed", "failed"})

\* operation.ValidatePatch: the delivery a new stage demands.  The callers
\* ask for retry_safe exactly with delivery "not_sent", as it demands too.
PatchDelivery(from, to) ==
  CASE to \in {"send_started", "ambiguous"} -> "possibly_sent"
    [] to = "cancelled" \/ (to = "failed" /\ from = "not_sent") -> "not_sent"
    [] OTHER -> "transport_accepted"

ValidPatch(from, to, delivery) ==
  Allowed(from, to) /\ delivery = PatchDelivery(from, to)

\* Mutant: a send that may not have arrived is offered for a retry.
PatchedRetryable(r, to, delivery) ==
  [r EXCEPT !.stage = to, !.delivery = delivery,
            !.retry = (delivery # "transport_accepted")]

Patched(r, to, delivery) ==
  [r EXCEPT !.stage = to, !.delivery = delivery,
            !.retry = (delivery = "not_sent")]

\* Store.ownersMu of a store is free: nobody is between TryLock and the end
\* of its transaction.
MuFree(s) == \A c \in Callers : ~(caller[c].pc = "locking"
                                  /\ caller[c].store = s)

\* The rest of Store.Transition once the lock is settled.  The row changes
\* unless the transaction rolled back, as it does when the store is closed or
\* the patch is not valid; a terminal commit frees the lock file if this
\* store has it, a failure frees it if this call took it.
Transition(c, to, delivery, result) ==
  LET op == caller[c].op
      s == caller[c].store
      frees == \/ result # "ok" /\ caller[c].acquired
               \/ result = "ok" /\ to \in Terminal /\ opLock[op] = s
  IN /\ result # "fail" => /\ status[s] = "open"
                           /\ ValidPatch(row[op].stage, to, delivery)
     /\ row' = IF result = "fail" THEN row
               ELSE [row EXCEPT ![op] = Patched(@, to, delivery)]
     /\ opLock' = IF frees THEN [opLock EXCEPT ![op] = NoStore] ELSE opLock

\* The call is past the send boundary and its callback has not returned.
Sending(c) == caller[c].pc \in {"marked", "sent"}

\* The call goes to its next point.
Goto(c, pc) == caller' = [caller EXCEPT ![c].pc = pc, ![c].acquired = FALSE]

-----------------------------------------------------------------------------
(* Service calls.                                                          *)

\* operations.Begin registers a new operation.  If the commit's answer is
\* lost the call returns an error and leaves the row.
Begin(c, s, op, digest, result) ==
  /\ caller[c].pc = "idle"
  /\ status[s] = "open"
  /\ ~Present(op)
  /\ row' = [row EXCEPT ![op] = [stage |-> "not_sent",
               delivery |-> "not_sent", retry |-> TRUE, digest |-> digest]]
  /\ caller' = [caller EXCEPT ![c] =
       [pc |-> IF result = "ok" THEN "checking" ELSE "idle", store |-> s,
        op |-> op, digest |-> digest, acquired |-> FALSE,
        goal |-> "completed"]]
  /\ UNCHANGED <<opLock, storeVars, sends>>

\* operations.Begin finds the operation registered with the same digest and
\* not sent: this call goes on too.  A conflicting digest, or a receipt that
\* went further, is returned and changes nothing.
BeginExisting(c, s, op, digest) ==
  /\ caller[c].pc = "idle"
  /\ status[s] = "open"
  /\ row[op].stage = "not_sent"
  /\ row[op].digest = digest
  /\ caller' = [caller EXCEPT ![c] =
       [pc |-> "checking", store |-> s, op |-> op, digest |-> digest,
        acquired |-> FALSE, goal |-> "completed"]]
  /\ UNCHANGED <<row, opLock, storeVars, sends>>

\* The handle is gone, the probe failed, the registry or the confirmation
\* authority rejected the call, or nothing had to be sent.
Reject(c) ==
  /\ caller[c].pc = "checking"
  /\ Goto(c, "rejected")
  /\ UNCHANGED <<row, opLock, storeVars, sends>>

\* MarkSendStarted takes Store.ownersMu and the operation's lock file, unless
\* this store has it already.
LockForSend(c) ==
  LET op == caller[c].op
      s == caller[c].store
  IN /\ caller[c].pc = "checking"
     /\ MuFree(s)
     /\ opLock[op] \in {NoStore, s}
     /\ caller' = [caller EXCEPT ![c].pc = "locking",
                                 ![c].acquired = (opLock[op] = NoStore)]
     /\ opLock' = [opLock EXCEPT ![op] = s]
     /\ UNCHANGED <<row, storeVars, sends>>

\* MarkSendStarted: TryLock finds the file locked by another store.
LockBusy(c) ==
  /\ caller[c].pc = "checking"
  /\ MuFree(caller[c].store)
  /\ opLock[caller[c].op] \notin {NoStore, caller[c].store}
  /\ Goto(c, "rejected")
  /\ UNCHANGED <<row, opLock, storeVars, sends>>

\* Mutant: the call sends although the boundary was not committed.
MarkSendStartedRegardless(c, result) ==
  /\ caller[c].pc = "locking"
  /\ Transition(c, "send_started", "possibly_sent", result)
  /\ Goto(c, "marked")
  /\ UNCHANGED <<storeVars, sends>>

\* MarkSendStarted: the transaction that makes the send boundary durable.
\* The call sends only if it saw the commit.
MarkSendStarted(c, result) ==
  /\ caller[c].pc = "locking"
  /\ Transition(c, "send_started", "possibly_sent", result)
  /\ Goto(c, IF result = "ok" THEN "marked" ELSE "rejected")
  /\ UNCHANGED <<storeVars, sends>>

\* The first frame or RPC of the operation reaches the transport.
Deliver(c) ==
  /\ caller[c].pc = "marked"
  /\ sends' = [sends EXCEPT ![caller[c].op] = @ + 1]
  /\ Goto(c, "sent")
  /\ UNCHANGED <<row, opLock, storeVars>>

\* Mutant: a queued request counts as accepted.
SendReturnsQueued(c, outcome) ==
  /\ Sending(c)
  /\ caller' = [caller EXCEPT
       ![c].pc = IF outcome = "error" THEN "ambiguating" ELSE "accepting",
       ![c].goal = IF outcome = "refused" THEN "failed" ELSE "completed"]
  /\ UNCHANGED <<row, opLock, storeVars, sends>>

\* The callback returns: accepted; failed after the device answered (an RPC
\* error, a partial batch that was neutralized); or with an error that says
\* nothing about delivery.
SendReturns(c, outcome) ==
  /\ \/ caller[c].pc = "sent"
     \/ caller[c].pc = "marked" /\ outcome = "error"
  /\ caller' = [caller EXCEPT
       ![c].pc = IF outcome = "error" THEN "ambiguating" ELSE "accepting",
       ![c].goal = IF outcome = "refused" THEN "failed" ELSE "completed"]
  /\ UNCHANGED <<row, opLock, storeVars, sends>>

\* First half of recording an accepted send.  If it fails the call returns
\* and leaves the row, and the lock, as they are.
RecordAccepted(c, result) ==
  /\ caller[c].pc = "accepting"
  /\ MuFree(caller[c].store)
  /\ Transition(c, "transport_accepted", "transport_accepted", result)
  /\ Goto(c, IF result = "ok" THEN "finishing" ELSE "idle")
  /\ UNCHANGED <<storeVars, sends>>

\* Second half: completed, or failed after acceptance.
RecordFinal(c, result) ==
  /\ caller[c].pc = "finishing"
  /\ MuFree(caller[c].store)
  /\ Transition(c, caller[c].goal, "transport_accepted", result)
  /\ Goto(c, "idle")
  /\ UNCHANGED <<storeVars, sends>>

\* The send was interrupted.
RecordAmbiguous(c, result) ==
  /\ caller[c].pc = "ambiguating"
  /\ MuFree(caller[c].store)
  /\ Transition(c, "ambiguous", "possibly_sent", result)
  /\ Goto(c, "idle")
  /\ UNCHANGED <<storeVars, sends>>

\* finishNotSent.  A retried call first looks whether another one went
\* further and then returns that receipt; here its transition rolls back.
FinishNotSent(c, to, result) ==
  /\ caller[c].pc = "rejected"
  /\ MuFree(caller[c].store)
  /\ Transition(c, to, "not_sent", result)
  /\ Goto(c, "idle")
  /\ UNCHANGED <<storeVars, sends>>

-----------------------------------------------------------------------------
(* Stores.                                                                 *)

\* Nobody of an earlier life of this store is still running.
Vacant(s) == \A c \in Callers : caller[c].store = s => caller[c].pc = "idle"

\* store.Open lists the sends that were started.
Open(s) ==
  LET started == {op \in Ops : row[op].stage = "send_started"}
  IN /\ status[s] = "closed"
     /\ Vacant(s)
     /\ status' = [status EXCEPT ![s] = "recovering"]
     /\ todo' = [todo EXCEPT ![s] = started]
     /\ orphans' = [orphans EXCEPT ![s] = started \cap interrupted]
     /\ UNCHANGED <<row, opLock, recovers, interrupted, caller, sends>>

\* RecoverInterrupted locks the next listed operation, or skips it.
RecoverLock(s, op) ==
  /\ op \in todo[s]
  /\ recovers[s] = {}
  /\ todo' = [todo EXCEPT ![s] = @ \ {op}]
  /\ IF opLock[op] = NoStore
     THEN /\ opLock' = [opLock EXCEPT ![op] = s]
          /\ recovers' = [recovers EXCEPT ![s] = {op}]
     ELSE UNCHANGED <<opLock, recovers>>
  /\ UNCHANGED <<row, status, interrupted, orphans, caller, sends>>

\* RecoverInterrupted marks the row if it still is a started send, unlocks
\* it, and gives up on an error, which closes the store again.
RecoverUpdate(s, op, result) ==
  /\ op \in recovers[s]
  /\ row' = IF result # "fail" /\ row[op].stage = "send_started"
            THEN [row EXCEPT ![op] = Patched(@, "ambiguous", "possibly_sent")]
            ELSE row
  /\ opLock' = [opLock EXCEPT ![op] = NoStore]
  /\ recovers' = [recovers EXCEPT ![s] = {}]
  /\ IF result = "ok"
     THEN UNCHANGED <<status, todo, orphans>>
     ELSE /\ status' = [status EXCEPT ![s] = "closed"]
          /\ todo' = [todo EXCEPT ![s] = {}]
          /\ orphans' = [orphans EXCEPT ![s] = {}]
  /\ UNCHANGED <<interrupted, caller, sends>>

\* store.Open returns.
Opened(s) ==
  /\ status[s] = "recovering"
  /\ todo[s] = {} /\ recovers[s] = {}
  /\ status' = [status EXCEPT ![s] = "open"]
  /\ UNCHANGED <<row, opLock, todo, recovers, interrupted, orphans, caller,
                 sends>>

Unlocked(s) == [op \in Ops |-> IF opLock[op] = s THEN NoStore ELSE opLock[op]]

\* Store.Close: the database is closed and every lock file freed.  The
\* runtime waits only so long for its calls; some may still be running.
Close(s) ==
  /\ status[s] = "open"
  /\ MuFree(s)
  /\ status' = [status EXCEPT ![s] = "closed"]
  /\ orphans' = [orphans EXCEPT ![s] = {}]
  /\ opLock' = Unlocked(s)
  /\ UNCHANGED <<row, todo, recovers, interrupted, caller, sends>>

\* The process dies; what it sent stays sent.
Crash(s) ==
  /\ status' = [status EXCEPT ![s] = "closed"]
  /\ todo' = [todo EXCEPT ![s] = {}]
  /\ recovers' = [recovers EXCEPT ![s] = {}]
  /\ orphans' = [orphans EXCEPT ![s] = {}]
  /\ interrupted' = interrupted \cup
       {op \in Ops : \E c \in Callers : /\ Sending(c)
                                       /\ caller[c].store = s
                                       /\ caller[c].op = op}
  /\ opLock' = Unlocked(s)
  /\ caller' = [c \in Callers |->
       IF caller[c].store = s
       THEN [caller[c] EXCEPT !.pc = "idle", !.acquired = FALSE]
       ELSE caller[c]]
  /\ UNCHANGED <<row, sends>>

\* PurgeTerminalBefore: the retention is far longer than any call.
Purge(op) ==
  /\ \E s \in Stores : status[s] = "open"
  /\ row[op].stage \in Terminal
  /\ \A c \in Callers : caller[c].op = op => caller[c].pc = "idle"
  /\ row' = [row EXCEPT ![op] = NoRow(@)]
  /\ sends' = [sends EXCEPT ![op] = 0]
  /\ interrupted' = interrupted \ {op}
  /\ orphans' = [s \in Stores |-> orphans[s] \ {op}]
  /\ UNCHANGED <<opLock, status, todo, recovers, caller>>

-----------------------------------------------------------------------------
Calls(c) ==
  \/ \E s \in Stores, op \in Ops, digest \in Digests :
       \/ BeginExisting(c, s, op, digest)
       \/ \E result \in {"ok", "lost"} : Begin(c, s, op, digest, result)
  \/ Reject(c)
  \/ LockForSend(c)
  \/ LockBusy(c)
  \/ Deliver(c)
  \/ \E outcome \in {"accepted", "refused", "error"} : SendReturns(c, outcome)
  \/ \E result \in Results :
       \/ MarkSendStarted(c, result)
       \/ RecordAccepted(c, result)
       \/ RecordFinal(c, result)
       \/ RecordAmbiguous(c, result)
       \/ \E to \in {"failed", "cancelled"} : FinishNotSent(c, to, result)

Recovers(s) ==
  \/ \E op \in Ops : \/ RecoverLock(s, op)
                     \/ \E result \in Results : RecoverUpdate(s, op, result)
  \/ Opened(s)

Next ==
  \/ \E c \in Callers : Calls(c)
  \/ \E s \in Stores : Open(s) \/ Recovers(s) \/ Close(s) \/ Crash(s)
  \/ \E op \in Ops : Purge(op)

Spec == Init /\ [][Next]_vars

-----------------------------------------------------------------------------
(* Properties.                                                             *)

\* However often a request is retried, by whatever process, and wherever
\* crashes, lost commit answers and closed stores fall, the device is given
\* one registered operation at most once.
SentAtMostOnce == \A op \in Ops : sends[op] <= 1

\* A receipt that offers a retry belongs to an operation the device was not
\* given, and that no running call is about to send.
RetrySafeMeansUnsent ==
  \A op \in Ops : row[op].retry =>
    /\ sends[op] = 0
    /\ \A c \in Callers : Sending(c) => caller[c].op # op

\* The delivery column never claims more, nor less, than what happened.
DeliveryHonest ==
  \A op \in Ops :
    /\ row[op].delivery = "transport_accepted" => sends[op] = 1
    /\ sends[op] # 0 => row[op].delivery \in {"possibly_sent",
                                              "transport_accepted"}

\* A call only works on a row registered with the very arguments it has.
DigestBinding ==
  \A c \in Callers : caller[c].pc # "idle" =>
    Present(caller[c].op) /\ row[caller[c].op].digest = caller[c].digest

\* While its store is open, a call that may be sending owns the operation:
\* the lock file is its store's and recovery has not touched the row.
LiveSendOwned ==
  \A c \in Callers : Sending(c) /\ status[caller[c].store] = "open" =>
    /\ opLock[caller[c].op] = caller[c].store
    /\ row[caller[c].op].stage = "send_started"

\* A terminal receipt never changes again until it is purged.
TerminalFinal ==
  [][\A op \in Ops : row[op].stage \in Terminal =>
       row'[op] = row[op] \/ ~Present(op)']_vars

Claim == [op \in Ops |-> row[op].delivery]
Delivered == [op \in Ops |-> sends[op] # 0]

Promise == INSTANCE DeliveryClaim WITH claim <- Claim, delivered <- Delivered

\* The ledger keeps the promise receipts make.
KeepsPromise == Promise!Spec

\* RecoverInterrupted "terminally marks every send interrupted by a prior
\* process crash": a send whose process crashed before the store was opened
\* is settled when Open returns, unless another store's recovery is at work.
RecoverySettlesOrphans ==
  \A s \in Stores : status[s] = "open" =>
    \A op \in orphans[s] : \/ row[op].stage # "send_started"
                           \/ \E t \in Stores : status[t] = "recovering"

\* "Operation send ownership is held by an OS file lock before the durable
\* send boundary through terminal receipt commit", for every call that may
\* be sending.
SendOwnershipHeld ==
  \A c \in Callers : Sending(c) => opLock[caller[c].op] = caller[c].store
=============================================================================
