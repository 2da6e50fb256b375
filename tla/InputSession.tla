---------------------------- MODULE InputSession ----------------------------
(***************************************************************************)
(* Keyboard and pointer input over one protocol session: the input lease   *)
(* and its executor (internal/input/lease.go, executor.go), the session    *)
(* adapter with its send barrier (internal/automation/session.go), and     *)
(* what internal/automation/service.go concludes about delivery.           *)
(*                                                                         *)
(* The adapter runs one operation at a time (operationMu); what interferes *)
(* is the outside: contexts end, the ledger refuses the send boundary,     *)
(* frames queue on the data channel, an observation ages, the link goes    *)
(* down in the middle of anything.                                         *)
(***************************************************************************)
EXTENDS Naturals, Sequences

CONSTANTS
  Batches,     \* the action batches clients submit
  MaxWire      \* how many reports the HID channel queues

\* Actions by what they do on the wire.  "key" is a stroke (type_text is a
\* run of them), "wait" is a wait or a screenshot.
Pointers == {"click", "drag", "move"}
Kinds == Pointers \cup {"key", "hold", "scroll", "wait"}

ASSUME BatchesAssumption == Batches \subseteq Seq(Kinds) \ {<<>>}
ASSUME MaxWireAssumption == MaxWire \in Nat

\* The HID reports of an action.  Further reports of a drag and the
\* keepalives of a hold repeat what is down; a scroll is an RPC.
Frames(kind) ==
  CASE kind \in {"key", "hold"} -> <<"keydown", "keyup">>
    [] kind \in {"click", "drag"} -> <<"buttonup", "buttondown", "buttonup">>
    [] kind = "move" -> <<"buttonup">>
    [] OTHER -> <<>>

\* The keyboard report and the pointer reports of Manager.neutralize.
Neutral == <<"keyup", "buttonup">>

Frame == {"keydown", "keyup", "buttondown", "buttonup"}
Held == {"keys", "buttons"}

\* What the device holds down after a report.
Effect(frame, held) ==
  CASE frame = "keydown" -> held \cup {"keys"}
    [] frame = "keyup" -> held \ {"keys"}
    [] frame = "buttondown" -> held \cup {"buttons"}
    [] OTHER -> held \ {"buttons"}

Barriers == {"nil", "fresh", "started", "failed"}
Statuses == {"accepted", "partial", "failed", "ambiguous"}

\* The service's conclusion: nothing was sent; accepted; accepted up to an
\* action that failed; or it cannot tell.
Outcomes == {"none", "not_sent", "accepted", "refused", "ambiguous"}

MaxFrames == 3

\* The running operation: which, where, in which batch, at which action and
\* report, with which batch status; bad: a neutral report was refused.
Operation == [kind: {"none", "run", "release", "close"},
              pc: {"act", "neutral", "flush", "disconnect"},
              batch: Batches \cup {<<>>}, at: Nat \ {0},
              frame: 1..MaxFrames, status: Statuses, bad: BOOLEAN]
Idle == [kind |-> "none", pc |-> "act", batch |-> <<>>, at |-> 1,
         frame |-> 1, status |-> "accepted", bad |-> FALSE]

\* What an operation reported, with three facts to judge it by: sent, it gave
\* something to the wire; complete, it got through its batch; quiet, the wire
\* was drained and nothing was held down.
Receipt == [outcome: Outcomes, sent: BOOLEAN, complete: BOOLEAN,
            quiet: BOOLEAN]

VARIABLES
  capable,      \* the session was opened with the input capability
  link,         \* the protocol session is up
  wire,         \* reports the HID channel has queued and not yet drained
  held,         \* what the device holds down
  leaseHeld, uncertain,       \* Manager
  neutralized, closed,        \* sessionAdapter
  barrier,      \* sendBarrier of the running operation
  op,           \* the running operation
  fresh,        \* the observation bound to the batch is young enough
  sent,         \* ghost: the operation gave something to the wire
  receipt,      \* what the last operation reported
  released      \* ghost: ReleaseInput succeeded on this session

deviceVars == <<capable, link, wire, held>>
managerVars == <<leaseHeld, uncertain>>
adapterVars == <<neutralized, closed>>
vars == <<deviceVars, managerVars, adapterVars, barrier, op, fresh, sent,
          receipt, released>>

\* Every variable has its type.
TypeOK ==
  /\ capable \in BOOLEAN
  /\ link \in BOOLEAN
  /\ wire \in Seq(Frame)
  /\ held \in SUBSET Held
  /\ leaseHeld \in BOOLEAN
  /\ uncertain \in BOOLEAN
  /\ neutralized \in BOOLEAN
  /\ closed \in BOOLEAN
  /\ barrier \in Barriers
  /\ op \in Operation
  /\ fresh \in BOOLEAN
  /\ sent \in BOOLEAN
  /\ receipt \in Receipt
  /\ released \in BOOLEAN

\* SessionFactory.Open.
Init ==
  /\ capable \in BOOLEAN
  /\ link = TRUE
  /\ wire = <<>>
  /\ held = {}
  /\ leaseHeld = FALSE
  /\ uncertain = FALSE
  /\ neutralized = ~capable
  /\ closed = FALSE
  /\ barrier = "nil"
  /\ op = Idle
  /\ fresh = TRUE
  /\ sent = FALSE
  /\ receipt = [outcome |-> "none", sent |-> FALSE, complete |-> FALSE,
                quiet |-> FALSE]
  /\ released = FALSE

-----------------------------------------------------------------------------
(* The send boundary.                                                      *)

\* Mutant: only the first report asks, a later one takes a refusal for a pass.
CrossedForgetful(b) ==
  IF b = "fresh" THEN {"started", "failed"} ELSE {b, "nil"}

\* sendBarrier.cross, once per operation: the ledger commits send_started, or
\* it does not and every later report of the operation is refused as well.
Crossed(b) == IF b = "fresh" THEN {"started", "failed"} ELSE {b}

\* SendHID got past the barrier (there is none during a close).
Passed(b) == b \in {"nil", "started"}

\* The report is queued on the HID channel.
Queue(frame) ==
  /\ link
  /\ Len(wire) < MaxWire
  /\ barrier' \in Crossed(barrier)
  /\ Passed(barrier')
  /\ wire' = Append(wire, frame)
  /\ sent' = TRUE

\* Where the batch goes after the current report.
NextFrame ==
  LET last == op.frame >= Len(Frames(op.batch[op.at]))
      done == last /\ op.at = Len(op.batch)
  IN [op EXCEPT !.pc = IF done THEN "neutral" ELSE "act",
                !.at = IF last THEN @ + 1 ELSE @,
                !.frame = IF last THEN 1 ELSE @ + 1]

\* The batch stops at the current action, the rest is not started.
Stop(status) == [op EXCEPT !.pc = "neutral", !.frame = 1, !.status = status]

-----------------------------------------------------------------------------
(* RunActions.                                                             *)

\* Manager.Acquire, ensureValid and compileBatch pass.  A closed session, an
\* uncertain manager and an invalid batch are refused and nothing changes.
StartRun(batch) ==
  /\ op.kind = "none"
  /\ capable /\ ~closed
  /\ ~uncertain /\ ~leaseHeld
  /\ leaseHeld' = TRUE
  /\ barrier' = "fresh"
  /\ sent' = FALSE
  /\ fresh' = TRUE
  /\ op' = [Idle EXCEPT !.kind = "run", !.batch = batch]
  /\ UNCHANGED <<deviceVars, uncertain, adapterVars, receipt, released>>

Acting == op.kind = "run" /\ op.pc = "act"
Kind == op.batch[op.at]

\* Lease.execute refuses an action whose observation has expired; drags carry
\* no expiry.
Stale == op.frame = 1 /\ Kind \in {"click", "move"} /\ ~fresh

\* A report of the current action is queued.  A hold drains the wire before
\* its keepalives.
SendFrame ==
  /\ Acting
  /\ Frames(Kind) # <<>>
  /\ ~Stale
  /\ Kind = "hold" /\ op.frame = 2 => wire = <<>>
  /\ Queue(Frames(Kind)[op.frame])
  /\ op' = NextFrame
  /\ UNCHANGED <<capable, link, held, managerVars, adapterVars, fresh,
                 receipt, released>>

\* The device answers the scroll.
SendWheel ==
  /\ Acting
  /\ Kind = "scroll"
  /\ link
  /\ barrier' \in Crossed(barrier)
  /\ Passed(barrier')
  /\ sent' = TRUE
  /\ op' = NextFrame
  /\ UNCHANGED <<deviceVars, managerVars, adapterVars, fresh, receipt,
                 released>>

\* The boundary or the channel refuses, the context ends before the report or
\* in the pause after it, a keepalive is late.  A scroll that fails may have
\* reached the device.
SendFails ==
  /\ Acting
  /\ Kind # "wait"
  /\ ~Stale
  /\ barrier' \in Crossed(barrier)
  /\ \/ UNCHANGED sent
     \/ Kind = "scroll" /\ Passed(barrier') /\ sent' = TRUE
  /\ op' = Stop("ambiguous")
  /\ UNCHANGED <<deviceVars, managerVars, adapterVars, fresh, receipt,
                 released>>

\* A wait ends or a screenshot is taken.
Wait ==
  /\ Acting
  /\ Kind = "wait"
  /\ op' = NextFrame
  /\ UNCHANGED <<deviceVars, managerVars, adapterVars, barrier, fresh, sent,
                 receipt, released>>

\* A wait is cut short, a screenshot fails, or the observation is too old.
ActionFails ==
  /\ Acting
  /\ Kind = "wait" \/ Stale
  /\ op' = Stop(IF op.at = 1 THEN "failed" ELSE "partial")
  /\ UNCHANGED <<deviceVars, managerVars, adapterVars, barrier, fresh, sent,
                 receipt, released>>

-----------------------------------------------------------------------------
(* Neutralization: after every batch, in ReleaseInput and in close.        *)

\* Manager.neutralize tries every report whatever became of the one before.
AfterNeutral(refused) ==
  [op EXCEPT !.pc = IF op.frame = Len(Neutral) THEN "flush" ELSE "neutral",
             !.frame = IF op.frame = Len(Neutral) THEN 1 ELSE @ + 1,
             !.bad = @ \/ refused]

SendNeutral ==
  /\ op.pc = "neutral"
  /\ Queue(Neutral[op.frame])
  /\ op' = AfterNeutral(FALSE)
  /\ UNCHANGED <<capable, link, held, managerVars, adapterVars, fresh,
                 receipt, released>>

\* Refused by the boundary or the channel, or out of time.
RefuseNeutral ==
  /\ op.pc = "neutral"
  /\ barrier' \in Crossed(barrier)
  /\ op' = AfterNeutral(TRUE)
  /\ UNCHANGED <<deviceVars, managerVars, adapterVars, fresh, sent, receipt,
                 released>>

\* service.RunActions, finishActionFailure, ReleaseInput: the receipt of an
\* operation.  A batch that could not neutralize counts as ambiguous.
Verdict(started, status, neutral) ==
  CASE ~started -> "not_sent"
    [] started /\ status = "accepted" /\ neutral -> "accepted"
    [] started /\ status = "partial" /\ neutral -> "refused"
    [] OTHER -> "ambiguous"

Report(neutral) ==
  receipt' = [outcome |-> Verdict(barrier = "started", op.status, neutral),
              sent |-> sent,
              complete |-> op.at > Len(op.batch),
              quiet |-> wire = <<>> /\ held = {}]

\* Lease.Release: the batch is over and the lease free, whatever happened.
SettleRun(neutral) ==
  /\ op.kind = "run"
  /\ leaseHeld' = FALSE
  /\ uncertain' = (uncertain \/ ~neutral)
  /\ Report(neutral)
  /\ op' = Idle
  /\ UNCHANGED <<neutralized, released>>

\* ReleaseInput after Reconcile.
SettleRelease(neutral) ==
  /\ op.kind = "release"
  /\ uncertain' = ~neutral
  /\ neutralized' = (neutralized \/ neutral)
  /\ released' = (released \/ neutral)
  /\ Report(neutral)
  /\ op' = Idle
  /\ UNCHANGED leaseHeld

\* Mutant: a close goes on to disconnect although neutral state is not proven.
SettleCloseAnyway(neutral) ==
  /\ op.kind = "close"
  /\ uncertain' = ~neutral
  /\ neutralized' = TRUE
  /\ op' = [op EXCEPT !.pc = "disconnect"]
  /\ UNCHANGED <<leaseHeld, receipt, released>>

\* close after Reconcile: without neutral state it gives up and can be tried
\* again.
SettleClose(neutral) ==
  /\ op.kind = "close"
  /\ uncertain' = ~neutral
  /\ neutralized' = neutral
  /\ op' = IF neutral THEN [op EXCEPT !.pc = "disconnect"] ELSE Idle
  /\ UNCHANGED <<leaseHeld, receipt, released>>

Settle(neutral) ==
  /\ SettleRun(neutral) \/ SettleRelease(neutral) \/ SettleClose(neutral)
  /\ barrier' = "nil"
  /\ UNCHANGED <<deviceVars, closed, fresh, sent>>

\* FlushHID finds the channel drained, which it does not ask the link about.
Flushed ==
  /\ op.pc = "flush"
  /\ wire = <<>>
  /\ Settle(~op.bad)

\* Mutant: a late flush is ignored if every report was queued.
FlushFailsIgnored ==
  /\ op.pc = "flush"
  /\ wire # <<>>
  /\ Settle(~op.bad)

\* Mutant: a flush waits for the channel alone, without a deadline.
FlushFailsNoDeadline ==
  /\ op.pc = "flush"
  /\ wire # <<>> /\ ~link
  /\ Settle(FALSE)

\* It does not drain before the deadline, or the session ends.
FlushFails ==
  /\ op.pc = "flush"
  /\ wire # <<>>
  /\ Settle(FALSE)

\* ReleaseInput starts: Reconcile, also of an uncertain manager.
StartRelease ==
  /\ op.kind = "none"
  /\ capable /\ ~closed /\ ~leaseHeld
  /\ barrier' = "fresh"
  /\ sent' = FALSE
  /\ op' = [Idle EXCEPT !.kind = "release", !.pc = "neutral"]
  /\ UNCHANGED <<deviceVars, managerVars, adapterVars, fresh, receipt,
                 released>>

\* close starts; a session that counts as neutral is not neutralized again.
StartClose ==
  /\ op.kind = "none"
  /\ ~closed
  /\ neutralized \/ ~leaseHeld
  /\ sent' = FALSE
  /\ op' = [Idle EXCEPT !.kind = "close",
                        !.pc = IF neutralized THEN "disconnect" ELSE "neutral"]
  /\ UNCHANGED <<deviceVars, managerVars, adapterVars, barrier, fresh,
                 receipt, released>>

\* CloseContext ends the session at once; its workers may outlive the
\* deadline, and then the close has failed.
Disconnect ==
  /\ op.pc = "disconnect"
  /\ link' = FALSE
  /\ closed' \in BOOLEAN
  /\ op' = Idle
  /\ UNCHANGED <<capable, wire, held, managerVars, neutralized, barrier,
                 fresh, sent, receipt, released>>

-----------------------------------------------------------------------------
(* The outside.                                                            *)

\* The device takes the oldest report.
Drain ==
  /\ link
  /\ wire # <<>>
  /\ held' = Effect(Head(wire), held)
  /\ wire' = Tail(wire)
  /\ UNCHANGED <<capable, link, managerVars, adapterVars, barrier, op, fresh,
                 sent, receipt, released>>

\* The session is lost; what is queued stays undelivered.
LinkDown ==
  /\ link
  /\ link' = FALSE
  /\ UNCHANGED <<capable, wire, held, managerVars, adapterVars, barrier, op,
                 fresh, sent, receipt, released>>

\* The observation the running batch is bound to grows too old.
Expire ==
  /\ Acting
  /\ fresh
  /\ fresh' = FALSE
  /\ UNCHANGED <<deviceVars, managerVars, adapterVars, barrier, op, sent,
                 receipt, released>>

\* A step of the running operation.
Step ==
  \/ SendFrame \/ SendWheel \/ SendFails \/ Wait \/ ActionFails
  \/ SendNeutral \/ RefuseNeutral \/ Flushed \/ FlushFails \/ Disconnect

Next ==
  \/ \E batch \in Batches : StartRun(batch)
  \/ StartRelease
  \/ StartClose
  \/ Step
  \/ Drain
  \/ LinkDown
  \/ Expire

Spec == Init /\ [][Next]_vars

\* Every call of an operation is bounded: a batch by MaxBatchDuration, the
\* neutralization of a lease or a close by its cleanup timeout, the rest by
\* the caller's context.
FairSpec == Spec /\ WF_vars(Step)

-----------------------------------------------------------------------------
(* Properties.                                                             *)

\* Between operations either the device holds nothing down and nothing is
\* under way to it, or the manager is uncertain and refuses further batches:
\* no failed report, refused boundary, late flush or lost link escapes the
\* latch that Lease.Release and Reconcile set.
NeutralUnlessUncertain ==
  op.kind = "none" /\ ~uncertain => held = {} /\ wire = <<>>

\* The receipt tells the truth: an operation recorded as not sent gave
\* nothing to the wire, so that its retry is safe; one recorded as accepted
\* is through its batch, drained and neutral; one recorded as failed after
\* acceptance is neutral and short of its batch.
OutcomeJustified ==
  /\ receipt.outcome = "not_sent" => ~receipt.sent
  /\ receipt.outcome = "accepted" => receipt.complete /\ receipt.quiet
  /\ receipt.outcome = "refused" => ~receipt.complete /\ receipt.quiet

\* A session on which ReleaseInput was not used is closed with nothing held
\* down, whatever its batches left behind.
ClosedNeutral == closed /\ ~released => held = {}

\* Every operation on the adapter comes to an end: nothing waits for a
\* channel that never drains.
OperationEnds == op.kind # "none" ~> op.kind = "none"

\* Closing a session neutralizes its input, as design.md promises of every
\* terminal path, shutdown included.
CloseNeutralizes == closed => held = {}

\* No pointer action starts on an expired observation, as design.md demands
\* of move, click and drag.
PointersFresh ==
  [][Acting /\ op.frame = 1 /\ op.batch[op.at] \in Pointers
     /\ Len(wire') > Len(wire) => fresh]_vars
=============================================================================
