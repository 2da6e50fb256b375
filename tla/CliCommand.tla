------------------------------ MODULE CliCommand ------------------------------
(***************************************************************************)
(* One device command of the command line (internal/cli), from its start   *)
(* to its exit code, with the calls of internal/automation/service.go it   *)
(* makes: a temporary control is opened, the effect is recorded in the     *)
(* operation ledger and sent, the control is released, the runtime is      *)
(* drained, and only then is the result printed.                           *)
(*                                                                         *)
(* Every call may fail.  The process may be interrupted (its context is    *)
(* cancelled) or killed at any step, and its user may run the same command *)
(* again under the same operation id.  The control registry, the input     *)
(* executor and the proofs behind a prompt are modules of their own; here  *)
(* they answer, or fail.                                                   *)
(***************************************************************************)
EXTENDS Naturals, FiniteSets, Sequences

CONSTANTS
  Commands,     \* command lines: [kind, aims, wakes, asks]
  MaxAttempts,  \* bound on the runs of the command
  MaxPolls      \* readiness polls that fit into 15 s after a wake

CliAssumption == MaxAttempts \in Nat \ {0} /\ MaxPolls \in Nat \ {0}

(* A command: what it does, whether its pointer actions need a picture     *)
(* first, whether the policy lets a picture wake the host, and whether the *)
(* policy asks a person.                                                   *)
Kinds == {"read", "power", "release", "run", "screenshot"}
Command == [kind: Kinds, aims: BOOLEAN, wakes: BOOLEAN, asks: BOOLEAN]
CommandsAssumption == Commands \subseteq Command

VARIABLES
  cmd,      \* the command line, the same in every attempt
  attempt,  \* which process runs it
  pc,       \* where that process is
  late,     \* its context has been cancelled
  failed,   \* the error the process will report is not nil
  runtime,  \* the runtime: not loaded, open, closed
  control,  \* the temporary control
  op,       \* the operation the service works on
  reply,    \* how the device answered it
  polls,    \* readiness polls since the wake
  woke,     \* the observation carries a wake receipt
  row,      \* the ledger: the stage of each operation, and who began it
  sent,     \* ghost: times each operation was handed to the device
  broken,   \* ghost: the ledger could not be written
  pending,  \* results waiting for the cleanup: the receipts they hold
  printed,  \* results on standard output
  exit      \* the exit code is zero

vars == <<cmd, attempt, pc, late, failed, runtime, control, op, reply, polls,
          woke, row, sent, broken, pending, printed, exit>>

Attempts == 1 .. MaxAttempts
Effects == {"act", "wake"}
Stages == {"none", "not_sent", "send_started", "transport_accepted",
           "completed", "failed", "ambiguous"}
Over == {"done", "killed"}
PCs == Over \cup {"load", "guide", "prepare", "approveOpen", "open", "body",
  "observe", "begin", "check", "mark", "send", "record", "finish", "poll",
  "wait", "save", "plan", "approve", "release", "drain", "print"}

TypeOK ==
  /\ cmd \in Commands /\ attempt \in Attempts /\ pc \in PCs
  /\ late \in BOOLEAN /\ failed \in BOOLEAN
  /\ runtime \in {"none", "open", "closed"}
  /\ control \in {"none", "open", "closed"}
  /\ op \in Effects /\ reply \in {"none", "accepted", "refused", "lost"}
  /\ polls \in 0 .. MaxPolls /\ woke \in BOOLEAN
  /\ row \in [Effects -> [stage: Stages, by: {0} \cup Attempts]]
  /\ sent \in [Effects -> Nat] /\ broken \in BOOLEAN
  /\ \A i \in DOMAIN pending : pending[i] \subseteq Effects
  /\ \A i \in DOMAIN printed :
       printed[i].ops \subseteq Effects /\ printed[i].partial \in BOOLEAN
  /\ exit \in BOOLEAN

NoRow == [stage |-> "none", by |-> 0]

Init ==
  /\ cmd \in Commands /\ attempt = 1 /\ pc = "load"
  /\ late = FALSE /\ failed = FALSE /\ runtime = "none" /\ control = "none"
  /\ op = "act" /\ reply = "none" /\ polls = 0 /\ woke = FALSE
  /\ row = [o \in Effects |-> NoRow] /\ sent = [o \in Effects |-> 0]
  /\ broken = FALSE /\ pending = <<>> /\ printed = <<>> /\ exit = FALSE

\* What a step of the service leaves alone.
Surroundings == <<cmd, attempt, late, runtime, control, printed, exit>>
Service == <<op, reply, polls, woke, row, sent, broken>>

\* The command returns an error: a control it holds is released first.
Fail == /\ failed' = TRUE
        /\ pc' = IF control = "open" THEN "release" ELSE "drain"

--------------------------------------------------------------------------
(* Before the command's own work *)

\* A send that no living process owns is recovered when the store opens.
Recovered(o) ==
  IF row[o].stage = "send_started" THEN [row[o] EXCEPT !.stage = "ambiguous"]
  ELSE row[o]

\* PersistentPreRunE: the runtime is loaded; a missing configuration is
\* guided through a setup, once, and loaded again.  When the services are
\* complete and the activity view is not, the runtime is closed at the end.
Load ==
  /\ pc \in {"load", "guide"}
  /\ row' = [o \in Effects |-> Recovered(o)]
  /\ \/ runtime' = "open" /\ pc' = "prepare" /\ UNCHANGED failed
     \/ runtime' \in {"none", "open"} /\ pc' = "drain" /\ failed' = TRUE
     \/ pc = "load" /\ pc' = "guide" /\ UNCHANGED <<runtime, failed>>
  /\ UNCHANGED <<cmd, attempt, late, control, op, reply, polls, woke, sent,
                 broken, pending, printed, exit>>

\* A read without a control answers from the device's HTTP service.
Read ==
  /\ pc = "prepare" /\ cmd.kind = "read"
  /\ \/ pending' = Append(pending, {}) /\ pc' = "drain" /\ UNCHANGED failed
     \/ Fail /\ UNCHANGED pending
  /\ UNCHANGED <<Surroundings, Service>>

\* withEphemeralControl, up to the connection.
PrepareOpen ==
  /\ pc = "prepare" /\ cmd.kind # "read"
  /\ \/ pc' = (IF cmd.asks THEN "approveOpen" ELSE "open") /\ UNCHANGED failed
     \/ Fail
  /\ UNCHANGED <<Surroundings, Service, pending>>

\* A prompt ends: confirmed, refused, or cut off by the interrupt.
Answer ==
  /\ pc \in {"approveOpen", "approve"}
  /\ \/ /\ ~late
        /\ pc' = IF pc = "approve" THEN "begin" ELSE "open"
        /\ UNCHANGED failed
     \/ Fail
  /\ UNCHANGED <<Surroundings, Service, pending>>

Open ==
  /\ pc = "open"
  /\ \/ /\ control' = "open" /\ UNCHANGED failed
        /\ pc' = CASE cmd.kind = "screenshot" -> "observe"
                   [] cmd.kind = "run" /\ cmd.aims -> "observe"
                   [] cmd.kind = "release" -> "begin"
                   [] OTHER -> "plan"
     \/ Fail /\ UNCHANGED control
  /\ UNCHANGED <<cmd, attempt, late, runtime, printed, exit, Service, pending>>

--------------------------------------------------------------------------
(* A screen, and waking the host for it *)

\* The screen sleeps: one attempt is made to wake the host.
Wake ==
  /\ pc = "observe" /\ cmd.wakes
  /\ op' = "wake" /\ pc' = "begin"
  /\ row' = [row EXCEPT !["wake"] = NoRow]
  /\ UNCHANGED <<Surroundings, failed, reply, polls, woke, sent, broken, pending>>

\* What the command does with a screen, or with none.  A screenshot reports
\* the wake in either case; the picture an input command aims by is used and
\* dropped, and its wake with it.
Screen ==
  \/ /\ pc' = IF cmd.kind = "screenshot" THEN "save" ELSE "plan"
     /\ UNCHANGED <<failed, pending>>
  \/ /\ Fail
     /\ pending' = IF cmd.kind = "screenshot" /\ woke THEN Append(pending, {"wake"})
                   ELSE pending

Observe ==
  /\ pc = "observe" /\ Screen
  /\ UNCHANGED <<Surroundings, Service>>

\* Mutant of Poll: the polls are not bounded by a deadline.
PollForever ==
  /\ pc = "poll"
  /\ \/ Screen /\ UNCHANGED polls
     \/ pc' = "wait" /\ UNCHANGED <<polls, failed, pending>>
  /\ UNCHANGED <<Surroundings, op, reply, woke, row, sent, broken>>

\* After the wake only readiness is read again, until a deadline.
Poll ==
  /\ pc = "poll"
  /\ \/ Screen /\ UNCHANGED polls
     \/ /\ polls < MaxPolls
        /\ polls' = polls + 1 /\ pc' = "wait"
        /\ UNCHANGED <<failed, pending>>
  /\ UNCHANGED <<Surroundings, op, reply, woke, row, sent, broken>>

PollAgain ==
  /\ pc = "wait"
  /\ \/ ~late /\ pc' = "poll" /\ UNCHANGED <<failed, pending>>
     \/ /\ late /\ Fail
        /\ pending' = IF cmd.kind = "screenshot" THEN Append(pending, {"wake"})
                      ELSE pending
  /\ UNCHANGED <<Surroundings, Service>>

\* screenResult: the picture is saved, and reported.
Save ==
  /\ pc = "save"
  /\ LET ops == IF woke THEN {"wake"} ELSE {} IN
     \/ pending' = Append(pending, ops) /\ pc' = "release" /\ UNCHANGED failed
     \/ /\ Fail
        /\ pending' = IF woke THEN Append(pending, ops) ELSE pending
  /\ UNCHANGED <<Surroundings, Service>>

\* PreparePowerAction and PrepareRunActions; a press or an ordinary batch
\* goes on without a prompt.
Plan ==
  /\ pc = "plan"
  /\ \/ pc' = "begin" /\ UNCHANGED failed
     \/ cmd.asks /\ pc' = "approve" /\ UNCHANGED failed
     \/ Fail
  /\ op' = "act"
  /\ UNCHANGED <<Surroundings, reply, polls, woke, row, sent, broken, pending>>

--------------------------------------------------------------------------
(* A recorded operation: RunActions, PowerAction, ReleaseInput *)

\* Mutant of Return: an input command drops the receipt of a failure too.
ReturnWithout(receipt, ok) ==
  IF op = "wake"
  THEN /\ woke' = TRUE
       /\ IF ok THEN pc' = "poll" /\ UNCHANGED <<failed, pending>>
          ELSE /\ Fail
               /\ pending' = IF cmd.kind = "screenshot"
                             THEN Append(pending, {"wake"}) ELSE pending
  ELSE /\ UNCHANGED woke
       /\ pending' = IF receipt /\ ok THEN Append(pending, {"act"}) ELSE pending
       /\ pc' = "release" /\ failed' = (failed \/ ~ok)

\* The operation returns to the command.  Of a failed operation an input
\* command still prints the receipt it was given; the others return the
\* error alone.  After a wake that was accepted the screen is polled; one
\* that was not is never sent again.
Return(receipt, ok) ==
  IF op = "wake"
  THEN /\ woke' = TRUE
       /\ IF ok THEN pc' = "poll" /\ UNCHANGED <<failed, pending>>
          ELSE /\ Fail
               /\ pending' = IF cmd.kind = "screenshot"
                             THEN Append(pending, {"wake"}) ELSE pending
  ELSE /\ UNCHANGED woke
       /\ pending' = IF receipt /\ (ok \/ cmd.kind = "run")
                     THEN Append(pending, {"act"}) ELSE pending
       /\ pc' = "release" /\ failed' = (failed \/ ~ok)

SetStage(stage) == row' = [row EXCEPT ![op].stage = stage]

\* Mutant of Begin: an operation another control began is taken up.
BeginAny ==
  /\ pc = "begin"
  /\ \/ /\ row' = [row EXCEPT ![op] = [stage |-> "not_sent", by |-> attempt]]
        /\ pc' = "check" /\ UNCHANGED <<woke, failed, pending, broken>>
     \/ broken' = TRUE /\ Return(FALSE, FALSE) /\ UNCHANGED row
  /\ UNCHANGED <<Surroundings, op, reply, polls, sent>>

\* The digest of a request holds the handle of its control, which every
\* process makes afresh: an id used by an earlier attempt is a conflict, and
\* a conflict brings no receipt.
Begin ==
  /\ pc = "begin"
  /\ \/ /\ row[op].stage = "none"
        /\ row' = [row EXCEPT ![op] = [stage |-> "not_sent", by |-> attempt]]
        /\ pc' = "check" /\ UNCHANGED <<woke, failed, pending, broken>>
     \/ /\ row[op].stage # "none"
        /\ Return(FALSE, FALSE) /\ UNCHANGED <<row, broken>>
     \/ broken' = TRUE /\ Return(FALSE, FALSE) /\ UNCHANGED row
  /\ UNCHANGED <<Surroundings, op, reply, polls, sent>>

\* finishNotSent: the row says that nothing was sent, unless the store fails.
NotSent ==
  \/ SetStage("failed") /\ Return(TRUE, FALSE) /\ UNCHANGED broken
  \/ broken' = TRUE /\ Return(FALSE, FALSE) /\ UNCHANGED row

\* The control still stands, the ATX board answers, the proof is consumed.
Check ==
  /\ pc = "check"
  /\ \/ pc' = "mark" /\ UNCHANGED <<row, woke, failed, pending, broken>>
     \/ NotSent
  /\ UNCHANGED <<Surroundings, op, reply, polls, sent>>

\* MarkSendStarted: the durable boundary before the device is touched.
Mark ==
  /\ pc = "mark"
  /\ \/ SetStage("send_started") /\ pc' = "send"
        /\ UNCHANGED <<woke, failed, pending, broken>>
     \/ NotSent
  /\ UNCHANGED <<Surroundings, op, reply, polls, sent>>

\* The request goes out, and is accepted, answered with an error (a batch: in
\* part done and neutralized), or its answer is lost.
Send ==
  /\ pc = "send"
  /\ sent' = [sent EXCEPT ![op] = @ + 1]
  /\ reply' \in {"accepted", "refused", "lost"}
  /\ pc' = "record"
  /\ UNCHANGED <<Surroundings, op, polls, woke, row, broken, failed, pending>>

\* The outcome is recorded: what was answered was accepted by the transport.
\* finishPowerFailure, finishActionFailure; a release that fails is ambiguous.
Record ==
  /\ pc = "record"
  /\ \/ /\ reply = "lost" \/ (reply = "refused" /\ cmd.kind = "release")
        /\ SetStage("ambiguous") /\ Return(TRUE, FALSE) /\ UNCHANGED broken
     \/ /\ reply = "accepted" \/ (reply = "refused" /\ cmd.kind # "release")
        /\ SetStage("transport_accepted") /\ pc' = "finish"
        /\ UNCHANGED <<woke, failed, pending, broken>>
     \/ broken' = TRUE /\ Return(FALSE, FALSE) /\ UNCHANGED row
  /\ UNCHANGED <<Surroundings, op, reply, polls, sent>>

\* Mutant of Finish: the error of the last write is dropped.
FinishUnrecorded ==
  /\ pc = "finish"
  /\ \/ /\ SetStage(IF reply = "accepted" THEN "completed" ELSE "failed")
        /\ UNCHANGED broken
        /\ \/ Return(TRUE, reply = "accepted")
           \/ cmd.kind = "run" /\ op = "act" /\ Return(TRUE, FALSE)
     \/ broken' = TRUE /\ Return(TRUE, reply = "accepted") /\ UNCHANGED row
  /\ UNCHANGED <<Surroundings, op, reply, polls, sent>>

\* A picture asked for after the batch may fail without taking back the input.
Finish ==
  /\ pc = "finish"
  /\ \/ /\ SetStage(IF reply = "accepted" THEN "completed" ELSE "failed")
        /\ UNCHANGED broken
        /\ \/ Return(TRUE, reply = "accepted")
           \/ cmd.kind = "run" /\ op = "act" /\ Return(TRUE, FALSE)
     \/ broken' = TRUE /\ Return(FALSE, FALSE) /\ UNCHANGED row
  /\ UNCHANGED <<Surroundings, op, reply, polls, sent>>

--------------------------------------------------------------------------
(* Cleanup, output, exit *)

\* The deferred CloseControl, on a context of its own with 5 s.
Release ==
  /\ pc = "release"
  /\ pc' = "drain"
  /\ \/ control' = "closed" /\ UNCHANGED failed
     \/ failed' = TRUE /\ UNCHANGED control
  /\ UNCHANGED <<cmd, attempt, late, runtime, printed, exit, Service, pending>>

\* runtimeClose: the controls still open are drained within 10 s, then the
\* store is closed, whether or not they were.
Drain ==
  /\ pc = "drain" /\ pc' = "print"
  /\ IF runtime # "open" THEN UNCHANGED <<runtime, control, failed>>
     ELSE /\ runtime' = "closed"
          /\ \/ /\ control' = IF control = "open" THEN "closed" ELSE control
                /\ UNCHANGED failed
             \/ failed' = TRUE /\ UNCHANGED control
  /\ UNCHANGED <<cmd, attempt, late, printed, exit, Service, pending>>

\* Mutant of PrintOut: what is printed is not marked.
PrintPlain ==
  /\ pc = "print"
  /\ IF pending = <<>>
     THEN pc' = "done" /\ exit' = ~failed /\ UNCHANGED <<pending, printed, failed>>
     ELSE /\ pending' = Tail(pending)
          /\ printed' = Append(printed, [ops |-> Head(pending), partial |-> FALSE])
          /\ UNCHANGED <<pc, exit, failed>>
  /\ UNCHANGED <<cmd, attempt, late, runtime, control, Service>>

\* Execute: the results are printed, marked when anything before failed; the
\* exit code is zero when nothing did.
PrintOut ==
  /\ pc = "print"
  /\ IF pending = <<>>
     THEN pc' = "done" /\ exit' = ~failed /\ UNCHANGED <<pending, printed, failed>>
     ELSE /\ pending' = Tail(pending)
          /\ \/ /\ printed' = Append(printed,
                      [ops |-> Head(pending), partial |-> failed])
                /\ UNCHANGED failed
             \/ failed' = TRUE /\ UNCHANGED printed
          /\ UNCHANGED <<pc, exit>>
  /\ UNCHANGED <<cmd, attempt, late, runtime, control, Service>>

--------------------------------------------------------------------------
(* The surroundings *)

\* SIGINT and SIGTERM cancel the context of the command, not that of its
\* cleanup.
Interrupt ==
  /\ pc \notin Over /\ ~late
  /\ late' = TRUE
  /\ UNCHANGED <<cmd, attempt, pc, failed, runtime, control, Service, pending,
                 printed, exit>>

\* The process is killed: what was not in the ledger is lost.
Kill ==
  /\ pc \notin Over
  /\ pc' = "killed" /\ runtime' = "none" /\ control' = "none" /\ pending' = <<>>
  /\ UNCHANGED <<cmd, attempt, late, failed, Service, printed, exit>>

\* The user runs the command again with the same operation id.
Again ==
  /\ pc \in Over /\ attempt < MaxAttempts
  /\ attempt' = attempt + 1 /\ pc' = "load"
  /\ late' = FALSE /\ failed' = FALSE /\ runtime' = "none" /\ control' = "none"
  /\ op' = "act" /\ reply' = "none" /\ polls' = 0 /\ woke' = FALSE
  /\ row' = [row EXCEPT !["wake"] = NoRow]
  /\ sent' = [sent EXCEPT !["wake"] = 0]
  /\ pending' = <<>> /\ printed' = <<>> /\ exit' = FALSE
  /\ UNCHANGED <<cmd, broken>>

Step ==
  \/ Load \/ Read \/ PrepareOpen \/ Answer \/ Open
  \/ Observe \/ Wake \/ Poll \/ PollAgain \/ Save \/ Plan
  \/ Begin \/ Check \/ Mark \/ Send \/ Record \/ Finish
  \/ Release \/ Drain \/ PrintOut

Ended == pc \in Over /\ attempt = MaxAttempts /\ UNCHANGED vars

Next == Step \/ Interrupt \/ Kill \/ Again \/ Ended

Spec == Init /\ [][Next]_vars

\* The process runs.  A person at a prompt need not answer, unless the
\* interrupt ends the prompt.
FairSpec ==
  Spec /\ WF_vars(Step /\ (late \/ pc \notin {"approveOpen", "approve"}))

--------------------------------------------------------------------------
(* Properties *)

\* Exit code zero says that everything the command stands for happened: the
\* control is released, the runtime closed, the operation this process began
\* is completed, and its result is on standard output, unmarked (Execute,
\* withEphemeralControl).
SuccessIsComplete ==
  exit =>
    /\ control # "open" /\ runtime = "closed"
    /\ cmd.kind \in {"power", "release", "run"} =>
         row["act"] = [stage |-> "completed", by |-> attempt]
    /\ printed # <<>> /\ \A i \in DOMAIN printed : ~printed[i].partial

\* However often the command is run, interrupted and killed under one
\* operation id, the device is asked for the effect once; and one process
\* wakes the host at most once (README.md:136, Observe, Begin).
SentOnce == \A o \in Effects : sent[o] <= 1

\* What is printed without the mark of a partial result comes after a clean
\* release and a clean close (docs/terminal-ui.md:30-32).
UnmarkedIsClean ==
  pc # "killed" => \A i \in DOMAIN printed :
    printed[i].partial \/ (control # "open" /\ runtime = "closed")

\* What this process may have sent, and the receipts it keeps to print.
Sent(o) == sent[o] > 0 /\ row[o].by = attempt
Kept(o) == \E i \in DOMAIN pending : o \in pending[i]
Leaving == pc \in {"release", "drain"}

\* An input command whose batch went out keeps its receipt, and a screenshot
\* that of its wake, whatever failed afterwards, unless the ledger could not
\* be written (runInputActions, newScreenshotCommand).
InputReported ==
  Leaving /\ ~broken =>
    /\ cmd.kind = "run" /\ Sent("act") => Kept("act")
    /\ cmd.kind = "screenshot" /\ Sent("wake") => Kept("wake")

\* A power action that may have been sent leaves its receipt among the
\* results, also when it failed (docs/design.md:402-404).
PowerReported == Leaving /\ ~broken /\ Sent("act") => Kept("act")

\* A wake that may have been sent leaves its receipt among the results, also
\* on partial failure (docs/design.md:598).
WakeReported == Leaving /\ ~broken /\ Sent("wake") => Kept("wake")

\* An id of an operation that has completed is answered with its receipt, on
\* the command line too (docs/design.md:323).
RetryAnswers ==
  [][pc = "begin" /\ row["act"].stage = "completed" /\ ~broken' => Kept("act")']_vars

\* A process ends once it is interrupted, and without an interrupt when no
\* person is asked: the prompt, the polls after a wake and the cleanup are
\* bounded (Observe, CloseControl, closeRuntime).
CommandEnds == (pc \notin Over /\ (late \/ ~cmd.asks)) ~> pc \in Over
=============================================================================
