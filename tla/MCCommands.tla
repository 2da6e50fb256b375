----------------------------- MODULE MCCommands ------------------------------
(***************************************************************************)
(* What a command goes through, for TLC: a person's approval               *)
(* (Confirmation), the record of its operation (OperationLedger), the      *)
(* process of the command line that runs it (CliCommand), and the command  *)
(* that replaces the program (SelfUpdate).  They share no state, so a      *)
(* behaviour moves one of them (part) and leaves the others as they start: *)
(* a run explores the union of their behaviours, not the product.          *)
(***************************************************************************)
EXTENDS OperationLedger, Cases, TLC

CONSTANTS
  Users,                                               \* calls and updates
  Principals, Bindings, Risky, StateTTL, ProofTTL,               \* Confirmation
  MaxTime, MaxTokens, MaxEpoch,
  Commands, MaxAttempts, MaxPolls,                               \* CliCommand
  MaxVersion, Published, Prereleases, MaxCrashes                 \* SelfUpdate

VARIABLES
  part,
  now, epoch, tokens, approved, issued, consumed, nonces, call, done,
  cmd, attempt, pc, late, failed, runtime, control, op, reply, polls, woke,
  record, sent, broken, pending, shown, exit,
  file, receipt, previous, lock, proc, crashes, damaged, before

A == INSTANCE Confirmation WITH ToolCalls <- Users
K == INSTANCE CliCommand WITH row <- record, printed <- shown
U == INSTANCE SelfUpdate WITH Procs <- Users

ASSUME CommandsAssumption ==
  /\ A!RiskyAssumption /\ A!ClaimsAssumption /\ A!BoundsAssumption
  /\ K!CliAssumption /\ K!CommandsAssumption
  /\ U!MaxVersionAssumption /\ U!PublishedAssumption /\ U!ProcsAssumption
  /\ U!CrashesAssumption

approvalVars ==
  <<now, epoch, tokens, approved, issued, consumed, nonces, call, done>>
lineVars ==
  <<cmd, attempt, pc, late, failed, runtime, control, op, reply, polls, woke,
    record, sent, broken, pending, shown, exit>>
updateVars ==
  <<file, receipt, previous, lock, proc, crashes, damaged, before>>
commandVars == <<part, vars, approvalVars, lineVars, updateVars>>

Parts == {"ledger", "approval", "line", "update"}

\* The stores and the digests are alike, so only some starts of the ledger are
\* looked at; the parts that do not move start in one way.
CommandsInit ==
  /\ part \in Parts
  /\ Init /\ A!Init /\ K!Init /\ U!Init
  /\ \E c \in Callers :
       /\ caller[c].store = CHOOSE s \in Stores : TRUE
       /\ caller[c].digest = CHOOSE d \in Digests : TRUE
  /\ part # "ledger" =>
       /\ \A o \in Ops : row[o].digest = CHOOSE d \in Digests : TRUE
       /\ \A b, c \in Callers : caller[b] = caller[c]
  /\ part # "line" => cmd = Line("read", FALSE, FALSE, FALSE)
  /\ part # "update" => receipt = 1

CommandsNext ==
  \/ part = "ledger" /\ Next /\ UNCHANGED <<part, approvalVars, lineVars, updateVars>>
  \/ part = "approval" /\ A!Next /\ UNCHANGED <<part, vars, lineVars, updateVars>>
  \/ part = "line" /\ K!Next /\ UNCHANGED <<part, vars, approvalVars, updateVars>>
  \/ part = "update" /\ U!Next /\ UNCHANGED <<part, vars, approvalVars, lineVars>>

CommandsSpec == CommandsInit /\ [][CommandsNext]_commandVars

Symmetry == Permutations(Users)

--------------------------------------------------------------------------
(* The properties of the parts; those of OperationLedger are its own *)

\* Confirmation: what needs an approval is sent for one a person gave to exactly
\* this call, in this process, and once for each; two calls never hold a proof
\* for the same approval.
SentAsApproved ==
  part = "approval" =>
    A!TypeOK /\ A!SentAsApproved /\ A!ApprovalServesOnce /\ A!OneProofPerApproval

\* CliCommand: the exit code and the output of a command tell what it did, and
\* it did that once.
CommandReports ==
  part = "line" =>
    /\ K!TypeOK /\ K!SuccessIsComplete /\ K!SentOnce /\ K!UnmarkedIsClean
    /\ K!InputReported

\* SelfUpdate: between replacements the program starts, or it was said that it
\* may not.
BrokenIsReported == part = "update" => U!TypeOK /\ U!BrokenIsReported

\* SelfUpdate: an update reported as applied is in place, with its predecessor
\* kept for a rollback, and took nobody to an older version unasked.
AppliedIsTrue == U!AppliedIsTrue /\ U!NoUnaskedDowngrade

\* SelfUpdate: a failed update leaves the installation unchanged.
FailedUpdateChangesNothing == U!FailedUpdateChangesNothing
==============================================================================
