------------------------------- MODULE MCEnds -------------------------------
(***************************************************************************)
(* Does what starts come to an end?  For TLC: the calls and the close of   *)
(* the MCP host (McpHost), a command (CliCommand), the video pipeline      *)
(* (VideoPipeline).  They share no state: a behaviour moves one of them    *)
(* (part) and leaves the others as they start.                             *)
(***************************************************************************)
EXTENDS McpHost, Cases

CONSTANTS
  Commands, MaxAttempts, MaxPolls,                                \* CliCommand
  MaxPending, Freshness, PLIInterval, MaxUnits, MaxGen, MaxChain  \* VideoPipeline

VARIABLES
  part,
  cmd, attempt, pc, late, failed, runtime, control, op, reply, polls, woke,
  row, sent, broken, pending, printed, exit,
  units, p, dec, worker, life, obs, inputAge

K == INSTANCE CliCommand
V == INSTANCE VideoPipeline WITH Observers <- {}

ASSUME EndsAssumption ==
  K!CliAssumption /\ K!CommandsAssumption /\ V!BoundsAssumption

commandVars ==
  <<cmd, attempt, pc, late, failed, runtime, control, op, reply, polls, woke,
    row, sent, broken, pending, printed, exit>>
videoVars == <<units, p, dec, worker, life, obs, inputAge>>
endsVars == <<part, vars, commandVars, videoVars>>

EndsInit ==
  /\ part \in {"host", "command", "video"}
  /\ Init /\ K!Init /\ V!Init
  /\ part # "host" => host.current = 0
  /\ part # "command" => cmd = Line("read", FALSE, FALSE, FALSE)

EndsNext ==
  \/ part = "host" /\ Next /\ UNCHANGED <<part, commandVars, videoVars>>
  \/ part = "command" /\ K!Next /\ UNCHANGED <<part, vars, videoVars>>
  \/ part = "video" /\ V!Next /\ UNCHANGED <<part, vars, commandVars>>

\* The fairness of each part, while it is the one that moves.
EndsSpec ==
  /\ EndsInit /\ [][EndsNext]_endsVars
  /\ \A c \in Calls : /\ WF_vars(part = "host" /\ CallStep(c))
                      /\ SF_vars(part = "host" /\ Lock(c))
  /\ \A h \in Changers : /\ WF_vars(part = "host" /\ ChangeStep(h))
                         /\ SF_vars(part = "host" /\ Lock(h))
  /\ WF_vars(part = "host" /\ CloseStep) /\ SF_vars(part = "host" /\ Lock(Closer))
  /\ WF_commandVars(/\ part = "command" /\ K!Step
                    /\ late \/ pc \notin {"approveOpen", "approve"})
  /\ WF_videoVars(part = "video" /\ V!WorkerStep)
  /\ WF_videoVars(part = "video" /\ V!FinishReset)
  /\ WF_videoVars(part = "video" /\ V!FinishClose)
  /\ WF_videoVars(part = "video" /\ V!Tick)

--------------------------------------------------------------------------
(* The properties of the parts *)

\* McpHost: every call is answered, and a close that began completes.
HostEnds == CallsAnswered /\ CloseCompletes

\* CliCommand: a command ends.
CommandEnds == part = "command" => K!CommandEnds

\* VideoPipeline: a broken picture is asked for anew, and a close joins the worker.
PictureEnds == part = "video" => V!RecoveryAsked /\ V!CloseJoins
=============================================================================
