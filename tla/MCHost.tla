------------------------------- MODULE MCHost -------------------------------
(***************************************************************************)
(* The process around the devices for TLC: the handles of its control      *)
(* registry (ControlActor), the owner of the MCP connection (McpHost), the *)
(* load of a runtime (RuntimeLoad) and the forms that change its           *)
(* configuration (Enrollment).  They share no state, so a behaviour moves  *)
(* one of them (part) and leaves the others as they start: a run explores  *)
(* the union of their behaviours, not the product.                         *)
(***************************************************************************)
EXTENDS ControlActor, TLC

CONSTANTS
  Users,                                              \* calls, processes, jobs
  None,
  Changers, Closer, MaxRev,                           \* McpHost
  MaxSchema,                                          \* RuntimeLoad
  MaxAccounts                                         \* Enrollment

VARIABLES
  part,
  disk, runs, host, gate, at,
  hardware, secret, secretLock, schema, pins, loader, query,
  saved, keys, made, lost, saveLock, job, edited

\* A long-lived handle with every capability and a short one that may join it.
MCRequests == {[own |-> "owned", caps |-> {"input", "power"}, idle |-> 1,
                life |-> 2],
               [own |-> "owned", caps |-> {"input"}, idle |-> 1, life |-> 1]}

\* A device, the same one renamed, another one beside it or in its place, and
\* one device under two names.
B(a, o, i) == [alias |-> a, origin |-> o, id |-> i]
ManyConfigs == {{B("a1", "o1", "d1")}, {B("a2", "o1", "d1")},
                {B("a1", "o1", "d1"), B("a2", "o2", "d2")},
                {B("a1", "o1", "d2")}, {B("a1", "o1", "d1"), B("a2", "o2", "d1")}}

\* A device with a password and one without; either may answer at o1.
Locked == [id |-> "d1", password |-> TRUE]
Unlocked == [id |-> "d2", password |-> FALSE]
TheHardware == [o1 |-> {Locked, Unlocked}, o2 |-> {Unlocked}]

Form(name, origin, control) ==
  [name |-> name, origin |-> origin, control |-> control]
TheForms == {Form("n1", "o1", TRUE), Form("n2", "o2", FALSE)}

Patch(what, value) == [what |-> what, id |-> "d1", value |-> value]
ThePatches == {Patch("global", TRUE), Patch("device", FALSE)}

H == INSTANCE McpHost WITH Calls <- Users
R == INSTANCE RuntimeLoad
       WITH Procs <- Users, Aliases <- {"a1", "a2"}, Origins <- {"o1", "o2"},
            Ids <- {"d1", "d2"}, Configs <- ManyConfigs, MaxVersion <- MaxSchema,
            lock <- secretLock, proc <- loader
E == INSTANCE Enrollment
       WITH Jobs <- Users, Requests <- TheForms, Patches <- ThePatches, Hardware <- TheHardware,
            file <- saved, lock <- saveLock

ASSUME HostAssumption ==
  /\ H!DistinctAssumption /\ R!ConfigAssumption /\ E!EnrollmentAssumption

mcpVars == <<disk, runs, host, gate, at>>
loadVars == <<hardware, secret, secretLock, schema, pins, loader, query>>
formVars == <<saved, keys, made, lost, saveLock, job, edited>>
hostVars == <<part, vars, mcpVars, loadVars, formVars>>

HostInit ==
  /\ part \in {"control", "mcp", "load", "form"}
  /\ Init /\ H!Init /\ R!Init /\ E!Init
  /\ part # "mcp" => host.current = 0
  /\ part # "load" => hardware = [o1 |-> "d1", o2 |-> "d1"]

HostNext ==
  \/ part = "control" /\ Next
     /\ UNCHANGED <<part, mcpVars, loadVars, formVars>>
  \/ part = "mcp" /\ H!Next
     /\ UNCHANGED <<part, vars, loadVars, formVars>>
  \/ part = "load" /\ R!Next
     /\ UNCHANGED <<part, vars, mcpVars, formVars>>
  \/ part = "form" /\ E!Next
     /\ UNCHANGED <<part, vars, mcpVars, loadVars>>

HostSpec == HostInit /\ [][HostNext]_hostVars

Symmetry == Permutations(Users)

--------------------------------------------------------------------------
(* The properties of the parts; those of ControlActor are its own *)

\* McpHost: a request is served by an open runtime, never by an older
\* configuration than it came after, nor than a human was told is active.
ServedCurrent ==
  part = "mcp" =>
    H!TypeOK /\ H!ServedOpen /\ H!EffectsFenced /\ H!ToldIsActive

\* McpHost: a runtime with an active control is closed with the host only.
ControlsKept == H!ControlsKept

\* RuntimeLoad: one secret, pins that exclude one another, and nothing exposed
\* or reported that is not pinned.
LoadedPinned ==
  part = "load" =>
    R!TypeOK /\ R!SecretShared /\ R!PinsBijective /\ R!ExposedPinned

\* Enrollment: what is saved can log in, is saved once, and leaves no stray
\* credential.
SavedSound ==
  part = "form" =>
    E!TypeOK /\ E!SavedCanLogIn /\ E!NoStrayCredential /\ E!SavedOnce

\* Enrollment: an approved change replaces what was shown.
WritesWhatWasShown == E!WritesWhatWasShown
=============================================================================
