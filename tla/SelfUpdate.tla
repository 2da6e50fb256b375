----------------------------- MODULE SelfUpdate -----------------------------
(***************************************************************************)
(* Replacing the running program (internal/update, with the update and     *)
(* rollback commands of internal/cli/maintenance_commands.go).             *)
(*                                                                         *)
(* Invocations of the standalone binary plan an update, take the file lock *)
(* and replace the executable, whose predecessor stays beside it for a     *)
(* rollback.  The steps are the system calls of the update, and an         *)
(* invocation may die between any two.  Each may fail, by an error of the  *)
(* file system or because the caller's context has ended.                  *)
(***************************************************************************)
EXTENDS Naturals, FiniteSets

CONSTANTS
  Procs,        \* invocations of the command
  MaxVersion,   \* versions are 1..MaxVersion, in semantic version order
  Published,    \* versions that have a release with all its assets
  Prereleases,  \* versions published as prereleases
  MaxCrashes    \* bound on the invocations that die

Versions == 1 .. MaxVersion
Absent == 0
Unfit == MaxVersion + 1   \* a verified binary that fails the self-check
Binaries == 0 .. MaxVersion + 1

MaxVersionAssumption == MaxVersion \in Nat \ {0}
PublishedAssumption == Published \subseteq Versions
CrashesAssumption == MaxCrashes \in Nat

\* Requests the command line accepts; version 0 asks for the latest.
Requests == [version: Published \cup {0}, prerelease: BOOLEAN, allow: BOOLEAN]

PCs == {"idle", "planned", "locked", "saving", "fetching", "remove", "aside",
        "install", "moveback", "swapped", "unswapped", "commit", "cleanup"}
Phases == {"none", "update", "restore", "rollback", "undo"}
Outcomes == {"none", "refused", "applied", "rolled_back", "untrusted",
             "apply_failed", "rollback_failed"}
Slots == {"exe", "previous", "failed"}

VARIABLES
  file,      \* the executable and the two binaries kept beside it
  receipt,   \* version in the install receipt
  previous,  \* version in the rollback receipt, 0 when there is none
  lock,      \* the invocation that holds the update lock
  proc,      \* the invocations
  crashes,   \* how many have died
  damaged,   \* ghost: one died under the lock, or reported rollback_failed
  before     \* ghost: the executable when the lock was last taken

vars == <<file, receipt, previous, lock, proc, crashes, damaged, before>>

NoProc == "none"
ProcsAssumption == NoProc \notin Procs

Proc == [pc: PCs, phase: Phases, outcome: Outcomes,
         current: 0 .. MaxVersion,   \* Plan.CurrentVersion
         target: 0 .. MaxVersion,    \* Plan.TargetVersion
         down: BOOLEAN,              \* ghost: a downgrade was allowed
         new: Binaries,              \* the binary being put in place
         slot: Slots]                \* where the replaced one goes

Idle == [pc |-> "idle", phase |-> "none", outcome |-> "none", current |-> 0,
         target |-> 0, down |-> FALSE, new |-> 0, slot |-> "previous"]

TypeOK ==
  /\ file \in [Slots -> Binaries]
  /\ receipt \in Versions
  /\ previous \in 0 .. MaxVersion
  /\ lock \in Procs \cup {NoProc}
  /\ proc \in [Procs -> Proc]
  /\ crashes \in 0 .. MaxCrashes
  /\ damaged \in BOOLEAN
  /\ before \in Binaries

\* A fresh standalone installation: binary and receipt of one version.
Init ==
  /\ receipt \in Published
  /\ file = [s \in Slots |-> IF s = "exe" THEN receipt ELSE Absent]
  /\ previous = 0
  /\ lock = NoProc
  /\ proc = [p \in Procs |-> Idle]
  /\ crashes = 0
  /\ damaged = FALSE
  /\ before = receipt

--------------------------------------------------------------------------
(* Planning: nothing is changed. *)

\* normalizeRequest: an exact prerelease version implies its channel, and
\* allowing a downgrade needs an exact version.
Accepted(r) == r.allow => r.version # 0
Channel(r) == r.prerelease \/ r.version \in Prereleases

\* What the release backend may answer: the release asked for, the newest of
\* all, or the one GitHub calls the latest.
Releases(r) ==
  LET found ==
        IF r.version # 0 THEN {r.version}
        ELSE IF Channel(r)
             THEN {v \in Published : \A w \in Published : w <= v}
             ELSE Published \ Prereleases
  IN {v \in found : Channel(r) \/ v \notin Prereleases}

\* Check refuses an unasked downgrade.
Downgradable(r, v, current) == v < current => r.allow /\ r.version # 0

\* Resolve, Check and Plan of one invocation, which runs the executable.  A
\* plan that changes nothing ends with up_to_date.
PlanUpdate(p, r) ==
  /\ proc[p].pc = "idle"
  /\ file["exe"] \in Versions
  /\ Accepted(r)
  /\ \E v \in Releases(r) :
       /\ v # receipt
       /\ Downgradable(r, v, receipt)
       /\ proc' = [proc EXCEPT ![p] =
            [Idle EXCEPT !.pc = "planned", !.phase = "update",
                         !.current = receipt, !.target = v,
                         !.down = r.allow]]
  /\ UNCHANGED <<file, receipt, previous, lock, crashes, damaged, before>>

\* Rollback resolves the installation only for its owner.
PlanRollback(p) ==
  /\ proc[p].pc = "idle"
  /\ file["exe"] \in Versions
  /\ proc' = [proc EXCEPT ![p] =
       [Idle EXCEPT !.pc = "planned", !.phase = "rollback"]]
  /\ UNCHANGED <<file, receipt, previous, lock, crashes, damaged, before>>

--------------------------------------------------------------------------
(* How an invocation ends: it reports, and gives the lock back. *)

Report(p, outcome) ==
  /\ proc' = [proc EXCEPT ![p] = [Idle EXCEPT !.outcome = outcome]]
  /\ lock' = IF lock = p THEN NoProc ELSE lock
  /\ damaged' = (damaged \/ outcome = "rollback_failed")

At(p, pc, phase) == proc[p].pc = pc /\ proc[p].phase = phase

\* Mutant of Lock: the lock is not waited for.
LockBusy(p) ==
  /\ proc[p].pc = "planned"
  /\ lock' = p
  /\ before' = file["exe"]
  /\ proc' = [proc EXCEPT ![p].pc = "locked"]
  /\ UNCHANGED <<file, receipt, previous, crashes, damaged>>

\* FileLocker.Lock polls until the lock is free.
Lock(p) ==
  /\ proc[p].pc = "planned"
  /\ lock = NoProc
  /\ lock' = p
  /\ before' = file["exe"]
  /\ proc' = [proc EXCEPT ![p].pc = "locked"]
  /\ UNCHANGED <<file, receipt, previous, crashes, damaged>>

\* The context ends while the lock is waited for.
LockFails(p) ==
  /\ proc[p].pc = "planned"
  /\ Report(p, "refused")
  /\ UNCHANGED <<file, receipt, previous, crashes, before>>

\* Mutant of LoadCurrent: the plan is trusted under the lock.
LoadCurrentTrusting(p) ==
  /\ At(p, "locked", "update")
  /\ proc' = [proc EXCEPT ![p].pc = "saving"]
  /\ UNCHANGED <<file, receipt, previous, lock, crashes, damaged, before>>

\* Under the lock the receipt must still be the one planned with.
LoadCurrent(p) ==
  /\ At(p, "locked", "update")
  /\ IF receipt = proc[p].current
     THEN /\ proc' = [proc EXCEPT ![p].pc = "saving"]
          /\ UNCHANGED <<lock, damaged>>
     ELSE Report(p, "refused")
  /\ UNCHANGED <<file, receipt, previous, crashes, before>>

\* The rollback receipt is saved before anything is downloaded.
SavePrevious(p) ==
  /\ proc[p].pc = "saving"
  /\ previous' = proc[p].current
  /\ proc' = [proc EXCEPT ![p].pc = "fetching"]
  /\ UNCHANGED <<file, receipt, lock, crashes, damaged, before>>

SavePreviousFails(p) ==
  /\ proc[p].pc = "saving"
  /\ Report(p, "refused")
  /\ UNCHANGED <<file, receipt, previous, crashes, before>>

--------------------------------------------------------------------------
(* Putting a binary in place (go-selfupdate's update.Apply): it is written  *)
(* beside the executable, which is then moved aside and replaced.           *)

Swap(p, phase, new, slot) ==
  proc' = [proc EXCEPT ![p] = [@ EXCEPT !.pc = "remove", !.phase = phase,
                                        !.new = new, !.slot = slot]]

\* ReplaceFromFile: the context has ended, or the source cannot be read.
Replace(p, phase, source, slot) ==
  \/ file[source] # Absent /\ Swap(p, phase, file[source], slot)
  \/ proc' = [proc EXCEPT ![p] = [@ EXCEPT !.pc = "unswapped",
                                           !.phase = phase]]

\* Downloads, signature, checksum and archive are good: what was published
\* under the version asked for, fit to run or not.
FetchRelease(p) ==
  /\ proc[p].pc = "fetching"
  /\ \E new \in {proc[p].target, Unfit} : Swap(p, "update", new, "previous")
  /\ UNCHANGED <<file, receipt, previous, lock, crashes, damaged, before>>

\* Nothing is replaced: what is kept is the kind of the error.
Unfetched(p, verdict) ==
  /\ proc[p].pc = "fetching"
  /\ proc' = [proc EXCEPT ![p] = [@ EXCEPT !.pc = "unswapped",
                                           !.outcome = verdict]]
  /\ UNCHANGED <<file, receipt, previous, lock, crashes, damaged, before>>

\* An asset cannot be had in full; its signature or checksum does not match;
\* the archive holds anything but the four files expected.
DownloadFails(p) == Unfetched(p, "apply_failed")
VerifyFails(p) == Unfetched(p, "untrusted")
ExtractFails(p) == Unfetched(p, "apply_failed")

Unswapped(p) == proc' = [proc EXCEPT ![p].pc = "unswapped"]

\* An older binary in the slot is removed first.
RemoveOld(p) ==
  /\ proc[p].pc = "remove"
  /\ file' = [file EXCEPT ![proc[p].slot] = Absent]
  /\ proc' = [proc EXCEPT ![p].pc = "aside"]
  /\ UNCHANGED <<receipt, previous, lock, crashes, damaged, before>>

MoveAside(p) ==
  /\ proc[p].pc = "aside"
  /\ \/ /\ file["exe"] # Absent
        /\ file' = [file EXCEPT ![proc[p].slot] = file["exe"],
                                !["exe"] = Absent]
        /\ proc' = [proc EXCEPT ![p].pc = "install"]
     \/ Unswapped(p) /\ file' = file
  /\ UNCHANGED <<receipt, previous, lock, crashes, damaged, before>>

Install(p) ==
  /\ proc[p].pc = "install"
  /\ \/ /\ file' = [file EXCEPT !["exe"] = proc[p].new]
        /\ proc' = [proc EXCEPT ![p].pc = "swapped"]
     \/ /\ file' = file
        /\ proc' = [proc EXCEPT ![p].pc = "moveback"]
  /\ UNCHANGED <<receipt, previous, lock, crashes, damaged, before>>

MoveBack(p) ==
  /\ proc[p].pc = "moveback"
  /\ \/ file' = [file EXCEPT !["exe"] = file[proc[p].slot],
                             ![proc[p].slot] = Absent]
     \/ file' = file
  /\ Unswapped(p)
  /\ UNCHANGED <<receipt, previous, lock, crashes, damaged, before>>

--------------------------------------------------------------------------
(* Apply after the replacement. *)

\* The new binary reports the version wanted, or the self-check fails.
SelfCheck(p) ==
  /\ At(p, "swapped", "update")
  /\ \/ /\ proc[p].new # Unfit
        /\ proc' = [proc EXCEPT ![p].pc = "commit"]
     \/ Unswapped(p)
  /\ UNCHANGED <<file, receipt, previous, lock, crashes, damaged, before>>

\* Mutant of Recover: a failed self-check only reports.
RecoverNothing(p) ==
  /\ At(p, "unswapped", "update")
  /\ previous' = 0
  /\ Report(p, "apply_failed")
  /\ UNCHANGED <<file, receipt, crashes, before>>

\* Apply failed somewhere: whatever lies in the backup's place is put back;
\* when nothing does, the rollback receipt goes and the failure is reported.
Recover(p) ==
  /\ At(p, "unswapped", "update")
  /\ IF file["previous"] # Absent
     THEN /\ Replace(p, "restore", "previous", "failed")
          /\ UNCHANGED <<previous, lock, damaged>>
     ELSE /\ previous' \in {0, previous}
          /\ Report(p, IF proc[p].outcome = "untrusted" THEN "untrusted"
                                                        ELSE "apply_failed")
  /\ UNCHANGED <<file, receipt, crashes, before>>

Applied(p) == Report(p, "applied")

\* The receipt is saved; when that fails, the executable is put back.
Commit(p) ==
  /\ proc[p].pc = "commit"
  /\ \/ /\ receipt' = proc[p].target
        /\ Applied(p)
     \/ /\ Replace(p, "restore", "previous", "failed")
        /\ UNCHANGED <<receipt, lock, damaged>>
  /\ UNCHANGED <<file, previous, crashes, before>>

\* The two kept binaries and the rollback receipt are removed; errors are
\* ignored.
CleanUp ==
  /\ \E gone \in SUBSET {"previous", "failed"} :
       file' = [s \in Slots |-> IF s \in gone THEN Absent ELSE file[s]]
  /\ previous' \in {0, previous}

Restored(p) ==
  /\ At(p, "swapped", "restore")
  /\ CleanUp
  /\ Report(p, IF proc[p].outcome = "untrusted" THEN "untrusted"
                                                ELSE "apply_failed")
  /\ UNCHANGED <<receipt, crashes, before>>

--------------------------------------------------------------------------
(* Rollback. *)

\* Rollback loads both receipts under the lock and replaces the executable.
StartRollback(p) ==
  /\ At(p, "locked", "rollback")
  /\ IF previous = 0
     THEN Report(p, "refused")
     ELSE /\ Replace(p, "rollback", "previous", "failed")
          /\ UNCHANGED <<lock, damaged>>
  /\ UNCHANGED <<file, receipt, previous, crashes, before>>

\* The older receipt is saved; when that fails, the replaced executable is
\* put back.
CommitRollback(p) ==
  /\ At(p, "swapped", "rollback")
  /\ \/ /\ receipt' = previous
        /\ proc' = [proc EXCEPT ![p].pc = "cleanup"]
     \/ /\ Replace(p, "undo", "failed", "previous")
        /\ UNCHANGED receipt
  /\ UNCHANGED <<file, previous, lock, crashes, damaged, before>>

RolledBack(p) ==
  /\ proc[p].pc = "cleanup"
  /\ CleanUp
  /\ Report(p, "rolled_back")
  /\ UNCHANGED <<receipt, crashes, before>>

\* A restoration that fails, and an undone rollback even when the executable
\* is back, are reported as rollback_failed.
RollbackFails(p) ==
  /\ \/ proc[p].pc = "unswapped" /\ proc[p].phase # "update"
     \/ At(p, "swapped", "undo")
  /\ Report(p, "rollback_failed")
  /\ UNCHANGED <<file, receipt, previous, crashes, before>>

\* The invocation dies; the system releases its lock.
Crash(p) ==
  /\ proc[p].pc # "idle"
  /\ crashes < MaxCrashes
  /\ crashes' = crashes + 1
  /\ proc' = [proc EXCEPT ![p] = Idle]
  /\ lock' = IF lock = p THEN NoProc ELSE lock
  /\ damaged' = (damaged \/ lock = p)
  /\ UNCHANGED <<file, receipt, previous, before>>

UpdateStep(p) ==
  \/ \E r \in Requests : PlanUpdate(p, r)
  \/ LoadCurrent(p) \/ SavePrevious(p) \/ SavePreviousFails(p)
  \/ FetchRelease(p) \/ SelfCheck(p)
  \/ DownloadFails(p) \/ VerifyFails(p) \/ ExtractFails(p)
  \/ Recover(p) \/ Commit(p) \/ Restored(p)

SwapStep(p) == RemoveOld(p) \/ MoveAside(p) \/ Install(p) \/ MoveBack(p)

RollbackStep(p) ==
  PlanRollback(p) \/ StartRollback(p) \/ CommitRollback(p) \/ RolledBack(p)
    \/ RollbackFails(p)

Next == \E p \in Procs :
  Lock(p) \/ LockFails(p) \/ UpdateStep(p) \/ SwapStep(p) \/ RollbackStep(p)
    \/ Crash(p)

Spec == Init /\ [][Next]_vars

--------------------------------------------------------------------------
(* Properties *)

Says(p, outcome) == proc[p].pc # "idle" /\ proc'[p].pc = "idle"
                      /\ proc'[p].outcome = outcome

\* An update reported as applied (service.go:206) has put its target in place
\* and in the receipt, and has left the version it replaced, and no other, for
\* a rollback - whatever other invocations did since it was planned.
AppliedIsTrue ==
  [][\A p \in Procs : Says(p, "applied") =>
       /\ file'["exe"] = proc[p].target /\ receipt' = proc[p].target
       /\ file'["previous"] = before /\ previous' = proc[p].current]_vars

\* The installed version goes down only in an update that was asked for an
\* exact version and allowed to downgrade (service.go:108), or in a rollback:
\* a plan made before another update does not undo it.
NoUnaskedDowngrade ==
  [][receipt' < receipt =>
       \E p \in Procs :
         /\ lock = p
         /\ proc[p].phase = "update" => proc[p].down]_vars

\* Outside a replacement the executable exists and runs, unless an invocation
\* died in one or reported rollback_failed (service.go:177 and 203): every other
\* failure leaves a program that starts.
BrokenIsReported ==
  (\A p \in Procs : proc[p].pc \in {"idle", "planned", "locked"}) /\ ~damaged
    => file["exe"] \in Versions

\* An update that fails reports "apply or activate verified release failed;
\* installation unchanged" (service.go:186), or that the release is not to be
\* trusted (service.go:184): the executable is the one the update found.
FailedUpdateChangesNothing ==
  [][\A p \in Procs : Says(p, "apply_failed") \/ Says(p, "untrusted") =>
       file'["exe"] = before]_vars

\* No executable takes the program's place before it has passed its check:
\* the documented order of the transaction (docs/install-and-update.md:86-88).
\* The code switches first and checks afterwards (service.go:171).
CheckedBeforeSwitch == file["exe"] # Unfit

\* A rollback that reports a version (service.go:253) has put that version in
\* place.
RollbackIsTrue ==
  [][\A p \in Procs : Says(p, "rolled_back") => file'["exe"] = receipt']_vars
=============================================================================
