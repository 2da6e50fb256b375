----------------------------- MODULE Enrollment ------------------------------
(***************************************************************************)
(* Connecting a device and changing settings (internal/onboarding): a      *)
(* human approves a form or a list of changes, and the configuration file  *)
(* is replaced under a lock, with a password kept in the system's keyring. *)
(*                                                                         *)
(* Jobs run in several processes: browser sessions of the MCP host and of  *)
(* the CLI, and `config set'.  A process may die at any step.  An editor   *)
(* that knows nothing of the lock may change the file.  The host's gate    *)
(* and its reload are McpHost's; here the activation succeeds or fails.    *)
(***************************************************************************)
EXTENDS Naturals, FiniteSets

CONSTANTS
  Jobs,         \* forms and commands
  None,
  Requests,     \* connection forms: [name, origin, control]
  Patches,      \* settings patches: [what, id, value]
  Hardware,     \* what may answer at each origin: sets of [id, password]
  MaxAccounts   \* bound on the keyring accounts made

EnrollmentAssumption ==
  /\ None \notin Jobs /\ MaxAccounts \in Nat
  /\ \A r \in Requests : r.origin \in DOMAIN Hardware

VARIABLES
  file,    \* the configuration: devices and the global input permission
  keys,    \* accounts in the keyring
  made,    \* accounts made so far
  lost,    \* accounts nothing could remove: a process died, or a delete failed
  lock,    \* who holds the file's lock
  job,     \* each job
  edited   \* jobs whose file an editor has changed since they read it

vars == <<file, keys, made, lost, lock, job, edited>>

NoFile == [devices |-> {}, input |-> FALSE, present |-> FALSE]
Idle == [pc |-> "idle", request |-> None, patch |-> None, expected |-> NoFile,
         shown |-> NoFile, next |-> NoFile, account |-> 0, result |-> "none",
         again |-> FALSE, machine |-> [id |-> None, password |-> FALSE]]

Init ==
  /\ file = NoFile /\ keys = {} /\ made = 0 /\ lost = {} /\ lock = None
  /\ job = [j \in Jobs |-> Idle] /\ edited = {}

\* A job ends, and gives back the lock.
End(j, result) ==
  /\ job' = [job EXCEPT ![j] =
       [Idle EXCEPT !.result = result, !.again = job[j].again /\ result = "stale"]]
  /\ lock' = IF lock = j THEN None ELSE lock
  /\ edited' = edited \ {j}

Goto(j, pc) == job' = [job EXCEPT ![j].pc = pc]

--------------------------------------------------------------------------
(* Connect *)

\* Connect, up to the lock: the form is approved and the device answers.
Connect(j, r) ==
  /\ job[j].pc = "idle"
  /\ \E m \in Hardware[r.origin] :
       job' = [job EXCEPT ![j] =
         [Idle EXCEPT !.pc = "lock", !.request = r, !.machine = m]]
  /\ UNCHANGED <<file, keys, made, lost, lock, edited>>

\* The lock is tried until it is free or the job is canceled.
Lock(j) ==
  /\ job[j].pc = "lock"
  /\ \/ lock = None /\ lock' = j /\ Goto(j, "check") /\ UNCHANGED edited
     \/ End(j, "none")
  /\ UNCHANGED <<file, keys, made, lost>>

\* Mutant of Same: a device is known by its name.
SameName(j) == {d \in file.devices : d.name = job[j].request.name}

\* The device is known by its identity.
Same(j) == {d \in file.devices : d.id = job[j].machine.id}

\* save: the name and the origin must be free; a known device must be known just so.
Clash(j) ==
  LET r == job[j].request IN
  \/ \E d \in file.devices : d.id # job[j].machine.id
                             /\ (d.name = r.name \/ d.origin = r.origin)
  \/ \E d \in Same(j) : d.origin # r.origin \/ d.name # r.name
                        \/ (r.control /\ ~d.input)
  \/ r.control /\ file.present /\ ~file.input /\ Same(j) = {}

\* The configuration with the device in it; a new one takes its choice of input.
With(j, account) ==
  LET r == job[j].request
      d == [name |-> r.name, origin |-> r.origin, id |-> job[j].machine.id,
            account |-> account, input |-> r.control]
  IN [devices |-> file.devices \cup {d}, present |-> TRUE,
      input |-> IF file.present THEN file.input ELSE r.control]

\* save, under the lock, up to the keyring.  A password may be missing.
CheckConnect(j) ==
  /\ job[j].pc = "check" /\ job[j].request # None
  /\ IF Clash(j) THEN End(j, "none")
     ELSE IF Same(j) # {} THEN End(j, "none")
     ELSE \/ End(j, "none")
          \/ /\ job' = [job EXCEPT ![j].pc = IF job[j].machine.password THEN "key" ELSE "write",
                                   ![j].expected = file, ![j].next = With(j, 0)]
             /\ UNCHANGED <<lock, edited>>
  /\ UNCHANGED <<file, keys, made, lost>>

\* The password goes under a new account, or the keyring fails.
SetKey(j) ==
  /\ job[j].pc = "key" /\ made < MaxAccounts
  /\ \/ End(j, "none") /\ UNCHANGED <<keys, made>>
     \/ /\ made' = made + 1 /\ keys' = keys \cup {made + 1}
        /\ job' = [job EXCEPT
             ![j].pc = "write", ![j].account = made + 1,
             ![j].next.devices =
               {IF d \in job[j].expected.devices THEN d
                ELSE [d EXCEPT !.account = made + 1] : d \in @}]
        /\ UNCHANGED <<lock, edited>>
  /\ UNCHANGED <<file, lost>>

--------------------------------------------------------------------------
(* Update *)

\* applySettings: global input, a device's input, or its other settings.
Apply(f, p) ==
  IF p.what = "global" THEN [f EXCEPT !.input = p.value]
  ELSE [f EXCEPT !.devices =
    {IF d.id = p.id THEN [d EXCEPT !.input = p.value] ELSE d : d \in @}]

Applies(f, p) ==
  /\ f.present
  /\ p.what = "device" =>
       /\ \E d \in f.devices : d.id = p.id
       /\ p.value => f.input

\* Preview: what the human is shown, of the configuration the patch names.
Preview(j, p) ==
  /\ job[j].pc = "idle" /\ Applies(file, p)
  /\ job' = [job EXCEPT ![j] = [Idle EXCEPT !.pc = "review", !.patch = p,
       !.expected = file, !.shown = Apply(file, p)]]
  /\ UNCHANGED <<file, keys, made, lost, lock, edited>>

Review(j) ==
  /\ job[j].pc = "review"
  /\ \/ Goto(j, "lock") /\ UNCHANGED <<lock, edited>>
     \/ End(j, "none")
  /\ UNCHANGED <<file, keys, made, lost>>

\* Mutant of CheckUpdate: the revision was compared when it was shown.
CheckUpdateNot(j) ==
  /\ job[j].pc = "check" /\ job[j].patch # None
  /\ IF ~Applies(file, job[j].patch) THEN End(j, "none")
     ELSE /\ job' = [job EXCEPT ![j].pc = "write",
                                ![j].next = Apply(file, job[j].patch)]
          /\ UNCHANGED <<lock, edited>>
  /\ UNCHANGED <<file, keys, made, lost>>

\* update, under the lock: the file must still be the one that was shown.
CheckUpdate(j) ==
  /\ job[j].pc = "check" /\ job[j].patch # None
  /\ IF file # job[j].expected THEN End(j, "stale")
     ELSE IF ~Applies(file, job[j].patch) THEN End(j, "none")
     ELSE /\ job' = [job EXCEPT ![j].pc = "write",
                                ![j].next = Apply(file, job[j].patch)]
          /\ UNCHANGED <<lock, edited>>
  /\ UNCHANGED <<file, keys, made, lost>>

--------------------------------------------------------------------------
(* Commit *)

\* Mutant of Write: a failed readback takes the credential away again.
WriteUndoing(j) ==
  /\ job[j].pc = "write"
  /\ \/ /\ file' = job[j].next
        /\ \/ /\ job' = [job EXCEPT ![j].pc = "activate"]
              /\ lock' = None /\ edited' = edited \ {j}
           \/ Goto(j, "undo") /\ UNCHANGED <<lock, edited>>
     \/ UNCHANGED file /\ Goto(j, "undo") /\ UNCHANGED <<lock, edited>>
  /\ UNCHANGED <<keys, made, lost>>

\* Mutant of Write: a failed write ends the job at once.
WriteLeaving(j) ==
  /\ job[j].pc = "write"
  /\ \/ /\ file' = job[j].next
        /\ \/ /\ job' = [job EXCEPT ![j].pc = "activate"]
              /\ lock' = None /\ edited' = edited \ {j}
           \/ job[j].request # None /\ End(j, "none")
     \/ UNCHANGED file /\ End(j, "none")
  /\ UNCHANGED <<keys, made, lost>>

\* writeSettings: a complete file is renamed into place, or nothing is done.
\* Reading it back for the receipt of a connection may fail after that.
Write(j) ==
  /\ job[j].pc = "write"
  /\ \/ /\ file' = job[j].next
        /\ \/ /\ job' = [job EXCEPT ![j].pc = "activate"]
              /\ lock' = None /\ edited' = edited \ {j}
           \/ job[j].request # None /\ End(j, "none")
     \/ UNCHANGED file /\ Goto(j, "undo") /\ UNCHANGED <<lock, edited>>
  /\ UNCHANGED <<keys, made, lost>>

\* The account that was made is deleted, which may fail.
Undo(j) ==
  /\ job[j].pc = "undo" /\ End(j, "none")
  /\ \/ job[j].account # 0 /\ keys' = keys \ {job[j].account} /\ UNCHANGED lost
     \/ UNCHANGED keys /\ lost' = lost \cup ({job[j].account} \ {0})
  /\ UNCHANGED <<file, made>>

\* The host loads what was committed, or fails to: the form can be sent again.
Activate(j) ==
  /\ job[j].pc = "activate"
  /\ \/ End(j, "none")
     \/ /\ job' = [job EXCEPT ![j].pc = "idle", ![j].account = 0,
                              ![j].next = NoFile, ![j].result = "inactive"]
        /\ UNCHANGED <<lock, edited>>
  /\ UNCHANGED <<file, keys, made, lost>>

\* A human sends a form again that was saved but not activated.
Resubmit(j) ==
  /\ job[j].pc = "idle" /\ job[j].result = "inactive"
  /\ job' = [job EXCEPT ![j].pc = "lock", ![j].again = TRUE, ![j].result = "none"]
  /\ UNCHANGED <<file, keys, made, lost, lock, edited>>

Crash(j) ==
  /\ job[j].pc # "idle" /\ End(j, "none")
  /\ lost' = lost \cup ({job[j].account} \ {0})
  /\ UNCHANGED <<file, keys, made>>

\* An editor takes a device out, or changes the global permission.
Edit ==
  /\ file.present
  /\ \/ \E d \in file.devices : file' = [file EXCEPT !.devices = @ \ {d}]
     \/ file' = [file EXCEPT !.input = ~@]
  /\ lost' = lost \cup ({d.account : d \in file.devices \ file'.devices} \ {0})
  /\ edited' = {j \in Jobs : job[j].pc \in {"write", "key"}}
  /\ UNCHANGED <<keys, made, lock, job>>

--------------------------------------------------------------------------

JobStep(j) == \/ Lock(j) \/ CheckConnect(j) \/ SetKey(j) \/ Review(j)
              \/ CheckUpdate(j) \/ Write(j) \/ Undo(j) \/ Activate(j)

Next ==
  \/ \E j \in Jobs :
       \/ \E r \in Requests : Connect(j, r)
       \/ \E p \in Patches : Preview(j, p)
       \/ Resubmit(j) \/ JobStep(j) \/ Crash(j)
  \/ Edit

Spec == Init /\ [][Next]_vars

--------------------------------------------------------------------------
(* Properties *)

\* Types; the lock is held from the first look at the file to its replacement.
TypeOK ==
  /\ keys \subseteq 1 .. MaxAccounts /\ made \in 0 .. MaxAccounts
  /\ lost \subseteq 1 .. made
  /\ \A j \in Jobs :
       /\ (job[j].pc \in {"check", "key", "write", "undo"}) <=> (lock = j)
       /\ job[j].account # 0 => job[j].pc \in {"write", "undo", "activate"}

\* A device that is saved can log in: its credential is in the keyring, whatever
\* failed after the commit (design.md:477, "must never remove the credential").
SavedCanLogIn ==
  \A d \in file.devices : d.account # 0 => d.account \in keys

\* Every account in the keyring belongs to a saved device or to a job under way,
\* unless a process died, a delete failed or an editor dropped its device.
NoStrayCredential ==
  \A k \in keys :
    \/ k \in lost \/ \E d \in file.devices : d.account = k
    \/ \E j \in Jobs : job[j].account = k
    \/ edited # {}

\* A device, a name and an origin are saved once, however many forms for them are
\* sent at a time.
SavedOnce ==
  \A d, e \in file.devices :
    d.id = e.id \/ d.name = e.name \/ d.origin = e.origin => d = e

\* What an update writes is what the human was shown, and what a job replaces is
\* what it read, unless an editor came between (design.md:477, "stale updates
\* fail rather than overwrite another agent's work").
WritesWhatWasShown ==
  [][\A j \in Jobs :
       (job[j].pc = "write" /\ file' # file /\ file' = job[j].next
        /\ job'[j].pc # "write" /\ j \notin edited) =>
         /\ file = job[j].expected
         /\ job[j].patch # None => file' = job[j].shown]_vars

\* A form that was saved but not activated can be sent again (service.go:38,
\* "retry setup to activate the saved device").
RetryActivates == \A j \in Jobs : job[j].again => job[j].result # "stale"
=============================================================================
