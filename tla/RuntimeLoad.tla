----------------------------- MODULE RuntimeLoad -----------------------------
(***************************************************************************)
(* Loading and closing a runtime (internal/app/runtime.go) in processes    *)
(* that share one state directory: its secret (internal/app/secret.go),    *)
(* its database and identity pins (internal/store), and the read-only      *)
(* queries of the devices pinned there (internal/device/service.go).       *)
(*                                                                         *)
(* Any process may die at any step, and any step may fail; the machine     *)
(* that answers at an origin may be exchanged for another.  A database     *)
(* transaction is one step.                                                *)
(***************************************************************************)
EXTENDS Naturals

CONSTANTS
  Procs,       \* processes that use the directory; a secret is named after its maker
  None,
  Aliases, Origins, Ids,
  Configs,     \* configurations: sets of exposed bindings
  MaxVersion   \* bound on schema versions that binaries know

Binding == [alias : Aliases, origin : Origins, id : Ids]

ConfigAssumption ==
  /\ None \notin Procs /\ Configs \subseteq SUBSET Binding /\ MaxVersion \in Nat \ {0}
  /\ \A c \in Configs : \A a, b \in c : a.alias = b.alias => a = b

VARIABLES
  hardware,  \* the device that answers at each origin
  secret,    \* the secret file
  lock,      \* who holds .runtime-secret.lock
  schema,    \* newest migration of the database
  pins,      \* device_identities
  proc,      \* each process
  query      \* GetStatus of each process

vars == <<hardware, secret, lock, schema, pins, proc, query>>

Down == [pc |-> "down", config |-> {}, todo |-> {}, secret |-> None,
         version |-> 1, db |-> FALSE, controls |-> FALSE]
NoQuery == [pc |-> "none", target |-> None, id |-> None]

Init ==
  /\ hardware \in [Origins -> Ids]
  /\ secret = None /\ lock = None /\ schema = 0 /\ pins = {}
  /\ proc = [p \in Procs |-> Down] /\ query = [p \in Procs |-> NoQuery]

--------------------------------------------------------------------------
(* Load *)

Start(p, c, v) ==
  /\ proc[p].pc = "down"
  /\ proc' = [proc EXCEPT ![p] = [Down EXCEPT !.pc = "secret", !.config = c,
                                              !.todo = c, !.version = v]]
  /\ UNCHANGED <<hardware, secret, lock, schema, pins, query>>

\* Load returns an error: what it opened is closed.
Unwound(p) == proc' = [proc EXCEPT ![p] = Down]

\* Mutant of LockSecret: the lock is not waited for.
LockSecretNot(p) ==
  /\ proc[p].pc = "secret"
  /\ proc' = [proc EXCEPT ![p].pc = "locked"] /\ lock' = p
  /\ UNCHANGED <<hardware, secret, schema, pins, query>>

LockSecret(p) ==
  /\ proc[p].pc = "secret" /\ lock = None
  /\ proc' = [proc EXCEPT ![p].pc = "locked"] /\ lock' = p
  /\ UNCHANGED <<hardware, secret, schema, pins, query>>

\* The secret that is there is used; a malformed file is an error.
ReadSecret(p) ==
  /\ proc[p].pc = "locked"
  /\ \/ Unwound(p) /\ lock' = None
     \/ /\ secret # None /\ lock' = None
        /\ proc' = [proc EXCEPT ![p].pc = "store", ![p].secret = secret]
     \/ /\ secret = None /\ UNCHANGED lock
        /\ proc' = [proc EXCEPT ![p].pc = "missing"]
  /\ UNCHANGED <<hardware, secret, schema, pins, query>>

\* writeRuntimeSecret renames a complete file into place; it fails before that,
\* or after it when the directory cannot be synced.
WriteSecret(p) ==
  /\ proc[p].pc = "missing" /\ lock' = None
  /\ \/ UNCHANGED secret /\ Unwound(p)
     \/ secret' = p /\ Unwound(p)
     \/ secret' = p /\ proc' = [proc EXCEPT ![p].pc = "store", ![p].secret = p]
  /\ UNCHANGED <<hardware, schema, pins, query>>

\* store.Open: a database that a newer binary has migrated is refused.
OpenStore(p) ==
  /\ proc[p].pc = "store"
  /\ \/ Unwound(p) /\ UNCHANGED schema
     \/ /\ schema <= proc[p].version /\ schema' = proc[p].version
        /\ proc' = [proc EXCEPT ![p].pc = "pin", ![p].db = TRUE]
  /\ UNCHANGED <<hardware, secret, lock, pins, query>>

Clashes(a, b) == a # b /\ (a.alias = b.alias \/ a.origin = b.origin \/ a.id = b.id)

\* Mutant of PinIdentity: only the alias must be free.
PinIdentityByAlias(p, b) ==
  /\ proc[p].pc = "pin" /\ b \in proc[p].todo
  /\ \/ Unwound(p) /\ UNCHANGED pins
     \/ /\ \A x \in pins : x.alias = b.alias => x = b
        /\ pins' = pins \cup {b}
        /\ proc' = [proc EXCEPT ![p].todo = @ \ {b}]
  /\ UNCHANGED <<hardware, secret, lock, schema, query>>

\* PinIdentity: the exact pin may be there already; any other pin with its
\* alias, origin or device is a conflict.
PinIdentity(p, b) ==
  /\ proc[p].pc = "pin" /\ b \in proc[p].todo
  /\ \/ Unwound(p) /\ UNCHANGED pins
     \/ /\ \A x \in pins : ~Clashes(b, x)
        /\ pins' = pins \cup {b}
        /\ proc' = [proc EXCEPT ![p].todo = @ \ {b}]
  /\ UNCHANGED <<hardware, secret, lock, schema, query>>

\* The services: when one cannot be built, the drain of the others comes before
\* the close of the store.
Build(p) ==
  /\ proc[p].pc = "pin" /\ proc[p].todo = {}
  /\ Unwound(p) \/ proc' = [proc EXCEPT ![p].pc = "running"]
  /\ UNCHANGED <<hardware, secret, lock, schema, pins, query>>

--------------------------------------------------------------------------
(* A runtime in use, and its end *)

Control(p) ==
  /\ proc[p].pc = "running"
  /\ proc' = [proc EXCEPT ![p].controls = ~@]
  /\ UNCHANGED <<hardware, secret, lock, schema, pins, query>>

\* GetStatus asks for the setup, then for the identity, then for the cloud state.
AskStatus(p, b) ==
  /\ proc[p].pc = "running" /\ query[p].pc \in {"none", "reported"} /\ b \in proc[p].config
  /\ query' = [query EXCEPT ![p] = [pc |-> "identity", target |-> b, id |-> None]]
  /\ UNCHANGED <<hardware, secret, lock, schema, pins, proc>>

AskIdentity(p) ==
  LET t == query[p].target IN
  /\ query[p].pc = "identity"
  /\ query' = [query EXCEPT ![p].pc = "verify", ![p].id = hardware[t.origin]]
  /\ UNCHANGED <<hardware, secret, lock, schema, pins, proc>>

\* Mutant of Verified: whatever answers is believed.
VerifiedNot(q) == q.id # None

\* ExactIdentityVerifier
Verified(q) == q.id = q.target.id

Report(p) ==
  /\ query[p].pc = "verify"
  /\ query' = [query EXCEPT ![p] =
       IF Verified(@) THEN [@ EXCEPT !.pc = "reported"] ELSE NoQuery]
  /\ UNCHANGED <<hardware, secret, lock, schema, pins, proc>>

\* closeRuntime: the drain ends, or its ten seconds do; then the store closes.
Drain(p) ==
  /\ proc[p].pc = "running"
  /\ \E left \in BOOLEAN :
       proc' = [proc EXCEPT ![p].pc = "draining", ![p].controls = @ /\ left]
  /\ query' = [query EXCEPT ![p] = NoQuery]
  /\ UNCHANGED <<hardware, secret, lock, schema, pins>>

CloseStore(p) ==
  /\ proc[p].pc = "draining" /\ Unwound(p)
  /\ UNCHANGED <<hardware, secret, lock, schema, pins, query>>

Crash(p) ==
  /\ proc[p].pc # "down" /\ Unwound(p)
  /\ lock' = IF lock = p THEN None ELSE lock
  /\ query' = [query EXCEPT ![p] = NoQuery]
  /\ UNCHANGED <<hardware, secret, schema, pins>>

\* Another machine answers at an origin.
Exchange(o) ==
  /\ \E i \in Ids : hardware' = [hardware EXCEPT ![o] = i]
  /\ UNCHANGED <<secret, lock, schema, pins, proc, query>>

--------------------------------------------------------------------------

LoadStep(p) ==
  \/ ReadSecret(p) \/ WriteSecret(p) \/ OpenStore(p)
  \/ \E b \in proc[p].todo : PinIdentity(p, b)
  \/ Build(p) \/ CloseStore(p)

Next ==
  \/ \E p \in Procs :
       \/ \E c \in Configs, v \in 1 .. MaxVersion : Start(p, c, v)
       \/ LockSecret(p) \/ LoadStep(p) \/ Control(p)
       \/ \E b \in proc[p].config : AskStatus(p, b)
       \/ AskIdentity(p) \/ Report(p) \/ Drain(p) \/ Crash(p)
  \/ \E o \in Origins : Exchange(o)

Spec == Init /\ [][Next]_vars

\* The steps of a load follow one another; the lock is tried every 50 ms, and an
\* attempt meets a free moment at last.
FairSpec ==
  Spec /\ \A p \in Procs : WF_vars(LoadStep(p)) /\ SF_vars(LockSecret(p))

--------------------------------------------------------------------------
(* Properties *)

\* Types; the lock and the database are held where the code holds them.
TypeOK ==
  /\ secret \in Procs \cup {None} /\ lock \in Procs \cup {None}
  /\ schema \in 0 .. MaxVersion /\ pins \subseteq Binding
  /\ \A p \in Procs :
       /\ proc[p].todo \subseteq proc[p].config
       /\ (proc[p].pc \in {"locked", "missing"}) <=> (lock = p)
       /\ proc[p].db <=> proc[p].pc \in {"pin", "running", "draining"}
       /\ proc[p].controls => proc[p].db

\* Every runtime has the secret of the file, whoever made it and whoever died
\* while making it: digests and confirmations agree between processes
\* (app/secret.go:28).
SecretShared ==
  \A p \in Procs : proc[p].secret # None => proc[p].secret = secret

\* An alias, an origin and a device belong to one another only (store.go:102,
\* "an immutable alias/origin/device binding").
PinsBijective == \A a, b \in pins : ~Clashes(a, b)

\* A pin is never changed or dropped, whatever configuration is loaded.
PinsImmutable == [][pins \subseteq pins']_vars

\* What a runtime exposes is pinned exactly so, and what it reports of a device
\* comes from that device (app/runtime.go:106, device/service.go:135).
ExposedPinned ==
  \A p \in Procs :
    /\ proc[p].pc = "running" => proc[p].config \subseteq pins
    /\ query[p].pc = "reported" =>
         [query[p].target EXCEPT !.id = query[p].id] \in pins

\* A load ends, with a runtime or without, even when those before it failed or
\* died with the lock.
LoadEnds ==
  \A p \in Procs : (proc[p].pc = "secret") ~> (proc[p].pc \in {"running", "down"})
=============================================================================
