---------------------------- MODULE Confirmation ----------------------------
(***************************************************************************)
(* Confirmations of risky operations (internal/confirmation,               *)
(* internal/mcpserver/confirmation.go and confirmCall of control_tools.go, *)
(* the prompt of the command line, and the checks of                       *)
(* internal/automation/service.go that consume the proof).                 *)
(*                                                                         *)
(* A tool call that needs approval is answered with a sealed state.  The   *)
(* client shows it to its user and calls again with the state and the      *)
(* answer; it may do so late, twice, or with another request.  A call that *)
(* is confirmed carries a proof to the point where the operation is sent.  *)
(* On the command line the answer comes from a prompt.  Seals cannot be    *)
(* forged: tokens are the records the server has made.                     *)
(***************************************************************************)
EXTENDS Naturals, FiniteSets

CONSTANTS
  ToolCalls,       \* calls in flight
  Principals,  \* client identities
  Bindings,    \* device, generation, action, arguments and policy revision
  Risky,       \* those for which the policy wants an approval
  StateTTL,    \* how long a sealed state lives
  ProofTTL,    \* how long a proof lives
  MaxTime,     \* bound on the clock
  MaxTokens,   \* bound on the states issued and prompts shown
  MaxEpoch     \* bound on restarts

RiskyAssumption == Risky \subseteq Bindings
ClaimsAssumption == Principals # {} /\ Bindings # {}
BoundsAssumption ==
  {StateTTL, ProofTTL, MaxTime, MaxTokens, MaxEpoch} \subseteq Nat

Claims == [principal: Principals, binding: Bindings]

VARIABLES
  now,       \* the clock
  epoch,     \* restarts so far: the maps below live in memory only
  tokens,    \* every state issued: [id, epoch, claims, issued, expires]
  approved,  \* what a person has approved: <<id of the state, claims>>
  issued,    \* ids the issuer waits for
  consumed,  \* ids the issuer has confirmed
  nonces,    \* nonces of consumed proofs, with their expiry
  call,      \* the calls
  done       \* ghost: operations sent, with the approval they used

vars == <<now, epoch, tokens, approved, issued, consumed, nonces, call, done>>

Ids == 1 .. MaxTokens
Times == 0 .. MaxTime
Token == [id: Ids, epoch: 0 .. MaxEpoch, claims: Claims, issued: Times,
          expires: Times \cup (MaxTime .. MaxTime + StateTTL)]

\* A call: its own claims, the state it presented, the time it read, and its
\* proof once it has one.
PCs == {"idle", "prompted", "confirming", "confirmed", "checked"}
Call == [pc: PCs, claims: Claims, id: 0 .. MaxTokens, at: Times,
         expires: 0 .. MaxTime + ProofTTL, ended: BOOLEAN]
NoCall == [pc |-> "idle", claims |-> CHOOSE c \in Claims : TRUE, id |-> 0,
           at |-> 0, expires |-> 0, ended |-> FALSE]

TypeOK ==
  /\ now \in Times
  /\ epoch \in 0 .. MaxEpoch
  /\ tokens \subseteq Token
  /\ \A s, t \in tokens : s.id = t.id => s = t
  /\ approved \subseteq Ids \X Claims
  /\ issued \subseteq Ids
  /\ consumed \subseteq Ids
  /\ nonces \subseteq Ids \X (0 .. MaxTime + ProofTTL)
  /\ call \in [ToolCalls -> Call]
  /\ done \subseteq [call: ToolCalls, id: Ids, claims: Claims, epoch: 0 .. MaxEpoch]

Init ==
  /\ now = 0 /\ epoch = 0
  /\ tokens = {} /\ approved = {} /\ issued = {} /\ consumed = {}
  /\ nonces = {} /\ done = {}
  /\ call = [c \in ToolCalls |-> NoCall]

TokenOf(id) == CHOOSE t \in tokens : t.id = id
NextId == Cardinality({t.id : t \in tokens}) + 1

\* pruneLocked: issued states that have expired at the time given.
Pruned(at) == {id \in issued : at < TokenOf(id).expires}

--------------------------------------------------------------------------
(* Sealed states, for tool calls *)

\* A call without an answer: the operation is prepared, and when it needs an
\* approval a state is issued for exactly its claims.
Issue(c, claims) ==
  /\ call[c].pc = "idle"
  /\ claims.binding \in Risky
  /\ NextId \in Ids
  /\ tokens' = tokens \cup {[id |-> NextId, epoch |-> epoch,
       claims |-> claims, issued |-> now, expires |-> now + StateTTL]}
  /\ issued' = Pruned(now) \cup {NextId}
  /\ UNCHANGED <<now, epoch, approved, consumed, nonces, call, done>>

\* The user behind the client approves what a state describes.
Approve(t) ==
  /\ t \in tokens
  /\ approved' = approved \cup {<<t.id, t.claims>>}
  /\ UNCHANGED <<now, epoch, tokens, issued, consumed, nonces, call, done>>

\* Mutant of Respond: the state is opened without comparing its claims.
RespondUnbound(c, t, claims) ==
  /\ call[c].pc = "idle"
  /\ t \in tokens /\ \E a \in approved : a[1] = t.id
  /\ now < t.expires
  /\ call' = [call EXCEPT ![c] =
       [NoCall EXCEPT !.pc = "confirming", !.claims = claims,
                      !.id = t.id, !.at = now]]
  /\ UNCHANGED <<now, epoch, tokens, approved, issued, consumed, nonces, done>>

\* A call with an accepting answer and a state (confirmCall).  It ends here
\* unless the state was sealed for the same claims and is still valid;
\* declining and cancelling answers end the call in any case.
Respond(c, t, claims) ==
  /\ call[c].pc = "idle"
  /\ t \in tokens /\ \E a \in approved : a[1] = t.id
  /\ claims = t.claims
  /\ now < t.expires
  /\ call' = [call EXCEPT ![c] =
       [NoCall EXCEPT !.pc = "confirming", !.claims = claims,
                      !.id = t.id, !.at = now]]
  /\ UNCHANGED <<now, epoch, tokens, approved, issued, consumed, nonces, done>>

Mint(c, claims) == [call EXCEPT ![c].pc = "confirmed", ![c].at = now,
                                ![c].expires = now + ProofTTL]

\* Mutant of Confirm: it remembers what it consumed, and forgets to look.
ConfirmAgain(c) ==
  LET id == call[c].id IN
  /\ call[c].pc = "confirming"
  /\ issued' = Pruned(call[c].at)
  /\ call' = IF id \in consumed \cup Pruned(call[c].at)
             THEN Mint(c, call[c].claims) ELSE [call EXCEPT ![c] = NoCall]
  /\ consumed' = consumed \cup {id}
  /\ UNCHANGED <<now, epoch, tokens, approved, nonces, done>>

\* Under the mutex, with the time read before it: a state that this issuer
\* issued and has not consumed is consumed, and a proof minted for the call.
Confirm(c) ==
  LET id == call[c].id
      valid == id \notin consumed /\ id \in Pruned(call[c].at) IN
  /\ call[c].pc = "confirming"
  /\ issued' = IF valid THEN Pruned(call[c].at) \ {id} ELSE Pruned(call[c].at)
  /\ consumed' = IF valid THEN consumed \cup {id} ELSE consumed
  /\ call' = IF valid THEN Mint(c, call[c].claims)
                      ELSE [call EXCEPT ![c] = NoCall]
  /\ UNCHANGED <<now, epoch, tokens, approved, nonces, done>>

--------------------------------------------------------------------------
(* The prompt, for commands *)

\* cliConfirmationIssuer.Issue on a terminal shows what is asked for.
Prompt(c, claims) ==
  /\ call[c].pc = "idle"
  /\ claims.binding \in Risky
  /\ NextId \in Ids
  /\ tokens' = tokens \cup {[id |-> NextId, epoch |-> epoch,
       claims |-> claims, issued |-> now, expires |-> now]}
  /\ call' = [call EXCEPT ![c] =
       [NoCall EXCEPT !.pc = "prompted", !.claims = claims, !.id = NextId]]
  /\ UNCHANGED <<now, epoch, approved, issued, consumed, nonces, done>>

\* The command's context ends while the prompt is shown.
Interrupt(c) ==
  /\ call[c].pc = "prompted"
  /\ call' = [call EXCEPT ![c].ended = TRUE]
  /\ UNCHANGED <<now, epoch, tokens, approved, issued, consumed, nonces, done>>

\* Confirm joins the form and then looks at the context: an answer counts only
\* when the command still runs.
Answer(c) ==
  /\ call[c].pc = "prompted"
  /\ \/ /\ ~call[c].ended
        /\ approved' = approved \cup {<<call[c].id, call[c].claims>>}
        /\ call' = Mint(c, call[c].claims)
     \/ /\ call' = [call EXCEPT ![c] = NoCall]
        /\ UNCHANGED approved
  /\ UNCHANGED <<now, epoch, tokens, issued, consumed, nonces, done>>

--------------------------------------------------------------------------
(* The proof, at the send boundary *)

\* VerifyAndConsume checks the proof against the operation about to be sent
\* and against the clock ...
Verify(c) ==
  /\ call[c].pc = "confirmed"
  /\ call' = IF now < call[c].expires THEN [call EXCEPT ![c].pc = "checked"]
                                      ELSE [call EXCEPT ![c] = NoCall]
  /\ UNCHANGED <<now, epoch, tokens, approved, issued, consumed, nonces, done>>

\* ... and its nonce is consumed under the store's mutex, which first forgets
\* the nonces that have expired by then.
Consume(c) ==
  LET kept == {n \in nonces : now < n[2]} IN
  /\ call[c].pc = "checked"
  /\ IF \E n \in kept : n[1] = call[c].id
     THEN nonces' = kept /\ done' = done
     ELSE /\ nonces' = kept \cup {<<call[c].id, call[c].expires>>}
          /\ done' = done \cup {[call |-> c, id |-> call[c].id,
                                 claims |-> call[c].claims, epoch |-> epoch]}
  /\ call' = [call EXCEPT ![c] = NoCall]
  /\ UNCHANGED <<now, epoch, tokens, approved, issued, consumed>>

\* The call ends before its operation is sent, for any other reason.
GiveUp(c) ==
  /\ call[c].pc \in {"confirming", "confirmed"}
  /\ call' = [call EXCEPT ![c] = NoCall]
  /\ UNCHANGED <<now, epoch, tokens, approved, issued, consumed, nonces, done>>

--------------------------------------------------------------------------

Tick ==
  /\ now < MaxTime
  /\ now' = now + 1
  /\ UNCHANGED <<epoch, tokens, approved, issued, consumed, nonces, call, done>>

\* A new runtime: calls in flight are gone, the maps are empty, the key that
\* seals states is the same (runtime.secret).
Restart ==
  /\ epoch < MaxEpoch
  /\ epoch' = epoch + 1
  /\ call' = [c \in ToolCalls |-> NoCall]
  /\ issued' = {} /\ consumed' = {} /\ nonces' = {}
  /\ UNCHANGED <<now, tokens, approved, done>>

Next ==
  \/ \E c \in ToolCalls, claims \in Claims : Issue(c, claims) \/ Prompt(c, claims)
  \/ \E t \in tokens : Approve(t)
  \/ \E c \in ToolCalls, t \in tokens, claims \in Claims : Respond(c, t, claims)
  \/ \E c \in ToolCalls : \/ Confirm(c) \/ Interrupt(c) \/ Answer(c)
                      \/ Verify(c) \/ Consume(c) \/ GiveUp(c)
  \/ Tick \/ Restart

Spec == Init /\ [][Next]_vars

--------------------------------------------------------------------------
(* Properties *)

\* An operation that needs an approval is sent only for an approval a person
\* gave to exactly its principal, device, generation, action, arguments and
\* policy revision (confirmation.go:202, mcpserver/confirmation.go:147), and
\* that was asked for by this process (mcpserver/confirmation.go:162).
SentAsApproved ==
  \A d \in done : /\ <<d.id, d.claims>> \in approved
                  /\ d.epoch = TokenOf(d.id).epoch

\* An approval serves one operation, however often the client repeats the call
\* and however late the repetition is (confirmation.go:1, "single-use proofs").
ApprovalServesOnce == \A d, e \in done : d.id = e.id => d = e

\* At most one call at a time holds a proof for an approval: the second of two
\* calls that present one state at once gets none (mcpserver/confirmation.go:155).
OneProofPerApproval ==
  \A c, d \in ToolCalls : c # d /\ call[c].id = call[d].id /\ call[c].id # 0 =>
    ~(call[c].pc \in {"confirmed", "checked"}
        /\ call[d].pc \in {"confirmed", "checked"})
=============================================================================
