--------------------------- MODULE CommandProofs ----------------------------
(***************************************************************************)
(* Proofs about the parts of a command that MCCommands puts side by side.  *)
(* Each part is an instance of its own module: what is proved of the part  *)
(* for its own specification carries over to CommandsSpec, because a       *)
(* behaviour of the union moves one part and leaves the variables of the   *)
(* others alone.                                                           *)
(***************************************************************************)
EXTENDS MCCommands, Sequences, FiniteSetTheorems, TLAPS

(***************************************************************************)
(* Confirmation                                                            *)
(***************************************************************************)

\* The ids of the states and prompts so far are 1, 2, ..., so NextId is new.
Shown == {t.id : t \in tokens}
Numbered == \E k \in Nat : Shown = 1..k

\* What is waited for was issued by this process; what was approved, and what
\* was sent for it, was shown as it stands.
Traceable ==
  /\ issued \subseteq Shown
  /\ \A t \in tokens : t.id \in issued => t.epoch = epoch
  /\ \A x \in approved : \E t \in tokens : x = <<t.id, t.claims>>
  /\ \A d \in done : \E t \in tokens :
       t.id = d.id /\ t.epoch = d.epoch /\ <<d.id, d.claims>> \in approved

\* Calls that have the only use of an approval, or of a prompt being shown.
Holders == {"prompted", "confirmed", "checked"}

\* A call presents a state for its own claims that a person approved, unless
\* its prompt is still shown; a holder's was issued by this process.
Backed(c) ==
  call[c].pc # "idle" => \E t \in tokens :
    /\ t.id = call[c].id /\ t.claims = call[c].claims
    /\ call[c].pc # "prompted" => <<t.id, t.claims>> \in approved
    /\ call[c].pc \in Holders => t.epoch = epoch

\* The use of an approval is with the issuer, with one call, or gone.
UsedByOne(c) ==
  call[c].pc \in Holders =>
    /\ call[c].id \notin issued
    /\ \A b \in Users : call[b].pc \in Holders /\ call[b].id = call[c].id => b = c
    /\ \A d \in done : d.id # call[c].id
UsedOnce ==
  \A d \in done : /\ d.id \notin issued
                  /\ \A e \in done : d.id = e.id => d = e

ApprovalInv ==
  /\ A!TypeOK
  /\ Numbered
  /\ Traceable
  /\ \A c \in Users : Backed(c) /\ UsedByOne(c)
  /\ UsedOnce

------------------------------------------------------------------------------

LEMMA Bounds ==
  /\ {StateTTL, ProofTTL, MaxTime, MaxTokens, MaxEpoch} \subseteq Nat
  /\ A!Claims # {}
  <1>1. /\ {StateTTL, ProofTTL, MaxTime, MaxTokens, MaxEpoch} \subseteq Nat
        /\ Principals # {} /\ Bindings # {}
    BY CommandsAssumption
       DEF CommandsAssumption, A!BoundsAssumption, A!ClaimsAssumption
  <1>2. PICK p \in Principals, b \in Bindings : TRUE
    BY <1>1
  <1>3. [principal |-> p, binding |-> b] \in A!Claims
    BY <1>2 DEF A!Claims
  <1> QED
    BY <1>1, <1>3

\* The next id has not been shown, and is counted on from those that have.
LEMMA NextIsNew ==
  ASSUME Numbered
  PROVE  /\ A!NextId \notin Shown
         /\ \E k \in Nat : Shown \cup {A!NextId} = 1..k
  <1>1. PICK k \in Nat : Shown = 1..k
    BY DEF Numbered
  <1>2. Cardinality(1..k) = k
    BY FS_Interval
  <1>3. A!NextId = k + 1
    <2>1. A!NextId = Cardinality(Shown) + 1
      BY DEF A!NextId, A!Cardinality, Cardinality, Shown
    <2> QED
      BY <1>1, <1>2, <2>1
  <1>4. Shown \cup {A!NextId} = 1..(k + 1)
    BY <1>1, <1>3
  <1> QED
    BY <1>1, <1>3, <1>4

LEMMA NoCallType == A!NoCall \in A!Call
  <1>1. (CHOOSE c \in A!Claims : TRUE) \in A!Claims
    BY Bounds
  <1>2. 0 \in 0..MaxTokens /\ 0 \in A!Times /\ 0 \in 0 .. MaxTime + ProofTTL
    BY Bounds DEF A!Times
  <1> QED
    BY <1>1, <1>2 DEF A!NoCall, A!Call, A!PCs

\* A step of the approvals.
LEMMA ApprovalNexts ==
  ASSUME A!Next
  PROVE  \/ \E c \in Users, claims \in A!Claims :
              A!Issue(c, claims) \/ A!Prompt(c, claims)
         \/ \E t \in tokens : A!Approve(t)
         \/ \E c \in Users, t \in tokens, claims \in A!Claims :
              A!Respond(c, t, claims)
         \/ \E c \in Users : \/ A!Confirm(c) \/ A!Interrupt(c) \/ A!Answer(c)
                             \/ A!Verify(c) \/ A!Consume(c) \/ A!GiveUp(c)
         \/ A!Tick \/ A!Restart
  BY DEF A!Next

\* The state a call presents has an id and claims of the right kind.
LEMMA BackedType ==
  ASSUME A!TypeOK, NEW c \in Users, Backed(c), call[c].pc # "idle"
  PROVE  call[c].id \in A!Ids /\ call[c].claims \in A!Claims
  BY DEF A!TypeOK, Backed, A!Token

\* Showing a state or a prompt.
LEMMA ShownTyped ==
  ASSUME A!TypeOK, Numbered, A!NextId \in A!Ids, NEW s \in A!Token,
         s.id = A!NextId, tokens' = tokens \cup {s}
  PROVE  /\ tokens' \subseteq A!Token
         /\ \A x, y \in tokens' : x.id = y.id => x = y
  BY NextIsNew DEF A!TypeOK, Shown

\* Every value stays in its set.
LEMMA ApprovalTyped ==
  ASSUME A!TypeOK, Numbered, \A c \in Users : Backed(c), A!Next
  PROVE  A!TypeOK'
  <1> USE DEF A!TypeOK
  <1>t. now \in A!Times /\ now \in Nat /\ MaxTime \in Nat /\ StateTTL \in Nat
          /\ ProofTTL \in Nat /\ MaxEpoch \in Nat /\ MaxTokens \in Nat
    BY Bounds DEF A!Times
  <1>0. A!NoCall \in A!Call
    BY NoCallType
  <1>m. ASSUME NEW c \in Users
        PROVE  A!Mint(c, call[c].claims) \in [Users -> A!Call]
    <2>1. now + ProofTTL \in 0 .. MaxTime + ProofTTL
      BY <1>t DEF A!Times
    <2> QED
      BY <1>t, <2>1, ZenonT(40) DEF A!Mint, A!Call, A!PCs
  <1>1. ASSUME NEW c \in Users, NEW claims \in A!Claims, A!Issue(c, claims)
        PROVE  A!TypeOK'
    <2> DEFINE s == [id |-> A!NextId, epoch |-> epoch, claims |-> claims,
                     issued |-> now, expires |-> now + StateTTL]
    <2>1. s \in A!Token /\ s.id = A!NextId /\ tokens' = tokens \cup {s}
      BY <1>1, <1>t DEF A!Issue, A!Token, A!Times, A!Ids
    <2>2. /\ tokens' \subseteq A!Token
          /\ \A x, y \in tokens' : x.id = y.id => x = y
      BY <1>1, <2>1, ShownTyped DEF A!Issue
    <2>3. issued' \subseteq A!Ids
      BY <1>1 DEF A!Issue, A!Pruned
    <2> QED
      BY <1>1, <2>2, <2>3 DEF A!Issue
  <1>2. ASSUME NEW c \in Users, NEW claims \in A!Claims, A!Prompt(c, claims)
        PROVE  A!TypeOK'
    <2> DEFINE s == [id |-> A!NextId, epoch |-> epoch, claims |-> claims,
                     issued |-> now, expires |-> now]
               k == [A!NoCall EXCEPT !.pc = "prompted", !.claims = claims,
                                     !.id = A!NextId]
    <2>1. s \in A!Token /\ s.id = A!NextId /\ tokens' = tokens \cup {s}
      BY <1>2, <1>t DEF A!Prompt, A!Token, A!Times, A!Ids
    <2>2. /\ tokens' \subseteq A!Token
          /\ \A x, y \in tokens' : x.id = y.id => x = y
      BY <1>2, <2>1, ShownTyped DEF A!Prompt
    <2>3. k \in A!Call
      <3>1. A!NextId \in 0..MaxTokens
        BY <1>2, <1>t DEF A!Prompt, A!Ids
      <3> HIDE DEF A!TypeOK
      <3> QED
        BY <1>0, <3>1 DEF A!Call, A!PCs
    <2>4. call' \in [Users -> A!Call]
      BY <1>2, <2>3 DEF A!Prompt
    <2> QED
      BY <1>2, <2>2, <2>4 DEF A!Prompt
  <1>3. ASSUME NEW t \in tokens, A!Approve(t)
        PROVE  A!TypeOK'
    BY <1>3 DEF A!Approve, A!Token
  <1>4. ASSUME NEW c \in Users, NEW t \in tokens, NEW claims \in A!Claims,
               A!Respond(c, t, claims)
        PROVE  A!TypeOK'
    <2>1. t.id \in 0..MaxTokens
      BY <1>t DEF A!Token, A!Ids
    <2> QED
      BY <1>0, <1>4, <1>t, <2>1 DEF A!Respond, A!Call, A!PCs
  <1>5. ASSUME NEW c \in Users, A!Confirm(c)
        PROVE  A!TypeOK'
    <2>1. call' \in [Users -> A!Call]
      BY <1>0, <1>5, <1>m DEF A!Confirm
    <2>2. call[c].id \in A!Ids
      BY <1>5, BackedType DEF A!Confirm
    <2>3. issued' \subseteq A!Ids /\ consumed' \subseteq A!Ids
      BY <1>5, <2>2 DEF A!Confirm, A!Pruned
    <2> QED
      BY <1>5, <2>1, <2>3 DEF A!Confirm
  <1>6. ASSUME NEW c \in Users, A!Interrupt(c)
        PROVE  A!TypeOK'
    BY <1>6 DEF A!Interrupt, A!Call
  <1>7. ASSUME NEW c \in Users, A!Answer(c)
        PROVE  A!TypeOK'
    <2>1. call' \in [Users -> A!Call]
      BY <1>0, <1>7, <1>m DEF A!Answer
    <2>2. approved' \subseteq A!Ids \X A!Claims
      BY <1>7, BackedType DEF A!Answer
    <2> QED
      BY <1>7, <2>1, <2>2 DEF A!Answer
  <1>8. ASSUME NEW c \in Users, A!Verify(c)
        PROVE  A!TypeOK'
    BY <1>0, <1>8 DEF A!Verify, A!Call, A!PCs
  <1>9. ASSUME NEW c \in Users, A!Consume(c)
        PROVE  A!TypeOK'
    <2>1. call' \in [Users -> A!Call]
      BY <1>0, <1>9 DEF A!Consume
    <2>2. /\ call[c].id \in A!Ids /\ call[c].claims \in A!Claims
          /\ call[c].expires \in 0 .. MaxTime + ProofTTL
      BY <1>9, BackedType DEF A!Consume, A!Call
    <2>3. nonces' \subseteq A!Ids \X (0 .. MaxTime + ProofTTL)
      BY <1>9, <2>2 DEF A!Consume
    <2>4. done' \subseteq [call: Users, id: A!Ids, claims: A!Claims,
                           epoch: 0 .. MaxEpoch]
      BY <1>9, <2>2 DEF A!Consume
    <2> QED
      BY <1>9, <2>1, <2>3, <2>4 DEF A!Consume
  <1>10. ASSUME NEW c \in Users, A!GiveUp(c)
         PROVE  A!TypeOK'
    BY <1>0, <1>10 DEF A!GiveUp
  <1>11. ASSUME A!Tick
         PROVE  A!TypeOK'
    BY <1>11, <1>t DEF A!Tick, A!Times
  <1>12. ASSUME A!Restart
         PROVE  A!TypeOK'
    BY <1>0, <1>12, <1>t DEF A!Restart
  <1> QED
    BY <1>1, <1>2, <1>3, <1>4, <1>5, <1>6, <1>7, <1>8, <1>9, <1>10, <1>11,
       <1>12, ApprovalNexts

\* A call that does not move stays backed while the records only grow.
LEMMA StaysBacked ==
  ASSUME NEW b \in Users, Backed(b), call'[b] = call[b],
         tokens \subseteq tokens', approved \subseteq approved', epoch' = epoch
  PROVE  Backed(b)'
  BY DEF Backed

\* The records are traceable, and each use is in one place, after a step in
\* which one call moves: it is backed, it became a holder only of a use that
\* nobody has, and the issuer gained no use.
LEMMA OneCallMoves ==
  ASSUME ApprovalInv, NEW c \in Users, NEW k \in A!Call,
         call' = [call EXCEPT ![c] = k],
         tokens' = tokens, epoch' = epoch, done' = done,
         issued' \subseteq issued,
         \A x \in approved' \ approved :
           \E t \in tokens : x = <<t.id, t.claims>>,
         approved \subseteq approved',
         Backed(c)',
         k.pc \in Holders =>
           /\ (call[c].pc \in Holders /\ call[c].id = k.id) \/ k.id \in issued
           /\ k.id \notin issued'
  PROVE  /\ Numbered' /\ Traceable' /\ UsedOnce'
         /\ \A b \in Users : Backed(b)' /\ UsedByOne(b)'
  <1>1. call'[c] = k /\ \A b \in Users \ {c} : call'[b] = call[b]
    BY DEF ApprovalInv, A!TypeOK
  <1>2. Numbered'
    BY DEF ApprovalInv, Numbered, Shown
  <1>3. Traceable'
    BY DEF ApprovalInv, Traceable, Shown
  <1>4. UsedOnce'
    BY DEF ApprovalInv, UsedOnce
  <1>5. ASSUME NEW b \in Users
        PROVE  Backed(b)'
    BY <1>1, StaysBacked DEF ApprovalInv
  <1>6. ASSUME NEW b \in Users
        PROVE  UsedByOne(b)'
    <2>1. /\ UsedByOne(b) /\ UsedByOne(c) /\ UsedOnce
          /\ \A a \in Users : UsedByOne(a)
      BY DEF ApprovalInv
    <2>2. CASE b = c
      <3>1. k.id \in issued => \A a \in Users :
              call[a].pc \in Holders => call[a].id # k.id
        BY <2>1 DEF UsedByOne
      <3>2. k.id \in issued => \A d \in done : d.id # k.id
        BY <2>1 DEF UsedOnce
      <3> QED
        BY <1>1, <2>1, <2>2, <3>1, <3>2 DEF UsedByOne
    <2>3. CASE b # c
      <3>1. call'[b] = call[b]
        BY <1>1, <2>3
      <3>2. call[b].pc \in Holders /\ k.pc \in Holders => k.id # call[b].id
        BY <2>1, <2>3 DEF UsedByOne
      <3> QED
        BY <1>1, <2>1, <2>3, <3>1, <3>2 DEF UsedByOne
    <2> QED
      BY <2>2, <2>3
  <1> QED
    BY <1>2, <1>3, <1>4, <1>5, <1>6

\* A state or a prompt is shown: its use is new.
LEMMA ShowsNew ==
  ASSUME ApprovalInv, NEW s, s.id = A!NextId, s.epoch = epoch,
         tokens' = tokens \cup {s}, issued' \subseteq issued \cup {s.id},
         approved' = approved, done' = done, epoch' = epoch
  PROVE  /\ Numbered' /\ Traceable' /\ UsedOnce'
         /\ s.id \notin issued
         /\ \A d \in done : d.id # s.id
         /\ \A b \in Users : call[b].pc \in Holders => call[b].id # s.id
         /\ \A b \in Users : call'[b] = call[b] => Backed(b)'
  <1>1. s.id \notin Shown /\ Shown' = Shown \cup {s.id}
    BY NextIsNew DEF ApprovalInv, Shown
  <1>2. Numbered'
    BY <1>1, NextIsNew DEF ApprovalInv, Numbered
  <1>3. issued \subseteq Shown /\ \A d \in done : d.id \in Shown
    BY DEF ApprovalInv, Traceable, Shown
  <1>4. \A t \in tokens : t.id # s.id
    BY <1>1 DEF Shown
  <1>5. Traceable'
    BY <1>1, <1>3, <1>4 DEF ApprovalInv, Traceable
  <1>6. UsedOnce'
    BY <1>1, <1>3 DEF ApprovalInv, UsedOnce
  <1>7. \A b \in Users : call[b].pc \in Holders => call[b].id # s.id
    BY <1>4 DEF ApprovalInv, Backed, Holders
  <1>8. ASSUME NEW b \in Users, call'[b] = call[b]
        PROVE  Backed(b)'
    BY <1>8, StaysBacked DEF ApprovalInv
  <1> QED
    BY <1>1, <1>2, <1>3, <1>5, <1>6, <1>7, <1>8

\* Every step keeps the approvals' invariant.
LEMMA ApprovalStep ==
  ASSUME ApprovalInv, A!Next
  PROVE  ApprovalInv'
  <1>t. A!TypeOK'
    BY ApprovalTyped DEF ApprovalInv
  <1>y. A!TypeOK /\ A!NoCall \in A!Call
    BY NoCallType DEF ApprovalInv
  <1> DEFINE Kept == /\ Numbered' /\ Traceable' /\ UsedOnce'
                     /\ \A b \in Users : Backed(b)' /\ UsedByOne(b)'
  <1>1. ASSUME NEW c \in Users, NEW claims \in A!Claims, A!Issue(c, claims)
        PROVE  Kept
    <2> DEFINE s == [id |-> A!NextId, epoch |-> epoch, claims |-> claims,
                     issued |-> now, expires |-> now + StateTTL]
    <2>1. /\ tokens' = tokens \cup {s}
          /\ issued' \subseteq issued \cup {s.id}
          /\ UNCHANGED <<approved, done, epoch, call>>
      BY <1>1 DEF A!Issue, A!Pruned
    <2>2. /\ Numbered' /\ Traceable' /\ UsedOnce'
          /\ \A b \in Users : call[b].pc \in Holders => call[b].id # s.id
          /\ \A b \in Users : Backed(b)'
      BY <2>1, ShowsNew
    <2>3. \A b \in Users : UsedByOne(b)'
      BY <2>1, <2>2 DEF ApprovalInv, UsedByOne
    <2> QED
      BY <2>2, <2>3
  <1>2. ASSUME NEW c \in Users, NEW claims \in A!Claims, A!Prompt(c, claims)
        PROVE  Kept
    <2> DEFINE s == [id |-> A!NextId, epoch |-> epoch, claims |-> claims,
                     issued |-> now, expires |-> now]
               k == [A!NoCall EXCEPT !.pc = "prompted", !.claims = claims,
                                     !.id = A!NextId]
    <2>1. /\ tokens' = tokens \cup {s}
          /\ UNCHANGED <<approved, issued, done, epoch>>
          /\ call' = [call EXCEPT ![c] = k]
      BY <1>2 DEF A!Prompt
    <2>2. /\ Numbered' /\ Traceable' /\ UsedOnce'
          /\ s.id \notin issued
          /\ \A d \in done : d.id # s.id
          /\ \A b \in Users : call[b].pc \in Holders => call[b].id # s.id
          /\ \A b \in Users : call'[b] = call[b] => Backed(b)'
      BY <2>1, ShowsNew
    <2>3. call'[c] = k /\ \A b \in Users \ {c} : call'[b] = call[b]
      BY <1>y, <2>1 DEF A!TypeOK
    <2>4. k.pc = "prompted" /\ k.id = s.id /\ k.claims = s.claims
      BY <1>y DEF A!Call
    <2>5. \A b \in Users : Backed(b)'
      <3>1. s \in tokens' /\ s.epoch = epoch' /\ k.pc \notin {"idle", "confirming"}
        BY <2>1, <2>4
      <3>2. Backed(c)'
        BY <2>3, <2>4, <3>1 DEF Backed
      <3> QED
        BY <2>2, <2>3, <3>2
    <2>6. \A b \in Users : UsedByOne(b)'
      BY <2>1, <2>2, <2>3, <2>4 DEF ApprovalInv, UsedByOne
    <2> QED
      BY <2>2, <2>5, <2>6
  <1>3. ASSUME NEW t \in tokens, A!Approve(t)
        PROVE  Kept
    <2>1. /\ approved' = approved \cup {<<t.id, t.claims>>}
          /\ UNCHANGED <<epoch, tokens, issued, call, done>>
      BY <1>3 DEF A!Approve
    <2>2. Traceable'
      BY <2>1 DEF ApprovalInv, Traceable, Shown
    <2>3. \A b \in Users : Backed(b)'
      BY <2>1, StaysBacked DEF ApprovalInv
    <2> QED
      BY <2>1, <2>2, <2>3 DEF ApprovalInv, Numbered, Shown, UsedByOne, UsedOnce
  <1>4. ASSUME NEW c \in Users, NEW t \in tokens, NEW claims \in A!Claims,
               A!Respond(c, t, claims)
        PROVE  Kept
    <2> DEFINE k == [A!NoCall EXCEPT !.pc = "confirming", !.claims = claims,
                                     !.id = t.id, !.at = now]
    <2>1. /\ call' = [call EXCEPT ![c] = k] /\ claims = t.claims
          /\ \E a \in approved : a[1] = t.id
          /\ UNCHANGED <<epoch, tokens, approved, issued, done>>
      BY <1>4 DEF A!Respond
    <2>2. /\ k \in A!Call /\ call'[c] = k
          /\ k.pc = "confirming" /\ k.id = t.id /\ k.claims = claims
      BY <1>t, <1>y, <2>1 DEF A!TypeOK, A!Call
    <2>3. <<t.id, t.claims>> \in approved
      BY <1>y, <2>1 DEF ApprovalInv, Traceable, A!TypeOK
    <2>4. Backed(c)'
      BY <2>1, <2>2, <2>3 DEF Backed, Holders
    <2> QED
      BY <2>1, <2>2, <2>4, OneCallMoves DEF Holders
  <1>5. ASSUME NEW c \in Users, A!Confirm(c)
        PROVE  Kept
    <2> DEFINE k == call'[c]
    <2>1. /\ call[c].pc = "confirming" /\ issued' \subseteq issued
          /\ UNCHANGED <<epoch, tokens, approved, done>>
      BY <1>5 DEF A!Confirm, A!Pruned
    <2>2. call' = [call EXCEPT ![c] = k]
      BY <1>y, <1>t, <1>5 DEF A!Confirm, A!Mint, A!TypeOK
    <2>3. k = A!NoCall
            \/ /\ k.pc = "confirmed" /\ k.id = call[c].id
               /\ k.claims = call[c].claims
               /\ k.id \in issued /\ k.id \notin issued'
      BY <1>y, <1>5 DEF A!Confirm, A!Mint, A!Pruned, A!TypeOK, A!Call
    <2>4. A!NoCall.pc = "idle"
      BY DEF A!NoCall
    <2>5. Backed(c)'
      BY <2>1, <2>3, <2>4 DEF ApprovalInv, Backed, Traceable, Holders
    <2>6. k \in A!Call
      BY <1>t DEF A!TypeOK
    <2> QED
      BY <2>1, <2>2, <2>3, <2>4, <2>5, <2>6, OneCallMoves DEF Holders
  <1>6. ASSUME NEW c \in Users,
               A!Interrupt(c) \/ A!Answer(c) \/ A!Verify(c) \/ A!GiveUp(c)
        PROVE  Kept
    <2> DEFINE k == call'[c]
    <2>1. /\ call[c].pc # "idle"
          /\ UNCHANGED <<epoch, tokens, issued, done>>
          /\ approved \subseteq approved'
          /\ approved' \subseteq approved \cup {<<call[c].id, call[c].claims>>}
      BY <1>6 DEF A!Interrupt, A!Answer, A!Verify, A!GiveUp
    <2>2. call' = [call EXCEPT ![c] = k]
      BY <1>y, <1>t, <1>6
         DEF A!Interrupt, A!Answer, A!Verify, A!GiveUp, A!Mint, A!TypeOK
    <2>3. k = A!NoCall
            \/ /\ k.id = call[c].id /\ k.claims = call[c].claims
               /\ k.pc \in Holders /\ call[c].pc \in Holders
               /\ k.pc # "prompted" => \/ call[c].pc # "prompted"
                                       \/ <<k.id, k.claims>> \in approved'
      BY <1>y, <1>6
         DEF A!Interrupt, A!Answer, A!Verify, A!GiveUp, A!Mint, A!TypeOK,
             A!Call, Holders
    <2>4. A!NoCall.pc = "idle"
      BY DEF A!NoCall
    <2>5. Backed(c) /\ UsedByOne(c)
      BY DEF ApprovalInv
    <2>6. Backed(c)'
      BY <2>1, <2>3, <2>4, <2>5 DEF Backed, Holders
    <2>7. /\ k \in A!Call
          /\ \A x \in approved' \ approved :
               \E t \in tokens : x = <<t.id, t.claims>>
          /\ k.pc \in Holders => k.id \notin issued'
      BY <1>t, <2>1, <2>3, <2>4, <2>5 DEF A!TypeOK, Backed, UsedByOne, Holders
    <2> QED
      BY <2>1, <2>2, <2>3, <2>4, <2>6, <2>7, OneCallMoves DEF Holders
  <1>7. ASSUME NEW c \in Users, A!Consume(c)
        PROVE  Kept
    <2> DEFINE d == [call |-> c, id |-> call[c].id, claims |-> call[c].claims,
                     epoch |-> epoch]
    <2>1. /\ call[c].pc = "checked" /\ done' \in {done, done \cup {d}}
          /\ call' = [call EXCEPT ![c] = A!NoCall]
          /\ UNCHANGED <<epoch, tokens, approved, issued>>
      BY <1>7 DEF A!Consume
    <2>2. /\ call'[c].pc = "idle"
          /\ \A b \in Users \ {c} : call'[b] = call[b]
      BY <1>y, <2>1 DEF A!TypeOK, A!NoCall
    <2>3. PICK t \in tokens : /\ t.id = d.id /\ t.claims = d.claims
                              /\ t.epoch = d.epoch
                              /\ <<d.id, d.claims>> \in approved
      BY <2>1 DEF ApprovalInv, Backed, Holders
    <2>4. /\ d.id \notin issued /\ \A e \in done : e.id # d.id
          /\ \A b \in Users \ {c} : call[b].pc \in Holders => call[b].id # d.id
      BY <2>1 DEF ApprovalInv, UsedByOne, Holders
    <2>5. Traceable'
      BY <2>1, <2>3 DEF ApprovalInv, Traceable, Shown
    <2>6. UsedOnce'
      BY <2>1, <2>4 DEF ApprovalInv, UsedOnce
    <2>7. \A b \in Users : Backed(b)'
      BY <2>1, <2>2, StaysBacked DEF ApprovalInv, Backed
    <2>8. \A b \in Users : UsedByOne(b)'
      BY <2>1, <2>2, <2>4 DEF ApprovalInv, UsedByOne, Holders
    <2> QED
      BY <2>1, <2>5, <2>6, <2>7, <2>8 DEF ApprovalInv, Numbered, Shown
  <1>8. ASSUME A!Tick
        PROVE  Kept
    BY <1>8 DEF A!Tick, ApprovalInv, Numbered, Shown, Traceable, UsedOnce,
                Backed, UsedByOne
  <1>9. ASSUME A!Restart
        PROVE  Kept
    <2>1. \A b \in Users : call'[b].pc = "idle"
      BY <1>9 DEF A!Restart, A!NoCall
    <2> QED
      BY <1>9, <2>1 DEF A!Restart, ApprovalInv, Numbered, Shown, Traceable,
                        UsedOnce, Backed, UsedByOne, Holders
  <1>10. Kept
    BY <1>1, <1>2, <1>3, <1>4, <1>5, <1>6, <1>7, <1>8, <1>9, ApprovalNexts
  <1> QED
    BY <1>t, <1>10 DEF ApprovalInv

LEMMA ApprovalInit ==
  ASSUME A!Init
  PROVE  ApprovalInv
  <1>1. A!NoCall \in A!Call /\ A!NoCall.pc = "idle"
    BY NoCallType DEF A!NoCall
  <1>2. now \in A!Times /\ epoch \in 0 .. MaxEpoch
    BY Bounds DEF A!Init, A!Times
  <1>3. A!TypeOK
    BY <1>1, <1>2 DEF A!Init, A!TypeOK
  <1>4. Shown = 1..0
    BY DEF A!Init, Shown
  <1>5. Numbered
    BY <1>4 DEF Numbered
  <1>6. \A c \in Users : Backed(c) /\ UsedByOne(c)
    BY <1>1 DEF A!Init, Backed, UsedByOne, Holders
  <1> QED
    BY <1>3, <1>5, <1>6 DEF ApprovalInv, A!Init, Traceable, UsedOnce

LEMMA ApprovalInvHolds == A!Spec => []ApprovalInv
  <1>1. ApprovalInv /\ [A!Next]_A!vars => ApprovalInv'
    <2>1. ASSUME ApprovalInv, UNCHANGED A!vars
          PROVE  ApprovalInv'
      BY <2>1 DEF ApprovalInv, A!TypeOK, Numbered, Shown, Traceable, Backed,
                  UsedByOne, UsedOnce, A!vars
    <2> QED
      BY <2>1, ApprovalStep
  <1> QED
    BY <1>1, ApprovalInit, PTL DEF A!Spec

LEMMA ApprovalsSound ==
  ASSUME ApprovalInv
  PROVE  A!SentAsApproved /\ A!ApprovalServesOnce /\ A!OneProofPerApproval
  <1>1. ASSUME NEW d \in done
        PROVE  <<d.id, d.claims>> \in approved /\ d.epoch = A!TokenOf(d.id).epoch
    <2>1. PICK t \in tokens : t.id = d.id /\ t.epoch = d.epoch
                                /\ <<d.id, d.claims>> \in approved
      BY DEF ApprovalInv, Traceable
    <2>2. A!TokenOf(d.id) \in tokens /\ A!TokenOf(d.id).id = d.id
      BY <2>1 DEF A!TokenOf
    <2>3. A!TokenOf(d.id) = t
      BY <2>1, <2>2 DEF ApprovalInv, A!TypeOK
    <2> QED
      BY <2>1, <2>3
  <1>2. A!ApprovalServesOnce
    BY DEF ApprovalInv, UsedOnce, A!ApprovalServesOnce
  <1>3. A!OneProofPerApproval
    BY DEF ApprovalInv, UsedByOne, Holders, A!OneProofPerApproval
  <1> QED
    BY <1>1, <1>2, <1>3 DEF A!SentAsApproved

\* Confirmation by itself: for every number of calls, of states shown and of
\* restarts, what is sent was approved, by this process, and once
\* (mcpserver/confirmation.go:147-168).
THEOREM ApprovalsServeOnce ==
  A!Spec => [](A!SentAsApproved /\ A!ApprovalServesOnce /\ A!OneProofPerApproval)
  BY ApprovalInvHolds, ApprovalsSound, PTL

------------------------------------------------------------------------------
(* From the parts to the union *)

\* The union is a behaviour of each part: the other parts' steps leave its
\* variables alone.
LEMMA HasApprovals == CommandsSpec => A!Spec
  <1>1. CommandsInit => A!Init
    BY DEF CommandsInit
  <1>2. [CommandsNext]_commandVars => [A!Next]_A!vars
    BY DEF CommandsNext, commandVars, approvalVars, A!vars
  <1> QED
    BY <1>1, <1>2, PTL DEF CommandsSpec, A!Spec

\* What needs an approval is sent for one that a person gave to exactly this
\* call, in this process, and once for each (mcpserver/confirmation.go:147-168,
\* confirmation.go:202).
THEOREM SentOnlyAsApproved == CommandsSpec => []SentAsApproved
  <1>1. ApprovalInv => SentAsApproved
    BY ApprovalsSound DEF ApprovalInv, SentAsApproved
  <1> QED
    BY <1>1, HasApprovals, ApprovalInvHolds, PTL

------------------------------------------------------------------------------
(***************************************************************************)
(* SelfUpdate                                                              *)
(***************************************************************************)

Outside == {"idle", "planned"}
Swapping == {"remove", "aside", "install", "moveback", "swapped"}

\* Where an invocation can be, in which phase; who is past its plan holds the
\* update lock.
InPhase(p) ==
  /\ lock = p <=> proc[p].pc \notin Outside
  /\ proc[p].pc \in {"planned", "locked"} =>
       proc[p].phase \in {"update", "rollback"}
  /\ proc[p].pc \in {"saving", "fetching", "commit"} => proc[p].phase = "update"
  /\ proc[p].pc = "cleanup" => proc[p].phase = "rollback"
  /\ proc[p].pc \in Swapping =>
       proc[p].slot = IF proc[p].phase \in {"update", "undo"}
                      THEN "previous" ELSE "failed"
  /\ proc[p].phase = "rollback" /\ proc[p].pc \in Swapping => previous # 0

\* What an update was planned for, and what of it is done: the plan still
\* agrees with the receipt, the rollback receipt names the version replaced,
\* and the binaries are where the transaction has brought them.
OnPlan(p) ==
  proc[p].phase = "update" =>
    /\ proc[p].target \in U!Versions
    /\ proc[p].target < proc[p].current => proc[p].down
    /\ proc[p].pc \in {"locked", "saving", "fetching", "remove", "aside"} =>
         file["exe"] = before
    /\ proc[p].pc \in Swapping \cup {"saving", "fetching", "commit"} =>
         receipt = proc[p].current
    /\ proc[p].pc \in Swapping \cup {"fetching", "commit"} =>
         previous = proc[p].current
    /\ proc[p].pc \in Swapping => proc[p].new \in {proc[p].target, U!Unfit}
    /\ proc[p].pc \in {"install", "moveback", "swapped", "commit"} =>
         file["previous"] = before
    /\ proc[p].pc = "swapped" => file["exe"] = proc[p].new
    /\ proc[p].pc = "commit" => file["exe"] = proc[p].target

Fit(binary) == binary \in U!Versions

\* What the holder of the lock can rely on while nothing is damaged: the
\* program runs, or a binary that runs is kept to put back.
Recoverable(p) ==
  /\ proc[p].pc \in {"locked", "saving", "fetching", "commit", "cleanup"} =>
       Fit(file["exe"])
  /\ proc[p].phase # "undo" => file["previous"] = U!Absent \/ Fit(file["previous"])
  /\ proc[p].phase = "update" =>
       /\ proc[p].pc \in {"remove", "aside"} => Fit(file["exe"])
       /\ proc[p].pc \in {"install", "moveback", "swapped"} =>
            Fit(file["previous"])
       /\ proc[p].pc = "aside" => file["previous"] = U!Absent
       /\ proc[p].pc = "unswapped" /\ file["previous"] = U!Absent =>
            Fit(file["exe"])
  /\ proc[p].phase \in {"restore", "rollback"} =>
       /\ proc[p].pc \in Swapping \ {"swapped"} => Fit(proc[p].new)
       /\ proc[p].pc = "swapped" => Fit(file["exe"])

Intact ==
  ~damaged =>
    /\ lock = U!NoProc =>
         /\ Fit(file["exe"])
         /\ file["previous"] = U!Absent \/ Fit(file["previous"])
    /\ \A p \in Users : lock = p => Recoverable(p)

UpdateInv ==
  /\ U!TypeOK
  /\ \A p \in Users : InPhase(p) /\ OnPlan(p)
  /\ Intact

------------------------------------------------------------------------------

\* The versions and the binaries, as sets.
LEMMA Numbers ==
  /\ U!Versions \subseteq U!Binaries /\ U!Versions \subseteq Nat
  /\ 0 \in U!Binaries /\ U!Unfit \in U!Binaries /\ U!Absent = 0
  /\ 0 \notin U!Versions /\ U!Unfit \notin U!Versions
  /\ 0 .. MaxVersion = U!Versions \cup {0}
  /\ Published \subseteq U!Versions
  /\ U!NoProc \notin Users
  /\ MaxCrashes \in Nat
  <1>1. /\ MaxVersion \in Nat /\ Published \subseteq U!Versions
        /\ U!NoProc \notin Users /\ MaxCrashes \in Nat
    BY CommandsAssumption
       DEF CommandsAssumption, U!MaxVersionAssumption, U!PublishedAssumption,
           U!ProcsAssumption, U!CrashesAssumption
  <1> QED
    BY <1>1 DEF U!Versions, U!Binaries, U!Unfit, U!Absent

LEMMA IdleType ==
  ASSUME NEW o \in U!Outcomes
  PROVE  [U!Idle EXCEPT !.outcome = o] \in U!Proc
  <1>1. 0 \in 0..MaxVersion /\ 0 \in U!Binaries
    BY Numbers
  <1> QED
    BY <1>1 DEF U!Idle, U!Proc, U!PCs, U!Phases, U!Outcomes, U!Slots

\* What is known of an invocation past its plan.
LEMMA Holding ==
  ASSUME UpdateInv, NEW p \in Users, proc[p].pc \notin Outside
  PROVE  /\ lock = p /\ lock # U!NoProc
         /\ proc[p] \in U!Proc
         /\ InPhase(p) /\ OnPlan(p)
         /\ ~damaged => Recoverable(p)
  BY Numbers DEF UpdateInv, InPhase, Intact, U!TypeOK

\* The step of an invocation that holds the lock.
LEMMA HolderMoves ==
  ASSUME UpdateInv, NEW p \in Users, proc[p].pc \notin Outside,
         NEW s \in U!Proc, proc' = [proc EXCEPT ![p] = s],
         file' \in [U!Slots -> U!Binaries], receipt' \in U!Versions,
         previous' \in 0 .. MaxVersion, before' = before,
         crashes' \in 0 .. MaxCrashes,
         lock' \in {p, U!NoProc}, damaged' \in BOOLEAN,
         InPhase(p)', OnPlan(p)',
         ~damaged' /\ lock' = p => Recoverable(p)',
         ~damaged' /\ lock' = U!NoProc =>
           /\ Fit(file'["exe"])
           /\ file'["previous"] = U!Absent \/ Fit(file'["previous"])
  PROVE  UpdateInv'
  <1>1. U!TypeOK'
    BY DEF UpdateInv, U!TypeOK
  <1>2. lock = p
    BY Holding
  <1>3. ASSUME NEW q \in Users, q # p
        PROVE  InPhase(q)' /\ OnPlan(q)'
    <2>1. proc'[q] = proc[q] /\ lock # q /\ lock' # q
      BY <1>2, <1>3, Numbers DEF UpdateInv, U!TypeOK
    <2>2. proc[q].pc \in Outside
      BY <2>1 DEF UpdateInv, InPhase
    <2>3. InPhase(q)'
      BY <2>1, <2>2 DEF UpdateInv, InPhase, Outside, Swapping
    <2>4. OnPlan(q)'
      BY <2>1, <2>2 DEF UpdateInv, OnPlan, Outside, Swapping
    <2> QED
      BY <2>3, <2>4
  <1>4. Intact'
    BY Numbers DEF Intact, Fit
  <1> QED
    BY <1>1, <1>3, <1>4 DEF UpdateInv

\* The end of one: what it leaves is what the next one finds.
LEMMA HolderReports ==
  ASSUME UpdateInv, NEW p \in Users, proc[p].pc \notin Outside,
         NEW o \in U!Outcomes, U!Report(p, o),
         file' \in [U!Slots -> U!Binaries], receipt' \in U!Versions,
         previous' \in 0 .. MaxVersion, before' = before, crashes' = crashes,
         ~damaged /\ o # "rollback_failed" =>
           /\ Fit(file'["exe"])
           /\ file'["previous"] = U!Absent \/ Fit(file'["previous"])
  PROVE  UpdateInv'
  <1> DEFINE s == [U!Idle EXCEPT !.outcome = o]
  <1>1. s \in U!Proc /\ s.pc = "idle" /\ s.phase = "none"
    BY IdleType DEF U!Idle
  <1>2. lock = p /\ lock' = U!NoProc /\ p # U!NoProc
    BY Holding, Numbers DEF U!Report
  <1>3. /\ proc' = [proc EXCEPT ![p] = s] /\ proc'[p] = s
        /\ damaged' = (damaged \/ o = "rollback_failed")
    BY DEF U!Report, UpdateInv, U!TypeOK
  <1>4. /\ crashes' \in 0 .. MaxCrashes
        /\ damaged' \in BOOLEAN
    BY <1>3 DEF UpdateInv, U!TypeOK
  <1>5. InPhase(p)' /\ OnPlan(p)'
    BY <1>1, <1>2, <1>3 DEF InPhase, OnPlan, Outside, Swapping
  <1>6. /\ ~damaged' /\ lock' = p => Recoverable(p)'
        /\ ~damaged' /\ lock' = U!NoProc =>
             /\ Fit(file'["exe"])
             /\ file'["previous"] = U!Absent \/ Fit(file'["previous"])
    BY <1>2, <1>3
  <1> QED
    BY <1>1, <1>2, <1>3, <1>4, <1>5, <1>6, HolderMoves

\* A step of an invocation that does not hold the lock moves only itself.
LEMMA OutsideMoves ==
  ASSUME UpdateInv, NEW p \in Users, proc[p].pc \in Outside,
         NEW s \in U!Proc, proc' = [proc EXCEPT ![p] = s], s.pc \in Outside,
         s.pc = "planned" => s.phase \in {"update", "rollback"},
         s.phase = "update" => /\ s.target \in U!Versions
                               /\ s.target < s.current => s.down,
         UNCHANGED <<file, receipt, previous, lock, damaged, before>>,
         crashes' \in 0 .. MaxCrashes
  PROVE  UpdateInv'
  <1>1. proc'[p] = s /\ \A q \in Users \ {p} : proc'[q] = proc[q]
    BY DEF UpdateInv, U!TypeOK
  <1>2. U!TypeOK'
    BY DEF UpdateInv, U!TypeOK
  <1>3. lock # p
    BY DEF UpdateInv, InPhase
  <1>4. InPhase(p)' /\ OnPlan(p)'
    BY <1>1, <1>3 DEF InPhase, OnPlan, Outside, Swapping
  <1>5. ASSUME NEW q \in Users, q # p
        PROVE  InPhase(q)' /\ OnPlan(q)'
    BY <1>1, <1>5 DEF UpdateInv, InPhase, OnPlan
  <1>6. Intact'
    BY <1>1, <1>3 DEF UpdateInv, Intact, Recoverable
  <1> QED
    BY <1>2, <1>4, <1>5, <1>6 DEF UpdateInv

\* Plans, and what ends before the lock is had.
LEMMA PlanStep ==
  ASSUME UpdateInv, NEW p \in Users,
         \/ \E r \in U!Requests : U!PlanUpdate(p, r)
         \/ U!PlanRollback(p) \/ U!LockFails(p)
         \/ U!Crash(p) /\ proc[p].pc = "planned"
  PROVE  UpdateInv'
  <1> DEFINE s == proc'[p]
  <1>0. /\ U!TypeOK /\ U!Idle \in U!Proc /\ U!Idle.phase = "none"
        /\ U!Idle.pc = "idle"
        /\ crashes \in 0 .. MaxCrashes
        /\ U!Idle = [U!Idle EXCEPT !.outcome = "none"]
    BY IdleType DEF UpdateInv, U!TypeOK, U!Idle, U!Outcomes
  <1>1. ASSUME NEW r \in U!Requests, U!PlanUpdate(p, r)
        PROVE  UpdateInv'
    <2>1. PICK v \in U!Releases(r) :
            /\ U!Downgradable(r, v, receipt)
            /\ proc' = [proc EXCEPT ![p] =
                 [U!Idle EXCEPT !.pc = "planned", !.phase = "update",
                                !.current = receipt, !.target = v,
                                !.down = r.allow]]
      BY <1>1 DEF U!PlanUpdate
    <2>2. v \in U!Versions /\ receipt \in 0..MaxVersion /\ v \in 0..MaxVersion
      BY <1>0, Numbers DEF U!Releases, U!Requests, U!TypeOK
    <2>3. r.allow \in BOOLEAN /\ (v < receipt => r.allow)
      BY <2>1 DEF U!Requests, U!Downgradable
    <2>4. /\ s = [U!Idle EXCEPT !.pc = "planned", !.phase = "update",
                  !.current = receipt, !.target = v, !.down = r.allow]
          /\ proc' = [proc EXCEPT ![p] = s]
      BY <1>0, <2>1 DEF U!TypeOK
    <2>5. /\ s \in U!Proc /\ s.pc = "planned" /\ s.phase = "update"
          /\ s.target = v /\ s.current = receipt /\ s.down = r.allow
      BY <1>0, <2>2, <2>3, <2>4 DEF U!Proc, U!PCs, U!Phases
    <2>6. /\ proc[p].pc \in Outside /\ s.pc \in Outside
          /\ UNCHANGED <<file, receipt, previous, lock, damaged, before>>
          /\ crashes' \in 0 .. MaxCrashes
      BY <1>0, <1>1, <2>5 DEF U!PlanUpdate, Outside
    <2>7. s.phase = "update" => s.target \in U!Versions
                                  /\ (s.target < s.current => s.down)
      BY <2>2, <2>3, <2>5
    <2> QED
      BY <2>4, <2>5, <2>6, <2>7, OutsideMoves
  <1>2. ASSUME U!PlanRollback(p)
        PROVE  UpdateInv'
    <2>1. /\ s = [U!Idle EXCEPT !.pc = "planned", !.phase = "rollback"]
          /\ proc' = [proc EXCEPT ![p] = s]
          /\ proc[p].pc \in Outside
          /\ UNCHANGED <<file, receipt, previous, lock, damaged, before>>
          /\ crashes' \in 0 .. MaxCrashes
      BY <1>0, <1>2 DEF U!PlanRollback, U!TypeOK, Outside
    <2>2. s \in U!Proc /\ s.pc = "planned" /\ s.phase = "rollback"
      BY <1>0, <2>1 DEF U!Proc, U!PCs, U!Phases
    <2> QED
      BY <2>1, <2>2, OutsideMoves DEF Outside
  <1>3. ASSUME U!LockFails(p)
        PROVE  UpdateInv'
    <2>1. lock # p /\ proc[p].pc \in Outside
      BY <1>3 DEF UpdateInv, InPhase, U!LockFails, Outside
    <2>2. /\ s = [U!Idle EXCEPT !.outcome = "refused"]
          /\ proc' = [proc EXCEPT ![p] = s]
          /\ UNCHANGED <<file, receipt, previous, lock, before>>
          /\ damaged' = damaged
          /\ crashes' \in 0 .. MaxCrashes
      BY <1>0, <1>3, <2>1 DEF U!LockFails, U!Report, U!TypeOK
    <2>3. s \in U!Proc /\ s.pc = "idle" /\ s.phase = "none"
      BY <1>0, <2>2, IdleType DEF U!Outcomes, U!Proc
    <2> QED
      BY <2>1, <2>2, <2>3, OutsideMoves DEF Outside
  <1>4. ASSUME U!Crash(p), proc[p].pc = "planned"
        PROVE  UpdateInv'
    <2>1. lock # p /\ proc[p].pc \in Outside
      BY <1>4 DEF UpdateInv, InPhase, Outside
    <2>2. /\ s = U!Idle /\ proc' = [proc EXCEPT ![p] = s]
          /\ UNCHANGED <<file, receipt, previous, lock, before>>
          /\ damaged' = damaged
      BY <1>0, <1>4, <2>1 DEF U!Crash, U!TypeOK
    <2>3. crashes' \in 0 .. MaxCrashes
      BY <1>0, <1>4, Numbers DEF U!Crash
    <2> QED
      BY <1>0, <2>1, <2>2, <2>3, OutsideMoves DEF Outside
  <1> QED
    BY <1>1, <1>2, <1>3, <1>4

\* Whoever takes the lock finds nobody at work.
LEMMA LockStep ==
  ASSUME UpdateInv, NEW p \in Users, U!Lock(p)
  PROVE  UpdateInv'
  <1> DEFINE s == [proc[p] EXCEPT !.pc = "locked"]
  <1>0. U!TypeOK /\ proc[p] \in U!Proc /\ p # U!NoProc
    BY Numbers DEF UpdateInv, U!TypeOK
  <1>1. /\ lock = U!NoProc /\ lock' = p /\ before' = file["exe"]
        /\ proc[p].pc = "planned"
        /\ proc' = [proc EXCEPT ![p] = s]
        /\ UNCHANGED <<file, receipt, previous, crashes, damaged>>
    BY DEF U!Lock
  <1>2. /\ s \in U!Proc /\ s.pc = "locked" /\ s.phase = proc[p].phase
        /\ s.target = proc[p].target /\ s.current = proc[p].current
        /\ s.down = proc[p].down
    BY <1>0 DEF U!Proc, U!PCs
  <1>3. proc'[p] = s /\ \A q \in Users \ {p} : proc'[q] = proc[q]
    BY <1>0, <1>1 DEF U!TypeOK
  <1>4. U!TypeOK'
    BY <1>0, <1>1, <1>2 DEF U!TypeOK, U!Slots
  <1>5. InPhase(p)' /\ OnPlan(p)'
    BY <1>0, <1>1, <1>2, <1>3, ZenonT(40)
       DEF UpdateInv, InPhase, OnPlan, Outside, Swapping
  <1>6. ASSUME NEW q \in Users, q # p
        PROVE  InPhase(q)' /\ OnPlan(q)'
    <2>1. lock # q /\ lock' # q /\ proc'[q] = proc[q] /\ InPhase(q) /\ OnPlan(q)
      BY <1>1, <1>3, <1>6, Numbers DEF UpdateInv
    <2>2. proc[q].pc \in Outside
      BY <2>1 DEF InPhase
    <2> QED
      BY <1>1, <2>1, <2>2 DEF InPhase, OnPlan, Outside, Swapping
  <1>7. Intact'
    <2>1. ~damaged => /\ Fit(file["exe"])
                      /\ file["previous"] = U!Absent \/ Fit(file["previous"])
      BY <1>1 DEF UpdateInv, Intact
    <2>2. proc[p].phase \in {"update", "rollback"}
      BY <1>1 DEF UpdateInv, InPhase
    <2>3. ~damaged => Recoverable(p)'
      BY <1>1, <1>2, <1>3, <2>1, <2>2 DEF Recoverable, Fit, Swapping
    <2> QED
      BY <1>0, <1>1, <2>3 DEF Intact
  <1> QED
    BY <1>4, <1>5, <1>6, <1>7 DEF UpdateInv

\* The transaction before anything is replaced.
LEMMA BeforeStep ==
  ASSUME UpdateInv, NEW p \in Users,
         \/ U!LoadCurrent(p) \/ U!SavePrevious(p) \/ U!SavePreviousFails(p)
         \/ U!FetchRelease(p)
         \/ U!DownloadFails(p) \/ U!VerifyFails(p) \/ U!ExtractFails(p)
  PROVE  UpdateInv'
  <1> DEFINE s == proc'[p]
  <1>0. /\ U!TypeOK /\ proc[p].pc \in {"locked", "saving", "fetching"}
        /\ proc[p].pc \notin Outside
        /\ file \in [U!Slots -> U!Binaries] /\ receipt \in U!Versions
        /\ previous \in 0 .. MaxVersion /\ crashes \in 0 .. MaxCrashes
        /\ damaged \in BOOLEAN
    BY DEF UpdateInv, U!TypeOK, Outside, U!LoadCurrent, U!At, U!SavePrevious,
           U!SavePreviousFails, U!FetchRelease, U!DownloadFails,
           U!VerifyFails, U!ExtractFails, U!Unfetched
  <1>1. /\ lock = p /\ lock # U!NoProc /\ proc[p] \in U!Proc
        /\ InPhase(p) /\ OnPlan(p)
        /\ ~damaged => Recoverable(p)
    BY <1>0, Holding
  <1>2. ~damaged => /\ Fit(file["exe"])
                    /\ file["previous"] = U!Absent \/ Fit(file["previous"])
    <2>1. proc[p].phase \in {"update", "rollback"}
      BY <1>0, <1>1 DEF InPhase
    <2> QED
      BY <1>0, <1>1, <2>1 DEF Recoverable
  <1>3. CASE proc'[p].pc = "idle"
    <2>1. U!Report(p, "refused")
      BY <1>0, <1>1, <1>3, ZenonT(40)
         DEF U!LoadCurrent, U!SavePrevious, U!SavePreviousFails,
             U!FetchRelease, U!DownloadFails, U!VerifyFails, U!ExtractFails,
             U!Unfetched, U!Swap, U!TypeOK, U!Proc
    <2>2. UNCHANGED <<file, receipt, previous, before, crashes>>
      BY <1>0, <1>1, <1>3
         DEF U!LoadCurrent, U!SavePrevious, U!SavePreviousFails,
             U!FetchRelease, U!DownloadFails, U!VerifyFails, U!ExtractFails,
             U!Unfetched, U!Swap, U!TypeOK, U!Proc
    <2> QED
      BY <1>0, <1>2, <2>1, <2>2, HolderReports DEF U!Outcomes
  <1>4. ASSUME U!LoadCurrent(p), receipt = proc[p].current
        PROVE  UpdateInv'
    <2>1. /\ proc[p].phase = "update" /\ proc[p].pc = "locked"
          /\ s = [proc[p] EXCEPT !.pc = "saving"]
          /\ proc' = [proc EXCEPT ![p] = s]
          /\ UNCHANGED <<file, receipt, previous, lock, crashes, damaged, before>>
      BY <1>0, <1>4 DEF U!LoadCurrent, U!At, U!TypeOK
    <2>2. /\ s \in U!Proc /\ s.pc = "saving" /\ s.phase = "update"
          /\ s.target = proc[p].target /\ s.current = proc[p].current
          /\ s.down = proc[p].down
      BY <1>1, <2>1 DEF U!Proc, U!PCs
    <2>3. InPhase(p)' /\ OnPlan(p)'
      BY <1>1, <1>4, <2>1, <2>2 DEF InPhase, OnPlan, Outside, Swapping
    <2>4. ~damaged' => Recoverable(p)'
      BY <1>2, <2>1, <2>2 DEF Recoverable, Fit, Swapping
    <2> QED
      BY <1>0, <1>1, <2>1, <2>2, <2>3, <2>4, HolderMoves
  <1>5. ASSUME U!SavePrevious(p)
        PROVE  UpdateInv'
    <2>1. /\ proc[p].phase = "update" /\ proc[p].pc = "saving"
          /\ s = [proc[p] EXCEPT !.pc = "fetching"]
          /\ proc' = [proc EXCEPT ![p] = s]
          /\ previous' = proc[p].current
          /\ UNCHANGED <<file, receipt, lock, crashes, damaged, before>>
      BY <1>0, <1>1, <1>5 DEF U!SavePrevious, InPhase, U!TypeOK
    <2>2. /\ s \in U!Proc /\ s.pc = "fetching" /\ s.phase = "update"
          /\ s.target = proc[p].target /\ s.current = proc[p].current
          /\ s.down = proc[p].down
          /\ previous' \in 0 .. MaxVersion
      BY <1>1, <2>1 DEF U!Proc, U!PCs
    <2>3. InPhase(p)' /\ OnPlan(p)'
      BY <1>1, <2>1, <2>2 DEF InPhase, OnPlan, Outside, Swapping
    <2>4. ~damaged' => Recoverable(p)'
      BY <1>2, <2>1, <2>2 DEF Recoverable, Fit, Swapping
    <2> QED
      BY <1>0, <1>1, <2>1, <2>2, <2>3, <2>4, HolderMoves
  <1>6. ASSUME U!FetchRelease(p)
        PROVE  UpdateInv'
    <2>1. PICK new \in {proc[p].target, U!Unfit} :
            U!Swap(p, "update", new, "previous")
      BY <1>6 DEF U!FetchRelease
    <2>2. /\ proc[p].phase = "update" /\ proc[p].pc = "fetching"
          /\ s = [proc[p] EXCEPT !.pc = "remove", !.phase = "update",
                                 !.new = new, !.slot = "previous"]
          /\ proc' = [proc EXCEPT ![p] = s]
          /\ UNCHANGED <<file, receipt, previous, lock, crashes, damaged, before>>
      BY <1>0, <1>1, <1>6, <2>1 DEF U!FetchRelease, U!Swap, InPhase, U!TypeOK
    <2>3. new \in U!Binaries
      BY <1>1, <2>2, Numbers DEF OnPlan
    <2>4. /\ s \in U!Proc /\ s.pc = "remove" /\ s.phase = "update"
          /\ s.target = proc[p].target /\ s.current = proc[p].current
          /\ s.down = proc[p].down /\ s.new = new /\ s.slot = "previous"
      BY <1>1, <2>2, <2>3 DEF U!Proc, U!PCs, U!Phases, U!Slots
    <2>5. InPhase(p)' /\ OnPlan(p)'
      BY <1>1, <2>2, <2>4 DEF InPhase, OnPlan, Outside, Swapping
    <2>6. ~damaged' => Recoverable(p)'
      BY <1>2, <2>2, <2>4 DEF Recoverable, Fit, Swapping
    <2> QED
      BY <1>0, <1>1, <2>2, <2>4, <2>5, <2>6, HolderMoves
  <1>7. ASSUME NEW verdict \in U!Outcomes, U!Unfetched(p, verdict)
        PROVE  UpdateInv'
    <2>1. /\ proc[p].phase = "update" /\ proc[p].pc = "fetching"
          /\ s = [proc[p] EXCEPT !.pc = "unswapped", !.outcome = verdict]
          /\ proc' = [proc EXCEPT ![p] = s]
          /\ UNCHANGED <<file, receipt, previous, lock, crashes, damaged, before>>
      BY <1>0, <1>1, <1>7 DEF U!Unfetched, InPhase, U!TypeOK
    <2>2. /\ s \in U!Proc /\ s.pc = "unswapped" /\ s.phase = "update"
          /\ s.target = proc[p].target /\ s.current = proc[p].current
          /\ s.down = proc[p].down
      BY <1>1, <2>1 DEF U!Proc, U!PCs
    <2>3. InPhase(p)' /\ OnPlan(p)'
      BY <1>1, <2>1, <2>2 DEF InPhase, OnPlan, Outside, Swapping
    <2>4. ~damaged' => Recoverable(p)'
      BY <1>2, <2>1, <2>2 DEF Recoverable, Fit, Swapping
    <2> QED
      BY <1>0, <1>1, <2>1, <2>2, <2>3, <2>4, HolderMoves
  <1>8. U!LoadCurrent(p) => receipt = proc[p].current \/ proc'[p].pc = "idle"
    BY <1>0 DEF U!LoadCurrent, U!Report, U!TypeOK, U!Idle
  <1>9. U!SavePreviousFails(p) => proc'[p].pc = "idle"
    BY <1>0 DEF U!SavePreviousFails, U!Report, U!TypeOK, U!Idle
  <1> QED
    BY <1>3, <1>4, <1>5, <1>6, <1>7, <1>8, <1>9
       DEF U!DownloadFails, U!VerifyFails, U!ExtractFails, U!Outcomes

\* A replacement, from the removal of an older binary to the end.
LEMMA SwapStep ==
  ASSUME UpdateInv, NEW p \in Users, U!SwapStep(p)
  PROVE  UpdateInv'
  <1> DEFINE s == proc'[p]
             MovedTo(place) == /\ proc'[p].pc = place /\ proc'[p].phase = proc[p].phase
                            /\ proc'[p].target = proc[p].target
                            /\ proc'[p].current = proc[p].current
                            /\ proc'[p].down = proc[p].down
                            /\ proc'[p].new = proc[p].new
  <1>0. /\ U!TypeOK /\ proc[p].pc \in {"remove", "aside", "install", "moveback"}
        /\ proc[p].pc \notin Outside /\ proc[p].pc \in Swapping
        /\ file \in [U!Slots -> U!Binaries] /\ receipt \in U!Versions
        /\ previous \in 0 .. MaxVersion /\ crashes \in 0 .. MaxCrashes
        /\ damaged \in BOOLEAN
        /\ UNCHANGED <<receipt, previous, lock, crashes, damaged, before>>
    BY DEF UpdateInv, U!TypeOK, Outside, Swapping, U!SwapStep, U!RemoveOld,
           U!MoveAside, U!Install, U!MoveBack
  <1>1. /\ lock = p /\ lock # U!NoProc /\ proc[p] \in U!Proc
        /\ InPhase(p) /\ OnPlan(p)
        /\ ~damaged => Recoverable(p)
    BY <1>0, Holding
  <1>2. /\ proc[p].slot = IF proc[p].phase \in {"update", "undo"}
                          THEN "previous" ELSE "failed"
        /\ proc[p].slot \in U!Slots /\ proc[p].slot # "exe"
        /\ "exe" \in U!Slots /\ "previous" \in U!Slots
        /\ U!Absent \in U!Binaries /\ proc[p].new \in U!Binaries
    BY <1>0, <1>1, Numbers DEF InPhase, U!Slots, U!Proc
  <1>3. ASSUME NEW place \in {"aside", "install", "moveback", "swapped", "unswapped"},
               proc' = [proc EXCEPT ![p].pc = place],
               file' \in [U!Slots -> U!Binaries],
               OnPlan(p)',
               ~damaged => Recoverable(p)'
        PROVE  UpdateInv'
    <2>1. s = [proc[p] EXCEPT !.pc = place] /\ proc' = [proc EXCEPT ![p] = s]
      BY <1>0, <1>3 DEF U!TypeOK
    <2>2. s \in U!Proc /\ s.pc = place /\ s.phase = proc[p].phase
          /\ s.slot = proc[p].slot
      BY <1>1, <2>1 DEF U!Proc, U!PCs
    <2>3. InPhase(p)'
      BY <1>0, <1>1, <2>2 DEF InPhase, Outside, Swapping
    <2> QED
      BY <1>0, <1>1, <1>3, <2>1, <2>2, <2>3, HolderMoves
  \* the invocation keeps all but its place
  <1>4. ASSUME NEW place, proc' = [proc EXCEPT ![p].pc = place]
        PROVE  MovedTo(place)
    BY <1>0, <1>1, <1>4 DEF U!TypeOK, U!Proc
  <1>5. ASSUME U!RemoveOld(p)
        PROVE  UpdateInv'
    <2>1. /\ proc[p].pc = "remove" /\ proc' = [proc EXCEPT ![p].pc = "aside"]
          /\ file' = [file EXCEPT ![proc[p].slot] = U!Absent]
      BY <1>5 DEF U!RemoveOld
    <2>2. /\ file' \in [U!Slots -> U!Binaries]
          /\ file'["exe"] = file["exe"]
          /\ proc[p].phase = "update" => file'["previous"] = U!Absent
          /\ file'["previous"] \in {file["previous"], U!Absent}
      BY <1>0, <1>2, <2>1
    <2>m. MovedTo("aside")
      BY <1>4, <2>1
    <2>3. OnPlan(p)'
      BY <1>0, <1>1, <2>m, <2>1, <2>2 DEF OnPlan, Swapping
    <2>4. ~damaged => Recoverable(p)'
      BY <1>0, <1>1, <2>m, <2>1, <2>2 DEF Recoverable, Fit, Swapping
    <2> QED
      BY <1>3, <2>1, <2>2, <2>3, <2>4
  <1>6. ASSUME U!MoveAside(p), file["exe"] # U!Absent,
               file' = [file EXCEPT ![proc[p].slot] = file["exe"],
                                    !["exe"] = U!Absent],
               proc' = [proc EXCEPT ![p].pc = "install"]
        PROVE  UpdateInv'
    <2>1. proc[p].pc = "aside"
      BY <1>6 DEF U!MoveAside
    <2>2. file' \in [U!Slots -> U!Binaries]
          /\ file'["previous"] = IF proc[p].slot = "previous" THEN file["exe"]
                                 ELSE file["previous"]
      BY <1>0, <1>2, <1>6
    <2>m. MovedTo("install")
      BY <1>4, <1>6
    <2>3. OnPlan(p)'
      BY <1>0, <1>1, <1>2, <2>m, <1>6, <2>1, <2>2 DEF OnPlan, Swapping
    <2>4. ~damaged => Recoverable(p)'
      BY <1>0, <1>1, <1>2, <2>m, <1>6, <2>1, <2>2 DEF Recoverable, Fit, Swapping
    <2> QED
      BY <1>3, <1>6, <2>2, <2>3, <2>4
  <1>7. ASSUME U!MoveAside(p), file' = file,
               proc' = [proc EXCEPT ![p].pc = "unswapped"]
        PROVE  UpdateInv'
    <2>1. proc[p].pc = "aside"
      BY <1>7 DEF U!MoveAside
    <2>m. MovedTo("unswapped")
      BY <1>4, <1>7
    <2>3. OnPlan(p)'
      BY <1>0, <1>1, <2>m, <1>7, <2>1 DEF OnPlan, Swapping
    <2>4. ~damaged => Recoverable(p)'
      BY <1>0, <1>1, <2>m, <1>7, <2>1 DEF Recoverable, Fit, Swapping
    <2> QED
      BY <1>0, <1>3, <1>7, <2>3, <2>4
  <1>8. ASSUME U!Install(p)
        PROVE  UpdateInv'
    <2>1. /\ proc[p].pc = "install"
          /\ \/ /\ file' = [file EXCEPT !["exe"] = proc[p].new]
                /\ proc' = [proc EXCEPT ![p].pc = "swapped"]
             \/ /\ file' = file
                /\ proc' = [proc EXCEPT ![p].pc = "moveback"]
      BY <1>8 DEF U!Install
    <2>2. /\ file' \in [U!Slots -> U!Binaries]
          /\ file'["previous"] = file["previous"]
          /\ proc'[p].pc = "swapped" => file'["exe"] = proc[p].new
          /\ proc'[p].pc \in {"swapped", "moveback"}
      BY <1>0, <1>2, <1>4, <2>1
    <2>m. MovedTo("swapped") \/ MovedTo("moveback")
      BY <1>4, <2>1
    <2>3. OnPlan(p)'
      BY <1>0, <1>1, <2>m, <2>1, <2>2 DEF OnPlan, Swapping
    <2>4. ~damaged => Recoverable(p)'
      BY <1>0, <1>1, <2>m, <2>1, <2>2 DEF Recoverable, Fit, Swapping
    <2> QED
      BY <1>3, <2>1, <2>2, <2>3, <2>4
  <1>9. ASSUME U!MoveBack(p)
        PROVE  UpdateInv'
    <2>1. /\ proc[p].pc = "moveback" /\ proc' = [proc EXCEPT ![p].pc = "unswapped"]
          /\ \/ file' = [file EXCEPT !["exe"] = file[proc[p].slot],
                                     ![proc[p].slot] = U!Absent]
             \/ file' = file
      BY <1>9 DEF U!MoveBack, U!Unswapped
    <2>2. /\ file' \in [U!Slots -> U!Binaries]
          /\ file'["previous"] \in {file["previous"], U!Absent}
          /\ proc[p].phase = "update" => \/ file'["previous"] = file["previous"]
                                         \/ file'["exe"] = file["previous"]
      BY <1>0, <1>2, <2>1
    <2>m. MovedTo("unswapped")
      BY <1>4, <2>1
    <2>3. OnPlan(p)'
      BY <1>0, <1>1, <2>m, <2>1, <2>2 DEF OnPlan, Swapping
    <2>4. ~damaged => Recoverable(p)'
      BY <1>0, <1>1, <2>m, <2>1, <2>2, Numbers DEF Recoverable, Fit, Swapping
    <2> QED
      BY <1>3, <2>1, <2>2, <2>3, <2>4
  <1> QED
    BY <1>5, <1>6, <1>7, <1>8, <1>9 DEF U!SwapStep, U!MoveAside, U!Unswapped

\* The holder puts one of the kept binaries in place, or cannot.
LEMMA Replaces ==
  ASSUME UpdateInv, NEW p \in Users, proc[p].pc \notin Outside,
         NEW phase \in {"restore", "rollback", "undo"}, NEW source \in U!Slots,
         NEW slot, slot = (IF phase = "undo" THEN "previous" ELSE "failed"),
         U!Replace(p, phase, source, slot),
         UNCHANGED <<file, receipt, previous, lock, crashes, damaged, before>>,
         phase = "rollback" => previous # 0,
         phase # "undo" => /\ source = "previous"
                           /\ proc[p].phase # "undo"
  PROVE  UpdateInv'
  <1> DEFINE s == proc'[p]
  <1>0. /\ U!TypeOK
        /\ file \in [U!Slots -> U!Binaries] /\ receipt \in U!Versions
        /\ previous \in 0 .. MaxVersion /\ crashes \in 0 .. MaxCrashes
        /\ damaged \in BOOLEAN
    BY DEF UpdateInv, U!TypeOK
  <1>1. /\ lock = p /\ lock # U!NoProc /\ proc[p] \in U!Proc
        /\ ~damaged => Recoverable(p)
    BY Holding
  <1>2. ~damaged /\ phase # "undo" =>
          file["previous"] = U!Absent \/ Fit(file["previous"])
    BY <1>1 DEF Recoverable
  <1>3. /\ proc' = [proc EXCEPT ![p] = s] /\ s \in U!Proc /\ s.phase = phase
        /\ \/ /\ file[source] # U!Absent
              /\ s.pc = "remove" /\ s.new = file[source] /\ s.slot = slot
           \/ s.pc = "unswapped"
    <2>1. CASE file[source] # U!Absent /\ U!Swap(p, phase, file[source], slot)
      <3>1. /\ s = [proc[p] EXCEPT !.pc = "remove", !.phase = phase,
                                   !.new = file[source], !.slot = slot]
            /\ proc' = [proc EXCEPT ![p] = s]
        BY <1>0, <2>1 DEF U!Swap, U!TypeOK
      <3>2. file[source] \in U!Binaries /\ slot \in U!Slots
        BY <1>0 DEF U!Slots
      <3> QED
        BY <1>1, <2>1, <3>1, <3>2 DEF U!Proc, U!PCs, U!Phases
    <2>2. CASE proc' = [proc EXCEPT ![p] = [@ EXCEPT !.pc = "unswapped",
                                                     !.phase = phase]]
      <3>1. /\ s = [proc[p] EXCEPT !.pc = "unswapped", !.phase = phase]
            /\ proc' = [proc EXCEPT ![p] = s]
        BY <1>0, <2>2 DEF U!TypeOK
      <3> QED
        BY <1>1, <3>1 DEF U!Proc, U!PCs, U!Phases
    <2> QED
      BY <2>1, <2>2 DEF U!Replace
  <1>4. InPhase(p)' /\ OnPlan(p)'
    BY <1>1, <1>3 DEF InPhase, OnPlan, Outside, Swapping
  <1>5. ~damaged' => Recoverable(p)'
    BY <1>2, <1>3 DEF Recoverable, Fit, Swapping
  <1> QED
    BY <1>0, <1>1, <1>3, <1>4, <1>5, HolderMoves

\* The new binary is checked, put in force, or undone.
LEMMA AfterStep ==
  ASSUME UpdateInv, NEW p \in Users,
         U!SelfCheck(p) \/ U!Recover(p) \/ U!Commit(p) \/ U!Restored(p)
  PROVE  UpdateInv'
  <1> DEFINE s == proc'[p]
  <1>0. /\ U!TypeOK /\ proc[p].pc \in {"swapped", "unswapped", "commit"}
        /\ proc[p].pc \notin Outside
        /\ file \in [U!Slots -> U!Binaries] /\ receipt \in U!Versions
        /\ previous \in 0 .. MaxVersion /\ crashes \in 0 .. MaxCrashes
        /\ damaged \in BOOLEAN
        /\ {"exe", "previous", "failed"} = U!Slots
        /\ 0 \in 0 .. MaxVersion /\ U!Absent \in U!Binaries
    BY Numbers DEF UpdateInv, U!TypeOK, Outside, U!SelfCheck, U!Recover,
                   U!Commit, U!Restored, U!At, U!Slots
  <1>1. /\ lock = p /\ lock # U!NoProc /\ proc[p] \in U!Proc
        /\ InPhase(p) /\ OnPlan(p)
        /\ ~damaged => Recoverable(p)
    BY <1>0, Holding
  <1>2. ASSUME U!SelfCheck(p)
        PROVE  UpdateInv'
    <2>1. /\ proc[p].phase = "update" /\ proc[p].pc = "swapped"
          /\ s = [proc[p] EXCEPT !.pc = s.pc]
          /\ proc' = [proc EXCEPT ![p] = s]
          /\ \/ s.pc = "commit" /\ proc[p].new # U!Unfit
             \/ s.pc = "unswapped"
          /\ UNCHANGED <<file, receipt, previous, lock, crashes, damaged, before>>
      BY <1>0, <1>1, <1>2
         DEF U!SelfCheck, U!At, U!Unswapped, U!TypeOK, U!Proc
    <2>2. /\ s \in U!Proc /\ s.phase = "update"
          /\ s.target = proc[p].target /\ s.current = proc[p].current
          /\ s.down = proc[p].down
      BY <1>1, <2>1 DEF U!Proc, U!PCs
    <2>3. InPhase(p)' /\ OnPlan(p)'
      BY <1>1, <2>1, <2>2 DEF InPhase, OnPlan, Outside, Swapping
    <2>4. ~damaged' => Recoverable(p)'
      BY <1>1, <2>1, <2>2, Numbers DEF Recoverable, OnPlan, Fit, Swapping
    <2> QED
      BY <1>0, <1>1, <2>1, <2>2, <2>3, <2>4, HolderMoves
  <1>3. ASSUME U!Recover(p), file["previous"] # U!Absent
        PROVE  UpdateInv'
    <2>1. /\ proc[p].phase = "update"
          /\ U!Replace(p, "restore", "previous", "failed")
          /\ UNCHANGED <<file, receipt, previous, lock, crashes, damaged, before>>
      BY <1>3 DEF U!Recover, U!At
    <2> QED
      BY <1>0, <2>1, Replaces
  <1>4. ASSUME U!Recover(p), file["previous"] = U!Absent
        PROVE  UpdateInv'
    <2>1. PICK o \in {"untrusted", "apply_failed"} : U!Report(p, o)
      BY <1>4 DEF U!Recover
    <2>2. /\ proc[p].phase = "update" /\ proc[p].pc = "unswapped"
          /\ previous' \in 0 .. MaxVersion
          /\ UNCHANGED <<file, receipt, crashes, before>>
      BY <1>0, <1>4 DEF U!Recover, U!At
    <2>3. ~damaged => Fit(file["exe"])
      BY <1>1, <1>4, <2>2 DEF Recoverable
    <2> QED
      BY <1>0, <1>4, <2>1, <2>2, <2>3, HolderReports DEF U!Outcomes
  <1>5. ASSUME U!Commit(p), receipt' = proc[p].target, U!Applied(p)
        PROVE  UpdateInv'
    <2>1. /\ proc[p].phase = "update" /\ proc[p].pc = "commit"
          /\ UNCHANGED <<file, previous, crashes, before>>
      BY <1>1, <1>5 DEF U!Commit, InPhase
    <2>2. /\ receipt' \in U!Versions
          /\ ~damaged => /\ Fit(file["exe"])
                         /\ file["previous"] = U!Absent \/ Fit(file["previous"])
      BY <1>1, <1>5, <2>1 DEF OnPlan, Recoverable
    <2>3. U!Report(p, "applied")
      BY <1>5 DEF U!Applied
    <2> QED
      BY <1>0, <2>1, <2>2, <2>3, HolderReports DEF U!Outcomes
  <1>6. ASSUME U!Commit(p), U!Replace(p, "restore", "previous", "failed"),
               UNCHANGED <<receipt, lock, damaged>>
        PROVE  UpdateInv'
    <2>1. proc[p].phase = "update"
      BY <1>1, <1>6 DEF U!Commit, InPhase
    <2>2. UNCHANGED <<file, previous, crashes, before>>
      BY <1>6 DEF U!Commit
    <2> QED
      BY <1>0, <1>6, <2>1, <2>2, Replaces
  <1>7. ASSUME U!Restored(p)
        PROVE  UpdateInv'
    <2>1. PICK o \in {"untrusted", "apply_failed"} : U!Report(p, o)
      BY <1>7 DEF U!Restored
    <2>2. /\ proc[p].phase = "restore" /\ proc[p].pc = "swapped"
          /\ U!CleanUp
          /\ UNCHANGED <<receipt, crashes, before>>
      BY <1>7 DEF U!Restored, U!At
    <2>3. /\ previous' \in 0 .. MaxVersion
          /\ file' \in [U!Slots -> U!Binaries]
          /\ file'["exe"] = file["exe"]
          /\ file'["previous"] \in {file["previous"], U!Absent}
      BY <1>0, <2>2 DEF U!CleanUp
    <2>4. ~damaged => /\ Fit(file'["exe"])
                      /\ file'["previous"] = U!Absent \/ Fit(file'["previous"])
      BY <1>1, <2>2, <2>3 DEF Recoverable
    <2> QED
      BY <1>0, <2>1, <2>2, <2>3, <2>4, HolderReports DEF U!Outcomes
  <1> QED
    BY <1>2, <1>3, <1>4, <1>5, <1>6, <1>7 DEF U!Commit

\* A rollback, the failures it shares with a restoration, and the death of an
\* invocation under the lock.
LEMMA BackStep ==
  ASSUME UpdateInv, NEW p \in Users,
         \/ U!StartRollback(p) \/ U!CommitRollback(p) \/ U!RolledBack(p)
         \/ U!RollbackFails(p)
         \/ U!Crash(p) /\ proc[p].pc # "planned"
  PROVE  UpdateInv'
  <1> DEFINE s == proc'[p]
  <1>0. /\ U!TypeOK
        /\ proc[p].pc \notin Outside
        /\ file \in [U!Slots -> U!Binaries] /\ receipt \in U!Versions
        /\ previous \in 0 .. MaxVersion /\ crashes \in 0 .. MaxCrashes
        /\ damaged \in BOOLEAN
        /\ {"exe", "previous", "failed"} = U!Slots
        /\ 0 \in 0 .. MaxVersion /\ U!Absent \in U!Binaries
    BY Numbers DEF UpdateInv, U!TypeOK, Outside, U!StartRollback, U!RolledBack,
                   U!CommitRollback, U!RollbackFails, U!Crash, U!At, U!Slots
  <1>1. /\ lock = p /\ lock # U!NoProc /\ proc[p] \in U!Proc
        /\ InPhase(p) /\ OnPlan(p)
        /\ ~damaged => Recoverable(p)
    BY <1>0, Holding
  <1>2. ASSUME U!StartRollback(p), previous = 0
        PROVE  UpdateInv'
    <2>1. /\ proc[p].pc = "locked" /\ proc[p].phase = "rollback"
          /\ U!Report(p, "refused")
          /\ UNCHANGED <<file, receipt, previous, crashes, before>>
      BY <1>2 DEF U!StartRollback, U!At
    <2>2. ~damaged => /\ Fit(file["exe"])
                      /\ file["previous"] = U!Absent \/ Fit(file["previous"])
      BY <1>1, <2>1 DEF Recoverable
    <2> QED
      BY <1>0, <2>1, <2>2, HolderReports DEF U!Outcomes
  <1>3. ASSUME U!StartRollback(p), previous # 0
        PROVE  UpdateInv'
    <2>1. /\ proc[p].phase = "rollback"
          /\ U!Replace(p, "rollback", "previous", "failed")
          /\ UNCHANGED <<file, receipt, previous, lock, crashes, damaged, before>>
      BY <1>3 DEF U!StartRollback, U!At
    <2> QED
      BY <1>0, <1>3, <2>1, Replaces
  <1>4. ASSUME U!CommitRollback(p), receipt' = previous,
               proc' = [proc EXCEPT ![p].pc = "cleanup"]
        PROVE  UpdateInv'
    <2>1. /\ proc[p].pc = "swapped" /\ proc[p].phase = "rollback"
          /\ s = [proc[p] EXCEPT !.pc = "cleanup"]
          /\ proc' = [proc EXCEPT ![p] = s]
          /\ UNCHANGED <<file, previous, lock, crashes, damaged, before>>
      BY <1>0, <1>4 DEF U!CommitRollback, U!At, U!TypeOK
    <2>2. s \in U!Proc /\ s.pc = "cleanup" /\ s.phase = "rollback"
      BY <1>1, <2>1 DEF U!Proc, U!PCs
    <2>3. receipt' \in U!Versions
      BY <1>0, <1>1, <1>4, <2>1, Numbers DEF InPhase, Swapping
    <2>4. InPhase(p)' /\ OnPlan(p)'
      BY <1>1, <2>1, <2>2 DEF InPhase, OnPlan, Outside, Swapping
    <2>5. ~damaged' => Recoverable(p)'
      BY <1>1, <2>1, <2>2 DEF Recoverable, Fit, Swapping
    <2> QED
      BY <1>0, <1>1, <2>1, <2>2, <2>3, <2>4, <2>5, HolderMoves
  <1>5. ASSUME U!CommitRollback(p), U!Replace(p, "undo", "failed", "previous"),
               UNCHANGED receipt
        PROVE  UpdateInv'
    <2>1. UNCHANGED <<file, previous, lock, crashes, damaged, before>>
      BY <1>5 DEF U!CommitRollback
    <2> QED
      BY <1>0, <1>5, <2>1, Replaces
  <1>6. ASSUME U!RolledBack(p)
        PROVE  UpdateInv'
    <2>1. /\ proc[p].pc = "cleanup" /\ U!CleanUp /\ U!Report(p, "rolled_back")
          /\ proc[p].phase = "rollback"
          /\ UNCHANGED <<receipt, crashes, before>>
      BY <1>1, <1>6 DEF U!RolledBack, InPhase
    <2>2. /\ previous' \in 0 .. MaxVersion
          /\ file' \in [U!Slots -> U!Binaries]
          /\ file'["exe"] = file["exe"]
          /\ file'["previous"] \in {file["previous"], U!Absent}
      BY <1>0, <2>1 DEF U!CleanUp
    <2>3. ~damaged => /\ Fit(file'["exe"])
                      /\ file'["previous"] = U!Absent \/ Fit(file'["previous"])
      BY <1>1, <2>1, <2>2 DEF Recoverable
    <2> QED
      BY <1>0, <2>1, <2>2, <2>3, HolderReports DEF U!Outcomes
  <1>7. ASSUME U!RollbackFails(p)
        PROVE  UpdateInv'
    <2>1. /\ U!Report(p, "rollback_failed")
          /\ UNCHANGED <<file, receipt, previous, crashes, before>>
      BY <1>7 DEF U!RollbackFails
    <2> QED
      BY <1>0, <2>1, HolderReports DEF U!Outcomes
  <1>8. ASSUME U!Crash(p), proc[p].pc # "planned"
        PROVE  UpdateInv'
    <2>1. /\ proc' = [proc EXCEPT ![p] = U!Idle] /\ lock' = U!NoProc
          /\ damaged' = TRUE /\ crashes < MaxCrashes /\ crashes' = crashes + 1
          /\ UNCHANGED <<file, receipt, previous, before>>
      BY <1>1, <1>8 DEF U!Crash
    <2>2. /\ U!Idle \in U!Proc /\ proc'[p] = U!Idle
          /\ U!Idle.pc = "idle" /\ U!Idle.phase = "none"
      <3>1. U!Idle = [U!Idle EXCEPT !.outcome = "none"] /\ "none" \in U!Outcomes
        BY DEF U!Idle, U!Outcomes
      <3> QED
        BY <1>0, <2>1, <3>1, IdleType DEF U!TypeOK, U!Idle
    <2>3. crashes' \in 0 .. MaxCrashes
      BY <1>0, <2>1, Numbers
    <2>4. InPhase(p)' /\ OnPlan(p)'
      BY <1>1, <2>1, <2>2 DEF InPhase, OnPlan, Outside, Swapping
    <2> QED
      BY <1>0, <1>1, <2>1, <2>2, <2>3, <2>4, HolderMoves
  <1> QED
    BY <1>2, <1>3, <1>4, <1>5, <1>6, <1>7, <1>8 DEF U!CommitRollback

LEMMA UpdateKeeps ==
  ASSUME UpdateInv, [U!Next]_U!vars
  PROVE  UpdateInv'
  <1>1. CASE UNCHANGED U!vars
    BY <1>1 DEF UpdateInv, U!TypeOK, InPhase, OnPlan, Intact, Recoverable, U!vars
  <1>2. ASSUME NEW p \in Users, U!Crash(p)
        PROVE  UpdateInv'
    BY <1>2, PlanStep, BackStep
  <1> QED
    BY <1>1, <1>2, PlanStep, LockStep, BeforeStep, SwapStep, AfterStep, BackStep
       DEF U!Next, U!UpdateStep, U!RollbackStep

LEMMA UpdateInit ==
  ASSUME U!Init
  PROVE  UpdateInv
  <1>1. /\ U!Idle \in U!Proc /\ U!Idle.pc = "idle" /\ U!Idle.phase = "none"
    <2>1. U!Idle = [U!Idle EXCEPT !.outcome = "none"] /\ "none" \in U!Outcomes
      BY DEF U!Idle, U!Outcomes
    <2> QED
      BY <2>1, IdleType DEF U!Idle
  <1>2. /\ receipt \in U!Versions /\ 0 \in 0 .. MaxVersion
        /\ 0 \in 0 .. MaxCrashes
    BY Numbers DEF U!Init
  <1>3. /\ file \in [U!Slots -> U!Binaries]
        /\ file["exe"] = receipt /\ file["previous"] = U!Absent
    BY <1>2, Numbers DEF U!Init, U!Slots
  <1>4. U!TypeOK
    BY <1>1, <1>2, <1>3, Numbers DEF U!Init, U!TypeOK
  <1>5. \A p \in Users : InPhase(p) /\ OnPlan(p)
    BY <1>1, Numbers DEF U!Init, InPhase, OnPlan, Outside, Swapping
  <1>6. Intact
    BY <1>2, <1>3, Numbers DEF U!Init, Intact, Fit
  <1> QED
    BY <1>4, <1>5, <1>6 DEF UpdateInv

LEMMA UpdateInvHolds == U!Spec => []UpdateInv
  <1>1. UpdateInv /\ [U!Next]_U!vars => UpdateInv'
    BY UpdateKeeps
  <1> QED
    BY <1>1, UpdateInit, PTL DEF U!Spec

\* Nobody between its plan and its report, and nothing damaged: the lock is
\* free, or its holder has changed nothing yet.
LEMMA SoundWhenQuiet ==
  ASSUME UpdateInv
  PROVE  U!BrokenIsReported
  <1>1. ASSUME \A p \in Users : proc[p].pc \in {"idle", "planned", "locked"},
               ~damaged
        PROVE  Fit(file["exe"])
    <2>1. lock \in Users \cup {U!NoProc}
      BY DEF UpdateInv, U!TypeOK
    <2>2. CASE lock = U!NoProc
      BY <1>1, <2>2 DEF UpdateInv, Intact
    <2>3. CASE lock \in Users
      BY <1>1, <2>3 DEF UpdateInv, Intact, InPhase, Recoverable, Outside
    <2> QED
      BY <2>1, <2>2, <2>3
  <1> QED
    BY <1>1 DEF U!BrokenIsReported, Fit

\* Only the step that saves the receipt reports an update as applied.
LEMMA AppliedByCommit ==
  ASSUME UpdateInv, U!Next, NEW p \in Users, U!Says(p, "applied")
  PROVE  /\ proc[p].pc = "commit" /\ receipt' = proc[p].target
         /\ UNCHANGED <<file, previous>>
  <1>0. U!TypeOK
    BY DEF UpdateInv
  <1>1. /\ proc[p].pc # "idle" /\ proc'[p].pc = "idle"
        /\ proc'[p].outcome = "applied"
    BY DEF U!Says
  <1>2. PICK q \in Users : \/ U!Lock(q) \/ U!LockFails(q) \/ U!UpdateStep(q)
                           \/ U!SwapStep(q) \/ U!RollbackStep(q) \/ U!Crash(q)
    BY DEF U!Next
  <1>3. q = p
    <2>1. ASSUME q # p
          PROVE  proc'[p] = proc[p]
      BY <1>0, <1>2, <2>1
         DEF U!TypeOK, U!Lock, U!LockFails, U!Crash, U!Report,
             U!UpdateStep, U!PlanUpdate, U!LoadCurrent, U!SavePrevious,
             U!SavePreviousFails, U!FetchRelease, U!SelfCheck,
             U!DownloadFails, U!VerifyFails, U!ExtractFails, U!Recover,
             U!Commit, U!Restored, U!Unfetched, U!Swap, U!Unswapped,
             U!Replace, U!Applied, U!SwapStep, U!RemoveOld, U!MoveAside,
             U!Install, U!MoveBack, U!RollbackStep, U!PlanRollback,
             U!StartRollback, U!CommitRollback, U!RolledBack, U!RollbackFails
    <2> QED
      BY <1>1, <2>1
  <1>4. ASSUME NEW o, U!Report(p, o)
        PROVE  o = "applied"
    BY <1>0, <1>1, <1>4 DEF U!Report, U!TypeOK, U!Idle
  <1>5. /\ ~U!Lock(p) /\ ~U!SwapStep(p)
        /\ \A phase, new, slot : ~U!Swap(p, phase, new, slot)
        /\ \A phase, source, slot : ~U!Replace(p, phase, source, slot)
    <2>1. ASSUME NEW phase, NEW new, NEW slot, U!Swap(p, phase, new, slot)
          PROVE  FALSE
      BY <1>0, <1>1, <2>1 DEF U!TypeOK, U!Proc, U!Swap
    <2>2. ASSUME NEW phase, NEW source, NEW slot, U!Replace(p, phase, source, slot)
          PROVE  FALSE
      BY <1>0, <1>1, <2>1, <2>2 DEF U!TypeOK, U!Proc, U!Replace
    <2>3. ~U!Lock(p) /\ ~U!SwapStep(p)
      BY <1>0, <1>1
         DEF U!TypeOK, U!Proc, U!Lock, U!SwapStep, U!RemoveOld, U!MoveAside,
             U!Install, U!MoveBack, U!Unswapped
    <2> QED
      BY <2>1, <2>2, <2>3
  <1>6. ~U!Crash(p) /\ ~U!LockFails(p)
    BY <1>0, <1>1, <1>4 DEF U!TypeOK, U!Crash, U!LockFails, U!Idle
  <1>7. ~U!RollbackStep(p)
    <2>1. ~U!StartRollback(p) /\ ~U!RolledBack(p) /\ ~U!RollbackFails(p)
      BY <1>4, <1>5 DEF U!StartRollback, U!RolledBack, U!RollbackFails
    <2>2. ~U!PlanRollback(p) /\ ~U!CommitRollback(p)
      BY <1>0, <1>1, <1>5
         DEF U!PlanRollback, U!CommitRollback, U!TypeOK, U!Proc, U!Idle
    <2> QED
      BY <2>1, <2>2 DEF U!RollbackStep
  <1>8. U!UpdateStep(p) => U!Commit(p) /\ U!Applied(p)
    <2>1. ~\E r \in U!Requests : U!PlanUpdate(p, r)
      BY <1>0, <1>1 DEF U!PlanUpdate, U!TypeOK, U!Proc, U!Idle
    <2>2. /\ ~U!LoadCurrent(p) /\ ~U!SavePrevious(p) /\ ~U!SavePreviousFails(p)
          /\ ~U!FetchRelease(p) /\ ~U!SelfCheck(p)
      BY <1>0, <1>1, <1>4, <1>5
         DEF U!LoadCurrent, U!SavePrevious, U!SavePreviousFails,
             U!FetchRelease, U!SelfCheck, U!Unswapped, U!TypeOK, U!Proc
    <2>3. ~U!DownloadFails(p) /\ ~U!VerifyFails(p) /\ ~U!ExtractFails(p)
      BY <1>0, <1>1
         DEF U!DownloadFails, U!VerifyFails, U!ExtractFails, U!Unfetched,
             U!TypeOK, U!Proc
    <2>4. ~U!Recover(p) /\ ~U!Restored(p)
      BY <1>4, <1>5 DEF U!Recover, U!Restored
    <2>5. U!Commit(p) => U!Applied(p)
      BY <1>5 DEF U!Commit
    <2> QED
      BY <2>1, <2>2, <2>3, <2>4, <2>5 DEF U!UpdateStep
  <1>9. U!Commit(p) /\ U!Applied(p)
    BY <1>2, <1>3, <1>5, <1>6, <1>7, <1>8
  <1> QED
    BY <1>5, <1>9 DEF U!Commit

\* The receipt changes only under the lock, to the target of an update or to
\* the version before it.
LEMMA ReceiptChanges ==
  ASSUME UpdateInv, U!Next, receipt' < receipt
  PROVE  \E p \in Users : /\ lock = p
                          /\ proc[p].phase = "update" => proc[p].down
  <1>0. U!TypeOK
    BY DEF UpdateInv
  <1>1. receipt' # receipt
    BY <1>0, Numbers DEF U!TypeOK
  <1>2. PICK p \in Users : U!Commit(p) \/ U!CommitRollback(p)
    <2>1. PICK q \in Users :
             \/ U!Lock(q) \/ U!LockFails(q) \/ U!UpdateStep(q)
             \/ U!SwapStep(q) \/ U!RollbackStep(q) \/ U!Crash(q)
      BY DEF U!Next
    <2>2. ~U!Lock(q) /\ ~U!LockFails(q) /\ ~U!SwapStep(q) /\ ~U!Crash(q)
      BY <1>1 DEF U!Lock, U!LockFails, U!Crash, U!SwapStep, U!RemoveOld,
                  U!MoveAside, U!Install, U!MoveBack
    <2>3. U!UpdateStep(q) => U!Commit(q)
      BY <1>1 DEF U!UpdateStep, U!PlanUpdate, U!LoadCurrent, U!SavePrevious,
                  U!SavePreviousFails, U!FetchRelease, U!SelfCheck,
                  U!DownloadFails, U!VerifyFails, U!ExtractFails,
                  U!Unfetched, U!Recover, U!Restored
    <2>4. U!RollbackStep(q) => U!CommitRollback(q)
      BY <1>1 DEF U!RollbackStep, U!PlanRollback, U!StartRollback,
                  U!RolledBack, U!RollbackFails
    <2> QED
      BY <2>1, <2>2, <2>3, <2>4
  <1>3. proc[p].pc \notin Outside
    BY <1>2 DEF U!Commit, U!CommitRollback, U!At, Outside
  <1>4. lock = p /\ InPhase(p) /\ OnPlan(p)
    BY <1>3, Holding
  <1>5. CASE U!Commit(p)
    <2>1. receipt' = proc[p].target /\ proc[p].pc = "commit"
      BY <1>1, <1>5 DEF U!Commit
    <2>2. receipt = proc[p].current /\ proc[p].phase = "update"
      BY <1>4, <2>1 DEF InPhase, OnPlan
    <2> QED
      BY <1>4, <2>1, <2>2 DEF OnPlan
  <1>6. CASE U!CommitRollback(p)
    BY <1>4, <1>6 DEF U!CommitRollback, U!At
  <1> QED
    BY <1>2, <1>5, <1>6

\* What an applied update leaves is what its plan said.
LEMMA AppliedAsPlanned ==
  ASSUME UpdateInv, U!Next, NEW p \in Users, U!Says(p, "applied")
  PROVE  /\ file'["exe"] = proc[p].target /\ receipt' = proc[p].target
         /\ file'["previous"] = before /\ previous' = proc[p].current
  <1>1. /\ proc[p].pc = "commit" /\ receipt' = proc[p].target
        /\ UNCHANGED <<file, previous>>
    BY AppliedByCommit
  <1>2. InPhase(p) /\ OnPlan(p)
    BY DEF UpdateInv
  <1> QED
    BY <1>1, <1>2 DEF InPhase, OnPlan, Swapping

\* SelfUpdate by itself: for any number of invocations, of versions and of
\* deaths, the program can be started between replacements, or it was said
\* that it may not (service.go:177 and 203).
THEOREM UpdatesReportBreakage == U!Spec => []U!BrokenIsReported
  BY UpdateInvHolds, SoundWhenQuiet, PTL

\* SelfUpdate by itself: what is reported as applied is in place, with its
\* predecessor, and no version goes down unasked (service.go:108 and 206).
THEOREM UpdatesTrue == U!Spec => U!AppliedIsTrue /\ U!NoUnaskedDowngrade
  <1>1. ASSUME UpdateInv, [U!Next]_U!vars
        PROVE  [\A p \in Users : U!Says(p, "applied") =>
                  /\ file'["exe"] = proc[p].target /\ receipt' = proc[p].target
                  /\ file'["previous"] = before /\ previous' = proc[p].current]_U!vars
    BY <1>1, AppliedAsPlanned
  <1>2. ASSUME UpdateInv, [U!Next]_U!vars
        PROVE  [receipt' < receipt =>
                  \E p \in Users :
                    /\ lock = p
                    /\ proc[p].phase = "update" => proc[p].down]_U!vars
    BY <1>2, ReceiptChanges
  <1> QED
    BY <1>1, <1>2, UpdateInvHolds, PTL
       DEF U!Spec, U!AppliedIsTrue, U!NoUnaskedDowngrade

------------------------------------------------------------------------------
(* From the parts to the union *)

LEMMA HasUpdates == CommandsSpec => U!Spec
  <1>1. CommandsInit => U!Init
    BY DEF CommandsInit
  <1>2. [CommandsNext]_commandVars => [U!Next]_U!vars
    BY DEF CommandsNext, commandVars, updateVars, U!vars
  <1> QED
    BY <1>1, <1>2, PTL DEF CommandsSpec, U!Spec

\* Between replacements the executable exists and runs, unless an invocation
\* died in one or reported rollback_failed (service.go:177 and 203).
THEOREM BreakageReported == CommandsSpec => []BrokenIsReported
  <1>1. UpdateInv => BrokenIsReported
    BY SoundWhenQuiet DEF UpdateInv, BrokenIsReported
  <1> QED
    BY <1>1, HasUpdates, UpdateInvHolds, PTL

\* An update reported as applied (service.go:206) is in place, its predecessor
\* is kept for a rollback, and it took nobody to an older version unasked.
THEOREM AppliedUpdatesTrue == CommandsSpec => AppliedIsTrue
  BY HasUpdates, UpdatesTrue, PTL DEF AppliedIsTrue

------------------------------------------------------------------------------
(***************************************************************************)
(* CliCommand                                                              *)
(***************************************************************************)

Acts == {"power", "release", "run"}        \* commands with an effect to send
Looks == {"screenshot", "run"}             \* commands that may look first
Early == {"load", "guide", "prepare", "approveOpen", "open"}
Midway == {"check", "mark", "send", "record", "finish"}
Ending == {"release", "drain", "print", "done"}

LineTyped ==
  /\ K!TypeOK
  /\ pending \in Seq(SUBSET K!Effects)
  /\ shown \in Seq([ops: SUBSET K!Effects, partial: BOOLEAN])

\* Which commands come to which step, and with which operation.
OnRoute ==
  /\ pc \in {"approveOpen", "open"} => cmd.kind # "read"
  /\ pc \in Early \cup {"approve"} => op = "act"
  /\ pc \in {"plan", "approve"} => cmd.kind \in Acts
  /\ pc \in {"observe", "poll", "wait"} => cmd.kind \in Looks
  /\ pc = "save" => cmd.kind = "screenshot"
  /\ pc \in Midway \cup {"begin"} =>
       cmd.kind \in (IF op = "act" THEN Acts ELSE Looks)

\* Between the load and the drain the runtime is open; a process that comes to
\* its output without an error has released its control and closed the runtime.
Running ==
  /\ pc \notin Early \cup Ending \cup {"killed"} => runtime = "open"
  /\ pc \in {"prepare", "approveOpen", "open", "release"} => runtime = "open"
  /\ pc = "drain" => runtime = "open" \/ failed
  /\ pc \in {"print", "done"} /\ ~failed =>
       runtime = "closed" /\ control # "open"

\* What the ledger says of what was handed to the device: an operation without
\* a row was not sent, one on its way to the send has not been yet, and its
\* row is the work of this process.
Recorded ==
  /\ \A o \in K!Effects : /\ record[o].by <= attempt
                          /\ record[o].stage = "none" => sent[o] = 0
                          /\ sent[o] <= 1
  /\ pc \in Midway => record[op].by = attempt
  /\ pc \in {"check", "mark"} => record[op].stage = "not_sent"
  /\ pc = "send" => record[op].stage = "send_started"
  /\ pc \in {"check", "mark", "send"} => sent[op] = 0
  /\ record["act"].by = attempt =>
       pc \in Ending \cup {"killed"} \/ (pc \in Midway /\ op = "act")
  /\ pc \in Early \cup {"observe"} => sent["wake"] = 0
  /\ pc \in {"poll", "wait", "save"} /\ sent["wake"] > 0 => woke

\* A process on its way out without an error has done what it stands for and
\* has the result of it, in its hands or on its output.
Settled ==
  /\ pc \in Ending /\ ~failed =>
       /\ cmd.kind \in Acts =>
            record["act"] = [stage |-> "completed", by |-> attempt]
       /\ \A i \in DOMAIN shown : ~shown[i].partial
       /\ pc \in {"release", "drain"} => pending # <<>>
       /\ pc = "print" => pending # <<>> \/ shown # <<>>
       /\ pc = "done" => shown # <<>>
  /\ pc \notin {"print", "done", "killed"} => shown = <<>>
  /\ exit => pc = "done" /\ ~failed

LineInv ==
  /\ LineTyped
  /\ OnRoute
  /\ Running
  /\ Recorded
  /\ Settled
  /\ K!UnmarkedIsClean
  /\ K!InputReported

\* The steps in groups that move alike.
Opening == K!Load \/ K!Read \/ K!PrepareOpen \/ K!Answer \/ K!Open
Looking == K!Observe \/ K!Wake \/ K!Poll \/ K!PollAgain \/ K!Save \/ K!Plan
Doing == K!Begin \/ K!Check \/ K!Mark \/ K!Send \/ K!Record \/ K!Finish
Closing == K!Release \/ K!Drain \/ K!PrintOut
Around == K!Interrupt \/ K!Kill \/ K!Again \/ K!Ended

LEMMA LineNexts ==
  ASSUME K!Next
  PROVE  Opening \/ Looking \/ Doing \/ Closing \/ Around
  BY DEF K!Next, K!Step, Opening, Looking, Doing, Closing, Around

\* Where a recorded operation returns to.
LEMMA Returns ==
  ASSUME NEW kept, NEW ok, K!Return(kept, ok), K!TypeOK
  PROVE  /\ pc' \in {"poll", "release", "drain"}
         /\ pc' = "poll" => op = "wake"
  BY DEF K!Return, K!Fail

LEMMA RouteKept ==
  ASSUME LineInv, K!Next
  PROVE  OnRoute'
  <1> USE DEF OnRoute, Acts, Looks, Early, Midway
  <1>0. K!TypeOK /\ OnRoute /\ cmd.kind \in Acts \cup Looks \cup {"read"}
    BY CommandsAssumption
       DEF LineInv, LineTyped, K!TypeOK, CommandsAssumption,
           K!CommandsAssumption, K!Command, K!Kinds
  <1>1. CASE Opening
    BY <1>0, <1>1 DEF Opening, K!Load, K!Read, K!PrepareOpen, K!Answer, K!Open,
                  K!Fail, K!Surroundings, K!Service
  <1>2. CASE Looking
    BY <1>0, <1>2 DEF Looking, K!Observe, K!Wake, K!Poll, K!PollAgain, K!Save,
                  K!Plan, K!Screen, K!Fail, K!Surroundings, K!Service
  <1>3. CASE Doing
    BY <1>0, <1>3, Returns
       DEF Doing, K!Begin, K!Check, K!Mark, K!Send, K!Record, K!Finish,
           K!NotSent, K!Surroundings
  <1>4. CASE Closing
    BY <1>0, <1>4 DEF Closing, K!Release, K!Drain, K!PrintOut, K!Service
  <1>5. CASE Around
    BY <1>0, <1>5 DEF Around, K!Interrupt, K!Kill, K!Again, K!Ended, K!vars,
                      K!Service
  <1> QED
    BY <1>1, <1>2, <1>3, <1>4, <1>5, LineNexts

LEMMA RunningKept ==
  ASSUME LineInv, K!Next
  PROVE  Running'
  <1> USE DEF Running, Early, Ending
  <1>0. K!TypeOK /\ Running
    BY DEF LineInv, LineTyped
  <1>1. CASE Opening
    BY <1>0, <1>1 DEF Opening, K!Load, K!Read, K!PrepareOpen, K!Answer, K!Open,
                  K!Fail, K!Surroundings, K!Service
  <1>2. CASE Looking
    BY <1>0, <1>2 DEF Looking, K!Observe, K!Wake, K!Poll, K!PollAgain, K!Save,
                  K!Plan, K!Screen, K!Fail, K!Surroundings, K!Service
  <1>3. CASE Doing
    <2>1. runtime' = runtime
      BY <1>3 DEF Doing, K!Begin, K!Check, K!Mark, K!Send, K!Record, K!Finish,
                  K!Surroundings
    <2>2. pc \in Midway \cup {"begin"}
      BY <1>3 DEF Doing, K!Begin, K!Check, K!Mark, K!Send, K!Record, K!Finish,
                  Midway
    <2>3. pc' \notin {"print", "done"}
      BY <1>0, <1>3, Returns
         DEF Doing, K!Begin, K!Check, K!Mark, K!Send, K!Record, K!Finish,
             K!NotSent
    <2> QED
      BY <1>0, <2>1, <2>2, <2>3 DEF Midway
  <1>4. CASE Closing
    BY <1>0, <1>4 DEF Closing, K!Release, K!Drain, K!PrintOut, K!Service,
                      K!TypeOK
  <1>5. CASE Around
    BY <1>0, <1>5 DEF Around, K!Interrupt, K!Kill, K!Again, K!Ended, K!vars,
                      K!Service, K!Over
  <1> QED
    BY <1>1, <1>2, <1>3, <1>4, <1>5, LineNexts

\* A recorded operation that returns leaves the rest of its process alone.
LEMMA ReturnsOnly ==
  ASSUME K!TypeOK, NEW kept, NEW ok, K!Return(kept, ok)
  PROVE  /\ op = "wake" => /\ woke' = TRUE
                           /\ pc' \in {"poll", "release", "drain"}
         /\ op = "act" => pc' = "release"
  BY DEF K!Return, K!Fail

LEMMA RecordedKept ==
  ASSUME LineInv, K!Next
  PROVE  Recorded'
  <1> USE DEF Recorded, Early, Midway, Ending, K!Effects
  <1>0. /\ K!TypeOK /\ Recorded /\ OnRoute
        /\ attempt \in Nat /\ op \in K!Effects
        /\ record \in [K!Effects -> [stage: K!Stages, by: {0} \cup K!Attempts]]
        /\ sent \in [K!Effects -> Nat]
    BY DEF LineInv, LineTyped, K!TypeOK, K!Attempts
  <1>1. CASE Opening
    <2>1. CASE K!Load
      <3>1. \A o \in K!Effects :
              /\ record'[o].by = record[o].by
              /\ record'[o].stage = "none" <=> record[o].stage = "none"
        BY <1>0, <2>1 DEF K!Load, K!Recovered
      <3> QED
        BY <1>0, <2>1, <3>1 DEF K!Load, OnRoute
    <2>2. CASE K!Read \/ K!PrepareOpen \/ K!Answer \/ K!Open
      BY <1>0, <2>2 DEF K!Read, K!PrepareOpen, K!Answer, K!Open,
                        K!Fail, K!Surroundings, K!Service, OnRoute
    <2> QED
      BY <1>1, <2>1, <2>2 DEF Opening
  <1>2. CASE Looking
    <2>1. CASE K!Wake
      BY <1>0, <2>1 DEF K!Wake, K!NoRow, K!Surroundings
    <2>2. CASE K!Observe \/ K!Poll \/ K!PollAgain \/ K!Save \/ K!Plan
      BY <1>0, <2>2 DEF K!Observe, K!Poll, K!PollAgain, K!Save,
                    K!Plan, K!Screen, K!Fail, K!Surroundings, K!Service
    <2> QED
      BY <1>2, <2>1, <2>2 DEF Looking
  <1>3. CASE Doing
    <2>0. /\ attempt' = attempt /\ op' = op /\ pc \in Midway \cup {"begin"}
      BY <1>3 DEF Doing, K!Begin, K!Check, K!Mark, K!Send, K!Record, K!Finish,
                  K!Surroundings
    <2>b. ASSUME UNCHANGED <<record, sent>>, NEW kept, NEW ok,
                 K!Return(kept, ok), pc \in {"begin", "check", "mark"}
          PROVE  Recorded'
      <3>1. CASE op = "wake"
        BY <1>0, <2>0, <2>b, <3>1, ReturnsOnly
      <3>2. CASE op = "act"
        BY <1>0, <2>0, <2>b, <3>2, ReturnsOnly
      <3> QED
        BY <1>0, <3>1, <3>2
    <2>1. CASE K!Begin
      <3>1. ASSUME record[op].stage = "none", pc' = "check",
                   record' = [record EXCEPT ![op] =
                     [stage |-> "not_sent", by |-> attempt]],
                   sent' = sent
            PROVE  Recorded'
        <4>1. /\ record'[op].stage = "not_sent" /\ record'[op].by = attempt
              /\ \A o \in K!Effects : o # op => record'[o] = record[o]
          BY <1>0, <3>1
        <4> QED
          BY <1>0, <2>0, <2>1, <3>1, <4>1 DEF K!Begin
      <3> QED
        BY <2>1, <2>b, <3>1 DEF K!Begin
    <2>2. ASSUME NEW stage \in K!Stages, K!SetStage(stage)
          PROVE  /\ record'[op].stage = stage
                 /\ \A o \in K!Effects :
                      /\ record'[o].by = record[o].by
                      /\ o # op => record'[o] = record[o]
      BY <1>0, <2>2 DEF K!SetStage
    <2>3. CASE K!Check
      BY <1>0, <2>0, <2>2, <2>3, ReturnsOnly DEF K!Check, K!NotSent, K!Stages
    <2>4. CASE K!Mark
      <3>1. CASE K!SetStage("send_started") /\ pc' = "send"
        BY <1>0, <2>0, <2>2, <2>4, <3>1 DEF K!Mark, K!Stages
      <3>2. CASE K!SetStage("failed") /\ K!Return(TRUE, FALSE)
        BY <1>0, <2>0, <2>2, <2>4, <3>2, ReturnsOnly DEF K!Mark, K!Stages
      <3> QED
        BY <2>4, <2>b, <3>1, <3>2 DEF K!Mark, K!NotSent
    <2>5. CASE K!Send
      <3>1. /\ record[op].stage # "none" /\ sent'[op] = 1
            /\ \A o \in K!Effects : o # op => sent'[o] = sent[o]
            /\ record' = record /\ pc = "send" /\ pc' = "record"
        BY <1>0, <2>5 DEF K!Send
      <3> QED
        BY <1>0, <2>0, <3>1
    <2>6. CASE K!Record
      BY <1>0, <2>0, <2>2, <2>6, ReturnsOnly DEF K!Record, K!Stages
    <2>7. CASE K!Finish
      BY <1>0, <2>0, <2>2, <2>7, ReturnsOnly DEF K!Finish, K!Stages
    <2> QED
      BY <1>3, <2>1, <2>3, <2>4, <2>5, <2>6, <2>7 DEF Doing
  <1>4. CASE Closing
    BY <1>0, <1>4 DEF Closing, K!Release, K!Drain, K!PrintOut, K!Service
  <1>5. CASE Around
    <2>1. CASE K!Again
      BY <1>0, <2>1 DEF K!Again, K!NoRow, K!Over, K!Attempts
    <2>2. CASE K!Interrupt \/ K!Kill \/ K!Ended
      BY <1>0, <2>2 DEF K!Interrupt, K!Kill, K!Ended, K!vars, K!Service, K!Over
    <2> QED
      BY <1>5, <2>1, <2>2 DEF Around
  <1> QED
    BY <1>1, <1>2, <1>3, <1>4, <1>5, LineNexts

\* The results in hand, after a step.
LEMMA Hands ==
  ASSUME NEW s, NEW S, s \in Seq(S), NEW x \in S
  PROVE  /\ Append(s, x) \in Seq(S) /\ Append(s, x) # <<>>
         /\ \A i \in DOMAIN s : i \in DOMAIN Append(s, x) /\ Append(s, x)[i] = s[i]
         /\ \A i \in DOMAIN Append(s, x) :
              i \in DOMAIN s \/ Append(s, x)[i] = x
         /\ \E i \in DOMAIN Append(s, x) : Append(s, x)[i] = x
  <1>1. /\ Append(s, x) \in Seq(S) /\ Len(Append(s, x)) = Len(s) + 1
        /\ \A i \in 1..Len(s) : Append(s, x)[i] = s[i]
        /\ Append(s, x)[Len(s) + 1] = x
    OBVIOUS
  <1> QED
    BY <1>1

LEMMA Elements ==
  ASSUME NEW S, NEW s \in Seq(S)
  PROVE  \A i \in DOMAIN s : s[i] \in S
  OBVIOUS

LEMMA PendingMoves ==
  ASSUME K!TypeOK, K!Next
  PROVE  \/ pending' = pending
         \/ \E x \in SUBSET K!Effects : pending' = Append(pending, x)
         \/ pending' = <<>>
         \/ pc = "print" /\ pending # <<>> /\ pending' = Tail(pending)
  <1>1. CASE Opening
    BY <1>1 DEF Opening, K!Load, K!Read, K!PrepareOpen, K!Answer, K!Open
  <1>2. CASE Looking
    BY <1>2 DEF Looking, K!Observe, K!Wake, K!Poll, K!PollAgain, K!Save,
                K!Plan, K!Screen, K!Effects
  <1>3. CASE Doing
    <2>1. ASSUME NEW kept, NEW ok, K!Return(kept, ok)
          PROVE  \/ pending' = pending
                 \/ \E x \in SUBSET K!Effects : pending' = Append(pending, x)
      BY <2>1 DEF K!Return, K!Effects
    <2> QED
      BY <1>3, <2>1 DEF Doing, K!Begin, K!Check, K!Mark, K!Send, K!Record,
                        K!Finish, K!NotSent
  <1>4. CASE Closing
    BY <1>4 DEF Closing, K!Release, K!Drain, K!PrintOut
  <1>5. CASE Around
    BY <1>5 DEF Around, K!Interrupt, K!Kill, K!Again, K!Ended, K!vars
  <1> QED
    BY <1>1, <1>2, <1>3, <1>4, <1>5, LineNexts

LEMMA ShownMoves ==
  ASSUME K!TypeOK, K!Next
  PROVE  \/ shown' = shown
         \/ shown' = <<>>
         \/ /\ pc = "print" /\ pending # <<>>
            /\ shown' = Append(shown, [ops |-> Head(pending), partial |-> failed])
  <1>1. CASE Opening
    BY <1>1 DEF Opening, K!Load, K!Read, K!PrepareOpen, K!Answer, K!Open,
                K!Surroundings
  <1>2. CASE Looking
    BY <1>2 DEF Looking, K!Observe, K!Wake, K!Poll, K!PollAgain, K!Save,
                K!Plan, K!Surroundings
  <1>3. CASE Doing
    BY <1>3 DEF Doing, K!Begin, K!Check, K!Mark, K!Send, K!Record, K!Finish,
                K!Surroundings
  <1>4. CASE Closing
    BY <1>4 DEF Closing, K!Release, K!Drain, K!PrintOut
  <1>5. CASE Around
    BY <1>5 DEF Around, K!Interrupt, K!Kill, K!Again, K!Ended, K!vars
  <1> QED
    BY <1>1, <1>2, <1>3, <1>4, <1>5, LineNexts

\* The values that are neither a sequence nor the ledger.
Plain ==
  /\ cmd \in Commands /\ attempt \in K!Attempts /\ pc \in K!PCs
  /\ late \in BOOLEAN /\ failed \in BOOLEAN
  /\ runtime \in {"none", "open", "closed"}
  /\ control \in {"none", "open", "closed"}
  /\ op \in K!Effects /\ reply \in {"none", "accepted", "refused", "lost"}
  /\ polls \in 0 .. MaxPolls /\ woke \in BOOLEAN
  /\ broken \in BOOLEAN /\ exit \in BOOLEAN

Ledger ==
  /\ record \in [K!Effects -> [stage: K!Stages, by: {0} \cup K!Attempts]]
  /\ sent \in [K!Effects -> Nat]

LEMMA PlainKept ==
  ASSUME LineInv, K!Next
  PROVE  Plain'
  <1>0. K!TypeOK /\ Plain /\ MaxAttempts \in Nat /\ MaxPolls \in Nat
    <2>1. MaxAttempts \in Nat /\ MaxPolls \in Nat
      BY CommandsAssumption DEF CommandsAssumption, K!CliAssumption
    <2> QED
      BY <2>1 DEF LineInv, LineTyped, K!TypeOK, Plain
  <1>p. /\ "guide" \in K!PCs /\ "prepare" \in K!PCs /\ "approveOpen" \in K!PCs
        /\ "open" \in K!PCs /\ "observe" \in K!PCs /\ "begin" \in K!PCs
        /\ "check" \in K!PCs /\ "mark" \in K!PCs /\ "send" \in K!PCs
        /\ "record" \in K!PCs /\ "finish" \in K!PCs /\ "poll" \in K!PCs
        /\ "wait" \in K!PCs /\ "save" \in K!PCs /\ "plan" \in K!PCs
        /\ "approve" \in K!PCs /\ "release" \in K!PCs /\ "drain" \in K!PCs
        /\ "print" \in K!PCs /\ "done" \in K!PCs /\ "killed" \in K!PCs
        /\ "load" \in K!PCs /\ "act" \in K!Effects /\ "wake" \in K!Effects
    BY DEF K!PCs, K!Over, K!Effects
  <1> USE DEF Plain
  <1>1. CASE Opening
    BY <1>0, <1>p, <1>1 DEF Opening, K!Load, K!Read, K!PrepareOpen, K!Answer, K!Open,
                  K!Fail, K!Surroundings, K!Service
  <1>2. CASE Looking
    <2>1. CASE K!Poll
      <3>1. polls' \in 0 .. MaxPolls
        BY <1>0, <2>1 DEF K!Poll
      <3>2. pc' \in K!PCs /\ failed' \in BOOLEAN
        BY <1>0, <1>p, <2>1 DEF K!Poll, K!Screen, K!Fail
      <3> QED
        BY <1>0, <2>1, <3>1, <3>2 DEF K!Poll, K!Surroundings
    <2>2. CASE K!Observe \/ K!Wake
      BY <1>0, <1>p, <2>2 DEF K!Observe, K!Wake, K!Screen, K!Fail, K!Surroundings,
                        K!Service
    <2>3. CASE K!PollAgain \/ K!Save \/ K!Plan
      BY <1>0, <1>p, <2>3 DEF K!PollAgain, K!Save, K!Plan, K!Fail, K!Surroundings,
                        K!Service
    <2> QED
      BY <1>2, <2>1, <2>2, <2>3 DEF Looking
  <1>3. CASE Doing
    <2>1. ASSUME NEW kept \in BOOLEAN, NEW ok \in BOOLEAN,
                 K!Return(kept, ok)
          PROVE  pc' \in K!PCs /\ failed' \in BOOLEAN /\ woke' \in BOOLEAN
      BY <1>0, <1>p, <2>1 DEF K!Return, K!Fail
    <2>2. CASE K!Begin \/ K!Check \/ K!Mark
      BY <1>0, <1>p, <2>1, <2>2, ZenonT(40)
         DEF K!Begin, K!Check, K!Mark, K!NotSent, K!Surroundings
    <2>3. CASE K!Send
      BY <1>0, <1>p, <2>3 DEF K!Send, K!Surroundings
    <2>4. CASE K!Record
      BY <1>0, <1>p, <2>1, <2>4 DEF K!Record, K!Surroundings
    <2>5. CASE K!Finish
      <3>1. (reply = "accepted") \in BOOLEAN
        OBVIOUS
      <3> QED
        BY <1>0, <1>p, <2>1, <2>5, <3>1 DEF K!Finish, K!Surroundings
    <2> QED
      BY <1>3, <2>2, <2>3, <2>4, <2>5 DEF Doing
  <1>4. CASE Closing
    BY <1>0, <1>p, <1>4 DEF Closing, K!Release, K!Drain, K!PrintOut, K!Service
  <1>5. CASE Around
    <2>1. CASE K!Again
      <3>1. attempt' \in K!Attempts /\ 0 \in 0 .. MaxPolls
        BY <1>0, <1>p, <2>1 DEF K!Again, K!Attempts
      <3> QED
        BY <1>0, <1>p, <2>1, <3>1 DEF K!Again
    <2>2. CASE K!Interrupt \/ K!Kill
      BY <1>0, <1>p, <2>2 DEF K!Interrupt, K!Kill, K!Service
    <2>3. CASE K!Ended
      BY <1>0, <2>3 DEF K!Ended, K!vars
    <2> QED
      BY <1>5, <2>1, <2>2, <2>3 DEF Around
  <1> QED
    BY <1>1, <1>2, <1>3, <1>4, <1>5, LineNexts

LEMMA LedgerKept ==
  ASSUME LineInv, K!Next
  PROVE  Ledger'
  <1>0. /\ K!TypeOK /\ Ledger /\ attempt \in K!Attempts /\ op \in K!Effects
        /\ {"none", "not_sent", "send_started", "transport_accepted",
            "completed", "failed", "ambiguous"} = K!Stages
        /\ K!NoRow \in [stage: K!Stages, by: {0} \cup K!Attempts]
    BY DEF LineInv, LineTyped, K!TypeOK, Ledger, K!Stages, K!NoRow
  <1> USE DEF Ledger
  <1>1. CASE Opening
    <2>1. CASE K!Load
      BY <1>0, <2>1 DEF K!Load, K!Recovered
    <2>2. CASE K!Read \/ K!PrepareOpen \/ K!Answer \/ K!Open
      BY <1>0, <2>2 DEF K!Read, K!PrepareOpen, K!Answer, K!Open, K!Service
    <2> QED
      BY <1>1, <2>1, <2>2 DEF Opening
  <1>2. CASE Looking
    BY <1>0, <1>2 DEF Looking, K!Observe, K!Wake, K!Poll, K!PollAgain, K!Save,
                  K!Plan, K!Service
  <1>3. CASE Doing
    <2>1. ASSUME NEW stage \in K!Stages, K!SetStage(stage)
          PROVE  record' \in [K!Effects -> [stage: K!Stages,
                                            by: {0} \cup K!Attempts]]
      BY <1>0, <2>1 DEF K!SetStage
    <2>2. CASE K!Begin
      <3>1. [stage |-> "not_sent", by |-> attempt] \in
              [stage: K!Stages, by: {0} \cup K!Attempts]
        BY <1>0
      <3>2. sent' = sent
        BY <2>2 DEF K!Begin
      <3>3. \/ record' = record
            \/ record' = [record EXCEPT ![op] =
                           [stage |-> "not_sent", by |-> attempt]]
        BY <2>2 DEF K!Begin
      <3> QED
        BY <1>0, <3>1, <3>2, <3>3
    <2>3. CASE K!Check \/ K!Mark \/ K!Record \/ K!Finish
      BY <1>0, <2>1, <2>3 DEF K!Check, K!Mark, K!Record, K!Finish, K!NotSent
    <2>4. CASE K!Send
      BY <1>0, <2>4 DEF K!Send
    <2> QED
      BY <1>3, <2>2, <2>3, <2>4 DEF Doing
  <1>4. CASE Closing
    BY <1>0, <1>4 DEF Closing, K!Release, K!Drain, K!PrintOut, K!Service
  <1>5. CASE Around
    <2>1. CASE K!Again
      BY <1>0, <2>1 DEF K!Again
    <2>2. CASE K!Interrupt \/ K!Kill
      BY <1>0, <2>2 DEF K!Interrupt, K!Kill, K!Service
    <2>3. CASE K!Ended
      BY <1>0, <2>3 DEF K!Ended, K!vars
    <2> QED
      BY <1>5, <2>1, <2>2, <2>3 DEF Around
  <1> QED
    BY <1>1, <1>2, <1>3, <1>4, <1>5, LineNexts

LEMMA TypedKept ==
  ASSUME LineInv, K!Next
  PROVE  LineTyped'
  <1> DEFINE R == [ops: SUBSET K!Effects, partial: BOOLEAN]
  <1>1. K!TypeOK /\ pending \in Seq(SUBSET K!Effects) /\ shown \in Seq(R)
    BY DEF LineInv, LineTyped
  <1>2. pending' \in Seq(SUBSET K!Effects)
    <2>1. pending # <<>> => Tail(pending) \in Seq(SUBSET K!Effects)
      BY <1>1
    <2>2. <<>> \in Seq(SUBSET K!Effects)
      OBVIOUS
    <2>3. ASSUME NEW x \in SUBSET K!Effects
          PROVE  Append(pending, x) \in Seq(SUBSET K!Effects)
      BY <1>1
    <2> QED
      BY <1>1, <2>1, <2>2, <2>3, PendingMoves
  <1>3. shown' \in Seq(R)
    <2>1. pending # <<>> => Head(pending) \in SUBSET K!Effects
      BY <1>1
    <2>2. failed \in BOOLEAN
      BY <1>1 DEF K!TypeOK
    <2>3. <<>> \in Seq(R)
      OBVIOUS
    <2>4. pending # <<>> => [ops |-> Head(pending), partial |-> failed] \in R
      BY <2>1, <2>2
    <2>5. ASSUME NEW r \in R
          PROVE  Append(shown, r) \in Seq(R)
      BY <1>1
    <2> QED
      BY <1>1, <2>3, <2>4, <2>5, ShownMoves
  <1>4. K!TypeOK'
    <2>1. \A i \in DOMAIN pending' : pending'[i] \subseteq K!Effects
      BY <1>2
    <2>2. \A i \in DOMAIN shown' : /\ shown'[i].ops \subseteq K!Effects
                                   /\ shown'[i].partial \in BOOLEAN
      <3>1. \A i \in DOMAIN shown' : shown'[i] \in R
        BY <1>3, Elements
      <3> QED
        BY <3>1
    <2> QED
      BY <2>1, <2>2, PlainKept, LedgerKept DEF Plain, Ledger, K!TypeOK
  <1> QED
    BY <1>2, <1>3, <1>4 DEF LineTyped

\* An error that is reported settles nothing.
LEMMA FailedSettles ==
  ASSUME LineInv, failed', exit' = exit, shown' = shown,
         pc \notin {"print", "done", "killed"}
  PROVE  Settled'
  BY DEF LineInv, Settled

LEMMA SettledKept ==
  ASSUME LineInv, K!Next
  PROVE  Settled'
  <1>0. /\ K!TypeOK /\ Settled /\ Running /\ OnRoute /\ Recorded
        /\ pending \in Seq(SUBSET K!Effects)
        /\ shown \in Seq([ops: SUBSET K!Effects, partial: BOOLEAN])
        /\ failed \in BOOLEAN
    BY DEF LineInv, LineTyped, K!TypeOK
  <1>1. CASE Opening
    <2>1. /\ pc \notin {"print", "done", "killed"}
          /\ exit' = exit /\ shown' = shown
      BY <1>1 DEF Opening, K!Load, K!Read, K!PrepareOpen, K!Answer, K!Open,
                  K!Surroundings
    <2>2. shown = <<>> /\ ~exit
      BY <1>0, <2>1 DEF Settled
    <2>3. CASE failed'
      BY <2>1, <2>3, FailedSettles
    <2>4. CASE ~failed' /\ K!Read
      BY <1>0, <2>1, <2>2, <2>4, Hands
         DEF K!Read, K!Fail, K!Surroundings, Settled, Ending, Acts
    <2>5. CASE ~failed' /\ ~K!Read
      <3>1. pc' \notin Ending
        BY <1>1, <2>5 DEF Opening, K!Load, K!PrepareOpen, K!Answer, K!Open,
                          K!Fail, Ending
      <3> QED
        BY <2>1, <2>2, <3>1 DEF Settled
    <2> QED
      BY <2>3, <2>4, <2>5
  <1>2. CASE Looking
    <2>1. /\ pc \notin {"print", "done", "killed"}
          /\ exit' = exit /\ shown' = shown
      BY <1>2 DEF Looking, K!Observe, K!Wake, K!Poll, K!PollAgain, K!Save,
                  K!Plan, K!Surroundings
    <2>2. shown = <<>> /\ ~exit
      BY <1>0, <2>1 DEF Settled
    <2>3. CASE failed'
      BY <2>1, <2>3, FailedSettles
    <2>4. CASE ~failed' /\ K!Save
      <3>1. cmd' = cmd /\ cmd.kind = "screenshot" /\ pending' # <<>>
        BY <1>0, <2>4, Hands DEF K!Save, K!Fail, K!Surroundings, OnRoute,
                                 K!Effects
      <3> QED
        BY <2>1, <2>2, <2>4, <3>1 DEF K!Save, K!Fail, Settled, Ending, Acts
    <2>5. CASE ~failed' /\ ~K!Save
      <3>1. pc' \notin Ending
        BY <1>2, <2>5 DEF Looking, K!Observe, K!Wake, K!Poll, K!PollAgain,
                          K!Plan, K!Screen, K!Fail, Ending
      <3> QED
        BY <2>1, <2>2, <3>1 DEF Settled
    <2> QED
      BY <2>3, <2>4, <2>5
  <1>3. CASE Doing
    <2>1. /\ pc \in Midway \cup {"begin"}
          /\ exit' = exit /\ shown' = shown /\ op' = op /\ attempt' = attempt
      BY <1>3 DEF Doing, K!Begin, K!Check, K!Mark, K!Send, K!Record, K!Finish,
                  K!Surroundings, Midway
    <2>2. shown = <<>> /\ ~exit
      BY <1>0, <2>1 DEF Settled, Midway
    <2>3. CASE failed'
      BY <2>1, <2>3, FailedSettles DEF Midway
    <2>4. CASE pc' \notin Ending
      BY <2>1, <2>2, <2>4 DEF Settled
    <2>5. CASE ~failed' /\ pc' \in Ending
      <3>1. ASSUME NEW kept \in BOOLEAN, NEW ok \in BOOLEAN,
                   K!Return(kept, ok)
            PROVE  /\ ok /\ op = "act" /\ pc' = "release"
                   /\ kept => pending' = Append(pending, {"act"})
        BY <1>0, <2>5, <3>1 DEF K!Return, K!Fail, K!TypeOK, K!Effects, Ending
      <3>2. K!Finish /\ K!SetStage("completed") /\ K!Return(TRUE, TRUE)
        <4>1. ~K!Begin /\ ~K!Check /\ ~K!Mark /\ ~K!Send /\ ~K!Record
          BY <2>5, <3>1 DEF K!Begin, K!Check, K!Mark, K!Send, K!Record,
                            K!NotSent, Ending
        <4>2. K!Finish
          BY <1>3, <4>1 DEF Doing
        <4>3. (reply = "accepted") \in BOOLEAN
          OBVIOUS
        <4> QED
          BY <3>1, <4>2, <4>3 DEF K!Finish
      <3>3. /\ op = "act" /\ pc' = "release"
            /\ pending' = Append(pending, {"act"})
        BY <3>1, <3>2
      <3>4. record["act"].by = attempt /\ pc \in Midway
        BY <1>0, <3>2, <3>3 DEF Recorded, K!Finish, Midway
      <3>5. record'["act"] = [stage |-> "completed", by |-> attempt]
        BY <1>0, <3>2, <3>3, <3>4 DEF K!SetStage, K!TypeOK, K!Effects
      <3>6. pending' # <<>>
        BY <1>0, <3>3, Hands DEF K!Effects
      <3> QED
        BY <2>1, <2>2, <3>3, <3>5, <3>6 DEF Settled
    <2> QED
      BY <2>3, <2>4, <2>5
  <1>4. CASE Closing
    <2>1. CASE K!Release
      BY <1>0, <2>1 DEF K!Release, K!Service, Settled, Ending
    <2>2. CASE K!Drain
      BY <1>0, <2>2 DEF K!Drain, K!Service, Settled, Ending
    <2>3. CASE K!PrintOut /\ pending = <<>>
      BY <1>0, <2>3 DEF K!PrintOut, K!Service, Settled, Ending
    <2>4. CASE K!PrintOut /\ pending # <<>>
      <3>1. /\ pc = "print" /\ pc' = "print" /\ exit' = exit
            /\ cmd' = cmd /\ attempt' = attempt /\ record' = record
            /\ \/ failed'
               \/ /\ ~failed' => ~failed
                  /\ shown' = Append(shown, [ops |-> Head(pending),
                                             partial |-> failed])
        BY <1>0, <2>4 DEF K!PrintOut, K!Service
      <3>2. CASE failed'
        BY <1>0, <3>1, <3>2 DEF Settled, Ending
      <3>3. CASE ~failed'
        <4> DEFINE r == [ops |-> Head(pending), partial |-> failed]
        <4>1. r \in [ops: SUBSET K!Effects, partial: BOOLEAN] /\ r.partial = failed
          BY <1>0, <2>4
        <4>2. /\ shown' # <<>>
              /\ \A i \in DOMAIN shown' :
                   (i \in DOMAIN shown /\ shown'[i] = shown[i]) \/ shown'[i] = r
          <5> HIDE DEF r
          <5>1. shown' = Append(shown, r)
            BY <3>1, <3>3 DEF r
          <5> QED
            BY <1>0, <4>1, <5>1, Hands
        <4>3. ~failed /\ \A i \in DOMAIN shown' : ~shown'[i].partial
          BY <1>0, <3>1, <3>3, <4>1, <4>2 DEF Settled, Ending
        <4> QED
          BY <1>0, <3>1, <3>3, <4>2, <4>3 DEF Settled, Ending
      <3> QED
        BY <3>2, <3>3
    <2> QED
      BY <1>4, <2>1, <2>2, <2>3, <2>4 DEF Closing
  <1>5. CASE Around
    <2>1. CASE K!Again
      BY <2>1 DEF K!Again, Settled, Ending
    <2>2. CASE K!Interrupt
      BY <1>0, <2>2 DEF K!Interrupt, K!Service, Settled
    <2>3. CASE K!Kill
      BY <1>0, <2>3 DEF K!Kill, Settled, Ending, K!Over
    <2>4. CASE K!Ended
      BY <1>0, <2>4 DEF K!Ended, K!vars, Settled
    <2> QED
      BY <1>5, <2>1, <2>2, <2>3, <2>4 DEF Around
  <1> QED
    BY <1>1, <1>2, <1>3, <1>4, <1>5, LineNexts

LEMMA UnmarkedKept ==
  ASSUME LineInv, K!Next
  PROVE  K!UnmarkedIsClean'
  <1> USE DEF K!UnmarkedIsClean
  <1>0. /\ K!TypeOK /\ K!UnmarkedIsClean /\ Settled /\ Running
        /\ shown \in Seq([ops: SUBSET K!Effects, partial: BOOLEAN])
        /\ pending \in Seq(SUBSET K!Effects) /\ failed \in BOOLEAN
    BY DEF LineInv, LineTyped, K!TypeOK
  <1>1. CASE shown' = <<>>
    BY <1>1
  <1>2. CASE shown' = shown /\ shown # <<>>
    <2>1. pc \in {"print", "done", "killed"}
      BY <1>0, <1>2 DEF Settled
    <2>2. \/ pc' = "killed" /\ shown' = shown
          \/ UNCHANGED <<control, runtime>> /\ (pc = "killed" => pc' = "killed")
          \/ shown' = <<>>
      <3>1. ~Opening /\ ~Looking /\ ~Doing /\ ~K!Release /\ ~K!Drain
        BY <2>1 DEF Opening, K!Load, K!Read, K!PrepareOpen, K!Answer, K!Open,
                    Looking, K!Observe, K!Wake, K!Poll, K!PollAgain, K!Save,
                    K!Plan, Doing, K!Begin, K!Check, K!Mark, K!Send,
                    K!Record, K!Finish, K!Release, K!Drain
      <3>2. K!PrintOut \/ Around
        BY <3>1, LineNexts DEF Closing
      <3> QED
        BY <3>2 DEF K!PrintOut, Around, K!Interrupt, K!Kill, K!Again, K!Ended,
                    K!vars, K!Over
    <2> QED
      BY <1>0, <1>2, <2>2
  <1>3. ASSUME pc = "print", pending # <<>>,
               shown' = Append(shown, [ops |-> Head(pending), partial |-> failed])
        PROVE  K!UnmarkedIsClean'
    <2> DEFINE r == [ops |-> Head(pending), partial |-> failed]
    <2>1. r \in [ops: SUBSET K!Effects, partial: BOOLEAN] /\ r.partial = failed
      BY <1>0, <1>3
    <2>2. shown' # shown
      BY <1>0, <1>3
    <2>3. UNCHANGED <<control, runtime>>
      <3>1. ~Opening /\ ~Looking /\ ~Doing /\ ~K!Release /\ ~K!Drain
        BY <1>3 DEF Opening, K!Load, K!Read, K!PrepareOpen, K!Answer, K!Open,
                    Looking, K!Observe, K!Wake, K!Poll, K!PollAgain, K!Save,
                    K!Plan, Doing, K!Begin, K!Check, K!Mark, K!Send,
                    K!Record, K!Finish, K!Release, K!Drain
      <3>2. K!PrintOut \/ Around
        BY <3>1, LineNexts DEF Closing
      <3> QED
        BY <1>3, <2>2, <3>2 DEF K!PrintOut, Around, K!Interrupt, K!Kill,
                                K!Again, K!Ended, K!vars, K!Over
    <2>4. \A i \in DOMAIN shown' :
            (i \in DOMAIN shown /\ shown'[i] = shown[i]) \/ shown'[i] = r
      <3> HIDE DEF r
      <3>1. shown' = Append(shown, r)
        BY <1>3 DEF r
      <3> QED
        BY <1>0, <2>1, <3>1, Hands
    <2>5. failed \/ (control # "open" /\ runtime = "closed")
      BY <1>0, <1>3 DEF Running
    <2> QED
      BY <1>0, <1>3, <2>1, <2>3, <2>4, <2>5
  <1> QED
    BY <1>0, <1>1, <1>2, <1>3, ShownMoves

\* A step that sends nothing of what a process must report leaves it reported.
LEMMA ReportedSame ==
  ASSUME LineInv, K!Next, K!Leaving,
         UNCHANGED <<cmd, attempt, record, sent, broken, pending>>
  PROVE  K!InputReported'
  BY DEF LineInv, K!InputReported, K!Leaving, K!Sent, K!Kept

LEMMA ReportedKept ==
  ASSUME LineInv, K!Next
  PROVE  K!InputReported'
  <1>0. /\ K!TypeOK /\ OnRoute /\ Recorded /\ K!InputReported /\ Running
        /\ pending \in Seq(SUBSET K!Effects)
        /\ attempt \in Nat /\ op \in {"act", "wake"}
        /\ sent \in [K!Effects -> Nat]
        /\ {"act", "wake"} = K!Effects
    BY DEF LineInv, LineTyped, K!TypeOK, K!Attempts, K!Effects
  <1>a. \A x \in SUBSET K!Effects : \A o \in x :
          pending' = Append(pending, x) => K!Kept(o)'
    BY <1>0, Hands DEF K!Kept
  <1>1. CASE Opening
    <2>1. /\ pc \in Early \cup {"approve"} /\ UNCHANGED <<attempt, sent, cmd>>
          /\ \A o \in K!Effects : record'[o].by = record[o].by
      <3>1. CASE K!Load
        BY <1>0, <3>1 DEF K!Load, K!Recovered, K!TypeOK, Early
      <3>2. CASE K!Read \/ K!PrepareOpen \/ K!Answer \/ K!Open
        BY <3>2, <1>0 DEF K!Read, K!PrepareOpen, K!Answer, K!Open,
                     K!Surroundings, K!Service, Early, OnRoute
      <3> QED
        BY <1>1, <3>1, <3>2 DEF Opening
    <2>2. record["act"].by # attempt
      BY <1>0, <2>1 DEF Recorded, Early, Midway, Ending
    <2>3. cmd.kind = "screenshot" => sent["wake"] = 0
      BY <1>0, <2>1 DEF Recorded, OnRoute, Early, Acts
    <2> QED
      BY <1>0, <2>1, <2>2, <2>3 DEF K!InputReported, K!Sent
  <1>2. CASE Looking
    <2>1. /\ pc \in {"observe", "poll", "wait", "save", "plan"}
          /\ UNCHANGED <<cmd, attempt, sent>>
          /\ record'["act"].by = record["act"].by
      BY <1>0, <1>2
         DEF Looking, K!Observe, K!Wake, K!Poll, K!PollAgain, K!Save, K!Plan,
             K!Surroundings, K!Service, K!TypeOK
    <2>2. ~K!Sent("act")'
      BY <1>0, <2>1 DEF Recorded, K!Sent, Midway, Ending
    <2>3. K!Leaving' /\ cmd'.kind = "screenshot" /\ K!Sent("wake")' =>
            K!Kept("wake")'
      <3>1. CASE K!Observe \/ K!Wake \/ K!Plan
        BY <1>0, <2>1, <3>1 DEF K!Observe, K!Wake, K!Plan, K!Fail, K!Leaving,
                                K!Sent, Recorded, OnRoute, Acts
      <3>2. CASE K!Poll \/ K!PollAgain \/ K!Save
        <4>1. /\ pc \in {"poll", "wait", "save"}
              /\ pc \in {"wait"} \cup {"poll", "save"}
              /\ sent["wake"] > 0 => woke
          BY <1>0, <3>2 DEF K!Poll, K!PollAgain, K!Save, Recorded
        <4>2. K!Leaving' /\ cmd.kind = "screenshot" /\ (woke \/ pc = "wait") =>
                pending' = Append(pending, {"wake"})
          BY <3>2 DEF K!Poll, K!PollAgain, K!Save, K!Screen, K!Fail, K!Leaving
        <4>3. K!Sent("wake")' => sent["wake"] > 0
          BY <2>1 DEF K!Sent
        <4> QED
          BY <1>0, <1>a, <2>1, <4>1, <4>2, <4>3
      <3> QED
        BY <1>2, <3>1, <3>2 DEF Looking
    <2> QED
      BY <2>2, <2>3 DEF K!InputReported
  <1>3. CASE Doing
    <2>1. /\ UNCHANGED <<cmd, attempt, op>> /\ pc \in Midway \cup {"begin"}
          /\ cmd.kind \in (IF op = "act" THEN Acts ELSE Looks)
      BY <1>0, <1>3 DEF Doing, K!Begin, K!Check, K!Mark, K!Send, K!Record,
                        K!Finish, K!Surroundings, OnRoute, Midway
    <2>2. \/ K!Leaving' => broken'
          \/ K!Return(TRUE, FALSE) \/ K!Return(TRUE, TRUE)
          \/ K!Return(FALSE, FALSE) /\ UNCHANGED <<record, sent>> /\ pc = "begin"
      BY <1>3 DEF Doing, K!Begin, K!Check, K!Mark, K!Send, K!Record, K!Finish,
                  K!NotSent, K!Leaving
    <2>3. CASE op = "wake" /\ K!Leaving' /\ ~broken'
      <3>1. ~K!Sent("act")'
        <4>1. record'["act"] = record["act"]
          BY <1>0, <1>3, <2>3
             DEF Doing, K!Begin, K!Check, K!Mark, K!Send, K!Record, K!Finish,
                 K!NotSent, K!SetStage, K!TypeOK
        <4> QED
          BY <1>0, <2>1, <2>3, <4>1 DEF Recorded, K!Sent, Midway, Ending
      <3>2. cmd.kind = "screenshot" => pending' = Append(pending, {"wake"})
        BY <2>2, <2>3 DEF K!Return, K!Leaving
      <3> QED
        BY <1>0, <1>a, <2>1, <3>1, <3>2 DEF K!InputReported
    <2>4. CASE op = "act" /\ K!Leaving' /\ ~broken'
      <3>1. cmd'.kind # "screenshot"
        BY <2>1, <2>4 DEF Acts
      <3>2. CASE K!Return(TRUE, FALSE) \/ K!Return(TRUE, TRUE)
        <4>1. cmd.kind = "run" => pending' = Append(pending, {"act"})
          BY <2>4, <3>2 DEF K!Return
        <4> QED
          BY <1>0, <1>a, <2>1, <3>1, <4>1 DEF K!InputReported
      <3>3. CASE UNCHANGED <<record, sent>> /\ pc = "begin"
        BY <1>0, <2>1, <3>1, <3>3
           DEF Recorded, K!Sent, K!InputReported, Midway, Ending
      <3> QED
        BY <2>2, <2>4, <3>2, <3>3
    <2> QED
      BY <1>0, <2>1, <2>3, <2>4 DEF K!InputReported
  <1>4. CASE Closing
    <2>1. CASE K!Release
      BY <2>1, ReportedSame DEF K!Release, K!Service, K!Leaving
    <2>2. CASE K!Drain \/ K!PrintOut
      BY <2>2 DEF K!Drain, K!PrintOut, K!InputReported, K!Leaving
    <2> QED
      BY <1>4, <2>1, <2>2 DEF Closing
  <1>5. CASE Around
    <2>1. CASE K!Interrupt
      BY <2>1, ReportedSame DEF K!Interrupt, K!Service, K!Leaving, K!InputReported
    <2>2. CASE K!Kill \/ K!Again \/ K!Ended
      BY <2>2 DEF K!Kill, K!Again, K!Ended, K!Over, K!vars, K!InputReported,
                  K!Leaving
    <2> QED
      BY <1>5, <2>1, <2>2 DEF Around
  <1> QED
    BY <1>1, <1>2, <1>3, <1>4, <1>5, LineNexts

LEMMA LineKeeps ==
  ASSUME LineInv, [K!Next]_K!vars
  PROVE  LineInv'
  <1>1. CASE K!Next
    BY <1>1, RouteKept, RunningKept, RecordedKept, TypedKept, SettledKept,
       UnmarkedKept, ReportedKept DEF LineInv
  <1>2. CASE UNCHANGED K!vars
    BY <1>2 DEF K!vars, LineInv, LineTyped, K!TypeOK, OnRoute, Running,
                Recorded, Settled, K!UnmarkedIsClean, K!InputReported,
                K!Leaving, K!Sent, K!Kept
  <1> QED
    BY <1>1, <1>2

LEMMA LineInit ==
  ASSUME K!Init
  PROVE  LineInv
  <1>1. /\ MaxAttempts \in Nat \ {0} /\ MaxPolls \in Nat
    BY CommandsAssumption DEF CommandsAssumption, K!CliAssumption
  <1>2. 1 \in K!Attempts /\ 0 \in 0 .. MaxPolls /\ 0 \in {0} \cup K!Attempts
    BY <1>1 DEF K!Attempts
  <1>3. \A o \in K!Effects : record[o].stage = "none" /\ record[o].by = 0
                               /\ sent[o] = 0
    BY DEF K!Init, K!NoRow
  <1>4. K!TypeOK
    <2>1. "load" \in K!PCs /\ "none" \in K!Stages /\ "act" \in K!Effects
      BY DEF K!PCs, K!Stages, K!Effects
    <2>2. record \in [K!Effects -> [stage: K!Stages, by: {0} \cup K!Attempts]]
      BY <1>2, <2>1 DEF K!Init, K!NoRow
    <2>3. sent \in [K!Effects -> Nat]
      BY DEF K!Init
    <2>4. pending = <<>> /\ shown = <<>>
      BY DEF K!Init
    <2>5. /\ \A i \in DOMAIN pending : pending[i] \subseteq K!Effects
          /\ \A i \in DOMAIN shown : /\ shown[i].ops \subseteq K!Effects
                                     /\ shown[i].partial \in BOOLEAN
      BY <2>4
    <2> HIDE DEF K!PCs, K!Stages, K!Effects
    <2> QED
      BY <1>2, <2>1, <2>2, <2>3, <2>5 DEF K!Init, K!TypeOK
  <1>5. LineTyped
    BY <1>4 DEF K!Init, LineTyped
  <1>6. OnRoute /\ Running /\ Settled /\ K!UnmarkedIsClean /\ K!InputReported
    BY DEF K!Init, OnRoute, Running, Settled, K!UnmarkedIsClean,
           K!InputReported, K!Leaving, Early, Midway, Ending
  <1>7. Recorded
    BY <1>1, <1>3 DEF K!Init, Recorded, Early, Midway, Ending, K!Effects
  <1> QED
    BY <1>5, <1>6, <1>7 DEF LineInv

LEMMA LineInvHolds == K!Spec => []LineInv
  BY LineInit, LineKeeps, PTL DEF K!Spec

LEMMA LineSound ==
  ASSUME LineInv
  PROVE  K!SuccessIsComplete /\ K!SentOnce
  <1>1. K!SuccessIsComplete
    BY DEF LineInv, Settled, Running, Ending, Acts, K!SuccessIsComplete
  <1>2. K!SentOnce
    BY DEF LineInv, Recorded, K!SentOnce
  <1> QED
    BY <1>1, <1>2

\* CliCommand by itself: for any number of runs under one operation id, exit
\* code zero means done, released, closed and printed unmarked; the device is
\* asked once; what is printed plain follows a clean close; and what may have
\* been sent is among the results (Execute, runInputActions,
\* newScreenshotCommand).
THEOREM LinesReport ==
  K!Spec => [](/\ K!SuccessIsComplete /\ K!SentOnce /\ K!UnmarkedIsClean
               /\ K!InputReported)
  <1>1. LineInv => /\ K!SuccessIsComplete /\ K!SentOnce /\ K!UnmarkedIsClean
                   /\ K!InputReported
    BY LineSound DEF LineInv
  <1> QED
    BY <1>1, LineInvHolds, PTL

------------------------------------------------------------------------------
(* From the parts to the union *)

LEMMA HasLine == CommandsSpec => K!Spec
  <1>1. CommandsInit => K!Init
    BY DEF CommandsInit
  <1>2. [CommandsNext]_commandVars => [K!Next]_K!vars
    BY DEF CommandsNext, commandVars, lineVars, K!vars
  <1> QED
    BY <1>1, <1>2, PTL DEF CommandsSpec, K!Spec

\* The exit code and the output of a command tell what it did, and it did that
\* once, however often it was interrupted, killed and run again
\* (README.md:136, docs/terminal-ui.md:30-32).
THEOREM CommandsReport == CommandsSpec => []CommandReports
  <1>1. LineInv => CommandReports
    BY LineSound DEF LineInv, LineTyped, CommandReports
  <1> QED
    BY <1>1, HasLine, LineInvHolds, PTL
==============================================================================
